------------------------- MODULE BranchFloorProofs -------------------------
(***************************************************************************)
(* The working day of the staff, the devices and the hub of a branch, the   *)
(* sync of hub and cloud, the till without a cloud and the printers, for    *)
(* any number of staff, devices, requests, hubs' calls, customers, jobs and *)
(* apps; and what the run checks of the whole BranchFloor.                  *)
(*                                                                          *)
(* Day: what a request read is still true when it commits, unless another   *)
(* one has committed in between: that is what overtaken says                *)
(* (DayStillTrue).  A commit makes every other request an overtaken one, so *)
(* DayStillTrue is only to be shown where a request has just read.  What    *)
(* DayHolds says of the rows then follows from the checks, and of an        *)
(* overtaken request it says only that its row is in blind, which never     *)
(* shrinks.  RowsExist is what holds of the overtaken too: rows are not     *)
(* deleted, and an attendance keeps its person and its till.                *)
(*                                                                          *)
(* Devices: what a request has checked is still true when it writes unless  *)
(* it was overtaken (StillTrue), and what an overtaken one writes is in     *)
(* blind.  Two facts hold whoever overtakes whom, because the database      *)
(* keeps them: one device for an installation, and one surface for a        *)
(* holder's runtime user (Rows).  HubRowsAgree of HubRuntime the same way:  *)
(* the activations an issue read are still those that can be used, and the  *)
(* rows and the board a report read are still what is written over.         *)
(*                                                                          *)
(* Sync: a call is about a key of its own kind, so ReplayedOnce is          *)
(* inductive: of two replays of one key, both numbered, the second finds    *)
(* the envelope of the first.  OnlyTheOvertakenErr needs what a request has *)
(* read (PushesRead, ReplaysRead): who is not overtaken has seen all of the *)
(* log, so the versions it writes rise above the log's (Rising), and a pull *)
(* leaves nothing behind but for two mutations of one version.  What a      *)
(* batch adds is shown of its recursive function by a least counterexample. *)
(*                                                                         *)
(* Till: handlers overwrite each other's snapshots, so what the property    *)
(* says of the shelf must hold of every snapshot a handler has in hand: it  *)
(* tells the truth about the sales it has, and has numbered sales only      *)
(* (TrueSnapshot).  The cloud keeps its first answer, so a snapshot stays   *)
(* true.  A second booking needs a sale that was booked online before it    *)
(* was kept here; a customer who has not been answered is booked nowhere    *)
(* (UnservedIsUnknown).                                                     *)
(*                                                                         *)
(* Printers: a poll under way holds the app's lock (OnePoll), and prints of *)
(* a job beyond the first are those whose report is lost or held by it.     *)
(***************************************************************************)
EXTENDS BranchFloor, SumProofs, SequenceTheorems

-----------------------------------------------------------------------------
(* The working day of the staff. *)

\* The rows a request has in hand are there.
RowsExist(r) ==
    LET e == desk[r] IN
    /\ e.op = "clock in" => e.link \in {0} \cup DOMAIN shifts
    /\ e.op = "close shift" => e.row \in DOMAIN shifts
    /\ e.op = "clock out" => e.row \in DOMAIN attendances
    /\ e.op \in {"close cashier", "bill"} => e.row \in DOMAIN cashiers
    /\ e.op = "open cashier" =>
         /\ e.link \in DOMAIN attendances
         /\ attendances[e.link].staff = e.staff /\ attendances[e.link].till = e.till

IsOpen(rows, n) == n \in DOMAIN rows /\ rows[n].status = "OPEN"

\* What a request has checked.
DayChecks(r) ==
    LET e == desk[r] IN
    /\ e.op = "open shift" => \A n : ~IsOpen(shifts, n)
    /\ e.op = "close shift" => \A a : IsOpen(attendances, a) => attendances[a].shift # e.row
    /\ e.op = "clock in" =>
         /\ \A a : IsOpen(attendances, a) => attendances[a].till # e.till /\ attendances[a].staff # e.staff
         /\ e.link # 0 => IsOpen(shifts, e.link)
    /\ e.op = "clock out" => \A c : IsOpen(cashiers, c) => cashiers[c].attendance # e.row
    /\ e.op = "open cashier" =>
         /\ IsOpen(attendances, e.link)
         /\ \A c : IsOpen(cashiers, c) => cashiers[c].till # e.till /\ cashiers[c].staff # e.staff

DayStillTrue == \A r \in Desks : r \notin overtaken => DayChecks(r)

DayInv == WorkforceTypeOK /\ (\A r \in Desks : RowsExist(r)) /\ DayStillTrue /\ DayHolds

-----------------------------------------------------------------------------
(* Rows. *)

\* A non-empty set of a table's numbers has a greatest one.
LEMMA NewestRow ==
    ASSUME NEW N \in Nat, NEW S \in SUBSET (1 .. N), S # {}
    PROVE  (CHOOSE n \in S : \A m \in S : m <= n) \in S
<1> DEFINE R == OpToRel(<, Nat)
           T == {k \in Nat : \E n \in S : k = N - n}
<1>1. IsWellFoundedOn(R, Nat)
  BY NatLessThanWellFounded
<1>2. \A x, y \in Nat : x < y => <<x, y>> \in R
  BY DEF OpToRel
<1> HIDE DEF R
<1>3. T \subseteq Nat /\ T # {}
  <2>1. PICK n \in S : TRUE
    OBVIOUS
  <2>2. N - n \in Nat
    BY <2>1
  <2> QED
    BY <2>1, <2>2
<1>4. PICK k \in T : \A j \in T : ~(<<j, k>> \in R)
  BY <1>1, <1>3, WFMin
<1>5. PICK n \in S : k = N - n
  BY <1>4
<1>6. \A m \in S : m <= n
  <2> SUFFICES ASSUME NEW m \in S, ~(m <= n) PROVE FALSE
    OBVIOUS
  <2>1. N - m \in T /\ N - m < k /\ k \in Nat
    BY <1>5
  <2> QED
    BY <2>1, <1>2, <1>4
<1> QED
  BY <1>5, <1>6

\* The open shift is one of them, or 0 if there is none.
LEMMA OpenShiftIsThere ==
    ASSUME shifts \in Seq(ShiftRow)
    PROVE  /\ OpenShift \in {0} \cup DOMAIN shifts
           /\ OpenShift # 0 => IsOpen(shifts, OpenShift)
           /\ OpenShift = 0 => \A n : ~IsOpen(shifts, n)
<1>1. CASE OpenRows(shifts) = {}
  BY <1>1 DEF OpenShift, OpenRows, IsOpen
<1>2. CASE OpenRows(shifts) # {}
  <2>1. OpenRows(shifts) \in SUBSET (1 .. Len(shifts)) /\ Len(shifts) \in Nat
    BY DEF OpenRows
  <2>2. OpenShift \in OpenRows(shifts)
    BY <1>2, <2>1, NewestRow DEF OpenShift
  <2>3. OpenShift # 0
    BY <2>1, <2>2
  <2> QED
    BY <2>2, <2>3 DEF OpenRows, IsOpen
<1> QED
  BY <1>1, <1>2

\* A new row comes after the others.
LEMMA DayRowAppended ==
    ASSUME NEW Row, NEW rows \in Seq(Row), NEW row \in Row, NEW after, after = Append(rows, row),
           NEW new, new = Len(rows) + 1
    PROVE  /\ after \in Seq(Row) /\ new \in Nat \ {0}
           /\ DOMAIN after = DOMAIN rows \cup {new}
           /\ after[new] = row
           /\ \A n \in DOMAIN rows : after[n] = rows[n] /\ n < new /\ n # new
OBVIOUS

-----------------------------------------------------------------------------
(* The desks. *)

\* A commit overtakes every other request, and only an overtaken one writes blindly.
LEMMA DayCommitOvertakes ==
    ASSUME DayInv, NEW r \in Desks, NEW rows, Committed(r, rows)
    PROVE  /\ desk' = [desk EXCEPT ![r] = Idle]
           /\ desk' \in [Desks -> Errands] /\ overtaken' \subseteq Desks
           /\ DayStillTrue'
           /\ blind \subseteq blind'
           /\ r \in overtaken => rows \subseteq blind'
<1>1. desk \in [Desks -> Errands] /\ overtaken \subseteq Desks
  BY DEF DayInv, WorkforceTypeOK
<1>2. desk' = [desk EXCEPT ![r] = Idle]
  BY DEF Committed
<1>3. desk' \in [Desks -> Errands] /\ overtaken' \subseteq Desks
  BY <1>1, <1>2 DEF Committed, Errands
<1>4. ASSUME NEW q \in Desks, q \notin overtaken'
      PROVE  desk'[q].op = "none"
  <2>1. q = r \/ desk[q] = Idle
    BY <1>4 DEF Committed
  <2> QED
    BY <1>1, <1>2, <2>1 DEF Idle
<1>5. DayStillTrue'
  BY <1>4 DEF DayStillTrue, DayChecks
<1> QED
  BY <1>2, <1>3, <1>5 DEF Committed

\* A request that has just read knows what it has read; the others know what they knew.
LEMMA DayReadsAreTrue ==
    ASSUME DayInv, NEW r \in Desks, NEW e \in Errands, Begun(r, e), RowsExist(r)', DayChecks(r)'
    PROVE  DayInv'
<1>1. desk \in [Desks -> Errands]
  BY DEF DayInv, WorkforceTypeOK
<1>2. /\ desk' = [desk EXCEPT ![r] = e]
      /\ UNCHANGED <<policy, shifts, attendances, cashiers, overtaken, blind>>
  BY DEF Begun, Checked, workforceRows
<1>3. WorkforceTypeOK'
  BY <1>1, <1>2 DEF DayInv, WorkforceTypeOK
<1>4. \A q \in Desks \ {r} : desk'[q] = desk[q]
  BY <1>1, <1>2
<1>5. \A q \in Desks : RowsExist(q)'
  BY <1>2, <1>4 DEF DayInv, RowsExist
<1>6. DayStillTrue'
  <2> SUFFICES ASSUME NEW q \in Desks \ {r}, q \notin overtaken' PROVE DayChecks(q)'
    BY DEF DayStillTrue
  <2>1. DayChecks(q) /\ desk'[q] = desk[q]
    BY <1>2, <1>4 DEF DayInv, DayStillTrue
  <2>2. UNCHANGED <<shifts, attendances, cashiers>>
    BY <1>2
  <2> QED
    BY <2>1, <2>2 DEF DayChecks, IsOpen
<1>7. DayHolds'
  BY <1>2 DEF DayInv, DayHolds, DayNests, OneOpenEach, CashierIsClockedIn, OpenRows
<1> QED
  BY <1>3, <1>5, <1>6, <1>7 DEF DayInv

-----------------------------------------------------------------------------
(* The reads. *)

\* An open row is a row.
LEMMA OpenRowsAreRows ==
    ASSUME NEW Row, NEW rows \in Seq(Row), NEW n \in OpenRows(rows)
    PROVE  n \in Nat /\ n \in DOMAIN rows /\ IsOpen(rows, n)
BY DEF OpenRows, IsOpen

\* What a request sets out to do is an errand.
LEMMA ErrandTypes ==
    ASSUME NEW n \in Nat
    PROVE  /\ OpenTheShift \in Errands
           /\ \A op \in {"close shift", "clock out", "close cashier", "bill"} : OnRow(op, n) \in Errands
           /\ \A op \in {"clock in", "open cashier"}, s \in Staff, t \in Tills : Opening(op, n, s, t) \in Errands
BY DEF OnRow, Opening, Errands

\* Every request that reads and checks.
LEMMA ReadInv ==
    ASSUME DayInv, NEW r \in Desks, Check(r)
    PROVE  DayInv'
<1>1. shifts \in Seq(ShiftRow) /\ attendances \in Seq(AttendanceRow) /\ cashiers \in Seq(CashierRow)
  BY DEF DayInv, WorkforceTypeOK
<1>2. ASSUME NEW e, Begun(r, e)
      PROVE  desk'[r] = e /\ UNCHANGED <<shifts, attendances, cashiers>>
  BY <1>2 DEF Begun, Checked, workforceRows, DayInv, WorkforceTypeOK
<1>3. CASE CreateShiftSession(r)
  <2>1. \A n : ~IsOpen(shifts, n)
    BY <1>1, <1>3, OpenShiftIsThere DEF CreateShiftSession
  <2>2. Begun(r, OpenTheShift) /\ desk'[r] = OpenTheShift /\ UNCHANGED <<shifts, attendances, cashiers>>
    BY <1>2, <1>3 DEF CreateShiftSession
  <2>3. OpenTheShift.op = "open shift"
    BY DEF OpenTheShift
  <2>4. RowsExist(r)' /\ DayChecks(r)'
    BY <2>1, <2>2, <2>3 DEF RowsExist, DayChecks, IsOpen
  <2> QED
    BY <2>2, <2>4, ErrandTypes, DayReadsAreTrue
<1>4. ASSUME NEW n \in OpenRows(shifts), CloseShiftSession(r, n)
      PROVE  DayInv'
  <2> DEFINE e == OnRow("close shift", n)
  <2>1. n \in DOMAIN shifts /\ e \in Errands
    BY <1>1, OpenRowsAreRows, ErrandTypes
  <2>2. \A a : IsOpen(attendances, a) => attendances[a].shift # n
    BY <1>4 DEF CloseShiftSession, AttendedUnder, OpenRows, IsOpen
  <2>3. Begun(r, e) /\ desk'[r] = e /\ UNCHANGED <<shifts, attendances, cashiers>>
    BY <1>2, <1>4 DEF CloseShiftSession
  <2>4. e.op = "close shift" /\ e.row = n
    BY DEF OnRow
  <2>5. RowsExist(r)' /\ DayChecks(r)'
    BY <2>1, <2>2, <2>3, <2>4 DEF RowsExist, DayChecks, IsOpen
  <2> QED
    BY <2>1, <2>3, <2>5, DayReadsAreTrue
<1>5. ASSUME NEW n \in OpenRows(attendances), CloseAttendanceSession(r, n)
      PROVE  DayInv'
  <2> DEFINE e == OnRow("clock out", n)
  <2>1. n \in DOMAIN attendances /\ e \in Errands
    BY <1>1, OpenRowsAreRows, ErrandTypes
  <2>2. \A c : IsOpen(cashiers, c) => cashiers[c].attendance # n
    BY <1>5 DEF CloseAttendanceSession, CashiersOf, OpenRows, IsOpen
  <2>3. Begun(r, e) /\ desk'[r] = e /\ UNCHANGED <<shifts, attendances, cashiers>>
    BY <1>2, <1>5 DEF CloseAttendanceSession
  <2>4. e.op = "clock out" /\ e.row = n
    BY DEF OnRow
  <2>5. RowsExist(r)' /\ DayChecks(r)'
    BY <2>1, <2>2, <2>3, <2>4 DEF RowsExist, DayChecks, IsOpen
  <2> QED
    BY <2>1, <2>3, <2>5, DayReadsAreTrue
<1>6. ASSUME NEW n \in OpenRows(cashiers), NEW op \in {"close cashier", "bill"}, Begun(r, OnRow(op, n))
      PROVE  DayInv'
  <2>1. n \in DOMAIN cashiers /\ OnRow(op, n) \in Errands
    BY <1>1, OpenRowsAreRows, ErrandTypes
  <2> DEFINE e == OnRow(op, n)
  <2>0. e.op = op /\ e.row = n
    BY DEF OnRow
  <2>2. desk'[r].op = op /\ desk'[r].row = n /\ UNCHANGED <<shifts, attendances, cashiers>>
    BY <1>2, <1>6, <2>0
  <2>3. RowsExist(r)' /\ DayChecks(r)'
    <3>1. CASE op = "bill"
      BY <2>1, <2>2, <3>1 DEF RowsExist, DayChecks
    <3>2. CASE op = "close cashier"
      BY <2>1, <2>2, <3>2 DEF RowsExist, DayChecks
    <3> QED
      BY <3>1, <3>2
  <2> QED
    BY <1>6, <2>1, <2>3, DayReadsAreTrue
<1>7. ASSUME NEW s \in Staff, NEW t \in Tills, CreateAttendanceSession(r, s, t)
      PROVE  DayInv'
  <2> DEFINE e == Opening("clock in", OpenShift, s, t)
  <2>1. OpenShift \in {0} \cup DOMAIN shifts /\ (OpenShift # 0 => IsOpen(shifts, OpenShift))
    BY <1>1, OpenShiftIsThere
  <2>2. e \in Errands
    <3>1. OpenShift \in Nat
      BY <1>1, <2>1
    <3> QED
      BY <3>1, ErrandTypes
  <2>3. \A a : IsOpen(attendances, a) => attendances[a].till # t /\ attendances[a].staff # s
    BY <1>7 DEF CreateAttendanceSession, AtTill, OfStaff, OpenRows, IsOpen
  <2>4. Begun(r, e) /\ desk'[r] = e /\ UNCHANGED <<shifts, attendances, cashiers>>
    BY <1>2, <1>7 DEF CreateAttendanceSession
  <2>5. e.op = "clock in" /\ e.link = OpenShift /\ e.till = t /\ e.staff = s
    BY DEF Opening
  <2>6. RowsExist(r)' /\ DayChecks(r)'
    BY <2>1, <2>3, <2>4, <2>5 DEF RowsExist, DayChecks, IsOpen
  <2> QED
    BY <2>2, <2>4, <2>6, DayReadsAreTrue
<1>8. ASSUME NEW s \in Staff, NEW t \in Tills, CreateCashierSession(r, s, t)
      PROVE  DayInv'
  <2>1. PICK a \in AtTill(attendances, t) :
          /\ AtTill(cashiers, t) = {} /\ OfStaff(cashiers, s) = {}
          /\ attendances[a].staff = s
          /\ Begun(r, Opening("open cashier", a, s, t))
    BY <1>8 DEF CreateCashierSession
  <2> DEFINE e == Opening("open cashier", a, s, t)
  <2>2. IsOpen(attendances, a) /\ attendances[a].till = t /\ a \in Nat
    <3>1. a \in OpenRows(attendances) /\ attendances[a].till = t
      BY DEF AtTill
    <3> QED
      BY <1>1, <3>1, OpenRowsAreRows
  <2>3. e \in Errands
    BY <2>2, ErrandTypes
  <2>4. \A c : IsOpen(cashiers, c) => cashiers[c].till # t /\ cashiers[c].staff # s
    BY <2>1 DEF AtTill, OfStaff, OpenRows, IsOpen
  <2>5. Begun(r, e) /\ desk'[r] = e /\ UNCHANGED <<shifts, attendances, cashiers>>
    BY <1>2, <2>1
  <2>6. e.op = "open cashier" /\ e.link = a /\ e.till = t /\ e.staff = s
    BY DEF Opening
  <2>7. RowsExist(r)' /\ DayChecks(r)'
    BY <2>1, <2>2, <2>4, <2>5, <2>6 DEF RowsExist, DayChecks, IsOpen
  <2> QED
    BY <2>3, <2>5, <2>7, DayReadsAreTrue
<1>9. ASSUME NEW n \in DOMAIN cashiers, CloseCashierSession(r, n) \/ RequireOpenCashierSession(r, n)
      PROVE  DayInv'
  BY <1>6, <1>9 DEF CloseCashierSession, RequireOpenCashierSession
<1> QED
  BY <1>3, <1>4, <1>5, <1>7, <1>8, <1>9
     DEF Check, ForceCloseShiftSession, ForceCloseAttendanceSession, ForceCloseCashierSession

-----------------------------------------------------------------------------
(* The writes. *)

\* A row that is written is a checked one or a blind one; what its request has in hand exists.
LEMMA WriterKnows ==
    ASSUME DayInv, NEW r \in Desks, NEW table, NEW n, Written(r, table, n)
    PROVE  /\ RowsExist(r)
           /\ DayChecks(r) \/ <<table, n>> \in blind'
           /\ UNCHANGED policy
BY DayCommitOvertakes DEF Written, DayInv, DayStillTrue

\* The rows that other requests have in hand stay, whatever is appended or closed.
LEMMA RowsStay ==
    ASSUME DayInv, NEW r \in Desks, NEW rows, Committed(r, rows),
           DOMAIN shifts \subseteq DOMAIN shifts',
           DOMAIN attendances \subseteq DOMAIN attendances',
           DOMAIN cashiers \subseteq DOMAIN cashiers',
           \A a \in DOMAIN attendances :
               attendances'[a].staff = attendances[a].staff /\ attendances'[a].till = attendances[a].till
    PROVE  \A q \in Desks : RowsExist(q)'
<1> SUFFICES ASSUME NEW q \in Desks PROVE RowsExist(q)'
  OBVIOUS
<1>1. desk \in [Desks -> Errands] /\ desk' = [desk EXCEPT ![r] = Idle]
  BY DayCommitOvertakes DEF DayInv, WorkforceTypeOK
<1>2. CASE q = r
  <2>1. desk'[q].op = "none"
    BY <1>1, <1>2 DEF Idle
  <2> QED
    BY <2>1 DEF RowsExist
<1>3. CASE q # r
  <2>1. desk'[q] = desk[q] /\ RowsExist(q)
    BY <1>1, <1>3 DEF DayInv
  <2> QED
    BY <2>1 DEF RowsExist
<1> QED
  BY <1>2, <1>3

\* A closed row is the row it was, but for its status.
LEMMA RowClosed ==
    ASSUME NEW Row, NEW rows \in Seq(Row), NEW n \in DOMAIN rows, NEW after,
           after = [rows EXCEPT ![n].status = "CLOSED"],
           \A row \in Row : [row EXCEPT !.status = "CLOSED"] \in Row
    PROVE  /\ after \in Seq(Row)
           /\ DOMAIN after = DOMAIN rows
           /\ after[n] = [rows[n] EXCEPT !.status = "CLOSED"]
           /\ \A m \in DOMAIN rows \ {n} : after[m] = rows[m]
<1>1. rows[n] \in Row
  OBVIOUS
<1> QED
  BY <1>1

\* Closing a row changes its status only.
LEMMA ClosedRowTypes ==
    /\ \A row \in ShiftRow : [row EXCEPT !.status = "CLOSED"] \in ShiftRow
    /\ \A row \in AttendanceRow : /\ [row EXCEPT !.status = "CLOSED"] \in AttendanceRow
                                  /\ \A f \in {"shift", "staff", "till"} : [row EXCEPT !.status = "CLOSED"][f] = row[f]
                                  /\ [row EXCEPT !.status = "CLOSED"].status = "CLOSED"
    /\ \A row \in CashierRow : /\ [row EXCEPT !.status = "CLOSED"] \in CashierRow
                               /\ \A f \in {"attendance", "staff", "till"} : [row EXCEPT !.status = "CLOSED"][f] = row[f]
                               /\ [row EXCEPT !.status = "CLOSED"].status = "CLOSED"
BY DEF ShiftRow, AttendanceRow, CashierRow, RowStatus

-----------------------------------------------------------------------------
(* The parts of DayHolds, one for each table and what it is compared with. *)

CashiersNest ==
    \A c \in OpenRows(cashiers) :
        \/ attendances[cashiers[c].attendance].status = "OPEN"
        \/ <<"cashier", c>> \in blind \/ <<"attendance", cashiers[c].attendance>> \in blind
AttendancesNest ==
    \A a \in OpenRows(attendances) :
        \/ attendances[a].shift = 0 \/ shifts[attendances[a].shift].status = "OPEN"
        \/ <<"attendance", a>> \in blind \/ <<"shift", attendances[a].shift>> \in blind
OneShift == \A m, n \in OpenRows(shifts) : m < n => <<"shift", n>> \in blind
OneAttendance ==
    \A m, n \in OpenRows(attendances) :
        m < n /\ (attendances[m].till = attendances[n].till \/ attendances[m].staff = attendances[n].staff)
          => <<"attendance", n>> \in blind
OneCashier ==
    \A m, n \in OpenRows(cashiers) :
        m < n /\ (cashiers[m].till = cashiers[n].till \/ cashiers[m].staff = cashiers[n].staff)
          => <<"cashier", n>> \in blind

\* DayHolds is its parts.
LEMMA DayParts ==
    DayHolds <=> /\ CashiersNest /\ AttendancesNest
                 /\ OneShift /\ OneAttendance /\ OneCashier /\ CashierIsClockedIn
BY DEF DayHolds, DayNests, OneOpenEach, CashiersNest, AttendancesNest, OneShift, OneAttendance, OneCashier

\* What a write has in its favour.
LEMMA DayWriteFacts ==
    ASSUME DayInv, NEW r \in Desks, NEW table, NEW n, Written(r, table, n)
    PROVE  /\ desk' \in [Desks -> Errands] /\ overtaken' \subseteq Desks /\ DayStillTrue'
           /\ blind \subseteq blind' /\ policy' \in DayPolicies \cup {DefaultDayPolicy}
           /\ RowsExist(r) /\ (DayChecks(r) \/ <<table, n>> \in blind')
           /\ shifts \in Seq(ShiftRow) /\ attendances \in Seq(AttendanceRow) /\ cashiers \in Seq(CashierRow)
           /\ \A a \in DOMAIN attendances : attendances[a].shift \in {0} \cup DOMAIN shifts
           /\ \A c \in DOMAIN cashiers : cashiers[c].attendance \in DOMAIN attendances
           /\ CashiersNest /\ AttendancesNest /\ OneShift /\ OneAttendance /\ OneCashier /\ CashierIsClockedIn
<1>1. DayHolds
  BY DEF DayInv
<1>2. desk' \in [Desks -> Errands] /\ overtaken' \subseteq Desks /\ DayStillTrue' /\ blind \subseteq blind'
  BY DayCommitOvertakes DEF Written
<1>3. RowsExist(r) /\ (DayChecks(r) \/ <<table, n>> \in blind') /\ UNCHANGED policy
  BY WriterKnows
<1>4. /\ shifts \in Seq(ShiftRow) /\ attendances \in Seq(AttendanceRow) /\ cashiers \in Seq(CashierRow)
      /\ \A a \in DOMAIN attendances : attendances[a].shift \in {0} \cup DOMAIN shifts
      /\ \A c \in DOMAIN cashiers : cashiers[c].attendance \in DOMAIN attendances
      /\ policy \in DayPolicies \cup {DefaultDayPolicy}
  BY DEF DayInv, WorkforceTypeOK
<1>5. CashiersNest /\ AttendancesNest /\ OneShift /\ OneAttendance /\ OneCashier /\ CashierIsClockedIn
  BY <1>1, DayParts
<1> QED
  BY <1>2, <1>3, <1>4, <1>5

\* What a write that leaves a table alone leaves true.
LEMMA DayUntouched ==
    ASSUME blind \subseteq blind'
    PROVE  /\ OneShift /\ shifts' = shifts => OneShift'
           /\ OneAttendance /\ attendances' = attendances => OneAttendance'
           /\ OneCashier /\ cashiers' = cashiers => OneCashier'
           /\ CashiersNest /\ attendances' = attendances /\ cashiers' = cashiers => CashiersNest'
           /\ AttendancesNest /\ shifts' = shifts /\ attendances' = attendances => AttendancesNest'
           /\ CashierIsClockedIn /\ attendances' = attendances /\ cashiers' = cashiers => CashierIsClockedIn'
<1>1. OneShift /\ shifts' = shifts => OneShift'
  BY DEF OneShift, OpenRows
<1>2. OneAttendance /\ attendances' = attendances => OneAttendance'
  BY DEF OneAttendance, OpenRows
<1>3. OneCashier /\ cashiers' = cashiers => OneCashier'
  BY DEF OneCashier, OpenRows
<1>4. CashiersNest /\ attendances' = attendances /\ cashiers' = cashiers => CashiersNest'
  BY DEF CashiersNest, OpenRows
<1>5. AttendancesNest /\ shifts' = shifts /\ attendances' = attendances => AttendancesNest'
  BY DEF AttendancesNest, OpenRows
<1>6. CashierIsClockedIn /\ attendances' = attendances /\ cashiers' = cashiers => CashierIsClockedIn'
  BY DEF CashierIsClockedIn
<1> QED
  BY <1>1, <1>2, <1>3, <1>4, <1>5, <1>6

\* A new shift is the only open one, unless its request was overtaken.
LEMMA ShiftOpens ==
    ASSUME DayInv, NEW r \in Desks, StoreShift(r)
    PROVE  DayInv'
<1> DEFINE new == Len(shifts) + 1
<1>1. /\ Written(r, "shift", new) /\ Doing(r, "open shift")
      /\ shifts' = Append(shifts, [status |-> "OPEN"]) /\ attendances' = attendances /\ cashiers' = cashiers
  BY DEF StoreShift
<1>2. /\ desk' \in [Desks -> Errands] /\ overtaken' \subseteq Desks /\ DayStillTrue'
      /\ blind \subseteq blind' /\ policy' \in DayPolicies \cup {DefaultDayPolicy}
      /\ DayChecks(r) \/ <<"shift", new>> \in blind'
  BY <1>1, DayWriteFacts
<1>3. /\ shifts \in Seq(ShiftRow) /\ attendances \in Seq(AttendanceRow) /\ cashiers \in Seq(CashierRow)
      /\ \A a \in DOMAIN attendances : attendances[a].shift \in {0} \cup DOMAIN shifts
      /\ \A c \in DOMAIN cashiers : cashiers[c].attendance \in DOMAIN attendances
  BY DEF DayInv, WorkforceTypeOK
<1>4. [status |-> "OPEN"] \in ShiftRow
  BY DEF ShiftRow, RowStatus
<1>0. new = Len(shifts) + 1
  OBVIOUS
<1> HIDE DEF new
<1>5. /\ shifts' \in Seq(ShiftRow) /\ new \in Nat \ {0}
      /\ DOMAIN shifts' = DOMAIN shifts \cup {new}
      /\ shifts'[new] = [status |-> "OPEN"]
      /\ \A n \in DOMAIN shifts : shifts'[n] = shifts[n] /\ n < new /\ n # new
  <2> DEFINE row == [status |-> "OPEN"]
  <2>1. row \in ShiftRow /\ shifts \in Seq(ShiftRow) /\ shifts' = Append(shifts, row)
    BY <1>1, <1>3, <1>4
  <2>2. row = [status |-> "OPEN"]
    OBVIOUS
  <2> HIDE DEF row
  <2>3. /\ shifts' \in Seq(ShiftRow) /\ new \in Nat \ {0}
        /\ DOMAIN shifts' = DOMAIN shifts \cup {new}
        /\ shifts'[new] = row
        /\ \A n \in DOMAIN shifts : shifts'[n] = shifts[n] /\ n < new /\ n # new
    BY <1>0, <2>1, DayRowAppended
  <2> QED
    BY <2>2, <2>3
<1>6. WorkforceTypeOK'
  BY <1>1, <1>2, <1>3, <1>5 DEF WorkforceTypeOK
<1>7. \A q \in Desks : RowsExist(q)'
  BY <1>1, <1>5, RowsStay DEF Written
<1>8. OpenRows(shifts)' \subseteq OpenRows(shifts) \cup {new} /\ OpenRows(shifts) \subseteq DOMAIN shifts
  BY <1>5 DEF OpenRows
<1>9. OneShift'
  <2> SUFFICES ASSUME NEW m \in OpenRows(shifts)', NEW n \in OpenRows(shifts)', m < n PROVE <<"shift", n>> \in blind'
    BY DEF OneShift
  <2>1. CASE n = new
    <3>1. m \in OpenRows(shifts)
      BY <1>5, <1>8, <2>1
    <3>2. ~DayChecks(r)
      BY <1>1, <3>1 DEF DayChecks, Doing, IsOpen, OpenRows
    <3> QED
      BY <1>2, <2>1, <3>2
  <2>2. CASE n # new
    <3>1. n \in OpenRows(shifts) /\ n < new
      BY <1>5, <1>8, <2>2
    <3>2. m \in OpenRows(shifts)
      BY <1>3, <1>5, <1>8, <3>1
    <3> QED
      BY <1>1, <1>2, <3>1, <3>2, DayWriteFacts DEF OneShift
  <2> QED
    BY <2>1, <2>2
<1>10. AttendancesNest'
  <2> SUFFICES ASSUME NEW a \in OpenRows(attendances)'
               PROVE  \/ attendances[a].shift = 0 \/ shifts'[attendances[a].shift].status = "OPEN"
                      \/ <<"attendance", a>> \in blind' \/ <<"shift", attendances[a].shift>> \in blind'
    BY <1>1 DEF AttendancesNest
  <2>1. a \in OpenRows(attendances) /\ a \in DOMAIN attendances
    BY <1>1 DEF OpenRows
  <2> QED
    BY <1>1, <1>2, <1>3, <1>5, <2>1, DayWriteFacts DEF AttendancesNest
<1>11. CashiersNest' /\ OneAttendance' /\ OneCashier' /\ CashierIsClockedIn'
  <2>1. CashiersNest /\ OneAttendance /\ OneCashier /\ CashierIsClockedIn
    BY <1>1, DayWriteFacts
  <2> QED
    BY <1>1, <1>2, <2>1, DayUntouched
<1>12. DayHolds'
  BY <1>9, <1>10, <1>11, PTL, DayParts
<1> QED
  BY <1>2, <1>6, <1>7, <1>12 DEF DayInv

\* A closed shift has no open attendance under it, unless its close was overtaken.
LEMMA ShiftCloses ==
    ASSUME DayInv, NEW r \in Desks, StoreShiftEnd(r)
    PROVE  DayInv'
<1> DEFINE n == desk[r].row
<1>0. n = desk[r].row
  OBVIOUS
<1> HIDE DEF n
<1>1. /\ Written(r, "shift", n) /\ Doing(r, "close shift")
      /\ shifts' = [shifts EXCEPT ![n].status = "CLOSED"] /\ attendances' = attendances /\ cashiers' = cashiers
  BY <1>0 DEF StoreShiftEnd
<1>2. /\ desk' \in [Desks -> Errands] /\ overtaken' \subseteq Desks /\ DayStillTrue'
      /\ blind \subseteq blind' /\ policy' \in DayPolicies \cup {DefaultDayPolicy}
      /\ RowsExist(r) /\ (DayChecks(r) \/ <<"shift", n>> \in blind')
  BY <1>1, DayWriteFacts
<1>3. /\ shifts \in Seq(ShiftRow) /\ attendances \in Seq(AttendanceRow) /\ cashiers \in Seq(CashierRow)
      /\ \A a \in DOMAIN attendances : attendances[a].shift \in {0} \cup DOMAIN shifts
      /\ \A c \in DOMAIN cashiers : cashiers[c].attendance \in DOMAIN attendances
  BY DEF DayInv, WorkforceTypeOK
<1>4. n \in DOMAIN shifts
  BY <1>0, <1>1, <1>2 DEF RowsExist, Doing
<1>5. /\ shifts' \in Seq(ShiftRow)
      /\ DOMAIN shifts' = DOMAIN shifts
      /\ \A m \in DOMAIN shifts \ {n} : shifts'[m] = shifts[m]
      /\ shifts'[n].status = "CLOSED"
  <2>1. \A row \in ShiftRow : [row EXCEPT !.status = "CLOSED"] \in ShiftRow
    BY ClosedRowTypes
  <2>2. /\ shifts' \in Seq(ShiftRow)
        /\ DOMAIN shifts' = DOMAIN shifts
        /\ shifts'[n] = [shifts[n] EXCEPT !.status = "CLOSED"]
        /\ \A m \in DOMAIN shifts \ {n} : shifts'[m] = shifts[m]
    BY <1>1, <1>3, <1>4, <2>1, RowClosed
  <2>3. shifts[n] \in ShiftRow
    BY <1>3, <1>4
  <2> QED
    BY <2>2, <2>3 DEF ShiftRow
<1>6. WorkforceTypeOK'
  BY <1>1, <1>2, <1>3, <1>5 DEF WorkforceTypeOK
<1>7. \A q \in Desks : RowsExist(q)'
  BY <1>1, <1>5, RowsStay DEF Written
<1>8. \A m \in OpenRows(shifts)' : m \in OpenRows(shifts) /\ m # n
  BY <1>5 DEF OpenRows
<1>9. OneShift'
  <2>1. OneShift
    BY <1>1, DayWriteFacts
  <2> QED
    BY <1>2, <1>8, <2>1 DEF OneShift
<1>10. AttendancesNest'
  <2> SUFFICES ASSUME NEW a \in OpenRows(attendances)'
               PROVE  \/ attendances[a].shift = 0 \/ shifts'[attendances[a].shift].status = "OPEN"
                      \/ <<"attendance", a>> \in blind' \/ <<"shift", attendances[a].shift>> \in blind'
    BY <1>1 DEF AttendancesNest
  <2>1. a \in OpenRows(attendances) /\ a \in DOMAIN attendances
    BY <1>1 DEF OpenRows
  <2>2. CASE attendances[a].shift = n
    <3>1. ~DayChecks(r)
      BY <1>0, <1>1, <2>1, <2>2 DEF DayChecks, Doing, IsOpen, OpenRows
    <3> QED
      BY <1>2, <2>2, <3>1
  <2>3. CASE attendances[a].shift # n
    <3>1. AttendancesNest
      BY <1>1, DayWriteFacts
    <3> QED
      BY <1>2, <1>3, <1>5, <2>1, <2>3, <3>1 DEF AttendancesNest
  <2> QED
    BY <2>2, <2>3
<1>11. CashiersNest' /\ OneAttendance' /\ OneCashier' /\ CashierIsClockedIn'
  <2>1. CashiersNest /\ OneAttendance /\ OneCashier /\ CashierIsClockedIn
    BY <1>1, DayWriteFacts
  <2> QED
    BY <1>1, <1>2, <2>1, DayUntouched
<1>12. DayHolds'
  BY <1>9, <1>10, <1>11, PTL, DayParts
<1> QED
  BY <1>2, <1>6, <1>7, <1>12 DEF DayInv

\* A request that opens an attendance or a cashier session is about a member of staff and a till.
LEMMA ErrandFields ==
    ASSUME NEW e \in Errands, e.op \in {"clock in", "open cashier"}
    PROVE  e.staff \in Staff /\ e.till \in Tills
<1>1. e # Idle /\ e # OpenTheShift
  <2>1. Idle.op = "none" /\ OpenTheShift.op = "open shift"
    BY DEF Idle, OpenTheShift
  <2> QED
    BY <2>1
<1>2. CASE e \in [op: {"clock in", "open cashier"}, link: Nat, staff: Staff, till: Tills]
  BY <1>2
<1>3. CASE e \in [op: {"close shift", "clock out", "close cashier", "bill"}, row: Nat]
  BY <1>3
<1> QED
  BY <1>1, <1>2, <1>3 DEF Errands

\* A new attendance is the only open one of its till and its person, and under an open shift,
\* unless its request was overtaken.
LEMMA AttendanceOpens ==
    ASSUME DayInv, NEW r \in Desks, StoreAttendance(r)
    PROVE  DayInv'
<1> DEFINE new == Len(attendances) + 1
           e   == desk[r]
           row == [status |-> "OPEN", shift |-> e.link, staff |-> e.staff, till |-> e.till]
<1>0. new = Len(attendances) + 1 /\ e = desk[r]
  OBVIOUS
<1>1. /\ Written(r, "attendance", new) /\ e.op = "clock in"
      /\ attendances' = Append(attendances, row) /\ shifts' = shifts /\ cashiers' = cashiers
  BY DEF StoreAttendance, Doing
<1>2. /\ desk' \in [Desks -> Errands] /\ overtaken' \subseteq Desks /\ DayStillTrue'
      /\ blind \subseteq blind' /\ policy' \in DayPolicies \cup {DefaultDayPolicy}
      /\ RowsExist(r) /\ (DayChecks(r) \/ <<"attendance", new>> \in blind')
  BY <1>1, DayWriteFacts
<1>3. /\ shifts \in Seq(ShiftRow) /\ attendances \in Seq(AttendanceRow) /\ cashiers \in Seq(CashierRow)
      /\ \A a \in DOMAIN attendances : attendances[a].shift \in {0} \cup DOMAIN shifts
      /\ \A c \in DOMAIN cashiers : cashiers[c].attendance \in DOMAIN attendances
  BY DEF DayInv, WorkforceTypeOK
<1>4. e.link \in {0} \cup DOMAIN shifts /\ e.link \in Nat /\ e.staff \in Staff /\ e.till \in Tills
  <2>1. e \in Errands
    BY DEF DayInv, WorkforceTypeOK
  <2>2. e.staff \in Staff /\ e.till \in Tills
    BY <1>1, <2>1, ErrandFields
  <2>3. e.link \in {0} \cup DOMAIN shifts
    BY <1>1, <1>2 DEF RowsExist
  <2> QED
    BY <1>3, <2>2, <2>3
<1>5. /\ row \in AttendanceRow
      /\ row.status = "OPEN" /\ row.shift = e.link /\ row.staff = e.staff /\ row.till = e.till
  BY <1>4 DEF AttendanceRow, RowStatus
<1> HIDE DEF new, e, row
<1>6. /\ attendances' \in Seq(AttendanceRow) /\ new \in Nat \ {0}
      /\ DOMAIN attendances' = DOMAIN attendances \cup {new}
      /\ attendances'[new] = row
      /\ \A n \in DOMAIN attendances : attendances'[n] = attendances[n] /\ n < new /\ n # new
  <2>1. row \in AttendanceRow /\ attendances \in Seq(AttendanceRow) /\ attendances' = Append(attendances, row)
    BY <1>1, <1>3, <1>5
  <2> QED
    BY <1>0, <2>1, DayRowAppended
<1>7. WorkforceTypeOK'
  <2>1. \A a \in DOMAIN attendances' : attendances'[a].shift \in {0} \cup DOMAIN shifts'
    BY <1>1, <1>3, <1>4, <1>5, <1>6
  <2> QED
    BY <1>1, <1>2, <1>3, <1>6, <2>1 DEF WorkforceTypeOK
<1>8. \A q \in Desks : RowsExist(q)'
  BY <1>1, <1>6, RowsStay DEF Written
<1>9. \A n \in OpenRows(attendances)' :
          \/ n = new
          \/ /\ n \in OpenRows(attendances) /\ n \in DOMAIN attendances /\ n \in Nat /\ n < new
             /\ attendances'[n] = attendances[n]
  BY <1>3, <1>6 DEF OpenRows
<1>10. OneAttendance'
  <2> SUFFICES ASSUME NEW m \in OpenRows(attendances)', NEW n \in OpenRows(attendances)', m < n,
                      \/ attendances'[m].till = attendances'[n].till
                      \/ attendances'[m].staff = attendances'[n].staff
               PROVE  <<"attendance", n>> \in blind'
    BY DEF OneAttendance
  <2>1. m \in OpenRows(attendances) /\ attendances'[m] = attendances[m]
    BY <1>6, <1>9
  <2>2. CASE n = new
    <3>1. IsOpen(attendances, m)
      BY <2>1 DEF OpenRows, IsOpen
    <3>2. attendances[m].till = e.till \/ attendances[m].staff = e.staff
      BY <1>5, <1>6, <2>1, <2>2
    <3>3. ~DayChecks(r)
      BY <1>0, <1>1, <3>1, <3>2 DEF DayChecks
    <3> QED
      BY <1>2, <2>2, <3>3
  <2>3. CASE n # new
    <3>1. OneAttendance
      BY <1>1, DayWriteFacts
    <3> QED
      BY <1>2, <1>9, <2>1, <2>3, <3>1 DEF OneAttendance
  <2> QED
    BY <2>2, <2>3
<1>11. AttendancesNest'
  <2> SUFFICES ASSUME NEW a \in OpenRows(attendances)'
               PROVE  \/ attendances'[a].shift = 0 \/ shifts[attendances'[a].shift].status = "OPEN"
                      \/ <<"attendance", a>> \in blind' \/ <<"shift", attendances'[a].shift>> \in blind'
    BY <1>1 DEF AttendancesNest
  <2>1. CASE a = new
    BY <1>0, <1>1, <1>2, <1>5, <1>6, <2>1 DEF DayChecks, IsOpen
  <2>2. CASE a # new
    <3>1. AttendancesNest
      BY <1>1, DayWriteFacts
    <3> QED
      BY <1>2, <1>9, <2>2, <3>1 DEF AttendancesNest
  <2> QED
    BY <2>1, <2>2
<1>12. CashiersNest' /\ CashierIsClockedIn'
  <2>1. CashiersNest /\ CashierIsClockedIn
    BY <1>1, DayWriteFacts
  <2>2. \A c \in DOMAIN cashiers : attendances'[cashiers[c].attendance] = attendances[cashiers[c].attendance]
    BY <1>3, <1>6
  <2>3. CashiersNest'
    BY <1>1, <1>2, <2>1, <2>2 DEF CashiersNest, OpenRows
  <2>4. CashierIsClockedIn'
    BY <1>1, <2>1, <2>2 DEF CashierIsClockedIn
  <2> QED
    BY <2>3, <2>4
<1>13. OneShift' /\ OneCashier'
  <2>1. OneShift /\ OneCashier
    BY <1>1, DayWriteFacts
  <2> QED
    BY <1>1, <1>2, <2>1, DayUntouched
<1>14. DayHolds'
  BY <1>10, <1>11, <1>12, <1>13, PTL, DayParts
<1> QED
  BY <1>2, <1>7, <1>8, <1>14 DEF DayInv

\* A closed attendance has no open cashier session, unless its close was overtaken.
LEMMA AttendanceCloses ==
    ASSUME DayInv, NEW r \in Desks, StoreAttendanceEnd(r)
    PROVE  DayInv'
<1> DEFINE n == desk[r].row
<1>0. n = desk[r].row
  OBVIOUS
<1> HIDE DEF n
<1>1. /\ Written(r, "attendance", n) /\ desk[r].op = "clock out"
      /\ attendances' = [attendances EXCEPT ![n].status = "CLOSED"] /\ shifts' = shifts /\ cashiers' = cashiers
  BY <1>0 DEF StoreAttendanceEnd, Doing
<1>2. /\ desk' \in [Desks -> Errands] /\ overtaken' \subseteq Desks /\ DayStillTrue'
      /\ blind \subseteq blind' /\ policy' \in DayPolicies \cup {DefaultDayPolicy}
      /\ RowsExist(r) /\ (DayChecks(r) \/ <<"attendance", n>> \in blind')
  BY <1>1, DayWriteFacts
<1>3. /\ shifts \in Seq(ShiftRow) /\ attendances \in Seq(AttendanceRow) /\ cashiers \in Seq(CashierRow)
      /\ \A a \in DOMAIN attendances : attendances[a].shift \in {0} \cup DOMAIN shifts
      /\ \A c \in DOMAIN cashiers : cashiers[c].attendance \in DOMAIN attendances
  BY DEF DayInv, WorkforceTypeOK
<1>4. n \in DOMAIN attendances
  BY <1>0, <1>1, <1>2 DEF RowsExist
<1>5. /\ attendances' \in Seq(AttendanceRow)
      /\ DOMAIN attendances' = DOMAIN attendances
      /\ \A m \in DOMAIN attendances \ {n} : attendances'[m] = attendances[m]
      /\ attendances'[n].status = "CLOSED"
      /\ attendances'[n].shift = attendances[n].shift
      /\ attendances'[n].staff = attendances[n].staff /\ attendances'[n].till = attendances[n].till
  <2>1. \A row \in AttendanceRow : [row EXCEPT !.status = "CLOSED"] \in AttendanceRow
    BY ClosedRowTypes
  <2>2. /\ attendances' \in Seq(AttendanceRow)
        /\ DOMAIN attendances' = DOMAIN attendances
        /\ attendances'[n] = [attendances[n] EXCEPT !.status = "CLOSED"]
        /\ \A m \in DOMAIN attendances \ {n} : attendances'[m] = attendances[m]
    BY <1>1, <1>3, <1>4, <2>1, RowClosed
  <2>3. attendances[n] \in AttendanceRow
    BY <1>3, <1>4
  <2> QED
    BY <2>2, <2>3 DEF AttendanceRow
<1>6. WorkforceTypeOK'
  <2>1. \A a \in DOMAIN attendances' : attendances'[a].shift \in {0} \cup DOMAIN shifts'
    BY <1>1, <1>3, <1>5
  <2> QED
    BY <1>1, <1>2, <1>3, <1>5, <2>1 DEF WorkforceTypeOK
<1>7. \A q \in Desks : RowsExist(q)'
  <2>1. \A a \in DOMAIN attendances :
            attendances'[a].staff = attendances[a].staff /\ attendances'[a].till = attendances[a].till
    BY <1>5
  <2> QED
    BY <1>1, <1>5, <2>1, RowsStay DEF Written
<1>8. \A m \in OpenRows(attendances)' :
          m \in OpenRows(attendances) /\ m # n /\ m \in DOMAIN attendances /\ attendances'[m] = attendances[m]
  BY <1>5 DEF OpenRows
<1>9. OneAttendance'
  <2>1. OneAttendance
    BY <1>1, DayWriteFacts
  <2> QED
    BY <1>2, <1>8, <2>1 DEF OneAttendance
<1>10. AttendancesNest'
  <2>1. AttendancesNest
    BY <1>1, DayWriteFacts
  <2> QED
    BY <1>1, <1>2, <1>8, <2>1 DEF AttendancesNest
<1>11. CashiersNest'
  <2> SUFFICES ASSUME NEW c \in OpenRows(cashiers)'
               PROVE  \/ attendances'[cashiers[c].attendance].status = "OPEN"
                      \/ <<"cashier", c>> \in blind' \/ <<"attendance", cashiers[c].attendance>> \in blind'
    BY <1>1 DEF CashiersNest
  <2>1. c \in OpenRows(cashiers) /\ c \in DOMAIN cashiers /\ IsOpen(cashiers, c)
    BY <1>1 DEF OpenRows, IsOpen
  <2>2. CASE cashiers[c].attendance = n
    <3>1. ~DayChecks(r)
      BY <1>0, <1>1, <2>1, <2>2 DEF DayChecks
    <3> QED
      BY <1>2, <2>2, <3>1
  <2>3. CASE cashiers[c].attendance # n
    <3>1. CashiersNest
      BY <1>1, DayWriteFacts
    <3>2. attendances'[cashiers[c].attendance] = attendances[cashiers[c].attendance]
      BY <1>3, <1>5, <2>1, <2>3
    <3> QED
      BY <1>2, <2>1, <3>1, <3>2 DEF CashiersNest
  <2> QED
    BY <2>2, <2>3
<1>12. CashierIsClockedIn'
  <2>1. CashierIsClockedIn
    BY <1>1, DayWriteFacts
  <2>2. \A c \in DOMAIN cashiers :
            LET a == cashiers[c].attendance
            IN  attendances'[a].staff = attendances[a].staff /\ attendances'[a].till = attendances[a].till
    BY <1>3, <1>5
  <2> QED
    BY <1>1, <2>1, <2>2 DEF CashierIsClockedIn
<1>13. OneShift' /\ OneCashier'
  <2>1. OneShift /\ OneCashier
    BY <1>1, DayWriteFacts
  <2> QED
    BY <1>1, <1>2, <2>1, DayUntouched
<1>14. DayHolds'
  BY <1>9, <1>10, <1>11, <1>12, <1>13, PTL, DayParts
<1> QED
  BY <1>2, <1>6, <1>7, <1>14 DEF DayInv

\* A new cashier session is the only open one of its till and its person, and in an open attendance,
\* unless its request was overtaken.
LEMMA CashierOpens ==
    ASSUME DayInv, NEW r \in Desks, StoreCashier(r)
    PROVE  DayInv'
<1> DEFINE new == Len(cashiers) + 1
           e   == desk[r]
           row == [status |-> "OPEN", attendance |-> e.link, staff |-> e.staff, till |-> e.till, sales |-> 0]
<1>0. new = Len(cashiers) + 1 /\ e = desk[r]
  OBVIOUS
<1>1. /\ Written(r, "cashier", new) /\ e.op = "open cashier"
      /\ cashiers' = Append(cashiers, row) /\ shifts' = shifts /\ attendances' = attendances
  BY DEF StoreCashier, Doing
<1>2. /\ desk' \in [Desks -> Errands] /\ overtaken' \subseteq Desks /\ DayStillTrue'
      /\ blind \subseteq blind' /\ policy' \in DayPolicies \cup {DefaultDayPolicy}
      /\ RowsExist(r) /\ (DayChecks(r) \/ <<"cashier", new>> \in blind')
  BY <1>1, DayWriteFacts
<1>3. /\ shifts \in Seq(ShiftRow) /\ attendances \in Seq(AttendanceRow) /\ cashiers \in Seq(CashierRow)
      /\ \A a \in DOMAIN attendances : attendances[a].shift \in {0} \cup DOMAIN shifts
      /\ \A c \in DOMAIN cashiers : cashiers[c].attendance \in DOMAIN attendances
  BY DEF DayInv, WorkforceTypeOK
<1>4. /\ e.link \in DOMAIN attendances /\ e.link \in Nat /\ e.staff \in Staff /\ e.till \in Tills
      /\ attendances[e.link].staff = e.staff /\ attendances[e.link].till = e.till
  <2>1. e \in Errands
    BY DEF DayInv, WorkforceTypeOK
  <2>2. e.staff \in Staff /\ e.till \in Tills
    BY <1>1, <2>1, ErrandFields
  <2>3. /\ e.link \in DOMAIN attendances
        /\ attendances[e.link].staff = e.staff /\ attendances[e.link].till = e.till
    BY <1>1, <1>2 DEF RowsExist
  <2> QED
    BY <1>3, <2>2, <2>3
<1>5. /\ row \in CashierRow
      /\ row.status = "OPEN" /\ row.attendance = e.link /\ row.staff = e.staff /\ row.till = e.till
  BY <1>4 DEF CashierRow, RowStatus
<1> HIDE DEF new, e, row
<1>6. /\ cashiers' \in Seq(CashierRow) /\ new \in Nat \ {0}
      /\ DOMAIN cashiers' = DOMAIN cashiers \cup {new}
      /\ cashiers'[new] = row
      /\ \A n \in DOMAIN cashiers : cashiers'[n] = cashiers[n] /\ n < new /\ n # new
  <2>1. row \in CashierRow /\ cashiers \in Seq(CashierRow) /\ cashiers' = Append(cashiers, row)
    BY <1>1, <1>3, <1>5
  <2> QED
    BY <1>0, <2>1, DayRowAppended
<1>7. WorkforceTypeOK'
  <2>1. \A c \in DOMAIN cashiers' : cashiers'[c].attendance \in DOMAIN attendances'
    BY <1>1, <1>3, <1>4, <1>5, <1>6
  <2> QED
    BY <1>1, <1>2, <1>3, <1>6, <2>1 DEF WorkforceTypeOK
<1>8. \A q \in Desks : RowsExist(q)'
  BY <1>1, <1>6, RowsStay DEF Written
<1>9. \A n \in OpenRows(cashiers)' :
          \/ n = new
          \/ /\ n \in OpenRows(cashiers) /\ n \in DOMAIN cashiers /\ n \in Nat /\ n < new
             /\ cashiers'[n] = cashiers[n]
  BY <1>3, <1>6 DEF OpenRows
<1>10. OneCashier'
  <2> SUFFICES ASSUME NEW m \in OpenRows(cashiers)', NEW n \in OpenRows(cashiers)', m < n,
                      \/ cashiers'[m].till = cashiers'[n].till
                      \/ cashiers'[m].staff = cashiers'[n].staff
               PROVE  <<"cashier", n>> \in blind'
    BY DEF OneCashier
  <2>1. m \in OpenRows(cashiers) /\ cashiers'[m] = cashiers[m]
    BY <1>6, <1>9
  <2>2. CASE n = new
    <3>1. IsOpen(cashiers, m)
      BY <2>1 DEF OpenRows, IsOpen
    <3>2. cashiers[m].till = e.till \/ cashiers[m].staff = e.staff
      BY <1>5, <1>6, <2>1, <2>2
    <3>3. ~DayChecks(r)
      BY <1>0, <1>1, <3>1, <3>2 DEF DayChecks
    <3> QED
      BY <1>2, <2>2, <3>3
  <2>3. CASE n # new
    <3>1. OneCashier
      BY <1>1, DayWriteFacts
    <3> QED
      BY <1>2, <1>9, <2>1, <2>3, <3>1 DEF OneCashier
  <2> QED
    BY <2>2, <2>3
<1>11. CashiersNest'
  <2> SUFFICES ASSUME NEW c \in OpenRows(cashiers)'
               PROVE  \/ attendances[cashiers'[c].attendance].status = "OPEN"
                      \/ <<"cashier", c>> \in blind' \/ <<"attendance", cashiers'[c].attendance>> \in blind'
    BY <1>1 DEF CashiersNest
  <2>1. CASE c = new
    <3>1. cashiers'[c].attendance = e.link
      BY <1>5, <1>6, <2>1
    <3>2. DayChecks(r) => attendances[e.link].status = "OPEN"
      BY <1>0, <1>1 DEF DayChecks, IsOpen
    <3> QED
      BY <1>2, <2>1, <3>1, <3>2
  <2>2. CASE c # new
    <3>1. CashiersNest
      BY <1>1, DayWriteFacts
    <3> QED
      BY <1>2, <1>9, <2>2, <3>1 DEF CashiersNest
  <2> QED
    BY <2>1, <2>2
<1>12. CashierIsClockedIn'
  <2>1. CashierIsClockedIn
    BY <1>1, DayWriteFacts
  <2> SUFFICES ASSUME NEW c \in DOMAIN cashiers'
               PROVE  LET a == attendances[cashiers'[c].attendance]
                      IN  a.staff = cashiers'[c].staff /\ a.till = cashiers'[c].till
    BY <1>1 DEF CashierIsClockedIn
  <2>2. CASE c = new
    BY <1>4, <1>5, <1>6, <2>2
  <2>3. CASE c # new
    BY <1>6, <2>1, <2>3 DEF CashierIsClockedIn
  <2> QED
    BY <2>2, <2>3
<1>13. OneShift' /\ OneAttendance' /\ AttendancesNest'
  <2>1. OneShift /\ OneAttendance /\ AttendancesNest
    BY <1>1, DayWriteFacts
  <2> QED
    BY <1>1, <1>2, <2>1, DayUntouched
<1>14. DayHolds'
  BY <1>10, <1>11, <1>12, <1>13, PTL, DayParts
<1> QED
  BY <1>2, <1>7, <1>8, <1>14 DEF DayInv

\* A cashier session's row is closed, or takes one more sale: who and where stay what they were.
LEMMA CashierRewritten ==
    ASSUME DayInv, NEW r \in Desks, NEW table, NEW n \in DOMAIN cashiers, NEW row \in CashierRow,
           Written(r, table, n), shifts' = shifts, attendances' = attendances,
           cashiers' = [cashiers EXCEPT ![n] = row],
           row.attendance = cashiers[n].attendance,
           row.staff = cashiers[n].staff, row.till = cashiers[n].till,
           row.status \in {cashiers[n].status, "CLOSED"}
    PROVE  DayInv'
<1>1. /\ desk' \in [Desks -> Errands] /\ overtaken' \subseteq Desks /\ DayStillTrue'
      /\ blind \subseteq blind' /\ policy' \in DayPolicies \cup {DefaultDayPolicy}
  BY DayWriteFacts
<1>2. /\ shifts \in Seq(ShiftRow) /\ attendances \in Seq(AttendanceRow) /\ cashiers \in Seq(CashierRow)
      /\ \A a \in DOMAIN attendances : attendances[a].shift \in {0} \cup DOMAIN shifts
      /\ \A c \in DOMAIN cashiers : cashiers[c].attendance \in DOMAIN attendances
  BY DEF DayInv, WorkforceTypeOK
<1>3. /\ cashiers' \in Seq(CashierRow)
      /\ DOMAIN cashiers' = DOMAIN cashiers
      /\ \A m \in DOMAIN cashiers \ {n} : cashiers'[m] = cashiers[m]
      /\ cashiers'[n] = row
  BY <1>2
<1>4. \A c \in DOMAIN cashiers :
          /\ cashiers'[c].attendance = cashiers[c].attendance
          /\ cashiers'[c].staff = cashiers[c].staff /\ cashiers'[c].till = cashiers[c].till
  BY <1>3
<1>5. \A c \in OpenRows(cashiers)' : c \in OpenRows(cashiers) /\ c \in DOMAIN cashiers
  BY <1>3 DEF OpenRows
<1>6. WorkforceTypeOK'
  BY <1>1, <1>2, <1>3, <1>4 DEF WorkforceTypeOK
<1>7. \A q \in Desks : RowsExist(q)'
  BY <1>3, RowsStay DEF Written
<1>8. OneCashier'
  <2>1. OneCashier
    BY DayWriteFacts
  <2> QED
    BY <1>1, <1>4, <1>5, <2>1 DEF OneCashier
<1>9. CashiersNest'
  <2>1. CashiersNest
    BY DayWriteFacts
  <2> QED
    BY <1>1, <1>4, <1>5, <2>1 DEF CashiersNest
<1>10. CashierIsClockedIn'
  <2>1. CashierIsClockedIn
    BY DayWriteFacts
  <2> QED
    BY <1>3, <1>4, <2>1 DEF CashierIsClockedIn
<1>11. OneShift' /\ OneAttendance' /\ AttendancesNest'
  <2>1. OneShift /\ OneAttendance /\ AttendancesNest
    BY DayWriteFacts
  <2> QED
    BY <1>1, <2>1, DayUntouched
<1>12. DayHolds'
  BY <1>8, <1>9, <1>10, <1>11, PTL, DayParts
<1> QED
  BY <1>1, <1>6, <1>7, <1>12 DEF DayInv

\* Closing a cashier session keeps its person, its till and its attendance.
LEMMA CashierCloses ==
    ASSUME DayInv, NEW r \in Desks, StoreCashierEnd(r)
    PROVE  DayInv'
<1> DEFINE n == desk[r].row
           row == [cashiers[n] EXCEPT !.status = "CLOSED"]
<1>1. /\ Written(r, "cashier", n) /\ desk[r].op = "close cashier" /\ shifts' = shifts /\ attendances' = attendances
      /\ cashiers' = [cashiers EXCEPT ![n].status = "CLOSED"]
  BY DEF StoreCashierEnd, Doing
<1>2. n \in DOMAIN cashiers
  <2>1. RowsExist(r)
    BY <1>1, DayWriteFacts
  <2> QED
    BY <1>1, <2>1 DEF RowsExist
<1>3. cashiers[n] \in CashierRow
  BY <1>2 DEF DayInv, WorkforceTypeOK
<1>4. /\ row \in CashierRow /\ row.attendance = cashiers[n].attendance
      /\ row.staff = cashiers[n].staff /\ row.till = cashiers[n].till /\ row.status = "CLOSED"
  BY <1>3 DEF CashierRow, RowStatus
<1>5. cashiers' = [cashiers EXCEPT ![n] = row]
  BY <1>1
<1> HIDE DEF n, row
<1> QED
  BY <1>1, <1>2, <1>4, <1>5, CashierRewritten

\* A sale changes the count of a session and nothing else.
LEMMA CashierBills ==
    ASSUME DayInv, NEW r \in Desks, StoreBill(r)
    PROVE  DayInv'
<1> DEFINE n == desk[r].row
           row == [cashiers[n] EXCEPT !.sales = @ + 1]
<1>1. /\ Written(r, "sale", n) /\ desk[r].op = "bill" /\ shifts' = shifts /\ attendances' = attendances
      /\ cashiers' = [cashiers EXCEPT ![n].sales = @ + 1]
  BY DEF StoreBill, Doing
<1>2. n \in DOMAIN cashiers
  <2>1. RowsExist(r)
    BY <1>1, DayWriteFacts
  <2> QED
    BY <1>1, <2>1 DEF RowsExist
<1>3. cashiers[n] \in CashierRow
  BY <1>2 DEF DayInv, WorkforceTypeOK
<1>4. /\ row \in CashierRow /\ row.attendance = cashiers[n].attendance
      /\ row.staff = cashiers[n].staff /\ row.till = cashiers[n].till /\ row.status = cashiers[n].status
  BY <1>3 DEF CashierRow, RowStatus
<1>5. cashiers' = [cashiers EXCEPT ![n] = row]
  BY <1>1
<1> HIDE DEF n, row
<1> QED
  BY <1>1, <1>2, <1>4, <1>5, CashierRewritten

-----------------------------------------------------------------------------
(* The whole. *)

\* A request that fails writes nothing.
LEMMA FailureInv ==
    ASSUME DayInv, NEW r \in Desks, DeskFails(r)
    PROVE  DayInv'
<1>1. desk \in [Desks -> Errands] /\ overtaken \subseteq Desks
  BY DEF DayInv, WorkforceTypeOK
<1>2. /\ desk' = [desk EXCEPT ![r] = Idle] /\ overtaken' = overtaken \ {r} /\ blind' = blind
      /\ UNCHANGED <<policy, shifts, attendances, cashiers>>
  BY DEF DeskFails, RolledBack, workforceRows
<1>3. desk'[r].op = "none" /\ \A q \in Desks \ {r} : desk'[q] = desk[q]
  BY <1>1, <1>2 DEF Idle
<1>4. desk' \in [Desks -> Errands]
  BY <1>1, <1>2 DEF Errands
<1>5. WorkforceTypeOK'
  BY <1>1, <1>2, <1>4 DEF DayInv, WorkforceTypeOK
<1>6. \A q \in Desks : RowsExist(q)'
  <2> SUFFICES ASSUME NEW q \in Desks PROVE RowsExist(q)'
    OBVIOUS
  <2>1. CASE q = r
    BY <1>3, <2>1 DEF RowsExist
  <2>2. CASE q # r
    <3>1. desk'[q] = desk[q] /\ RowsExist(q)
      BY <1>3, <2>2 DEF DayInv
    <3> QED
      BY <1>2, <3>1 DEF RowsExist
  <2> QED
    BY <2>1, <2>2
<1>7. DayStillTrue'
  <2> SUFFICES ASSUME NEW q \in Desks, q \notin overtaken' PROVE DayChecks(q)'
    BY DEF DayStillTrue
  <2>1. CASE q = r
    BY <1>3, <2>1 DEF DayChecks
  <2>2. CASE q # r
    <3>1. desk'[q] = desk[q] /\ DayChecks(q)
      BY <1>2, <1>3, <2>2 DEF DayInv, DayStillTrue
    <3> QED
      BY <1>2, <3>1 DEF DayChecks, IsOpen
  <2> QED
    BY <2>1, <2>2
<1>8. DayHolds'
  BY <1>2 DEF DayInv, DayHolds, DayNests, OneOpenEach, CashierIsClockedIn, OpenRows
<1> QED
  BY <1>5, <1>6, <1>7, <1>8 DEF DayInv

\* A new policy, or nothing at all, disturbs nothing: what is checked under a policy is not kept
\* under another.
LEMMA PolicyInv ==
    ASSUME DayInv, UNCHANGED <<shifts, attendances, cashiers, deskVars>>,
           policy' \in DayPolicies \cup {DefaultDayPolicy}
    PROVE  DayInv'
<1>1. UNCHANGED <<shifts, attendances, cashiers, desk, overtaken, blind>>
  BY DEF deskVars
<1>2. WorkforceTypeOK'
  BY <1>1 DEF DayInv, WorkforceTypeOK
<1>3. \A q \in Desks : RowsExist(q)'
  BY <1>1 DEF DayInv, RowsExist
<1>4. DayStillTrue'
  <2> SUFFICES ASSUME NEW q \in Desks, q \notin overtaken' PROVE DayChecks(q)'
    BY DEF DayStillTrue
  <2>1. DayChecks(q)
    BY <1>1 DEF DayInv, DayStillTrue
  <2> QED
    BY <1>1, <2>1 DEF DayChecks, IsOpen
<1>5. DayHolds'
  BY <1>1 DEF DayInv, DayHolds, DayNests, OneOpenEach, CashierIsClockedIn, OpenRows
<1> QED
  BY <1>2, <1>3, <1>4, <1>5 DEF DayInv

\* A branch without rows.
LEMMA DayInit == WorkforceInit => DayInv
<1> SUFFICES ASSUME WorkforceInit PROVE DayInv
  OBVIOUS
<1>1. /\ policy = DefaultDayPolicy /\ shifts = <<>> /\ attendances = <<>> /\ cashiers = <<>>
      /\ desk = [r \in Desks |-> Idle] /\ overtaken = {} /\ blind = {}
  BY DEF WorkforceInit, DeskInit
<1>2. DOMAIN shifts = {} /\ DOMAIN attendances = {} /\ DOMAIN cashiers = {}
  BY <1>1
<1>3. desk \in [Desks -> Errands] /\ \A r \in Desks : desk[r].op = "none"
  BY <1>1 DEF Errands, Idle
<1>4. WorkforceTypeOK
  BY <1>1, <1>2, <1>3 DEF WorkforceTypeOK
<1>5. (\A r \in Desks : RowsExist(r)) /\ DayStillTrue
  BY <1>3 DEF RowsExist, DayStillTrue, DayChecks
<1>6. DayHolds
  BY <1>2 DEF DayHolds, DayNests, OneOpenEach, CashierIsClockedIn, OpenRows
<1> QED
  BY <1>4, <1>5, <1>6 DEF DayInv

\* Every step keeps the invariant.
LEMMA DayStep == DayInv /\ [WorkforceNext]_workforceVars => DayInv'
<1> SUFFICES ASSUME DayInv, [WorkforceNext]_workforceVars PROVE DayInv'
  OBVIOUS
<1>1. ASSUME NEW r \in Desks, Check(r) PROVE DayInv'
  BY <1>1, ReadInv
<1>2. ASSUME NEW r \in Desks, Write(r) PROVE DayInv'
  BY <1>2, ShiftOpens, ShiftCloses, AttendanceOpens, AttendanceCloses,
     CashierOpens, CashierCloses, CashierBills DEF Write
<1>3. ASSUME NEW r \in Desks, DeskFails(r) PROVE DayInv'
  BY <1>3, FailureInv
<1>4. ASSUME NEW p \in DayPolicies, UpdatePolicy(p) PROVE DayInv'
  BY <1>4, PolicyInv DEF UpdatePolicy
<1>5. CASE UNCHANGED workforceVars
  <2>1. policy \in DayPolicies \cup {DefaultDayPolicy}
    BY DEF DayInv, WorkforceTypeOK
  <2> QED
    BY <1>5, <2>1, PolicyInv DEF workforceVars, workforceRows
<1> QED
  BY <1>1, <1>2, <1>3, <1>4, <1>5 DEF WorkforceNext

\* The invariant of the working day: types, what requests have in hand, and DayHolds.
THEOREM WorkforceInvariant == WorkforceSpec => []DayInv
  BY DayInit, DayStep, PTL DEF WorkforceSpec

\* Sessions nest, nothing is open twice at a till or for a member of staff, and a cashier is clocked
\* in, whatever the number of requests under way; only an overtaken request's row escapes it.
THEOREM WorkforceDayHolds == WorkforceSpec => []DayHolds
<1>1. DayInv => DayHolds
  BY DEF DayInv
<1> QED
  BY WorkforceInvariant, <1>1, PTL

-----------------------------------------------------------------------------
(* The devices and the hub of a branch. *)

DeviceRow     == [installation: Installations \cup {None}, hub: BOOLEAN]
ClaimRow      == [installation: Installations, device: Nat]
ActivationRow == [device: Nat, version: Nat, status: {"ISSUED", "ACTIVE", "SUPERSEDED"},
                  token: Nat, unlocked: BOOLEAN]

Typed ==
    /\ devices \in Seq(DeviceRow) /\ claims \in Seq(ClaimRow) /\ activations \in Seq(ActivationRow)
    /\ redeemed \in Seq(Installations)
    /\ seat \in [{Holder[i] : i \in Installations} -> {None, "store_desktop", "store_mobile"}]
    /\ desk = [r \in Desks |-> desk[r]] /\ overtaken \subseteq Desks

IsLive(a) == activations[a].status \in {"ISSUED", "ACTIVE"}

\* What the rows of the tables say of each other.
OneDevice ==
    \A d, e \in DOMAIN devices :
        devices[d].installation # None /\ devices[d].installation = devices[e].installation => d = e
ClaimsRefer ==
    \A c \in DOMAIN claims : LET d == claims[c].device IN
        d # 0 => d \in DOMAIN devices /\ devices[d].installation = claims[c].installation
ActivationsRefer ==
    \A a \in DOMAIN activations : LET d == activations[a].device IN
        /\ d \in DOMAIN devices /\ devices[d].installation \in Installations
        /\ activations[a].version \in 1 .. Len(activations)
SeatsTaken ==
    \A a \in DOMAIN activations : LET i == devices[activations[a].device].installation IN
        activations[a].token # 0 => seat[Holder[i]] = Surface[i]
Rows == OneDevice /\ ClaimsRefer /\ ActivationsRefer /\ SeatsTaken

\* The rows a request has in hand are there.
Holds(r) ==
    LET e == desk[r] IN
    /\ e.op = "register" => e.hub \in BOOLEAN
    /\ e.op = "claim" => e.installation \in Installations
    /\ e.op = "approve" =>
         /\ e.claim \in DOMAIN claims /\ e.hub \in BOOLEAN
         /\ \A d \in e.found :
              e.found = {d} /\ d \in DOMAIN devices /\ devices[d].installation = claims[e.claim].installation
    /\ e.op = "issue" =>
         /\ e.device \in DOMAIN devices /\ devices[e.device].installation \in Installations
         /\ e.version \in 1 .. Len(activations) + 1
    /\ e.op \in {"redeem", "unlock"} => e.activation \in DOMAIN activations

\* What it has checked.
Checks(r) ==
    LET e == desk[r] IN
    /\ e.op \in {"register", "approve"} /\ e.hub /\ (e.op = "approve" => e.found = {}) =>
         \A d \in DOMAIN devices : ~devices[d].hub
    /\ e.op = "issue" =>
         \A a \in DOMAIN activations : activations[a].device = e.device /\ IsLive(a) => a \in e.old
    /\ e.op = "redeem" => activations[e.activation].status = "ISSUED"

StillTrue == \A r \in Desks : r \notin overtaken => Checks(r)

\* One hub and one live activation of a device, but for blind rows.
OneHub ==
    \A d, e \in DOMAIN devices : devices[d].hub /\ devices[e].hub /\ d < e => <<"device", e>> \in blind
OneActivation ==
    \A a, b \in DOMAIN activations :
        activations[a].device = activations[b].device /\ IsLive(a) /\ IsLive(b) /\ a < b =>
            <<"activation", a>> \in blind \/ <<"activation", b>> \in blind

DeviceInv ==
    /\ Typed /\ Rows
    /\ \A r \in Desks : Holds(r)
    /\ StillTrue
    /\ OneHub /\ OneActivation

-----------------------------------------------------------------------------
(* The property. *)

\* A row of a table is a row of its type.
LEMMA ClaimsAreRows ==
    ASSUME DeviceInv, NEW c \in DOMAIN claims
    PROVE  claims[c].installation \in Installations /\ claims[c].device \in Nat
<1>1. claims[c] \in ClaimRow
  BY DEF DeviceInv, Typed
<1> QED
  BY <1>1 DEF ClaimRow

\* A row of the devices is one.
LEMMA DevicesAreRows ==
    ASSUME DeviceInv, NEW d \in DOMAIN devices
    PROVE  devices[d].installation \in Installations \cup {None} /\ devices[d].hub \in BOOLEAN /\ d \in Nat \ {0}
<1>1. devices[d] \in DeviceRow /\ d \in Nat \ {0}
  BY DEF DeviceInv, Typed
<1> QED
  BY <1>1 DEF DeviceRow

\* The invariant says what the run checks: claims, hubs, activations and seats agree.
LEMMA DeviceInvShows == DeviceInv => DevicesAgree
<1> SUFFICES ASSUME DeviceInv PROVE DevicesAgree
  OBVIOUS
<1>1. ClaimsAgree
  <2> SUFFICES ASSUME NEW c \in DOMAIN claims, claims[c].device # 0
               PROVE  DeviceOf(claims[c].installation) = {claims[c].device}
    BY DEF ClaimsAgree
  <2>1. claims[c].device \in DOMAIN devices /\ devices[claims[c].device].installation = claims[c].installation
    BY DEF DeviceInv, Rows, ClaimsRefer
  <2>2. claims[c].installation \in Installations
    BY ClaimsAreRows
  <2>3. claims[c].installation # None
    BY <2>2, DeviceAccessAssumption DEF None
  <2> QED
    BY <2>1, <2>3 DEF DeviceOf, DeviceInv, Rows, OneDevice
<1>2. OneHubOneActivation
  <2>1. \A d, e \in HubDevices : d < e => ~Seen("device", e)
    BY DEF DeviceInv, OneHub, HubDevices, Seen
  <2>2. \A d \in DOMAIN devices : \A a, b \in Live(d) : a < b => ~Seen("activation", a) \/ ~Seen("activation", b)
    BY DEF DeviceInv, OneActivation, Live, ActivationsOf, IsLive, Seen
  <2> QED
    BY <2>1, <2>2 DEF OneHubOneActivation
<1>3. OneSurfacePerHolder
  BY DEF DeviceInv, Rows, SeatsTaken, OneSurfacePerHolder
<1> QED
  BY <1>1, <1>2, <1>3 DEF DevicesAgree

-----------------------------------------------------------------------------
(* The desks. *)

\* A request that has just read knows what it has read; the others know what they knew.
LEMMA ReadsAreTrue ==
    ASSUME DeviceInv, NEW r \in Desks, NEW e, Opens(r, e), Holds(r)', Checks(r)'
    PROVE  DeviceInv'
<1>1. desk = [q \in Desks |-> desk[q]]
  BY DEF DeviceInv, Typed
<1>2. /\ desk' = [desk EXCEPT ![r] = e]
      /\ UNCHANGED <<devices, claims, activations, redeemed, seat, lifecycle, overtaken, blind>>
  BY DEF Opens, Checked, deviceRows
<1>3. desk' = [q \in Desks |-> desk'[q]] /\ \A q \in Desks \ {r} : desk'[q] = desk[q]
  BY <1>1, <1>2
<1>4. Typed' /\ Rows' /\ OneHub' /\ OneActivation'
  BY <1>2, <1>3 DEF DeviceInv, Typed, Rows, OneDevice, ClaimsRefer, ActivationsRefer, SeatsTaken,
                    OneHub, OneActivation, IsLive
<1>5. \A q \in Desks : Holds(q)'
  <2> SUFFICES ASSUME NEW q \in Desks \ {r} PROVE Holds(q)'
    OBVIOUS
  <2>1. Holds(q) /\ desk'[q] = desk[q]
    BY <1>3 DEF DeviceInv
  <2> QED
    BY <1>2, <2>1 DEF Holds
<1>6. StillTrue'
  <2> SUFFICES ASSUME NEW q \in Desks \ {r}, q \notin overtaken' PROVE Checks(q)'
    BY DEF StillTrue
  <2>1. Checks(q) /\ desk'[q] = desk[q]
    BY <1>2, <1>3 DEF DeviceInv, StillTrue
  <2> QED
    BY <1>2, <2>1 DEF Checks, IsLive
<1> QED
  BY <1>4, <1>5, <1>6 DEF DeviceInv

\* A commit overtakes every other request, and only an overtaken one writes blindly.
LEMMA CommitOvertakes ==
    ASSUME DeviceInv, NEW r \in Desks, NEW rows, Committed(r, rows)
    PROVE  /\ desk' = [q \in Desks |-> desk'[q]] /\ overtaken' \subseteq Desks
           /\ \A q \in Desks : desk'[q] = Idle \/ desk'[q] = desk[q]
           /\ StillTrue'
           /\ blind \subseteq blind'
           /\ Checks(r) \/ rows \subseteq blind'
<1>1. desk = [q \in Desks |-> desk[q]] /\ overtaken \subseteq Desks
  BY DEF DeviceInv, Typed
<1>2. desk' = [desk EXCEPT ![r] = Idle]
  BY DEF Committed
<1>3. desk' = [q \in Desks |-> desk'[q]] /\ \A q \in Desks : desk'[q] = Idle \/ desk'[q] = desk[q]
  BY <1>1, <1>2
<1>4. overtaken' \subseteq Desks
  BY <1>1 DEF Committed
<1>5. ASSUME NEW q \in Desks, q \notin overtaken'
      PROVE  desk'[q].op = "none"
  <2>1. q = r \/ desk[q] = Idle
    BY <1>5 DEF Committed
  <2> QED
    BY <1>1, <1>2, <2>1 DEF Idle
<1>6. StillTrue'
  BY <1>5 DEF StillTrue, Checks
<1>7. Checks(r) \/ rows \subseteq blind'
  BY DEF Committed, DeviceInv, StillTrue
<1> QED
  BY <1>3, <1>4, <1>6, <1>7 DEF Committed

\* The rows that requests have in hand stay.
LEMMA HandsStay ==
    ASSUME DeviceInv,
           \A q \in Desks : desk'[q] = Idle \/ desk'[q] = desk[q],
           \A d \in DOMAIN devices : d \in DOMAIN devices' /\ devices'[d].installation = devices[d].installation,
           \A c \in DOMAIN claims : c \in DOMAIN claims' /\ claims'[c].installation = claims[c].installation,
           DOMAIN activations \subseteq DOMAIN activations',
           Len(activations) \in Nat, Len(activations') \in Nat, Len(activations) <= Len(activations')
    PROVE  \A q \in Desks : Holds(q)'
<1> SUFFICES ASSUME NEW q \in Desks PROVE Holds(q)'
  OBVIOUS
<1>1. CASE desk'[q] = Idle
  <2>1. desk'[q].op = "none"
    BY <1>1 DEF Idle
  <2> QED
    BY <2>1 DEF Holds
<1>2. CASE desk'[q] = desk[q]
  <2>1. Holds(q)
    BY DEF DeviceInv
  <2>2. desk[q].op = "issue" => desk[q].version \in 1 .. Len(activations') + 1
    BY <2>1 DEF Holds
  <2> QED
    BY <1>2, <2>1, <2>2 DEF Holds
<1> QED
  BY <1>1, <1>2

-----------------------------------------------------------------------------
(* The reads. *)

\* A non-empty set of numbers of a table has a greatest one.
LEMMA NewestNumber ==
    ASSUME NEW N \in Nat, NEW S \in SUBSET (1 .. N), S # {}
    PROVE  Newest(S) \in S
<1> DEFINE R == OpToRel(<, Nat)
           T == {k \in Nat : \E n \in S : k = N - n}
<1>1. IsWellFoundedOn(R, Nat)
  BY NatLessThanWellFounded
<1>2. \A x, y \in Nat : x < y => <<x, y>> \in R
  BY DEF OpToRel
<1> HIDE DEF R
<1>3. T \subseteq Nat /\ T # {}
  <2>1. PICK n \in S : TRUE
    OBVIOUS
  <2>2. N - n \in Nat
    BY <2>1
  <2> QED
    BY <2>1, <2>2
<1>4. PICK k \in T : \A j \in T : ~(<<j, k>> \in R)
  BY <1>1, <1>3, WFMin
<1>5. PICK n \in S : k = N - n
  BY <1>4
<1>6. \A m \in S : m <= n
  <2> SUFFICES ASSUME NEW m \in S, ~(m <= n) PROVE FALSE
    OBVIOUS
  <2>1. N - m \in T /\ N - m < k /\ k \in Nat
    BY <1>5
  <2> QED
    BY <2>1, <1>2, <1>4
<1> QED
  BY <1>5, <1>6 DEF Newest

\* The version a new activation goes on from is at most the number of activations.
LEMMA VersionsAreFew ==
    ASSUME DeviceInv, NEW d
    PROVE  LatestVersion(d) \in 0 .. Len(activations) /\ Len(activations) \in Nat
<1> DEFINE S == {activations[a].version : a \in ActivationsOf(d)}
<1>1. Len(activations) \in Nat
  BY DEF DeviceInv, Typed
<1>2. S \in SUBSET (1 .. Len(activations))
  BY DEF DeviceInv, Rows, ActivationsRefer, ActivationsOf
<1>3. CASE S = {}
  BY <1>1, <1>3 DEF LatestVersion
<1>4. CASE S # {}
  <2>1. Newest(S) \in S
    BY <1>1, <1>2, <1>4, NewestNumber
  <2>2. LatestVersion(d) = Newest(S)
    BY <1>4 DEF LatestVersion
  <2>3. Newest(S) \in 1 .. Len(activations)
    BY <1>2, <2>1
  <2> QED
    BY <1>1, <2>2, <2>3
<1> QED
  BY <1>3, <1>4

\* What a request does when it begins.
LEMMA Opened ==
    ASSUME DeviceInv, NEW r \in Desks, NEW e, Opens(r, e)
    PROVE  desk'[r] = e /\ UNCHANGED <<devices, claims, activations>>
BY DEF Opens, Checked, deviceRows, DeviceInv, Typed

\* A registration of a hub has found none.
LEMMA RegisterReads ==
    ASSUME DeviceInv, NEW r \in Desks, NEW hub \in BOOLEAN, RegisterDevice(r, hub)
    PROVE  DeviceInv'
<1> DEFINE e == [op |-> "register", hub |-> hub]
<1>1. Opens(r, e) /\ (hub => \A d \in DOMAIN devices : ~devices[d].hub)
  BY DEF RegisterDevice, HubDevices
<1>2. desk'[r] = e /\ UNCHANGED <<devices, claims, activations>>
  BY <1>1, Opened
<1>3. e.op = "register" /\ e.hub = hub
  OBVIOUS
<1> HIDE DEF e
<1>4. Holds(r)' /\ Checks(r)'
  BY <1>1, <1>2, <1>3 DEF Holds, Checks
<1> QED
  BY <1>1, <1>4, ReadsAreTrue

\* A claim reads nothing that its write depends on.
LEMMA ClaimReads ==
    ASSUME DeviceInv, NEW r \in Desks, NEW i \in Installations, ResolveClaim(r, i)
    PROVE  DeviceInv'
<1> DEFINE e == [op |-> "claim", installation |-> i]
<1>1. Opens(r, e)
  BY DEF ResolveClaim
<1>2. desk'[r] = e
  BY <1>1, Opened
<1>3. e.op = "claim" /\ e.installation = i
  OBVIOUS
<1> HIDE DEF e
<1>4. Holds(r)' /\ Checks(r)'
  BY <1>2, <1>3 DEF Holds, Checks
<1> QED
  BY <1>1, <1>4, ReadsAreTrue

\* An approval has found the installation's device, the only one, or none.
LEMMA ApprovalReads ==
    ASSUME DeviceInv, NEW r \in Desks, NEW c \in DOMAIN claims, ApproveClaim(r, c)
    PROVE  DeviceInv'
<1> DEFINE i == claims[c].installation
           e == [op |-> "approve", claim |-> c, hub |-> i \in Hubs, found |-> DeviceOf(i)]
<1>1. Opens(r, e) /\ (i \in Hubs => HubDevices \subseteq DeviceOf(i))
  BY DEF ApproveClaim
<1>2. desk'[r] = e /\ UNCHANGED <<devices, claims, activations>>
  BY <1>1, Opened
<1>3. e.op = "approve" /\ e.claim = c /\ e.hub = (i \in Hubs) /\ e.found = DeviceOf(i)
  OBVIOUS
<1>4. i \in Installations /\ i # None
  BY ClaimsAreRows, DeviceAccessAssumption DEF None
<1>5. \A d \in DeviceOf(i) : DeviceOf(i) = {d} /\ d \in DOMAIN devices /\ devices[d].installation = i
  BY <1>4 DEF DeviceOf, DeviceInv, Rows, OneDevice
<1>6. i \in Hubs /\ DeviceOf(i) = {} => \A d \in DOMAIN devices : ~devices[d].hub
  BY <1>1 DEF HubDevices
<1> HIDE DEF e
<1>7. Holds(r)'
  BY <1>2, <1>3, <1>5 DEF Holds
<1>8. Checks(r)'
  BY <1>2, <1>3, <1>6 DEF Checks
<1> QED
  BY <1>1, <1>7, <1>8, ReadsAreTrue

\* The one who issues a code has seen every live activation of the device.
LEMMA IssueReads ==
    ASSUME DeviceInv, NEW r \in Desks, NEW d \in DOMAIN devices,
           IssueDesktopActivation(r, d) \/ IssueRuntimeActivation(r, d)
    PROVE  DeviceInv'
<1> DEFINE e == [op |-> "issue", device |-> d, old |-> Live(d), version |-> LatestVersion(d) + 1]
<1>1. Opens(r, e) /\ devices[d].installation # None
  BY DEF IssueDesktopActivation, IssueRuntimeActivation, OnSurface, Issue
<1>2. desk'[r] = e /\ UNCHANGED <<devices, claims, activations>>
  BY <1>1, Opened
<1>3. e.op = "issue" /\ e.device = d /\ e.old = Live(d) /\ e.version = LatestVersion(d) + 1
  OBVIOUS
<1>4. devices[d].installation \in Installations
  BY <1>1, DevicesAreRows
<1>5. LatestVersion(d) + 1 \in 1 .. Len(activations) + 1
  BY VersionsAreFew
<1>6. \A a \in DOMAIN activations : activations[a].device = d /\ IsLive(a) => a \in Live(d)
  BY DEF Live, ActivationsOf, IsLive
<1> HIDE DEF e
<1>7. Holds(r)'
  BY <1>2, <1>3, <1>4, <1>5 DEF Holds
<1>8. Checks(r)'
  BY <1>2, <1>3, <1>6 DEF Checks, IsLive
<1> QED
  BY <1>1, <1>7, <1>8, ReadsAreTrue

\* A redemption has found the code unused.
LEMMA RedeemReads ==
    ASSUME DeviceInv, NEW r \in Desks, NEW a \in DOMAIN activations,
           RedeemDesktopActivation(r, a) \/ RedeemRuntimeActivation(r, a)
    PROVE  DeviceInv'
<1> DEFINE e == [op |-> "redeem", activation |-> a]
<1>1. Opens(r, e) /\ activations[a].status = "ISSUED"
  BY DEF RedeemDesktopActivation, RedeemRuntimeActivation, Redeem
<1>2. desk'[r] = e /\ UNCHANGED <<devices, claims, activations>>
  BY <1>1, Opened
<1>3. e.op = "redeem" /\ e.activation = a
  OBVIOUS
<1> HIDE DEF e
<1>4. Holds(r)' /\ Checks(r)'
  BY <1>1, <1>2, <1>3 DEF Holds, Checks
<1> QED
  BY <1>1, <1>4, ReadsAreTrue

\* An unlock has an activation in hand, and nothing else.
LEMMA UnlockReads ==
    ASSUME DeviceInv, NEW r \in Desks, NEW t, UnlockDesktop(r, t)
    PROVE  DeviceInv'
<1>1. PICK a \in DOMAIN activations : Opens(r, [op |-> "unlock", activation |-> a])
  BY DEF UnlockDesktop
<1> DEFINE e == [op |-> "unlock", activation |-> a]
<1>2. desk'[r] = e /\ UNCHANGED <<devices, claims, activations>>
  BY <1>1, Opened
<1>3. e.op = "unlock" /\ e.activation = a
  OBVIOUS
<1>4. Opens(r, e)
  BY <1>1
<1> HIDE DEF e
<1>5. Holds(r)' /\ Checks(r)'
  BY <1>2, <1>3 DEF Holds, Checks
<1> QED
  BY <1>4, <1>5, ReadsAreTrue

-----------------------------------------------------------------------------
(* The writes. *)

\* A new row comes after the others.
LEMMA RowAppended ==
    ASSUME NEW Row, NEW rows \in Seq(Row), NEW row \in Row, NEW after, after = Append(rows, row),
           NEW new, new = Len(rows) + 1
    PROVE  /\ after \in Seq(Row) /\ new \in Nat \ {0} /\ Len(after) = new
           /\ DOMAIN after = DOMAIN rows \cup {new}
           /\ after[new] = row
           /\ \A n \in DOMAIN rows : after[n] = rows[n] /\ n < new /\ n # new
OBVIOUS

\* What a write has in its favour.
LEMMA WriteFacts ==
    ASSUME DeviceInv, NEW r \in Desks, NEW rows, Committed(r, rows)
    PROVE  /\ desk' = [q \in Desks |-> desk'[q]] /\ overtaken' \subseteq Desks /\ StillTrue' /\ blind \subseteq blind'
           /\ \A q \in Desks : desk'[q] = Idle \/ desk'[q] = desk[q]
           /\ Holds(r) /\ (Checks(r) \/ rows \subseteq blind')
           /\ devices \in Seq(DeviceRow) /\ claims \in Seq(ClaimRow) /\ activations \in Seq(ActivationRow)
           /\ redeemed \in Seq(Installations)
           /\ seat \in [{Holder[i] : i \in Installations} -> {None, "store_desktop", "store_mobile"}]
           /\ Len(activations) \in Nat
           /\ OneDevice /\ ClaimsRefer /\ ActivationsRefer /\ SeatsTaken /\ OneHub /\ OneActivation
<1>1. /\ devices \in Seq(DeviceRow) /\ claims \in Seq(ClaimRow) /\ activations \in Seq(ActivationRow)
      /\ redeemed \in Seq(Installations)
      /\ seat \in [{Holder[i] : i \in Installations} -> {None, "store_desktop", "store_mobile"}]
  BY DEF DeviceInv, Typed
<1>2. Holds(r) /\ OneDevice /\ ClaimsRefer /\ ActivationsRefer /\ SeatsTaken /\ OneHub /\ OneActivation
  BY DEF DeviceInv, Rows
<1>3. Len(activations) \in Nat
  BY <1>1
<1> QED
  BY <1>1, <1>2, <1>3, CommitOvertakes

\* A write that leaves a table alone leaves true what is said of it.
LEMMA Untouched ==
    ASSUME blind \subseteq blind'
    PROVE  /\ OneDevice /\ devices' = devices => OneDevice'
           /\ ClaimsRefer /\ claims' = claims /\ devices' = devices => ClaimsRefer'
           /\ ActivationsRefer /\ activations' = activations /\ devices' = devices => ActivationsRefer'
           /\ SeatsTaken /\ activations' = activations /\ devices' = devices /\ seat' = seat => SeatsTaken'
           /\ OneHub /\ devices' = devices => OneHub'
           /\ OneActivation /\ activations' = activations => OneActivation'
<1>1. OneDevice /\ devices' = devices => OneDevice'
  BY DEF OneDevice
<1>2. ClaimsRefer /\ claims' = claims /\ devices' = devices => ClaimsRefer'
  BY DEF ClaimsRefer
<1>3. ActivationsRefer /\ activations' = activations /\ devices' = devices => ActivationsRefer'
  BY DEF ActivationsRefer
<1>4. SeatsTaken /\ activations' = activations /\ devices' = devices /\ seat' = seat => SeatsTaken'
  BY DEF SeatsTaken
<1>5. OneHub /\ devices' = devices => OneHub'
  BY DEF OneHub
<1>6. OneActivation /\ activations' = activations => OneActivation'
  BY DEF OneActivation, IsLive
<1> QED
  BY <1>1, <1>2, <1>3, <1>4, <1>5, <1>6

\* A new device: a hub only where there was none, or blind.
LEMMA DeviceAdded ==
    ASSUME DeviceInv, NEW r \in Desks, NEW rows, Committed(r, rows),
           NEW row \in DeviceRow, devices' = Append(devices, row),
           NEW new, new = Len(devices) + 1, <<"device", new>> \in rows,
           row.installation # None => \A d \in DOMAIN devices : devices[d].installation # row.installation,
           row.hub /\ Checks(r) => \A d \in DOMAIN devices : ~devices[d].hub,
           activations' = activations, seat' = seat
    PROVE  /\ devices' \in Seq(DeviceRow) /\ DOMAIN devices' = DOMAIN devices \cup {new}
           /\ \A d \in DOMAIN devices : d # new /\ devices'[d] = devices[d]
           /\ devices'[new] = row /\ new \in Nat \ {0}
           /\ OneDevice' /\ OneHub' /\ ActivationsRefer' /\ SeatsTaken'
<1>1. /\ devices \in Seq(DeviceRow) /\ blind \subseteq blind'
      /\ Checks(r) \/ <<"device", new>> \in blind'
      /\ OneDevice /\ OneHub /\ ActivationsRefer /\ SeatsTaken
  BY WriteFacts
<1>2. /\ devices' \in Seq(DeviceRow) /\ new \in Nat \ {0}
      /\ DOMAIN devices' = DOMAIN devices \cup {new}
      /\ devices'[new] = row
      /\ \A d \in DOMAIN devices : devices'[d] = devices[d] /\ d < new /\ d # new
  BY <1>1, RowAppended
<1>3. OneDevice'
  BY <1>1, <1>2 DEF OneDevice
<1>4. OneHub'
  <2> SUFFICES ASSUME NEW d \in DOMAIN devices', NEW e \in DOMAIN devices',
                      devices'[d].hub, devices'[e].hub, d < e
               PROVE  <<"device", e>> \in blind'
    BY DEF OneHub
  <2>1. d \in DOMAIN devices /\ devices[d].hub
    <3>1. e \in Nat /\ (e = new \/ e < new)
      BY <1>1, <1>2
    <3> QED
      BY <1>2, <3>1
  <2>2. CASE e = new
    BY <1>1, <1>2, <2>1, <2>2
  <2>3. CASE e # new
    BY <1>1, <1>2, <2>1, <2>3 DEF OneHub
  <2> QED
    BY <2>2, <2>3
<1>5. ActivationsRefer'
  BY <1>1, <1>2 DEF ActivationsRefer
<1>6. SeatsTaken'
  <2>1. \A a \in DOMAIN activations : devices'[activations[a].device] = devices[activations[a].device]
    BY <1>1, <1>2 DEF ActivationsRefer
  <2> QED
    BY <1>1, <2>1 DEF SeatsTaken
<1> QED
  BY <1>2, <1>3, <1>4, <1>5, <1>6

\* A registration adds a device without an installation.
LEMMA RegistrationWrites ==
    ASSUME DeviceInv, NEW r \in Desks, StoreRegistration(r)
    PROVE  DeviceInv'
<1>0. PICK new, row, rows :
        /\ new = Len(devices) + 1 /\ row = [installation |-> None, hub |-> desk[r].hub]
        /\ rows = {<<"device", new>>}
  OBVIOUS
<1>1. /\ desk[r].op = "register" /\ devices' = Append(devices, row) /\ Committed(r, rows)
      /\ UNCHANGED <<claims, activations, redeemed, seat, lifecycle>>
  BY <1>0 DEF StoreRegistration, Doing
<1>2. /\ desk' = [q \in Desks |-> desk'[q]] /\ overtaken' \subseteq Desks /\ StillTrue' /\ blind \subseteq blind'
      /\ \A q \in Desks : desk'[q] = Idle \/ desk'[q] = desk[q]
      /\ Holds(r) /\ claims \in Seq(ClaimRow) /\ activations \in Seq(ActivationRow)
      /\ redeemed \in Seq(Installations) /\ Len(activations) \in Nat
      /\ seat \in [{Holder[i] : i \in Installations} -> {None, "store_desktop", "store_mobile"}]
  BY <1>1, WriteFacts
<1>3. desk[r].hub \in BOOLEAN
  BY <1>1, <1>2 DEF Holds
<1>4. row \in DeviceRow /\ row.installation = None /\ row.hub = desk[r].hub
  BY <1>0, <1>3 DEF DeviceRow
<1>5. desk[r].hub /\ Checks(r) => \A d \in DOMAIN devices : ~devices[d].hub
  BY <1>1 DEF Checks
<1>51. <<"device", new>> \in rows
  BY <1>0
<1>52. new = Len(devices) + 1
  BY <1>0
<1>53. row.installation # None => \A d \in DOMAIN devices : devices[d].installation # row.installation
  BY <1>4
<1>54. row.hub /\ Checks(r) => \A d \in DOMAIN devices : ~devices[d].hub
  BY <1>4, <1>5
<1>6. /\ devices' \in Seq(DeviceRow) /\ DOMAIN devices' = DOMAIN devices \cup {new}
      /\ \A d \in DOMAIN devices : d # new /\ devices'[d] = devices[d]
      /\ OneDevice' /\ OneHub' /\ ActivationsRefer' /\ SeatsTaken'
  BY <1>1, <1>4, <1>51, <1>52, <1>53, <1>54, DeviceAdded
<1>7. ClaimsRefer'
  <2>1. ClaimsRefer
    BY <1>1, WriteFacts
  <2> QED
    BY <1>1, <1>6, <2>1 DEF ClaimsRefer
<1>8. OneActivation'
  <2>1. OneActivation
    BY <1>1, WriteFacts
  <2> QED
    BY <1>1, <1>2, <2>1, Untouched
<1>9. \A q \in Desks : Holds(q)'
  BY <1>1, <1>2, <1>6, HandsStay
<1>10. Typed'
  BY <1>1, <1>2, <1>6 DEF Typed
<1> QED
  BY <1>2, <1>6, <1>7, <1>8, <1>9, <1>10 DEF DeviceInv, Rows

\* A new claim has no device.
LEMMA ClaimWrites ==
    ASSUME DeviceInv, NEW r \in Desks, StoreClaim(r)
    PROVE  DeviceInv'
<1> DEFINE row == [installation |-> desk[r].installation, device |-> 0]
<1>0. PICK new : new = Len(claims) + 1
  OBVIOUS
<1>1. /\ desk[r].op = "claim" /\ claims' = Append(claims, row) /\ Committed(r, {<<"claim", new>>})
      /\ UNCHANGED <<devices, activations, redeemed, seat, lifecycle>>
  BY <1>0 DEF StoreClaim, Doing
<1>2. /\ desk' = [q \in Desks |-> desk'[q]] /\ overtaken' \subseteq Desks /\ StillTrue' /\ blind \subseteq blind'
      /\ \A q \in Desks : desk'[q] = Idle \/ desk'[q] = desk[q]
      /\ Holds(r) /\ devices \in Seq(DeviceRow) /\ claims \in Seq(ClaimRow) /\ activations \in Seq(ActivationRow)
      /\ redeemed \in Seq(Installations) /\ Len(activations) \in Nat
      /\ seat \in [{Holder[i] : i \in Installations} -> {None, "store_desktop", "store_mobile"}]
  BY <1>1, WriteFacts
<1>3. desk[r].installation \in Installations
  BY <1>1, <1>2 DEF Holds
<1>4. row \in ClaimRow /\ row.device = 0
  BY <1>3 DEF ClaimRow
<1> HIDE DEF row
<1>5. /\ claims' \in Seq(ClaimRow) /\ DOMAIN claims' = DOMAIN claims \cup {new} /\ claims'[new] = row
      /\ \A c \in DOMAIN claims : claims'[c] = claims[c]
  <2>1. row \in ClaimRow /\ claims \in Seq(ClaimRow) /\ claims' = Append(claims, row)
    BY <1>1, <1>2, <1>4
  <2> QED
    BY <1>0, <2>1, RowAppended
<1>6. ClaimsRefer'
  <2>1. ClaimsRefer
    BY <1>1, WriteFacts
  <2> QED
    BY <1>1, <1>4, <1>5, <2>1 DEF ClaimsRefer
<1>7. OneDevice' /\ ActivationsRefer' /\ SeatsTaken' /\ OneHub' /\ OneActivation'
  <2>1. OneDevice /\ ActivationsRefer /\ SeatsTaken /\ OneHub /\ OneActivation
    BY <1>1, WriteFacts
  <2> QED
    BY <1>1, <1>2, <2>1, Untouched
<1>8. \A q \in Desks : Holds(q)'
  BY <1>1, <1>2, <1>5, HandsStay
<1>9. Typed'
  BY <1>1, <1>2, <1>5 DEF Typed
<1> QED
  BY <1>2, <1>6, <1>7, <1>8, <1>9 DEF DeviceInv, Rows

\* An approval names the device it found or the one it makes; no second one of the installation.
LEMMA ApprovalWrites ==
    ASSUME DeviceInv, NEW r \in Desks, StoreApproval(r)
    PROVE  DeviceInv'
<1>0. PICK c, found, hub : c = desk[r].claim /\ found = desk[r].found /\ hub = desk[r].hub
  OBVIOUS
<1>01. PICK i, d : i = claims[c].installation /\ d = IF found = {} THEN Len(devices) + 1 ELSE Newest(found)
  OBVIOUS
<1>1. /\ desk[r].op = "approve" /\ Committed(r, {<<"device", d>>})
      /\ claims' = [claims EXCEPT ![c].device = d]
      /\ UNCHANGED <<activations, redeemed, seat, lifecycle>>
      /\ found # {} => devices' = devices
      /\ found = {} => DeviceOf(i) = {} /\ devices' = Append(devices, [installation |-> i, hub |-> hub])
  BY <1>0, <1>01 DEF StoreApproval, Doing
<1>2. /\ desk' = [q \in Desks |-> desk'[q]] /\ overtaken' \subseteq Desks /\ StillTrue' /\ blind \subseteq blind'
      /\ \A q \in Desks : desk'[q] = Idle \/ desk'[q] = desk[q]
      /\ Holds(r) /\ devices \in Seq(DeviceRow) /\ claims \in Seq(ClaimRow) /\ activations \in Seq(ActivationRow)
      /\ redeemed \in Seq(Installations) /\ Len(activations) \in Nat
      /\ seat \in [{Holder[j] : j \in Installations} -> {None, "store_desktop", "store_mobile"}]
  BY <1>1, WriteFacts
<1>3. /\ c \in DOMAIN claims /\ hub \in BOOLEAN
      /\ \A e \in found : found = {e} /\ e \in DOMAIN devices /\ devices[e].installation = i
  BY <1>0, <1>01, <1>1, <1>2 DEF Holds
<1>4. i \in Installations /\ i # None
  BY <1>01, <1>3, ClaimsAreRows, DeviceAccessAssumption DEF None
<1>5. /\ devices' \in Seq(DeviceRow) /\ OneDevice' /\ OneHub' /\ ActivationsRefer' /\ SeatsTaken'
      /\ \A e \in DOMAIN devices : e \in DOMAIN devices' /\ devices'[e] = devices[e]
      /\ d \in DOMAIN devices' /\ devices'[d].installation = i /\ d \in Nat
  <2>1. CASE found # {}
    <3>1. PICK e \in found : found = {e} /\ e \in DOMAIN devices /\ devices[e].installation = i
      BY <1>3, <2>1
    <3>2. d = e
      BY <1>01, <2>1, <3>1 DEF Newest
    <3>3. d \in Nat
      BY <3>1, <3>2, DevicesAreRows
    <3>4. OneDevice /\ OneHub /\ ActivationsRefer /\ SeatsTaken
      BY <1>1, WriteFacts
    <3>5. OneDevice' /\ OneHub' /\ ActivationsRefer' /\ SeatsTaken'
      BY <1>1, <1>2, <2>1, <3>4, Untouched
    <3> QED
      BY <1>1, <1>2, <2>1, <3>1, <3>2, <3>3, <3>5
  <2>2. CASE found = {}
    <3>0. PICK row, rows : row = [installation |-> i, hub |-> hub] /\ rows = {<<"device", d>>}
      OBVIOUS
    <3>1. row \in DeviceRow /\ row.installation = i /\ row.hub = hub
      BY <1>3, <1>4, <3>0 DEF DeviceRow
    <3>2. devices' = Append(devices, row) /\ d = Len(devices) + 1
      BY <1>01, <1>1, <2>2, <3>0
    <3>21. Committed(r, rows) /\ <<"device", d>> \in rows
      BY <1>1, <3>0
    <3>3. row.installation # None => \A e \in DOMAIN devices : devices[e].installation # row.installation
      BY <1>1, <2>2, <3>1 DEF DeviceOf
    <3>4. row.hub /\ Checks(r) => \A e \in DOMAIN devices : ~devices[e].hub
      BY <1>0, <1>1, <2>2, <3>1 DEF Checks
    <3>5. /\ devices' \in Seq(DeviceRow) /\ DOMAIN devices' = DOMAIN devices \cup {d}
          /\ \A e \in DOMAIN devices : e # d /\ devices'[e] = devices[e]
          /\ devices'[d] = row /\ d \in Nat \ {0}
          /\ OneDevice' /\ OneHub' /\ ActivationsRefer' /\ SeatsTaken'
      BY <1>1, <3>1, <3>2, <3>21, <3>3, <3>4, DeviceAdded
    <3> QED
      BY <3>1, <3>5
  <2> QED
    BY <2>1, <2>2
<1>6. /\ claims' \in Seq(ClaimRow) /\ DOMAIN claims' = DOMAIN claims
      /\ \A b \in DOMAIN claims : claims'[b].installation = claims[b].installation
      /\ claims'[c].device = d /\ \A b \in DOMAIN claims \ {c} : claims'[b] = claims[b]
  <2> DEFINE row == [claims[c] EXCEPT !.device = d]
  <2>1. claims[c] \in ClaimRow
    BY <1>2, <1>3
  <2>2. row \in ClaimRow /\ row.device = d /\ row.installation = claims[c].installation
    BY <1>5, <2>1 DEF ClaimRow
  <2>3. claims' = [claims EXCEPT ![c] = row]
    BY <1>1
  <2> HIDE DEF row
  <2> QED
    BY <1>2, <1>3, <2>2, <2>3
<1>7. ClaimsRefer'
  <2>1. ClaimsRefer
    BY <1>1, WriteFacts
  <2> SUFFICES ASSUME NEW b \in DOMAIN claims', claims'[b].device # 0
               PROVE  /\ claims'[b].device \in DOMAIN devices'
                      /\ devices'[claims'[b].device].installation = claims'[b].installation
    BY DEF ClaimsRefer
  <2>2. CASE b = c
    BY <1>01, <1>3, <1>5, <1>6, <2>2
  <2>3. CASE b # c
    BY <1>5, <1>6, <2>1, <2>3 DEF ClaimsRefer
  <2> QED
    BY <2>2, <2>3
<1>8. OneActivation'
  <2>1. OneActivation
    BY <1>1, WriteFacts
  <2> QED
    BY <1>1, <1>2, <2>1, Untouched
<1>9. \A q \in Desks : Holds(q)'
  BY <1>1, <1>2, <1>5, <1>6, HandsStay
<1>10. Typed'
  BY <1>1, <1>2, <1>5, <1>6 DEF Typed
<1> QED
  BY <1>2, <1>5, <1>7, <1>8, <1>9, <1>10 DEF DeviceInv, Rows

\* What superseding leaves of the activations.
LEMMA Superseding ==
    ASSUME DeviceInv, NEW old
    PROVE  /\ Superseded(old) \in Seq(ActivationRow) /\ Len(Superseded(old)) = Len(activations)
           /\ DOMAIN Superseded(old) = DOMAIN activations
           /\ \A a \in DOMAIN activations : LET after == Superseded(old)[a] IN
                /\ after.device = activations[a].device /\ after.version = activations[a].version
                /\ after.token = activations[a].token
                /\ after.status \in {"ISSUED", "ACTIVE"} => IsLive(a) /\ a \notin old
<1> DEFINE mid == Superseded(old)
<1>1. activations \in Seq(ActivationRow) /\ Len(activations) \in Nat /\ DOMAIN activations = 1 .. Len(activations)
  BY DEF DeviceInv, Typed
<1>2. mid = [a \in 1 .. Len(activations) |->
               IF a \in old THEN [activations[a] EXCEPT !.status = "SUPERSEDED"] ELSE activations[a]]
  BY <1>1 DEF Superseded
<1>3. ASSUME NEW a \in DOMAIN activations
      PROVE  /\ mid[a] \in ActivationRow
             /\ mid[a].device = activations[a].device /\ mid[a].version = activations[a].version
             /\ mid[a].token = activations[a].token
             /\ mid[a].status \in {"ISSUED", "ACTIVE"} => IsLive(a) /\ a \notin old
  <2>1. activations[a] \in ActivationRow
    BY <1>1
  <2>2. CASE a \in old
    <3>1. mid[a] = [activations[a] EXCEPT !.status = "SUPERSEDED"]
      BY <1>1, <1>2, <2>2
    <3> HIDE DEF mid
    <3> QED
      BY <2>1, <3>1 DEF ActivationRow
  <2>3. CASE a \notin old
    <3>1. mid[a] = activations[a]
      BY <1>1, <1>2, <2>3
    <3> HIDE DEF mid
    <3> QED
      BY <2>1, <2>3, <3>1 DEF IsLive
  <2> QED
    BY <2>2, <2>3
<1> HIDE DEF mid
<1>4. mid \in [1 .. Len(activations) -> ActivationRow]
  BY <1>1, <1>2, <1>3
<1>5. mid \in Seq(ActivationRow) /\ Len(mid) = Len(activations) /\ DOMAIN mid = DOMAIN activations
  BY <1>1, <1>4
<1> QED
  BY <1>3, <1>5 DEF mid

\* A new activation: the ones the request has seen are superseded, whatever others there are is blind.
LEMMA ActivationWrites ==
    ASSUME DeviceInv, NEW r \in Desks, StoreActivation(r)
    PROVE  DeviceInv'
<1>0. PICK d, old, new, version :
        /\ d = desk[r].device /\ old = desk[r].old /\ new = Len(activations) + 1
        /\ version = IF old = {} THEN desk[r].version ELSE LatestVersion(d) + 1
  OBVIOUS
<1> DEFINE mid == Superseded(old)
           row == NewActivation(d, version)
           rows == {<<"activation", new>>} \cup {<<"activation", a>> : a \in old}
<1>1. /\ desk[r].op = "issue" /\ activations' = Append(mid, row) /\ Committed(r, rows) /\ <<"activation", new>> \in rows
      /\ UNCHANGED <<devices, claims, redeemed, seat, lifecycle>>
  BY <1>0 DEF StoreActivation, Doing
<1> HIDE DEF rows
<1>2. /\ desk' = [q \in Desks |-> desk'[q]] /\ overtaken' \subseteq Desks /\ StillTrue' /\ blind \subseteq blind'
      /\ \A q \in Desks : desk'[q] = Idle \/ desk'[q] = desk[q]
      /\ Holds(r) /\ (Checks(r) \/ <<"activation", new>> \in blind')
      /\ devices \in Seq(DeviceRow) /\ claims \in Seq(ClaimRow) /\ activations \in Seq(ActivationRow)
      /\ redeemed \in Seq(Installations) /\ Len(activations) \in Nat
      /\ seat \in [{Holder[i] : i \in Installations} -> {None, "store_desktop", "store_mobile"}]
  BY <1>1, WriteFacts
<1>3. /\ d \in DOMAIN devices /\ devices[d].installation \in Installations /\ d \in Nat
      /\ version \in 1 .. Len(activations) + 1
  <2>1. d \in DOMAIN devices /\ devices[d].installation \in Installations /\ desk[r].version \in 1 .. Len(activations) + 1
    BY <1>0, <1>1, <1>2 DEF Holds
  <2>2. LatestVersion(d) + 1 \in 1 .. Len(activations) + 1
    BY VersionsAreFew
  <2> QED
    BY <1>0, <2>1, <2>2, DevicesAreRows
<1>4. /\ row \in ActivationRow /\ row.device = d /\ row.version = version /\ row.token = 0
  BY <1>3 DEF NewActivation, ActivationRow
<1>5. /\ mid \in Seq(ActivationRow) /\ Len(mid) = Len(activations) /\ DOMAIN mid = DOMAIN activations
      /\ \A a \in DOMAIN activations :
           /\ mid[a].device = activations[a].device /\ mid[a].version = activations[a].version
           /\ mid[a].token = activations[a].token
           /\ mid[a].status \in {"ISSUED", "ACTIVE"} => IsLive(a) /\ a \notin old
  BY Superseding
<1> HIDE DEF mid, row
<1>6. /\ activations' \in Seq(ActivationRow) /\ new \in Nat \ {0} /\ Len(activations') = new
      /\ DOMAIN activations' = DOMAIN mid \cup {new}
      /\ activations'[new] = row
      /\ \A a \in DOMAIN mid : activations'[a] = mid[a] /\ a < new /\ a # new
  BY <1>0, <1>1, <1>4, <1>5, RowAppended
<1>7. ActivationsRefer'
  <2>1. ActivationsRefer
    BY <1>1, WriteFacts
  <2>2. \A a \in DOMAIN activations : activations'[a].version \in 1 .. Len(activations')
    BY <1>0, <1>2, <1>5, <1>6, <2>1 DEF ActivationsRefer
  <2>3. activations'[new].version \in 1 .. Len(activations')
    BY <1>0, <1>3, <1>4, <1>6
  <2> SUFFICES ASSUME NEW a \in DOMAIN activations'
               PROVE  /\ activations'[a].device \in DOMAIN devices
                      /\ devices[activations'[a].device].installation \in Installations
                      /\ activations'[a].version \in 1 .. Len(activations')
    BY <1>1 DEF ActivationsRefer
  <2>4. CASE a = new
    BY <1>3, <1>4, <1>6, <2>3, <2>4
  <2>5. CASE a # new
    BY <1>5, <1>6, <2>1, <2>2, <2>5 DEF ActivationsRefer
  <2> QED
    BY <2>4, <2>5
<1>8. SeatsTaken'
  <2>1. SeatsTaken
    BY <1>1, WriteFacts
  <2>2. activations'[new].token = 0
    BY <1>4, <1>6
  <2>3. \A a \in DOMAIN activations' \ {new} :
            /\ a \in DOMAIN activations /\ activations'[a].token = activations[a].token
            /\ activations'[a].device = activations[a].device
    BY <1>5, <1>6
  <2> QED
    BY <1>1, <2>1, <2>2, <2>3 DEF SeatsTaken
<1>9. OneActivation'
  <2> SUFFICES ASSUME NEW a \in DOMAIN activations', NEW b \in DOMAIN activations',
                      activations'[a].device = activations'[b].device, IsLive(a)', IsLive(b)', a < b
               PROVE  <<"activation", a>> \in blind' \/ <<"activation", b>> \in blind'
    BY DEF OneActivation, IsLive
  <2>0. \A n \in DOMAIN activations' : n = new \/ (n \in DOMAIN activations /\ n \in Nat /\ n < new)
    BY <1>2, <1>5, <1>6
  <2>1. a \in DOMAIN activations /\ activations[a].device = activations'[a].device /\ IsLive(a) /\ a \notin old
    <3>1. a # new /\ a \in DOMAIN activations
      BY <1>6, <2>0
    <3> QED
      BY <1>5, <1>6, <3>1 DEF IsLive
  <2>2. CASE b = new
    <3>1. activations[a].device = d
      BY <1>4, <1>6, <2>1, <2>2
    <3>2. ~Checks(r)
      BY <1>0, <1>1, <2>1, <3>1 DEF Checks
    <3> QED
      BY <1>2, <2>2, <3>2
  <2>3. CASE b # new
    <3>1. b \in DOMAIN activations
      BY <2>0, <2>3
    <3>2. activations[b].device = activations'[b].device /\ IsLive(b)
      BY <1>5, <1>6, <3>1 DEF IsLive
    <3>3. OneActivation
      BY <1>1, WriteFacts
    <3> QED
      BY <1>2, <2>1, <3>1, <3>2, <3>3 DEF OneActivation
  <2> QED
    BY <2>2, <2>3
<1>10. OneDevice' /\ ClaimsRefer' /\ OneHub'
  <2>1. OneDevice /\ ClaimsRefer /\ OneHub
    BY <1>1, WriteFacts
  <2> QED
    BY <1>1, <1>2, <2>1, Untouched
<1>11. \A q \in Desks : Holds(q)'
  <2>1. DOMAIN activations \subseteq DOMAIN activations' /\ Len(activations') \in Nat /\ Len(activations) <= Len(activations')
    BY <1>0, <1>2, <1>5, <1>6
  <2> QED
    BY <1>1, <1>2, <2>1, HandsStay
<1>12. Typed'
  BY <1>1, <1>2, <1>6 DEF Typed
<1> QED
  BY <1>2, <1>7, <1>8, <1>9, <1>10, <1>11, <1>12 DEF DeviceInv, Rows

\* A redemption gives the code's activation to the holder, whose user is of the device's surface.
LEMMA RedemptionWrites ==
    ASSUME DeviceInv, NEW r \in Desks, StoreRedemption(r)
    PROVE  DeviceInv'
<1>0. PICK a, i, p, rows :
        /\ a = desk[r].activation /\ i = devices[activations[a].device].installation /\ p = Holder[i]
        /\ rows = {<<"activation", a>>}
  OBVIOUS
<1>1. /\ desk[r].op = "redeem" /\ Committed(r, rows) /\ seat[p] \in {None, Surface[i]}
      /\ seat' = [seat EXCEPT ![p] = Surface[i]] /\ redeemed' = Append(redeemed, i)
      /\ activations' = [activations EXCEPT ![a].status = "ACTIVE", ![a].token = Len(redeemed) + 1]
      /\ UNCHANGED <<devices, claims, lifecycle>>
  BY <1>0 DEF StoreRedemption, Doing, MayHold
<1>2. /\ desk' = [q \in Desks |-> desk'[q]] /\ overtaken' \subseteq Desks /\ StillTrue' /\ blind \subseteq blind'
      /\ \A q \in Desks : desk'[q] = Idle \/ desk'[q] = desk[q]
      /\ Holds(r) /\ (Checks(r) \/ rows \subseteq blind')
      /\ devices \in Seq(DeviceRow) /\ claims \in Seq(ClaimRow) /\ activations \in Seq(ActivationRow)
      /\ redeemed \in Seq(Installations) /\ Len(activations) \in Nat
      /\ seat \in [{Holder[j] : j \in Installations} -> {None, "store_desktop", "store_mobile"}]
  BY <1>1, WriteFacts
<1>3. a \in DOMAIN activations
  BY <1>0, <1>1, <1>2 DEF Holds
<1>4. i \in Installations /\ activations[a].device \in DOMAIN devices
  <2>1. ActivationsRefer
    BY <1>1, WriteFacts
  <2> QED
    BY <1>0, <1>3, <2>1 DEF ActivationsRefer
<1>5. Surface[i] \in {"store_desktop", "store_mobile"} /\ Surface[i] # None
  BY <1>4, DeviceAccessAssumption DEF None
<1>6. PICK row : row = [activations[a] EXCEPT !.status = "ACTIVE", !.token = Len(redeemed) + 1]
  OBVIOUS
<1>7. /\ row \in ActivationRow /\ row.device = activations[a].device /\ row.version = activations[a].version
      /\ row.status = "ACTIVE"
  <2>1. activations[a] \in ActivationRow /\ Len(redeemed) + 1 \in Nat
    BY <1>2, <1>3
  <2> QED
    BY <1>6, <2>1 DEF ActivationRow
<1>8. /\ activations' \in Seq(ActivationRow) /\ DOMAIN activations' = DOMAIN activations
      /\ Len(activations') = Len(activations) /\ activations'[a] = row
      /\ \A b \in DOMAIN activations \ {a} : activations'[b] = activations[b]
  <2>1. activations' = [activations EXCEPT ![a] = row]
    BY <1>1, <1>6
  <2> QED
    BY <1>2, <1>3, <1>7, <2>1
<1>9. \A b \in DOMAIN activations :
          activations'[b].device = activations[b].device /\ activations'[b].version = activations[b].version
  BY <1>7, <1>8
<1>10. ActivationsRefer'
  <2>1. ActivationsRefer
    BY <1>1, WriteFacts
  <2> QED
    BY <1>1, <1>8, <1>9, <2>1 DEF ActivationsRefer
<1>11. SeatsTaken'
  <2>1. SeatsTaken /\ ActivationsRefer
    BY <1>1, WriteFacts
  <2>2. seat'[p] = Surface[i]
    BY <1>0, <1>1, <1>2, <1>4
  <2>20. devices' = devices /\ DOMAIN activations' = DOMAIN activations
    BY <1>1, <1>8
  <2>21. \A b \in DOMAIN activations :
              devices'[activations'[b].device].installation = devices[activations[b].device].installation
    BY <1>9, <2>20
  <2> SUFFICES ASSUME NEW b \in DOMAIN activations, activations'[b].token # 0
               PROVE  seat'[Holder[devices[activations[b].device].installation]]
                        = Surface[devices[activations[b].device].installation]
    BY <2>20, <2>21 DEF SeatsTaken
  <2>3. CASE b = a
    BY <1>0, <2>2, <2>3
  <2>4. CASE b # a
    <3>1. PICK j : j = devices[activations[b].device].installation
      OBVIOUS
    <3>2. seat[Holder[j]] = Surface[j] /\ j \in Installations
      BY <1>8, <2>1, <2>4, <3>1 DEF SeatsTaken, ActivationsRefer
    <3>3. Surface[j] # None
      BY <3>2, DeviceAccessAssumption DEF None
    <3>4. CASE Holder[j] = p
      BY <1>1, <2>2, <3>1, <3>2, <3>3, <3>4
    <3>5. CASE Holder[j] # p
      BY <1>1, <1>2, <3>1, <3>2, <3>5
    <3> QED
      BY <3>4, <3>5
  <2> QED
    BY <2>3, <2>4
<1>12. OneActivation'
  <2>1. OneActivation
    BY <1>1, WriteFacts
  <2>2. \A b \in DOMAIN activations : IsLive(b)' => IsLive(b) \/ <<"activation", b>> \in blind'
    <3>1. IsLive(a) \/ <<"activation", a>> \in blind'
      BY <1>0, <1>1, <1>2 DEF Checks, IsLive
    <3> QED
      BY <1>8, <3>1 DEF IsLive
  <2> SUFFICES ASSUME NEW b \in DOMAIN activations, NEW c \in DOMAIN activations,
                      activations'[b].device = activations'[c].device, IsLive(b)', IsLive(c)', b < c
               PROVE  <<"activation", b>> \in blind' \/ <<"activation", c>> \in blind'
    BY <1>8 DEF OneActivation, IsLive
  <2> QED
    BY <1>2, <1>9, <2>1, <2>2 DEF OneActivation
<1>13. OneDevice' /\ ClaimsRefer' /\ OneHub'
  <2>1. OneDevice /\ ClaimsRefer /\ OneHub
    BY <1>1, WriteFacts
  <2> QED
    BY <1>1, <1>2, <2>1, Untouched
<1>14. \A q \in Desks : Holds(q)'
  <2>1. DOMAIN activations \subseteq DOMAIN activations' /\ Len(activations') \in Nat /\ Len(activations) <= Len(activations')
    BY <1>2, <1>8
  <2> QED
    BY <1>1, <1>2, <2>1, HandsStay
<1>15. Typed'
  <2>1. redeemed' \in Seq(Installations)
    BY <1>1, <1>2, <1>4
  <2>2. seat' \in [{Holder[j] : j \in Installations} -> {None, "store_desktop", "store_mobile"}]
    BY <1>1, <1>2, <1>5
  <2> QED
    BY <1>1, <1>2, <1>8, <2>1, <2>2 DEF Typed
<1> QED
  BY <1>2, <1>10, <1>11, <1>12, <1>13, <1>14, <1>15 DEF DeviceInv, Rows

\* An unlock notes that there was one, and nothing else.
LEMMA UnlockWrites ==
    ASSUME DeviceInv, NEW r \in Desks, StoreUnlock(r)
    PROVE  DeviceInv'
<1>0. PICK a, rows : a = desk[r].activation /\ rows = {<<"unlock", a>>}
  OBVIOUS
<1>1. /\ desk[r].op = "unlock" /\ Committed(r, rows)
      /\ activations' = [activations EXCEPT ![a].unlocked = TRUE]
      /\ UNCHANGED <<devices, claims, redeemed, seat, lifecycle>>
  BY <1>0 DEF StoreUnlock, Doing
<1>2. /\ desk' = [q \in Desks |-> desk'[q]] /\ overtaken' \subseteq Desks /\ StillTrue' /\ blind \subseteq blind'
      /\ \A q \in Desks : desk'[q] = Idle \/ desk'[q] = desk[q]
      /\ Holds(r)
      /\ devices \in Seq(DeviceRow) /\ claims \in Seq(ClaimRow) /\ activations \in Seq(ActivationRow)
      /\ redeemed \in Seq(Installations) /\ Len(activations) \in Nat
      /\ seat \in [{Holder[j] : j \in Installations} -> {None, "store_desktop", "store_mobile"}]
  BY <1>1, WriteFacts
<1>3. a \in DOMAIN activations
  BY <1>0, <1>1, <1>2 DEF Holds
<1>4. PICK row : row = [activations[a] EXCEPT !.unlocked = TRUE]
  OBVIOUS
<1>5. /\ row \in ActivationRow /\ row.device = activations[a].device /\ row.version = activations[a].version
      /\ row.status = activations[a].status /\ row.token = activations[a].token
  <2>1. activations[a] \in ActivationRow
    BY <1>2, <1>3
  <2> QED
    BY <1>4, <2>1 DEF ActivationRow
<1>6. /\ activations' \in Seq(ActivationRow) /\ DOMAIN activations' = DOMAIN activations
      /\ Len(activations') = Len(activations) /\ activations'[a] = row
      /\ \A b \in DOMAIN activations \ {a} : activations'[b] = activations[b]
  <2>1. activations' = [activations EXCEPT ![a] = row]
    BY <1>1, <1>4
  <2> QED
    BY <1>2, <1>3, <1>5, <2>1
<1>7. \A b \in DOMAIN activations :
          /\ activations'[b].device = activations[b].device /\ activations'[b].version = activations[b].version
          /\ activations'[b].status = activations[b].status /\ activations'[b].token = activations[b].token
  BY <1>5, <1>6
<1>8. ActivationsRefer' /\ SeatsTaken' /\ OneActivation'
  <2>1. ActivationsRefer /\ SeatsTaken /\ OneActivation
    BY <1>1, WriteFacts
  <2>2. ActivationsRefer'
    BY <1>1, <1>6, <1>7, <2>1 DEF ActivationsRefer
  <2>30. /\ seat' = seat /\ DOMAIN activations' = DOMAIN activations
         /\ \A b \in DOMAIN activations :
              /\ devices'[activations'[b].device].installation = devices[activations[b].device].installation
              /\ activations'[b].token = activations[b].token
    BY <1>1, <1>6, <1>7
  <2>3. SeatsTaken'
    BY <2>1, <2>30 DEF SeatsTaken
  <2>4. OneActivation'
    BY <1>2, <1>6, <1>7, <2>1 DEF OneActivation, IsLive
  <2> QED
    BY <2>2, <2>3, <2>4
<1>9. OneDevice' /\ ClaimsRefer' /\ OneHub'
  <2>1. OneDevice /\ ClaimsRefer /\ OneHub
    BY <1>1, WriteFacts
  <2> QED
    BY <1>1, <1>2, <2>1, Untouched
<1>10. \A q \in Desks : Holds(q)'
  <2>1. DOMAIN activations \subseteq DOMAIN activations' /\ Len(activations') \in Nat /\ Len(activations) <= Len(activations')
    BY <1>2, <1>6
  <2> QED
    BY <1>1, <1>2, <2>1, HandsStay
<1>11. Typed'
  BY <1>1, <1>2, <1>6 DEF Typed
<1> QED
  BY <1>2, <1>8, <1>9, <1>10, <1>11 DEF DeviceInv, Rows

\* A request that fails forgets what it has in hand.
LEMMA FailureForgets ==
    ASSUME DeviceInv, NEW r \in Desks, AccessFails(r)
    PROVE  DeviceInv'
<1>1. desk = [q \in Desks |-> desk[q]] /\ overtaken \subseteq Desks
  BY DEF DeviceInv, Typed
<1>2. /\ desk' = [desk EXCEPT ![r] = Idle] /\ overtaken' = overtaken \ {r}
      /\ UNCHANGED <<devices, claims, activations, redeemed, seat, lifecycle, blind>>
  BY DEF AccessFails, RolledBack, deviceRows
<1>3. desk' = [q \in Desks |-> desk'[q]] /\ desk'[r] = Idle /\ \A q \in Desks \ {r} : desk'[q] = desk[q]
  BY <1>1, <1>2
<1>4. Typed' /\ Rows' /\ OneHub' /\ OneActivation'
  BY <1>1, <1>2, <1>3 DEF DeviceInv, Typed, Rows, OneDevice, ClaimsRefer, ActivationsRefer, SeatsTaken,
                          OneHub, OneActivation, IsLive
<1>5. Holds(r)' /\ Checks(r)'
  <2>1. desk'[r].op = "none"
    BY <1>3 DEF Idle
  <2> QED
    BY <2>1 DEF Holds, Checks
<1>6. \A q \in Desks : Holds(q)'
  <2> SUFFICES ASSUME NEW q \in Desks \ {r} PROVE Holds(q)'
    BY <1>5
  <2>1. Holds(q) /\ desk'[q] = desk[q]
    BY <1>3 DEF DeviceInv
  <2> QED
    BY <1>2, <2>1 DEF Holds
<1>7. StillTrue'
  <2> SUFFICES ASSUME NEW q \in Desks \ {r}, q \notin overtaken' PROVE Checks(q)'
    BY <1>5 DEF StillTrue
  <2>1. Checks(q) /\ desk'[q] = desk[q]
    BY <1>2, <1>3 DEF DeviceInv, StillTrue
  <2> QED
    BY <1>2, <2>1 DEF Checks, IsLive
<1> QED
  BY <1>4, <1>6, <1>7 DEF DeviceInv

\* The subscription is not in what is said.
LEMMA LifecycleApart ==
    ASSUME DeviceInv, UNCHANGED <<devices, claims, activations, redeemed, seat, deskVars>>
    PROVE  DeviceInv'
<1>1. Typed' /\ Rows' /\ OneHub' /\ OneActivation'
  BY DEF DeviceInv, Typed, Rows, OneDevice, ClaimsRefer, ActivationsRefer, SeatsTaken, OneHub, OneActivation,
         IsLive, deskVars
<1>2. \A q \in Desks : Holds(q)'
  BY DEF DeviceInv, Holds, deskVars
<1>3. StillTrue'
  BY DEF DeviceInv, StillTrue, Checks, IsLive, deskVars
<1> QED
  BY <1>1, <1>2, <1>3 DEF DeviceInv

-----------------------------------------------------------------------------
(* The specification. *)

\* The empty tables of a new store are in order.
LEMMA DeviceStarts == DeviceAccessInit => DeviceInv
<1> SUFFICES ASSUME DeviceAccessInit PROVE DeviceInv
  OBVIOUS
<1>1. /\ devices = <<>> /\ claims = <<>> /\ activations = <<>> /\ redeemed = <<>>
      /\ seat = [p \in {Holder[i] : i \in Installations} |-> None]
      /\ desk = [r \in Desks |-> Idle] /\ overtaken = {}
  BY DEF DeviceAccessInit, DeskInit
<1>2. Typed
  BY <1>1 DEF Typed
<1>3. Rows /\ OneHub /\ OneActivation
  BY <1>1 DEF Rows, OneDevice, ClaimsRefer, ActivationsRefer, SeatsTaken, OneHub, OneActivation
<1>4. \A r \in Desks : Holds(r) /\ Checks(r)
  <2>1. \A r \in Desks : desk[r].op = "none"
    BY <1>1 DEF Idle
  <2> QED
    BY <2>1 DEF Holds, Checks
<1> QED
  BY <1>2, <1>3, <1>4 DEF DeviceInv, StillTrue

\* Every step keeps the invariant.
LEMMA DeviceStep == DeviceInv /\ [DeviceAccessNext]_deviceVars => DeviceInv'
<1> SUFFICES ASSUME DeviceInv, [DeviceAccessNext]_deviceVars PROVE DeviceInv'
  OBVIOUS
<1>1. ASSUME NEW r \in Desks, NEW hub \in BOOLEAN, RegisterDevice(r, hub) PROVE DeviceInv'
  BY <1>1, RegisterReads
<1>2. ASSUME NEW r \in Desks, NEW i \in Installations, ResolveClaim(r, i) PROVE DeviceInv'
  BY <1>2, ClaimReads
<1>3. ASSUME NEW r \in Desks, NEW c \in DOMAIN claims, ApproveClaim(r, c) PROVE DeviceInv'
  BY <1>3, ApprovalReads
<1>4. ASSUME NEW r \in Desks, NEW d \in DOMAIN devices,
             IssueDesktopActivation(r, d) \/ IssueRuntimeActivation(r, d)
      PROVE  DeviceInv'
  BY <1>4, IssueReads
<1>5. ASSUME NEW r \in Desks, NEW a \in DOMAIN activations,
             RedeemDesktopActivation(r, a) \/ RedeemRuntimeActivation(r, a)
      PROVE  DeviceInv'
  BY <1>5, RedeemReads
<1>6. ASSUME NEW r \in Desks, NEW t \in DOMAIN redeemed, UnlockDesktop(r, t) PROVE DeviceInv'
  BY <1>6, UnlockReads
<1>7. ASSUME NEW r \in Desks, StoreRegistration(r) PROVE DeviceInv'
  BY <1>7, RegistrationWrites
<1>8. ASSUME NEW r \in Desks, StoreClaim(r) PROVE DeviceInv'
  BY <1>8, ClaimWrites
<1>9. ASSUME NEW r \in Desks, StoreApproval(r) PROVE DeviceInv'
  BY <1>9, ApprovalWrites
<1>10. ASSUME NEW r \in Desks, StoreActivation(r) PROVE DeviceInv'
  BY <1>10, ActivationWrites
<1>11. ASSUME NEW r \in Desks, StoreRedemption(r) PROVE DeviceInv'
  BY <1>11, RedemptionWrites
<1>12. ASSUME NEW r \in Desks, StoreUnlock(r) PROVE DeviceInv'
  BY <1>12, UnlockWrites
<1>13. ASSUME NEW r \in Desks, AccessFails(r) PROVE DeviceInv'
  BY <1>13, FailureForgets
<1>14. ASSUME NEW l, EntitlementChanges(l) PROVE DeviceInv'
  BY <1>14, LifecycleApart DEF EntitlementChanges
<1>15. CASE UNCHANGED deviceVars
  BY <1>15, LifecycleApart DEF deviceVars, deviceRows
<1> QED
  BY <1>1, <1>2, <1>3, <1>4, <1>5, <1>6, <1>7, <1>8, <1>9, <1>10, <1>11, <1>12, <1>13, <1>14, <1>15
  DEF DeviceAccessNext

\* What requests have in hand and have checked, and what the tables say of each other, hold always.
THEOREM DeviceAccessInvariant == DeviceAccessSpec => []DeviceInv
BY DeviceStarts, DeviceStep, PTL DEF DeviceAccessSpec

\* Claims of one installation name its one device, a second hub or live activation is an overtaken
\* request's, and one holder's runtimes are of one surface (DevicesAgree of DeviceAccess.tla).
THEOREM DeviceAccessDevicesAgree == DeviceAccessSpec => []DevicesAgree
BY DeviceAccessInvariant, DeviceInvShows, PTL

-----------------------------------------------------------------------------
(* The hub and its spokes. *)

\* A set without two members.
LEMMA AtMostOne ==
    ASSUME NEW S, \A i, j \in S : i = j
    PROVE  Cardinality(S) <= 1
<1>1. CASE S = {}
  BY <1>1, FS_EmptySet
<1>2. CASE S # {}
  <2>1. PICK i \in S : S = {i}
    BY <1>2
  <2>2. Cardinality({i}) = 1
    BY FS_Singleton
  <2> QED
    BY <2>1, <2>2
<1> QED
  BY <1>1, <1>2

-----------------------------------------------------------------------------
(* The desks. *)

OneRequestEach == desk = [q \in Desks |-> desk[q]]

\* A request that begins is the only one to move.
LEMMA DeskChecks ==
    ASSUME OneRequestEach, NEW r \in Desks, NEW e, Checked(r, e)
    PROVE  /\ OneRequestEach' /\ desk'[r] = e /\ UNCHANGED <<overtaken, blind>>
           /\ \A q \in Desks \ {r} : desk'[q] = desk[q]
BY DEF Checked, OneRequestEach

\* A commit overtakes every other request under way; what an overtaken one writes is blind.
LEMMA DeskCommits ==
    ASSUME OneRequestEach, NEW r \in Desks, NEW rows, Committed(r, rows)
    PROVE  /\ OneRequestEach'
           /\ \A q \in Desks : desk'[q].op = "none" \/ desk'[q] = desk[q]
           /\ \A q \in Desks : q \notin overtaken' => desk'[q].op = "none"
           /\ blind \subseteq blind'
           /\ r \in overtaken => rows \subseteq blind'
<1>1. desk' = [desk EXCEPT ![r] = Idle] /\ Idle.op = "none"
  BY DEF Committed, Idle
<1>2. OneRequestEach' /\ desk'[r] = Idle /\ \A q \in Desks \ {r} : desk'[q] = desk[q]
  BY <1>1 DEF OneRequestEach
<1>3. \A q \in Desks : q \notin overtaken' => desk'[q] = Idle
  BY <1>2 DEF Committed
<1> QED
  BY <1>1, <1>2, <1>3 DEF Committed

\* So does a request that is one step.
LEMMA DeskAtOnce ==
    ASSUME AtOnce
    PROVE  /\ UNCHANGED <<desk, blind>>
           /\ \A q \in Desks : q \notin overtaken' => desk[q].op = "none"
BY DEF AtOnce, Idle

\* One that fails leaves the others as they were.
LEMMA DeskRollsBack ==
    ASSUME OneRequestEach, NEW r \in Desks, RolledBack(r)
    PROVE  /\ OneRequestEach' /\ UNCHANGED blind
           /\ desk'[r].op = "none" /\ r \notin overtaken'
           /\ \A q \in Desks \ {r} : desk'[q] = desk[q] /\ (q \in overtaken' <=> q \in overtaken)
<1>1. desk' = [desk EXCEPT ![r] = Idle] /\ Idle.op = "none"
  BY DEF RolledBack, Idle
<1> QED
  BY <1>1 DEF RolledBack, OneRequestEach

-----------------------------------------------------------------------------
(* The hub. *)

SpokeActivation == [profile: SpokeProfiles, status: {"ISSUED", "SUPERSEDED"}]

HubTyped ==
    /\ OneRequestEach
    /\ spokeActs \in Seq(SpokeActivation)
    /\ observed = [s \in Spokes |-> observed[s]]
    /\ \A r \in Desks : Doing(r, "issue") => desk[r].profile \in SpokeProfiles

Usable(i, p) == spokeActs[i].profile = p /\ spokeActs[i].status = "ISSUED"

\* What a request has read of the hub's rows.
HubChecks(r) ==
    /\ Doing(r, "issue") => \A i \in DOMAIN spokeActs : Usable(i, desk[r].profile) => i \in desk[r].old
    /\ Doing(r, "observe") => desk[r].rows = observed /\ desk[r].board = hubBoard

HubStillTrue == \A r \in Desks : r \notin overtaken => HubChecks(r)

OneUsable ==
    \A i, j \in DOMAIN spokeActs, p \in SpokeProfiles :
        Usable(i, p) /\ Usable(j, p) /\ Seen("spoke_activation", p) => i = j

HubInv == HubTyped /\ HubStillTrue /\ OneUsable /\ BoardCountsSpokes

\* No more than one activation of a profile can be used.
LEMMA HubInvShows == HubInv => HubRowsAgree
<1> SUFFICES ASSUME HubInv, NEW p \in SpokeProfiles, Seen("spoke_activation", p)
             PROVE  Cardinality(IssuedFor(p)) <= 1
  BY DEF HubRowsAgree, OneSpokeActivation, HubInv
<1>1. \A i, j \in IssuedFor(p) : i = j
  BY DEF HubInv, OneUsable, Usable, IssuedFor
<1> QED
  BY <1>1, AtMostOne

\* A branch without a hub has nothing to agree.
LEMMA HubInitInv == HubRuntimeInit => HubInv
<1> SUFFICES ASSUME HubRuntimeInit PROVE HubInv
  OBVIOUS
<1> USE DEF HubRuntimeInit, DeskInit
<1>1. \A r \in Desks : desk[r].op = "none"
  BY DEF Idle
<1>2. HubTyped
  BY <1>1 DEF HubTyped, OneRequestEach, Doing
<1>3. HubStillTrue
  BY <1>1 DEF HubStillTrue, HubChecks, Doing
<1>4. DOMAIN spokeActs = {} /\ hubBoard.by = "none"
  OBVIOUS
<1>5. OneUsable /\ BoardCountsSpokes
  BY <1>4 DEF OneUsable, BoardCountsSpokes
<1> QED
  BY <1>2, <1>3, <1>5 DEF HubInv

\* A step that leaves the rows of the spokes alone.
LEMMA HubRowsStay ==
    ASSUME HubInv, UNCHANGED <<spokeActs, observed, hubBoard>>, blind \subseteq blind',
           OneRequestEach',
           \A q \in Desks : desk'[q].op = "issue" => desk'[q].profile \in SpokeProfiles,
           HubStillTrue'
    PROVE  HubInv'
<1>1. HubTyped'
  BY DEF HubInv, HubTyped, Doing
<1>2. OneUsable'
  BY DEF HubInv, OneUsable, Usable, Seen
<1>3. BoardCountsSpokes'
  BY DEF HubInv, BoardCountsSpokes, Seen
<1> QED
  BY <1>1, <1>2, <1>3 DEF HubInv

\* A request begins, and knows what it has read.
LEMMA HubReads ==
    ASSUME HubInv, NEW r \in Desks, NEW e, Checked(r, e), UNCHANGED hubVars,
           e.op = "issue" => e.profile \in SpokeProfiles /\ \A i \in DOMAIN spokeActs : Usable(i, e.profile) => i \in e.old,
           e.op = "observe" => e.rows = observed /\ e.board = hubBoard
    PROVE  HubInv'
<1>1. UNCHANGED <<spokeActs, observed, hubBoard, overtaken, blind>>
  BY DEF hubVars, Checked
<1>2. OneRequestEach' /\ desk'[r] = e /\ \A q \in Desks \ {r} : desk'[q] = desk[q]
  BY DeskChecks DEF HubInv, HubTyped
<1>3. \A q \in Desks : desk'[q].op = "issue" => desk'[q].profile \in SpokeProfiles
  BY <1>2 DEF HubInv, HubTyped, Doing
<1>4. HubStillTrue'
  <2> SUFFICES ASSUME NEW q \in Desks, q \notin overtaken' PROVE HubChecks(q)'
    BY DEF HubStillTrue
  <2>1. CASE q = r
    BY <1>1, <1>2, <2>1 DEF HubChecks, Doing, Usable
  <2>2. CASE q # r
    <3>1. HubChecks(q) /\ desk'[q] = desk[q]
      BY <1>1, <1>2, <2>2 DEF HubInv, HubStillTrue
    <3> QED
      BY <1>1, <3>1 DEF HubChecks, Doing, Usable
  <2> QED
    BY <2>1, <2>2
<1> QED
  BY <1>1, <1>2, <1>3, <1>4, HubRowsStay

\* An activation is read with those it will supersede, a report with the rows it is about.
LEMMA HubBegins ==
    ASSUME HubInv, NEW r \in Desks, IssueSpokeActivation(r) \/ RecordHeartbeat(r) \/ ObserveSpokes(r)
    PROVE  HubInv'
<1>1. CASE IssueSpokeActivation(r)
  <2>1. PICK p \in SpokeProfiles : Checked(r, [op |-> "issue", profile |-> p, old |-> IssuedFor(p)])
    BY <1>1 DEF IssueSpokeActivation
  <2>2. PICK e : e = [op |-> "issue", profile |-> p, old |-> IssuedFor(p)]
    OBVIOUS
  <2>3. e.op = "issue" /\ e.profile = p /\ e.old = IssuedFor(p) /\ Checked(r, e) /\ UNCHANGED hubVars
    BY <1>1, <2>1, <2>2 DEF IssueSpokeActivation
  <2>4. \A i \in DOMAIN spokeActs : Usable(i, p) => i \in IssuedFor(p)
    <3>1. ASSUME NEW i \in DOMAIN spokeActs, Usable(i, p) PROVE spokeActs[i] = [profile |-> p, status |-> "ISSUED"]
      <4>1. spokeActs[i] \in SpokeActivation
        BY DEF HubInv, HubTyped
      <4> QED
        BY <3>1, <4>1 DEF SpokeActivation, Usable
    <3> QED
      BY <3>1 DEF IssuedFor
  <2> QED
    BY <2>3, <2>4, HubReads
<1>2. CASE RecordHeartbeat(r)
  <2>1. PICK e : Checked(r, e) /\ e.op = "heartbeat"
    BY <1>2 DEF RecordHeartbeat
  <2> QED
    BY <1>2, <2>1, HubReads DEF RecordHeartbeat
<1>3. CASE ObserveSpokes(r)
  <2>1. PICK e : Checked(r, e) /\ e.op = "observe" /\ e.rows = observed /\ e.board = hubBoard
    BY <1>3 DEF ObserveSpokes
  <2> QED
    BY <1>3, <2>1, HubReads DEF ObserveSpokes
<1> QED
  BY <1>1, <1>2, <1>3

\* A new activation takes the place of those its request has read.
LEMMA StoreActivationKeeps ==
    ASSUME HubInv, NEW r \in Desks, StoreSpokeActivation(r)
    PROVE  HubInv'
<1>1. PICK p, old : p = desk[r].profile /\ old = desk[r].old
  OBVIOUS
<1>2. PICK n : n = Len(spokeActs) + 1
  OBVIOUS
<1>3. /\ Doing(r, "issue") /\ p \in SpokeProfiles
      /\ spokeActs' = Append(SupersededSpokes(spokeActs, old), [profile |-> p, status |-> "ISSUED"])
      /\ Committed(r, {<<"spoke_activation", p>>})
      /\ UNCHANGED <<observed, hubBoard>>
  BY <1>1 DEF StoreSpokeActivation, HubInv, HubTyped
<1>4. /\ OneRequestEach'
      /\ \A q \in Desks : desk'[q].op = "none" \/ desk'[q] = desk[q]
      /\ \A q \in Desks : q \notin overtaken' => desk'[q].op = "none"
      /\ blind \subseteq blind'
      /\ r \in overtaken => {<<"spoke_activation", p>>} \subseteq blind'
  BY <1>3, DeskCommits DEF HubInv, HubTyped
<1>5. /\ spokeActs' \in Seq(SpokeActivation) /\ DOMAIN spokeActs' = DOMAIN spokeActs \cup {n} /\ n \notin DOMAIN spokeActs
      /\ spokeActs'[n].profile = p
      /\ \A i \in DOMAIN spokeActs : spokeActs'[i].profile = spokeActs[i].profile
      /\ \A i \in DOMAIN spokeActs : spokeActs'[i].status = IF i \in old THEN "SUPERSEDED" ELSE spokeActs[i].status
  <2>1. spokeActs \in Seq(SpokeActivation)
    BY DEF HubInv, HubTyped
  <2> DEFINE rest == SupersededSpokes(spokeActs, old)
  <2>2. /\ rest \in Seq(SpokeActivation) /\ Len(rest) = Len(spokeActs)
        /\ \A i \in DOMAIN spokeActs :
             rest[i].profile = spokeActs[i].profile /\ rest[i].status = IF i \in old THEN "SUPERSEDED" ELSE spokeActs[i].status
    <3>1. ASSUME NEW i \in DOMAIN spokeActs
          PROVE  /\ rest[i] \in SpokeActivation /\ rest[i].profile = spokeActs[i].profile
                 /\ rest[i].status = IF i \in old THEN "SUPERSEDED" ELSE spokeActs[i].status
      <4>1. spokeActs[i] \in SpokeActivation
        BY <2>1
      <4>2. rest[i] = IF i \in old THEN [spokeActs[i] EXCEPT !.status = "SUPERSEDED"] ELSE spokeActs[i]
        BY DEF SupersededSpokes
      <4> QED
        BY <4>1, <4>2 DEF SpokeActivation
    <3>2. rest \in [1 .. Len(spokeActs) -> SpokeActivation]
      BY <2>1, <3>1 DEF SupersededSpokes
    <3> HIDE DEF rest
    <3>3. rest \in Seq(SpokeActivation) /\ Len(rest) = Len(spokeActs)
      BY <2>1, <3>2
    <3> QED
      BY <3>1, <3>3
  <2>3. PICK new : new = [profile |-> p, status |-> "ISSUED"]
    OBVIOUS
  <2>4. new \in SpokeActivation /\ new.profile = p
    BY <1>3, <2>3 DEF SpokeActivation
  <2> HIDE DEF rest
  <2>5. spokeActs' = Append(rest, new)
    BY <1>3, <2>3 DEF rest
  <2> QED
    BY <1>2, <2>1, <2>2, <2>4, <2>5
<1>6. HubTyped'
  BY <1>3, <1>4, <1>5 DEF HubInv, HubTyped, Doing
<1>7. HubStillTrue'
  BY <1>4 DEF HubStillTrue, HubChecks, Doing
<1>8. OneUsable'
  <2>1. r \notin overtaken => \A i \in DOMAIN spokeActs : Usable(i, p) => i \in old
    BY <1>1, <1>3 DEF HubInv, HubStillTrue, HubChecks
  <2>2. \A i \in DOMAIN spokeActs, q \in SpokeProfiles : Usable(i, q)' => Usable(i, q) /\ i \notin old
    BY <1>5 DEF Usable
  <2>3. \A q \in SpokeProfiles : Usable(n, q)' => q = p
    BY <1>5 DEF Usable
  <2>4. Seen("spoke_activation", p)' => r \notin overtaken
    BY <1>4 DEF Seen
  <2>5. \A q \in SpokeProfiles : Seen("spoke_activation", q)' => Seen("spoke_activation", q)
    BY <1>4 DEF Seen
  <2> QED
    BY <1>5, <2>1, <2>2, <2>3, <2>4, <2>5 DEF HubInv, OneUsable
<1>9. BoardCountsSpokes'
  BY <1>3, <1>4 DEF HubInv, BoardCountsSpokes, Seen
<1> QED
  BY <1>6, <1>7, <1>8, <1>9 DEF HubInv

\* A commit to the tables of the spokes' states.
LEMMA BoardWritten ==
    ASSUME HubInv, NEW r \in Desks, Committed(r, {<<"board", "count">>}), UNCHANGED spokeActs,
           observed' = [s \in Spokes |-> observed'[s]], BoardCountsSpokes'
    PROVE  HubInv'
<1>1. /\ OneRequestEach'
      /\ \A q \in Desks : desk'[q].op = "none" \/ desk'[q] = desk[q]
      /\ \A q \in Desks : q \notin overtaken' => desk'[q].op = "none"
      /\ blind \subseteq blind'
  BY DeskCommits DEF HubInv, HubTyped
<1>2. HubTyped'
  BY <1>1 DEF HubInv, HubTyped, Doing
<1>3. HubStillTrue'
  BY <1>1 DEF HubStillTrue, HubChecks, Doing
<1>4. OneUsable'
  BY <1>1 DEF HubInv, OneUsable, Usable, Seen
<1> QED
  BY <1>2, <1>3, <1>4 DEF HubInv

\* After a heartbeat the board has the hub's own count.
LEMMA StoreHeartbeatKeeps ==
    ASSUME HubInv, NEW r \in Desks, StoreHeartbeat(r)
    PROVE  HubInv'
<1>1. hubBoard'.by = "heartbeat"
  BY DEF StoreHeartbeat
<1>2. BoardCountsSpokes'
  BY <1>1 DEF BoardCountsSpokes
<1>3. observed' = [s \in Spokes |-> observed'[s]]
  BY DEF StoreHeartbeat, HubInv, HubTyped
<1> QED
  BY <1>2, <1>3, BoardWritten DEF StoreHeartbeat

\* A report that was not overtaken writes every state it counts.
LEMMA StoreObservationKeeps ==
    ASSUME HubInv, NEW r \in Desks, StoreObservation(r)
    PROVE  HubInv'
<1>1. PICK seen, rows, board : seen = desk[r].seen /\ rows = desk[r].rows /\ board = desk[r].board
  OBVIOUS
<1>2. /\ Doing(r, "observe") /\ Committed(r, {<<"board", "count">>}) /\ UNCHANGED spokeActs
      /\ observed' = [s \in Spokes |-> Column(rows[s], Reported(seen, rows, s), observed[s])]
      /\ hubBoard' = [count |-> Column(board.count, ConnectedCount(seen, rows), hubBoard.count), by |-> "observe"]
  BY <1>1 DEF StoreObservation
<1>3. BoardCountsSpokes'
  <2>1. CASE r \in overtaken
    <3>1. <<"board", "count">> \in blind'
      BY <1>2, <2>1, DeskCommits DEF HubInv, HubTyped
    <3> QED
      BY <3>1 DEF BoardCountsSpokes, Seen
  <2>2. CASE r \notin overtaken
    <3>1. rows = observed /\ board = hubBoard
      BY <1>1, <1>2, <2>2 DEF HubInv, HubStillTrue, HubChecks
    <3>2. \A s \in Spokes : observed'[s] = Reported(seen, rows, s)
      BY <1>2, <3>1 DEF Column
    <3>3. hubBoard'.count = ConnectedCount(seen, rows)
      BY <1>2, <3>1 DEF Column
    <3>4. {s \in Spokes : Reported(seen, rows, s) = "CONNECTED"} = {s \in Spokes : observed'[s] = "CONNECTED"}
      BY <3>2
    <3> QED
      BY <3>3, <3>4 DEF BoardCountsSpokes, ConnectedCount
  <2> QED
    BY <2>1, <2>2
<1>4. observed' = [s \in Spokes |-> observed'[s]]
  BY <1>2
<1> QED
  BY <1>2, <1>3, <1>4, BoardWritten

\* Every step of the hub keeps the invariant.
LEMMA HubStepInv == HubInv /\ [HubRuntimeNext]_<<deskVars, hubVars>> => HubInv'
<1> SUFFICES ASSUME HubInv, [HubRuntimeNext]_<<deskVars, hubVars>> PROVE HubInv'
  OBVIOUS
<1>1. CASE BootstrapHubIdentity
  <2>1. AtOnce /\ UNCHANGED <<spokeActs, observed, hubBoard>>
    BY <1>1 DEF BootstrapHubIdentity
  <2>2. UNCHANGED <<desk, blind>> /\ \A q \in Desks : q \notin overtaken' => desk'[q].op = "none"
    BY <2>1, DeskAtOnce
  <2>3. HubStillTrue'
    BY <2>2 DEF HubStillTrue, HubChecks, Doing
  <2>4. OneRequestEach' /\ \A q \in Desks : desk'[q].op = "issue" => desk'[q].profile \in SpokeProfiles
    BY <2>2 DEF HubInv, HubTyped, OneRequestEach, Doing
  <2> QED
    BY <2>1, <2>2, <2>3, <2>4, HubRowsStay
<1>2. CASE HubStoresSecret \/ SecretAnswerLost \/ UNCHANGED <<deskVars, hubVars>>
  <2>1. UNCHANGED <<desk, overtaken, blind, spokeActs, observed, hubBoard>>
    BY <1>2 DEF HubStoresSecret, SecretAnswerLost, deskVars, hubVars
  <2>2. OneRequestEach' /\ \A q \in Desks : desk'[q].op = "issue" => desk'[q].profile \in SpokeProfiles
    BY <2>1 DEF HubInv, HubTyped, OneRequestEach, Doing
  <2>3. HubStillTrue'
    BY <2>1 DEF HubInv, HubStillTrue, HubChecks, Doing, Usable
  <2> QED
    BY <2>1, <2>2, <2>3, HubRowsStay
<1>3. ASSUME NEW r \in Desks, HubRequestFails(r)
      PROVE  HubInv'
  <2>1. RolledBack(r) /\ UNCHANGED <<spokeActs, observed, hubBoard>>
    BY <1>3 DEF HubRequestFails, hubVars
  <2>2. /\ OneRequestEach' /\ UNCHANGED blind
        /\ desk'[r].op = "none" /\ r \notin overtaken'
        /\ \A q \in Desks \ {r} : desk'[q] = desk[q] /\ (q \in overtaken' <=> q \in overtaken)
    BY <2>1, DeskRollsBack DEF HubInv, HubTyped
  <2>3. \A q \in Desks : desk'[q].op = "issue" => desk'[q].profile \in SpokeProfiles
    BY <2>2 DEF HubInv, HubTyped, Doing
  <2>4. HubStillTrue'
    <3> SUFFICES ASSUME NEW q \in Desks \ {r}, q \notin overtaken' PROVE HubChecks(q)'
      BY <2>2 DEF HubStillTrue, HubChecks, Doing
    <3>1. HubChecks(q) /\ desk'[q] = desk[q]
      BY <2>2 DEF HubInv, HubStillTrue
    <3> QED
      BY <2>1, <3>1 DEF HubChecks, Doing, Usable
  <2> QED
    BY <2>1, <2>2, <2>3, <2>4, HubRowsStay
<1> QED
  BY <1>1, <1>2, <1>3, HubBegins, StoreActivationKeeps, StoreHeartbeatKeeps, StoreObservationKeeps DEF HubRuntimeNext

\* The inductive invariant.
THEOREM HubInvariant == HubRuntimeSpec => []HubInv
BY HubInitInv, HubStepInv, PTL DEF HubRuntimeSpec

\* But for overtaken requests a spoke profile has one activation that can be used, and the board counts
\* the spokes the latest report connected (spoke_runtime.py, sync_runtime.py).
THEOREM HubRuntimeRowsAgree == HubRuntimeSpec => []HubRowsAgree
BY HubInvariant, HubInvShows, PTL

-----------------------------------------------------------------------------
(* Numbers. *)

\* Finitely many numbers have a bound,
LEMMA NumbersAreBounded ==
    ASSUME NEW n, n \in Nat, NEW f, \A i \in 1 .. n : f[i] \in Nat
    PROVE  \E b \in Nat : \A i \in 1 .. n : f[i] <= b
<1> DEFINE Bad == {m \in Nat : m <= n /\ ~ \E b \in Nat : \A i \in 1 .. m : f[i] <= b}
<1>1. CASE Bad = {}
  <2>1. n \notin Bad
    <3> HIDE DEF Bad
    <3> QED
      BY <1>1
  <2>2. n <= n
    OBVIOUS
  <2> QED
    BY <2>1, <2>2
<1>2. CASE Bad # {}
  <2>1. PICK m \in Bad : \A k \in Bad : m <= k
    <3>1. Bad \subseteq Nat
      OBVIOUS
    <3> HIDE DEF Bad
    <3> QED
      BY <1>2, <3>1, LeastNumber
  <2>2. m \in Nat /\ m <= n /\ ~ \E b \in Nat : \A i \in 1 .. m : f[i] <= b
    OBVIOUS
  <2>3. CASE m = 0
    <3>1. \A i \in 1 .. m : f[i] <= 0
      BY <2>3
    <3> QED
      BY <2>2, <3>1
  <2>4. CASE m # 0
    <3>1. PICK l \in Nat : m = l + 1
      BY <2>2, <2>4
    <3>2. PICK b \in Nat : \A i \in 1 .. m - 1 : f[i] <= b
      <4>1. l \notin Bad
        <5> HIDE DEF Bad
        <5> QED
          BY <2>1, <3>1
      <4>2. l <= n /\ l = m - 1
        BY <2>2, <3>1
      <4> QED
        BY <3>1, <4>1, <4>2
    <3>3. f[m] \in Nat
      BY <2>2, <2>4
    <3>4. PICK c \in Nat : b <= c /\ f[m] <= c
      BY <3>2, <3>3
    <3>5. ASSUME NEW i \in 1 .. m PROVE f[i] <= c
      <4>1. i = m \/ i \in 1 .. m - 1
        BY <2>2
      <4>2. f[i] \in Nat
        BY <2>2
      <4> QED
        BY <3>2, <3>4, <4>1, <4>2
    <3> QED
      BY <2>2, <3>5
  <2> QED
    BY <2>3, <2>4
<1> QED
  BY <1>1, <1>2

\* and numbers that have a bound have a greatest one.
LEMMA GreatestIsThere ==
    ASSUME NEW V, V \subseteq Nat, NEW b, b \in Nat, \A v \in V : v <= b
    PROVE  /\ Greatest(V) \in Nat
           /\ \A v \in V : v <= Greatest(V)
           /\ V # {} => Greatest(V) \in V
<1> DEFINE Bounds == {c \in Nat : \A v \in V : v <= c}
<1>1. CASE V = {}
  BY <1>1 DEF Greatest
<1>2. CASE V # {}
  <2>1. Bounds # {} /\ Bounds \subseteq Nat
    OBVIOUS
  <2>2. PICK top \in Bounds : \A c \in Bounds : top <= c
    <3> HIDE DEF Bounds
    <3> QED
      BY <2>1, LeastNumber
  <2>3. top \in Nat /\ \A v \in V : v <= top
    OBVIOUS
  <2>4. top \in V
    <3>1. SUFFICES ASSUME top \notin V PROVE FALSE
      OBVIOUS
    <3>2. PICK v \in V : TRUE
      BY <1>2
    <3>3. v \in Nat /\ v <= top /\ v # top
      BY <2>3, <3>1
    <3>4. top - 1 \in Nat
      BY <2>3, <3>3
    <3>5. \A w \in V : w <= top - 1
      <4> SUFFICES ASSUME NEW w \in V PROVE w <= top - 1
        OBVIOUS
      <4>1. w \in Nat /\ w <= top /\ w # top
        BY <2>3, <3>1
      <4> QED
        BY <2>3, <4>1
    <3>6. top <= top - 1
      BY <2>2, <3>4, <3>5
    <3> QED
      BY <2>3, <3>6
  <2>5. PICK g : g = Greatest(V)
    OBVIOUS
  <2>6. g = CHOOSE n \in V : \A m \in V : m <= n
    BY <1>2, <2>5 DEF Greatest
  <2>7. g \in V /\ \A v \in V : v <= g
    BY <2>3, <2>4, <2>6
  <2> QED
    BY <2>5, <2>7
<1> QED
  BY <1>1, <1>2

-----------------------------------------------------------------------------
(* The log, and what a batch adds to it. *)

Mutation == [record : SyncRecords \cup SaleKeys, key : PushKeys \cup SaleKeys,
             version : Nat \ {0}, expected : Nat]

\* The columns of a mutation.
LEMMA MutationFacts ==
    ASSUME NEW l, l \in Seq(Mutation), NEW n, n \in DOMAIN l
    PROVE  /\ l[n].version \in Nat /\ l[n].version # 0 /\ l[n].expected \in Nat
           /\ l[n].record \in SyncRecords \cup SaleKeys
<1>1. l[n] \in Mutation
  OBVIOUS
<1> QED
  BY <1>1 DEF Mutation

\* The greatest version of some positions of a log.
LEMMA GreatestVersion ==
    ASSUME NEW l, l \in Seq(Mutation), NEW S, S \subseteq DOMAIN l
    PROVE  /\ Greatest({l[n].version : n \in S}) \in Nat
           /\ \A n \in S : l[n].version <= Greatest({l[n_1].version : n_1 \in S})
           /\ S # {} => \E n \in S : l[n].version = Greatest({l[n_1].version : n_1 \in S})
<1> DEFINE f == [n \in 1 .. Len(l) |-> l[n].version]
           V == {l[n].version : n \in S}
<1>1. Len(l) \in Nat /\ DOMAIN l = 1 .. Len(l)
  OBVIOUS
<1>2. \A n \in 1 .. Len(l) : f[n] \in Nat
  BY <1>1, MutationFacts
<1>3. PICK b \in Nat : \A n \in 1 .. Len(l) : f[n] <= b
  <2> HIDE DEF f
  <2> QED
    BY <1>1, <1>2, NumbersAreBounded
<1>4. V \subseteq Nat
  BY MutationFacts
<1>5. \A v \in V : v <= b
  BY <1>1, <1>3
<1>6. \A n \in S : l[n].version \in V
  OBVIOUS
<1>7. S # {} => V # {}
  OBVIOUS
<1>8. \A v \in V : \E n \in S : l[n].version = v
  OBVIOUS
<1>9. Greatest(V) \in Nat /\ (\A v \in V : v <= Greatest(V)) /\ (V # {} => Greatest(V) \in V)
  <2> HIDE DEF V
  <2> QED
    BY <1>3, <1>4, <1>5, GreatestIsThere
<1>10. /\ Greatest(V) \in Nat
       /\ \A n \in S : l[n].version <= Greatest(V)
       /\ S # {} => \E n \in S : l[n].version = Greatest(V)
  <2> HIDE DEF V
  <2> QED
    BY <1>6, <1>7, <1>8, <1>9
<1> QED
  BY <1>10

\* A branch's cursor and the versions of its records are bounds.
LEMMA CursorsBound ==
    ASSUME NEW l, l \in Seq(Mutation)
    PROVE  /\ BranchCursor(l) \in Nat /\ \A n \in DOMAIN l : l[n].version <= BranchCursor(l)
           /\ \A x : /\ RecordVersion(l, x) \in Nat
                     /\ \A n \in DOMAIN l : l[n].record = x => l[n].version <= RecordVersion(l, x)
<1>1. BranchCursor(l) \in Nat /\ \A n \in DOMAIN l : l[n].version <= BranchCursor(l)
  BY GreatestVersion DEF BranchCursor
<1>2. ASSUME NEW x
      PROVE  /\ RecordVersion(l, x) \in Nat
             /\ \A n \in DOMAIN l : l[n].record = x => l[n].version <= RecordVersion(l, x)
  <2> DEFINE S == {m \in DOMAIN l : l[m].record = x}
  <2>1. S \subseteq DOMAIN l /\ \A n \in DOMAIN l : l[n].record = x => n \in S
    OBVIOUS
  <2>2. RecordVersion(l, x) = Greatest({l[n].version : n \in S})
    BY DEF RecordVersion
  <2> HIDE DEF S
  <2> QED
    BY <2>1, <2>2, GreatestVersion
<1> QED
  BY <1>1, <1>2

\* What a push has read: a part of the log, and a cursor not below it.
PushErrand(d) ==
    /\ d.key \in PushKeys /\ d.base \in Nat
    /\ d.seen \in Nat /\ d.seen <= Len(log)
    /\ \A n \in 1 .. d.seen : log[n].version <= d.base

\* A batch under way: it has added mutations of versions that rise, each made from the version of
\* its record.
SoFar(d, acc) ==
    /\ acc = [log |-> acc.log, next |-> acc.next, refused |-> acc.refused]
    /\ acc.log \in Seq(Mutation) /\ d.seen <= Len(acc.log)
    /\ \A n \in 1 .. d.seen : acc.log[n] = log[n]
    /\ acc.next \in Nat /\ \A n \in 1 .. Len(acc.log) : acc.log[n].version <= acc.next
    /\ \A n \in d.seen + 1 .. Len(acc.log) :
         /\ acc.log[n].record \in SyncRecords
         /\ \A m \in 1 .. n - 1 :
              /\ acc.log[m].version < acc.log[n].version
              /\ acc.log[m].record = acc.log[n].record => acc.log[m].version <= acc.log[n].expected

\* One mutation more.
LEMMA ApplyGoesOn ==
    ASSUME NEW d, PushErrand(d), NEW acc, SoFar(d, acc), NEW i, i \in 1 .. Len(Batch[d.key])
    PROVE  SoFar(d, Apply(acc, i, d))
<1> DEFINE x == Batch[d.key][i]
           m == [record |-> x, key |-> d.key, version |-> acc.next + 1, expected |-> d.expected[i]]
<1>1. x \in SyncRecords /\ d.key \in PushKeys
  <2>1. Batch[d.key] \in Seq(SyncRecords)
    BY SpokeSyncAssumption DEF PushErrand
  <2> QED
    BY <2>1 DEF PushErrand
<1>2. acc = [log |-> acc.log, next |-> acc.next, refused |-> acc.refused]
  BY DEF SoFar
<1>3. CASE Accepts(acc.log, x, d.expected[i])
  <2>1. PICK after : after = Apply(acc, i, d)
    OBVIOUS
  <2>2. after = [log |-> Append(acc.log, m), next |-> acc.next + 1, refused |-> acc.refused]
    BY <1>2, <1>3, <2>1 DEF Apply
  <2>3. acc.log \in Seq(Mutation) /\ acc.next \in Nat /\ d.seen \in Nat /\ d.seen <= Len(acc.log)
    BY DEF SoFar, PushErrand
  <2>4. /\ d.expected[i] \in Nat
        /\ \A n \in DOMAIN acc.log : acc.log[n].record = x => acc.log[n].version <= d.expected[i]
    BY <1>3, <2>3, CursorsBound DEF Accepts
  <2>5. m \in Mutation
    BY <1>1, <2>3, <2>4 DEF Mutation
  <2>6. PICK l : l = Append(acc.log, m)
    OBVIOUS
  <2>7. /\ l \in Seq(Mutation) /\ Len(l) = Len(acc.log) + 1
        /\ \A n \in 1 .. Len(acc.log) : l[n] = acc.log[n]
        /\ l[Len(l)] = m
    BY <2>3, <2>5, <2>6
  <2>8. m.record = x /\ m.version = acc.next + 1 /\ m.expected = d.expected[i]
    OBVIOUS
  <2> HIDE DEF m, x
  <2>9. \A n \in 1 .. d.seen : l[n] = log[n]
    BY <2>3, <2>7 DEF SoFar
  <2>10. \A n \in 1 .. Len(l) : l[n].version <= acc.next + 1
    <3> SUFFICES ASSUME NEW n \in 1 .. Len(l) PROVE l[n].version <= acc.next + 1
      OBVIOUS
    <3>1. n = Len(l) \/ n \in 1 .. Len(acc.log)
      BY <2>3, <2>7
    <3>2. CASE n = Len(l)
      BY <2>3, <2>7, <2>8, <3>2
    <3>3. CASE n \in 1 .. Len(acc.log)
      <4>1. l[n].version <= acc.next /\ l[n].version \in Nat
        <5>1. acc.log[n].version \in Nat
          BY <2>3, <3>3, MutationFacts
        <5> QED
          BY <2>3, <2>7, <3>3, <5>1 DEF SoFar
      <4> QED
        BY <2>3, <4>1
    <3> QED
      BY <3>1, <3>2, <3>3
  <2>11. \A n \in d.seen + 1 .. Len(l) :
           /\ l[n].record \in SyncRecords
           /\ \A k \in 1 .. n - 1 :
                /\ l[k].version < l[n].version
                /\ l[k].record = l[n].record => l[k].version <= l[n].expected
    <3> SUFFICES ASSUME NEW n \in d.seen + 1 .. Len(l)
                 PROVE  /\ l[n].record \in SyncRecords
                        /\ \A k \in 1 .. n - 1 :
                             /\ l[k].version < l[n].version
                             /\ l[k].record = l[n].record => l[k].version <= l[n].expected
      OBVIOUS
    <3>1. n = Len(l) \/ n \in d.seen + 1 .. Len(acc.log)
      BY <2>3, <2>7
    <3>2. CASE n = Len(l)
      <4>1. l[n].record \in SyncRecords
        BY <1>1, <2>7, <2>8, <3>2
      <4>2. ASSUME NEW k \in 1 .. n - 1
            PROVE  /\ l[k].version < l[n].version
                   /\ l[k].record = l[n].record => l[k].version <= l[n].expected
        <5>1. k \in 1 .. Len(acc.log) /\ l[k] = acc.log[k]
          BY <2>3, <2>7, <3>2
        <5>2. acc.log[k].version \in Nat /\ k \in DOMAIN acc.log
          BY <2>3, <5>1, MutationFacts
        <5>3. acc.log[k].version <= acc.next
          BY <5>1 DEF SoFar
        <5>4. l[n].version = acc.next + 1 /\ l[n].record = x /\ l[n].expected = d.expected[i]
          BY <2>7, <2>8, <3>2
        <5>5. l[k].version < l[n].version
          BY <2>3, <5>1, <5>2, <5>3, <5>4
        <5> QED
          BY <2>4, <5>1, <5>2, <5>4, <5>5
      <4> QED
        BY <4>1, <4>2
    <3>3. CASE n \in d.seen + 1 .. Len(acc.log)
      <4>1. n \in 1 .. Len(acc.log) /\ \A k \in 1 .. n - 1 : k \in 1 .. Len(acc.log)
        BY <2>3, <3>3
      <4>2. l[n] = acc.log[n] /\ \A k \in 1 .. n - 1 : l[k] = acc.log[k]
        BY <2>7, <4>1
      <4>3. /\ acc.log[n].record \in SyncRecords
            /\ \A k \in 1 .. n - 1 :
                 /\ acc.log[k].version < acc.log[n].version
                 /\ acc.log[k].record = acc.log[n].record => acc.log[k].version <= acc.log[n].expected
        BY <3>3 DEF SoFar
      <4> QED
        BY <4>2, <4>3
    <3> QED
      BY <3>1, <3>2, <3>3
  <2>12. after.log = l /\ after.next = acc.next + 1 /\ after.refused = acc.refused
    BY <2>2, <2>6
  <2>13. after = [log |-> after.log, next |-> after.next, refused |-> after.refused]
    BY <2>2
  <2>14. d.seen <= Len(l)
    BY <2>3, <2>7
  <2>15. acc.next + 1 \in Nat
    BY <2>3
  <2>16. SoFar(d, after)
    BY <2>7, <2>9, <2>10, <2>11, <2>12, <2>13, <2>14, <2>15 DEF SoFar
  <2> QED
    BY <2>1, <2>16
<1>4. CASE ~Accepts(acc.log, x, d.expected[i])
  <2>1. PICK after : after = Apply(acc, i, d)
    OBVIOUS
  <2>2. after = [log |-> acc.log, next |-> acc.next,
                 refused |-> acc.refused \cup {[key |-> d.key, record |-> x]}]
    BY <1>2, <1>4, <2>1 DEF Apply
  <2>3. /\ after.log = acc.log /\ after.next = acc.next
        /\ after = [log |-> after.log, next |-> after.next, refused |-> after.refused]
    BY <2>2
  <2>4. SoFar(d, after)
    BY <2>3 DEF SoFar
  <2> QED
    BY <2>1, <2>4
<1> QED
  BY <1>3, <1>4

\* upTo of Applied, for the first n mutations of a batch.
UpTo(d, n, g) ==
    g = [i \in 0 .. n |-> IF i = 0
                          THEN [log |-> SubSeq(log, 1, d.seen), next |-> Numbering(d), refused |-> {}]
                          ELSE Apply(g[i - 1], i, d)]

\* One mutation more makes a longer one.
LEMMA UpToGoesOn ==
    ASSUME NEW d, NEW n, n \in Nat, NEW g, UpTo(d, n, g)
    PROVE  \E h : UpTo(d, n + 1, h)
<1> DEFINE first == [log |-> SubSeq(log, 1, d.seen), next |-> Numbering(d), refused |-> {}]
           h == [i \in 0 .. n + 1 |-> IF i = n + 1 THEN Apply(g[n], n + 1, d) ELSE g[i]]
<1>1. \A i \in 0 .. n : g[i] = IF i = 0 THEN first ELSE Apply(g[i - 1], i, d)
  BY DEF UpTo
<1>2. h[n + 1] = Apply(g[n], n + 1, d) /\ \A i \in 0 .. n : h[i] = g[i]
  OBVIOUS
<1>3. h = [i \in 0 .. n + 1 |-> h[i]]
  OBVIOUS
<1> HIDE DEF h, first
<1>4. ASSUME NEW i \in 0 .. n + 1 PROVE h[i] = IF i = 0 THEN first ELSE Apply(h[i - 1], i, d)
  <2>1. CASE i = n + 1
    <3>1. i # 0 /\ i - 1 = n /\ h[n] = g[n]
      BY <1>2, <2>1
    <3> QED
      BY <1>2, <2>1, <3>1
  <2>2. CASE i # n + 1 /\ i # 0
    <3>1. i \in 0 .. n /\ i - 1 \in 0 .. n
      BY <2>2
    <3>2. h[i] = g[i] /\ h[i - 1] = g[i - 1]
      BY <1>2, <3>1
    <3> QED
      BY <1>1, <2>2, <3>1, <3>2
  <2>3. CASE i = 0
    BY <1>1, <1>2, <2>3
  <2> QED
    BY <2>1, <2>2, <2>3
<1>5. UpTo(d, n + 1, h)
  BY <1>3, <1>4 DEF UpTo, first
<1> QED
  BY <1>5

\* There is one for every batch.
LEMMA UpToIsThere ==
    ASSUME NEW d, NEW n, n \in Nat
    PROVE  \E g : UpTo(d, n, g)
<1> DEFINE Bad == {m \in Nat : ~ \E g : UpTo(d, m, g)}
<1>1. SUFFICES ASSUME Bad # {} PROVE FALSE
  <2>1. n \notin Bad => \E g : UpTo(d, n, g)
    OBVIOUS
  <2> HIDE DEF Bad
  <2> QED
    BY <2>1
<1>2. PICK m \in Bad : \A k \in Bad : m <= k
  <2>1. Bad \subseteq Nat
    OBVIOUS
  <2> HIDE DEF Bad
  <2> QED
    BY <1>1, <2>1, LeastNumber
<1>3. m \in Nat /\ ~ \E g : UpTo(d, m, g)
  OBVIOUS
<1>4. CASE m = 0
  <2> DEFINE g == [i \in 0 .. 0 |-> [log |-> SubSeq(log, 1, d.seen), next |-> Numbering(d), refused |-> {}]]
  <2>1. UpTo(d, 0, g)
    BY DEF UpTo
  <2> QED
    BY <1>3, <1>4, <2>1
<1>5. CASE m # 0
  <2>1. PICK l \in Nat : m = l + 1
    BY <1>3, <1>5
  <2>2. l \notin Bad
    <3> HIDE DEF Bad
    <3> QED
      BY <1>2, <1>3, <2>1
  <2>3. PICK g : UpTo(d, l, g)
    BY <2>2
  <2>4. \E h : UpTo(d, l + 1, h)
    BY <2>3, UpToGoesOn
  <2> QED
    BY <1>3, <2>1, <2>4
<1> QED
  BY <1>4, <1>5

\* Every part of a batch adds as SoFar says,
LEMMA EveryPart ==
    ASSUME NEW d, PushErrand(d), log \in Seq(Mutation), NEW n, n = Len(Batch[d.key]), n \in Nat,
           NEW g, UpTo(d, n, g), NEW i, i \in 0 .. n
    PROVE  SoFar(d, g[i])
<1> DEFINE Bad == {k \in Nat : k <= n /\ ~SoFar(d, g[k])}
<1>0. \A k \in 0 .. n : g[k] = IF k = 0
                               THEN [log |-> SubSeq(log, 1, d.seen), next |-> Numbering(d), refused |-> {}]
                               ELSE Apply(g[k - 1], k, d)
  BY DEF UpTo
<1>1. SUFFICES ASSUME Bad # {} PROVE FALSE
  <2>1. i \notin Bad => SoFar(d, g[i])
    OBVIOUS
  <2> HIDE DEF Bad
  <2> QED
    BY <2>1
<1>2. PICK k \in Bad : \A l \in Bad : k <= l
  <2>1. Bad \subseteq Nat
    OBVIOUS
  <2> HIDE DEF Bad
  <2> QED
    BY <1>1, <2>1, LeastNumber
<1>3. k \in Nat /\ k <= n /\ ~SoFar(d, g[k])
  OBVIOUS
<1>4. CASE k = 0
  <2>1. PICK l : l = SubSeq(log, 1, d.seen)
    OBVIOUS
  <2>2. d.seen \in Nat /\ d.seen <= Len(log) /\ d.base \in Nat
    BY DEF PushErrand
  <2>3. l \in Seq(Mutation) /\ Len(l) = d.seen /\ \A m \in 1 .. d.seen : l[m] = log[m]
    BY <2>1, <2>2
  <2>4. g[0] = [log |-> l, next |-> d.base, refused |-> {}]
    <3>1. 0 \in 0 .. n
      OBVIOUS
    <3>2. g[0] = [log |-> SubSeq(log, 1, d.seen), next |-> Numbering(d), refused |-> {}]
      BY <1>0, <3>1
    <3> QED
      BY <2>1, <3>2 DEF Numbering
  <2>5. \A m \in 1 .. Len(l) : l[m].version <= d.base
    BY <2>3 DEF PushErrand
  <2>6. d.seen + 1 .. Len(l) = {}
    BY <2>2, <2>3
  <2>7. SoFar(d, g[0])
    BY <2>2, <2>3, <2>4, <2>5, <2>6 DEF SoFar
  <2> QED
    BY <1>3, <1>4, <2>7
<1>5. CASE k # 0
  <2>1. PICK l \in Nat : k = l + 1
    BY <1>3, <1>5
  <2>2. l \notin Bad
    <3> HIDE DEF Bad
    <3> QED
      BY <1>2, <1>3, <2>1
  <2>3. l <= n /\ k \in 1 .. n /\ k - 1 = l
    BY <1>3, <2>1
  <2>4. SoFar(d, g[l])
    BY <2>2, <2>3
  <2>5. g[k] = Apply(g[l], k, d)
    BY <1>0, <1>5, <2>3
  <2>6. SoFar(d, Apply(g[l], k, d))
    BY <2>3, <2>4, ApplyGoesOn
  <2> QED
    BY <1>3, <2>5, <2>6
<1> QED
  BY <1>4, <1>5

\* and so does all of it.
LEMMA BatchEnds ==
    ASSUME NEW d, PushErrand(d), log \in Seq(Mutation)
    PROVE  SoFar(d, Applied(d))
<1>1. PICK n : n = Len(Batch[d.key])
  OBVIOUS
<1>2. n \in Nat
  <2>1. Batch[d.key] \in Seq(SyncRecords)
    BY SpokeSyncAssumption DEF PushErrand
  <2> QED
    BY <1>1, <2>1
<1> DEFINE g == CHOOSE h : UpTo(d, n, h)
<1>3. UpTo(d, n, g)
  BY <1>2, UpToIsThere
<1>4. Applied(d) = g[n]
  BY <1>1 DEF Applied, UpTo
<1> HIDE DEF g
<1>5. n \in 0 .. n
  BY <1>2
<1>6. SoFar(d, g[n])
  BY <1>1, <1>2, <1>3, <1>5, EveryPart
<1> QED
  BY <1>4, <1>6
-----------------------------------------------------------------------------
(* A sale is replayed once. *)

Keys == PushKeys \cup SaleKeys

\* The kinds of the tables and of the calls.
SyncTypes ==
    /\ envelope = [k \in Keys |-> envelope[k]]
    /\ desk = [r \in Desks |-> desk[r]]
    /\ invoices \in Seq(SaleKeys \cup {Till})

\* A call under way is about a key of its kind.
ErrandsFit ==
    \A r \in Desks :
        /\ Doing(r, "push") => desk[r].key \in PushKeys
        /\ desk[r].op \in {"replay", "numbered", "refuse"} => desk[r].key \in SaleKeys

SyncInv == SyncTypes /\ ErrandsFit /\ ReplayedOnce

-----------------------------------------------------------------------------
\* Nothing is posted before the first call.
LEMMA SyncInitInv == SpokeSyncInit => SyncInv
<1> SUFFICES ASSUME SpokeSyncInit PROVE SyncInv
  OBVIOUS
<1> USE DEF SpokeSyncInit, DeskInit
<1>1. SyncTypes
  BY DEF SyncTypes, Keys
<1>2. ErrandsFit
  BY DEF ErrandsFit, Doing, Idle
<1>3. ReplayedOnce
  <2>1. \A k \in SaleKeys : envelope[k].result = "none"
    BY DEF NoEnvelope
  <2> QED
    BY <2>1 DEF ReplayedOnce
<1> QED
  BY <1>1, <1>2, <1>3 DEF SyncInv

-----------------------------------------------------------------------------
(* The desks. *)

\* A call that arrives leaves the others alone.
LEMMA ArrivesFit ==
    ASSUME SyncInv, NEW r \in Desks, NEW errand, Checked(r, errand),
           errand.op = "push" => errand.key \in PushKeys,
           errand.op \in {"replay", "numbered", "refuse"} => errand.key \in SaleKeys
    PROVE  ErrandsFit' /\ desk' = [q \in Desks |-> desk'[q]]
<1>1. desk' = [desk EXCEPT ![r] = errand] /\ desk = [q \in Desks |-> desk[q]]
  BY DEF Checked, SyncInv, SyncTypes
<1>2. ErrandsFit
  BY DEF SyncInv
<1>3. ErrandsFit'
  BY <1>1, <1>2 DEF ErrandsFit, Doing
<1> QED
  BY <1>1, <1>3

\* So does one that ends.
LEMMA EndsFit ==
    ASSUME SyncInv, NEW r \in Desks, desk' = [desk EXCEPT ![r] = Idle]
    PROVE  ErrandsFit' /\ desk' = [q \in Desks |-> desk'[q]]
<1>1. desk = [q \in Desks |-> desk[q]] /\ ErrandsFit
  BY DEF SyncInv, SyncTypes
<1>2. ErrandsFit'
  BY <1>1 DEF ErrandsFit, Doing, Idle
<1> QED
  BY <1>1, <1>2

\* The tables stand still and the desks stay fit.
LEMMA StillInv ==
    ASSUME SyncInv, ErrandsFit', desk' = [q \in Desks |-> desk'[q]], UNCHANGED <<envelope, invoices>>
    PROVE  SyncInv'
BY DEF SyncInv, SyncTypes, ReplayedOnce, Keys

-----------------------------------------------------------------------------
(* The actions that write. *)

\* A push answers under its own key.
LEMMA StorePushInv ==
    ASSUME SyncInv, NEW r \in Desks, StorePush(r)
    PROVE  SyncInv'
<1>1. PICK answer : envelope' = [envelope EXCEPT ![desk[r].key] = answer]
  BY DEF StorePush
<1>2. desk[r].key \in PushKeys
  BY DEF StorePush, SyncInv, ErrandsFit
<1>3. desk' = [desk EXCEPT ![r] = Idle] /\ invoices' = invoices
  BY DEF StorePush, Committed
<1>4. ErrandsFit' /\ desk' = [q \in Desks |-> desk'[q]]
  BY <1>3, EndsFit
<1>5. \A k \in SaleKeys : envelope'[k] = envelope[k]
  BY <1>1, <1>2, SpokeSyncAssumption DEF SyncInv, SyncTypes, Keys
<1>6. ReplayedOnce'
  BY <1>3, <1>5 DEF SyncInv, ReplayedOnce
<1>7. envelope' = [k \in Keys |-> envelope'[k]]
  BY <1>1 DEF SyncInv, SyncTypes
<1> QED
  BY <1>3, <1>4, <1>6, <1>7 DEF SyncInv, SyncTypes

\* A refusal spends a key under which nothing was posted.
LEMMA StoreConflictInv ==
    ASSUME SyncInv, NEW r \in Desks, StoreConflict(r)
    PROVE  SyncInv'
<1> DEFINE key == desk[r].key
           answer == [result |-> "CONFLICT", accepted |-> 0, cursor |-> BranchCursor(log)]
<1>1. key \in SaleKeys /\ envelope[key] = NoEnvelope /\ envelope' = [envelope EXCEPT ![key] = answer]
  BY DEF StoreConflict, SyncInv, ErrandsFit, Doing
<1>2. desk' = [desk EXCEPT ![r] = Idle] /\ invoices' = invoices
  BY DEF StoreConflict, Committed
<1>3. ErrandsFit' /\ desk' = [q \in Desks |-> desk'[q]]
  BY <1>2, EndsFit
<1>4. envelope' = [k \in Keys |-> envelope'[k]]
  BY <1>1 DEF SyncInv, SyncTypes
<1>5. envelope'[key].result = "CONFLICT" /\ envelope[key].result = "none"
  BY <1>1 DEF SyncInv, SyncTypes, Keys, NoEnvelope
<1>6. \A k \in SaleKeys \ {key} : envelope'[k] = envelope[k]
  BY <1>1 DEF SyncInv, SyncTypes, Keys
<1>7. ReplayedOnce'
  BY <1>2, <1>5, <1>6 DEF SyncInv, ReplayedOnce
<1> QED
  BY <1>2, <1>3, <1>4, <1>7 DEF SyncInv, SyncTypes

\* A replay posts under the next number, which its envelope answers: nothing was posted under its
\* key, for its envelope was not there.
LEMMA StoreReplayInv ==
    ASSUME SyncInv, NEW r \in Desks, StoreReplay(r)
    PROVE  SyncInv'
<1> DEFINE key == desk[r].key
           n == Len(invoices) + 1
           answer == [result |-> "SYNCED", accepted |-> n, cursor |-> 0]
<1>1. /\ key \in SaleKeys /\ envelope[key] = NoEnvelope
      /\ envelope' = [envelope EXCEPT ![key] = answer]
      /\ invoices' = Append(invoices, key)
  BY DEF StoreReplay, SyncInv, ErrandsFit, Doing
<1>2. desk' = [desk EXCEPT ![r] = Idle]
  BY DEF StoreReplay, Committed
<1>3. ErrandsFit' /\ desk' = [q \in Desks |-> desk'[q]]
  BY <1>2, EndsFit
<1>4. envelope' = [k \in Keys |-> envelope'[k]]
  BY <1>1 DEF SyncInv, SyncTypes
<1>5. invoices \in Seq(SaleKeys \cup {Till})
  BY DEF SyncInv, SyncTypes
<1>6. /\ invoices' \in Seq(SaleKeys \cup {Till})
      /\ DOMAIN invoices' = DOMAIN invoices \cup {n} /\ n \notin DOMAIN invoices
      /\ invoices'[n] = key /\ \A m \in DOMAIN invoices : invoices'[m] = invoices[m]
  BY <1>1, <1>5
<1>7. ReplayedOnce'
  <2> SUFFICES ASSUME NEW k \in SaleKeys
               PROVE  {m \in DOMAIN invoices' : invoices'[m] = k}
                        = IF envelope'[k].result = "SYNCED" THEN {envelope'[k].accepted} ELSE {}
    BY DEF ReplayedOnce
  <2>1. CASE k = key
    <3>1. envelope[key].result = "none"
      BY <1>1 DEF NoEnvelope
    <3>2. {m \in DOMAIN invoices : invoices[m] = key} = {}
      BY <1>1, <3>1 DEF SyncInv, ReplayedOnce
    <3>3. {m \in DOMAIN invoices' : invoices'[m] = key} = {n}
      BY <1>6, <3>2
    <3>4. envelope'[key] = answer
      BY <1>1 DEF SyncInv, SyncTypes, Keys
    <3> QED
      BY <2>1, <3>3, <3>4
  <2>2. CASE k # key
    <3>1. envelope'[k] = envelope[k]
      BY <1>1, <2>2 DEF SyncInv, SyncTypes, Keys
    <3>2. {m \in DOMAIN invoices' : invoices'[m] = k} = {m \in DOMAIN invoices : invoices[m] = k}
      BY <1>6, <2>2
    <3> QED
      BY <3>1, <3>2 DEF SyncInv, ReplayedOnce
  <2> QED
    BY <2>1, <2>2
<1> QED
  BY <1>2, <1>3, <1>4, <1>6, <1>7 DEF SyncInv, SyncTypes

\* A sale of another till has no key.
LEMMA TillSaleInv == SyncInv /\ TillSale => SyncInv'
<1> SUFFICES ASSUME SyncInv, TillSale PROVE SyncInv'
  OBVIOUS
<1>1. invoices' = Append(invoices, Till) /\ envelope' = envelope /\ desk' = desk
  BY DEF TillSale, AtOnce
<1>2. invoices \in Seq(SaleKeys \cup {Till})
  BY DEF SyncInv, SyncTypes
<1>3. /\ invoices' \in Seq(SaleKeys \cup {Till})
      /\ \A k \in SaleKeys :
           {m \in DOMAIN invoices' : invoices'[m] = k} = {m \in DOMAIN invoices : invoices[m] = k}
  BY <1>1, <1>2, SpokeSyncAssumption
<1>4. ReplayedOnce'
  BY <1>1, <1>3 DEF SyncInv, ReplayedOnce
<1> QED
  BY <1>1, <1>3, <1>4 DEF SyncInv, SyncTypes, ErrandsFit, Doing, Keys

-----------------------------------------------------------------------------
\* Every step keeps the invariant.
LEMMA SyncStepInv == SyncInv /\ [SpokeSyncNext]_syncVars => SyncInv'
<1> SUFFICES ASSUME SyncInv, [SpokeSyncNext]_syncVars PROVE SyncInv'
  OBVIOUS
<1>1. ASSUME NEW r \in Desks, NEW k \in PushKeys, Push(r, k) PROVE SyncInv'
  <2> DEFINE errand == [op |-> "push", key |-> k, base |-> BranchCursor(log), seen |-> Len(log),
                        expected |-> [i \in DOMAIN Batch[k] |-> KnownVersion(Batch[k][i])]]
  <2>1. Checked(r, errand) /\ UNCHANGED <<envelope, invoices>>
    BY <1>1 DEF Push, Arrives, syncRows
  <2>2. errand.op = "push" /\ errand.key = k
    OBVIOUS
  <2> HIDE DEF errand
  <2>3. ErrandsFit' /\ desk' = [q \in Desks |-> desk'[q]]
    BY <2>1, <2>2, ArrivesFit
  <2> QED
    BY <2>1, <2>3, StillInv
<1>2. ASSUME NEW r \in Desks, NEW k \in SaleKeys, NEW agrees \in BOOLEAN, Replay(r, k, agrees)
      PROVE  SyncInv'
  <2> DEFINE errand == [op |-> IF Replayable(agrees) THEN "replay" ELSE "refuse", key |-> k]
  <2>1. Checked(r, errand) /\ UNCHANGED <<envelope, invoices>>
    BY <1>2 DEF Replay, Arrives, syncRows
  <2>2. errand.op # "push" /\ errand.key = k
    OBVIOUS
  <2> HIDE DEF errand
  <2>3. ErrandsFit' /\ desk' = [q \in Desks |-> desk'[q]]
    BY <2>1, <2>2, ArrivesFit
  <2> QED
    BY <2>1, <2>3, StillInv
<1>3. ASSUME NEW r \in Desks, NumberReplay(r) PROVE SyncInv'
  <2> DEFINE errand == [op |-> "numbered", key |-> desk[r].key, base |-> BranchCursor(log)]
  <2>1. desk' = [desk EXCEPT ![r] = errand] /\ UNCHANGED <<envelope, invoices>>
    BY <1>3 DEF NumberReplay, syncRows
  <2>2. errand.op = "numbered" /\ errand.key \in SaleKeys
    BY <1>3 DEF NumberReplay, SyncInv, ErrandsFit, Doing
  <2> HIDE DEF errand
  <2>3. ErrandsFit' /\ desk' = [q \in Desks |-> desk'[q]]
    BY <2>1, <2>2 DEF SyncInv, SyncTypes, ErrandsFit, Doing
  <2> QED
    BY <2>1, <2>3, StillInv
<1>4. ASSUME NEW r \in Desks, SyncFails(r) PROVE SyncInv'
  <2>1. desk' = [desk EXCEPT ![r] = Idle] /\ UNCHANGED <<envelope, invoices>>
    BY <1>4 DEF SyncFails, RolledBack, syncRows
  <2> QED
    BY <2>1, EndsFit, StillInv
<1>5. ASSUME UNCHANGED <<envelope, invoices, desk>> PROVE SyncInv'
  BY <1>5 DEF SyncInv, SyncTypes, ErrandsFit, ReplayedOnce, Doing, Keys
<1>6. ASSUME NEW S, Pull(S) PROVE SyncInv'
  BY <1>5, <1>6 DEF Pull, syncRows, deskVars
<1>7. CASE SwitchOfflineSales
  BY <1>5, <1>7 DEF SwitchOfflineSales, deskVars
<1>8. CASE UNCHANGED syncVars
  BY <1>5, <1>8 DEF syncVars, syncRows, deskVars
<1> QED
  BY <1>1, <1>2, <1>3, <1>4, <1>6, <1>7, <1>8,
     StorePushInv, StoreConflictInv, StoreReplayInv, TillSaleInv DEF SpokeSyncNext


\* A state of the sync never has a sale twice, or one its envelope does not answer for.
THEOREM SpokeSyncReplayedOnce == SpokeSyncSpec => []ReplayedOnce
<1>1. SyncInv => ReplayedOnce
  BY DEF SyncInv
<1> QED
  BY <1>1, SyncInitInv, SyncStepInv, PTL DEF SpokeSyncSpec

-----------------------------------------------------------------------------
(* What goes wrong, goes wrong where a request was overtaken. *)

\* The log and what the hub has of it.
LogTypes == log \in Seq(Mutation) /\ cursor \in Nat /\ pulled \subseteq DOMAIN log

\* A push that nobody has overtaken has seen all of the log,
PushesRead ==
    \A r \in Desks :
        Doing(r, "push") => PushErrand(desk[r]) /\ (r \notin overtaken => desk[r].seen = Len(log))

\* a replay with a number all of it too, and the stock is there for it.
ReplaysRead ==
    \A r \in Desks :
        /\ Doing(r, "numbered") =>
             /\ desk[r].base \in Nat
             /\ r \notin overtaken => \A n \in DOMAIN log : log[n].version <= desk[r].base
        /\ desk[r].op \in {"replay", "numbered"} /\ r \notin overtaken => CloudStock > 0

\* Versions rise in the log but where a request was overtaken.
Rising ==
    \A m, n \in DOMAIN log : m < n /\ Seen("mutation", n) => log[m].version < log[n].version

\* A cursor is the version of a mutation.
CursorReached == cursor = 0 \/ \E n \in DOMAIN log : log[n].version = cursor

\* A sale of the log has been answered for.
SalesLogged == \A n \in DOMAIN log : log[n].record \in SaleKeys => envelope[log[n].record].result = "SYNCED"

LogHolds == LogTypes /\ Rising /\ CursorReached /\ PullMissesNothing /\ NoLostUpdate

OrderInv == LogHolds /\ PushesRead /\ ReplaysRead /\ SalesLogged /\ ReplayHasStock

\* Nothing is missed before the first mutation.
LEMMA OrderInitInv == SpokeSyncInit => OrderInv
<1> SUFFICES ASSUME SpokeSyncInit PROVE OrderInv
  OBVIOUS
<1>1. log = <<>> /\ invoices = <<>> /\ cursor = 0 /\ pulled = {} /\ \A r \in Desks : desk[r] = Idle
  BY DEF SpokeSyncInit, DeskInit
<1>2. DOMAIN log = {} /\ log \in Seq(Mutation) /\ Len(invoices) = 0
  BY <1>1
<1>3. LogHolds
  BY <1>1, <1>2 DEF LogHolds, LogTypes, Rising, CursorReached, PullMissesNothing, NoLostUpdate
<1>4. PushesRead /\ ReplaysRead /\ SalesLogged
  BY <1>1, <1>2 DEF PushesRead, ReplaysRead, SalesLogged, Doing, Idle
<1>5. ReplayHasStock
  <2>1. CloudStock = Stock0 /\ Stock0 \in Nat
    BY <1>2, SpokeSyncAssumption DEF CloudStock
  <2> QED
    BY <2>1 DEF ReplayHasStock
<1> QED
  BY <1>3, <1>4, <1>5 DEF OrderInv

\* The log grows by mutations of an overtaken request, or by such as rise above all before them.
LEMMA LogGrows ==
    ASSUME LogHolds, NEW l, l \in Seq(Mutation), log' = l, Len(log) <= Len(l),
           \A n \in 1 .. Len(log) : l[n] = log[n],
           blind \subseteq blind', UNCHANGED <<cursor, pulled>>,
           \A n \in Len(log) + 1 .. Len(l) :
             \/ <<"mutation", n>> \in blind'
             \/ \A m \in 1 .. n - 1 :
                  /\ l[m].version < l[n].version
                  /\ l[m].record = l[n].record => l[m].version <= l[n].expected
    PROVE  LogHolds'
<1>1. log \in Seq(Mutation) /\ cursor \in Nat /\ pulled \subseteq DOMAIN log
  BY DEF LogHolds, LogTypes
<1>2. PICK k : k = Len(log)
  OBVIOUS
<1>3. PICK k2 : k2 = Len(l)
  OBVIOUS
<1>4. k \in Nat /\ k2 \in Nat /\ k <= k2 /\ DOMAIN log = 1 .. k /\ DOMAIN l = 1 .. k2 /\ DOMAIN log' = 1 .. k2
  BY <1>1, <1>2, <1>3
<1>5. \A n \in 1 .. k : l[n] = log[n] /\ n \in 1 .. k2
  BY <1>2, <1>4
<1>6. \A n \in 1 .. k2 : n \in 1 .. k \/ n \in k + 1 .. k2
  BY <1>4
<1>7. \A n \in 1 .. k2 : l[n].version \in Nat /\ l[n].version # 0 /\ l[n].expected \in Nat
  BY <1>4, MutationFacts
<1>8. \A n : Seen("mutation", n)' => Seen("mutation", n)
  BY DEF Seen
<1>9. \A n \in k + 1 .. k2 :
        Seen("mutation", n)' =>
          \A m \in 1 .. n - 1 :
            /\ l[m].version < l[n].version
            /\ l[m].record = l[n].record => l[m].version <= l[n].expected
  BY <1>2, <1>3 DEF Seen
<1>10. LogTypes'
  BY <1>1, <1>4, <1>5 DEF LogTypes
<1>11. Rising'
  <2> SUFFICES ASSUME NEW m \in 1 .. k2, NEW n \in 1 .. k2, m < n, Seen("mutation", n)'
               PROVE  l[m].version < l[n].version
    BY <1>4 DEF Rising
  <2>1. CASE n \in 1 .. k
    <3>1. m \in 1 .. k /\ Seen("mutation", n)
      BY <1>4, <1>8, <2>1
    <3>2. log[m].version < log[n].version
      BY <1>4, <2>1, <3>1 DEF LogHolds, Rising
    <3> QED
      BY <1>5, <2>1, <3>1, <3>2
  <2>2. CASE n \in k + 1 .. k2
    <3>1. m \in 1 .. n - 1
      BY <1>4, <2>2
    <3> QED
      BY <1>9, <2>2, <3>1
  <2> QED
    BY <1>6, <2>1, <2>2
<1>12. CursorReached'
  <2>1. cursor = 0 \/ \E n \in 1 .. k : log[n].version = cursor
    BY <1>4 DEF LogHolds, CursorReached
  <2>2. CASE cursor = 0
    BY <2>2 DEF CursorReached
  <2>3. CASE cursor # 0
    <3>1. PICK n \in 1 .. k : log[n].version = cursor
      BY <2>1, <2>3
    <3>2. n \in 1 .. k2 /\ l[n].version = cursor
      BY <1>5, <3>1
    <3> QED
      BY <1>4, <3>2 DEF CursorReached
  <2> QED
    BY <2>2, <2>3
<1>13. PullMissesNothing'
  <2> SUFFICES ASSUME NEW n \in 1 .. k2, l[n].version <= cursor, n \notin pulled
               PROVE  \E m \in 1 .. k2 : l[m].version = l[n].version /\ ~Seen("mutation", m)'
    BY <1>4 DEF PullMissesNothing
  <2>1. CASE n \in 1 .. k
    <3>1. PICK m \in 1 .. k : log[m].version = log[n].version /\ ~Seen("mutation", m)
      BY <1>4, <1>5, <2>1 DEF LogHolds, PullMissesNothing
    <3> QED
      BY <1>5, <1>8, <2>1, <3>1
  <2>2. CASE n \in k + 1 .. k2
    <3>1. SUFFICES ASSUME Seen("mutation", n)' PROVE FALSE
      OBVIOUS
    <3>2. cursor # 0
      BY <1>1, <1>7
    <3>3. PICK m \in 1 .. k : log[m].version = cursor
      BY <1>4, <3>2 DEF LogHolds, CursorReached
    <3>4. m \in 1 .. n - 1 /\ l[m] = log[m]
      BY <1>4, <1>5, <2>2, <3>3
    <3>5. l[m].version < l[n].version
      BY <1>9, <2>2, <3>1, <3>4
    <3> QED
      BY <1>1, <1>7, <3>3, <3>4, <3>5
  <2> QED
    BY <1>6, <2>1, <2>2
<1>14. NoLostUpdate'
  <2> SUFFICES ASSUME NEW m \in 1 .. k2, NEW n \in 1 .. k2, m < n, l[m].record = l[n].record,
                      l[n].expected < l[m].version, Seen("mutation", n)'
               PROVE  FALSE
    BY <1>4 DEF NoLostUpdate
  <2>1. CASE n \in 1 .. k
    <3>1. m \in 1 .. k /\ Seen("mutation", n) /\ l[m] = log[m] /\ l[n] = log[n]
      BY <1>4, <1>5, <1>8, <2>1
    <3> QED
      BY <1>4, <2>1, <3>1 DEF LogHolds, NoLostUpdate
  <2>2. CASE n \in k + 1 .. k2
    <3>1. m \in 1 .. n - 1
      BY <1>4, <2>2
    <3>2. l[m].version <= l[n].expected
      BY <1>9, <2>2, <3>1
    <3> QED
      BY <1>7, <3>2
  <2> QED
    BY <1>6, <2>1, <2>2
<1> QED
  BY <1>10, <1>11, <1>12, <1>13, <1>14 DEF LogHolds

\* What the requests under way have read is true of a longer log if they are overtaken.
LEMMA OvertakenReads ==
    ASSUME OrderInv, SyncInv, NEW l, l \in Seq(Mutation), log' = l, Len(log) <= Len(l),
           \A n \in 1 .. Len(log) : l[n] = log[n],
           \A q \in Desks : desk'[q] = Idle \/ (desk'[q] = desk[q] /\ q \in overtaken')
    PROVE  PushesRead' /\ ReplaysRead'
<1>1. log \in Seq(Mutation)
  BY DEF OrderInv, LogHolds, LogTypes
<1>2. ASSUME NEW q \in Desks, desk'[q].op = "push"
      PROVE  PushErrand(desk[q])' /\ q \in overtaken'
  <2>1. PICK d : d = desk[q]
    OBVIOUS
  <2>2. desk'[q] = d /\ q \in overtaken'
    BY <1>2, <2>1 DEF Idle
  <2>3. /\ d.key \in PushKeys /\ d.base \in Nat /\ d.seen \in Nat /\ d.seen <= Len(log)
        /\ \A n \in 1 .. d.seen : log[n].version <= d.base
    BY <1>2, <2>1, <2>2 DEF OrderInv, PushesRead, PushErrand, Doing
  <2>4. d.seen <= Len(l) /\ \A n \in 1 .. d.seen : l[n] = log[n]
    BY <1>1, <2>3
  <2>5. \A n \in 1 .. d.seen : l[n].version <= d.base
    BY <2>3, <2>4
  <2> QED
    BY <2>2, <2>3, <2>4, <2>5 DEF PushErrand
<1>3. PushesRead'
  BY <1>2 DEF PushesRead, Doing
<1>4. ASSUME NEW q \in Desks, desk'[q].op \in {"replay", "numbered"}
      PROVE  q \in overtaken' /\ desk'[q] = desk[q]
  BY <1>4 DEF Idle
<1>5. ReplaysRead'
  BY <1>4 DEF ReplaysRead, OrderInv, Doing
<1> QED
  BY <1>3, <1>5

\* A request that commits or is recorded at once overtakes the others.
LEMMA CommitOvertakesOthers ==
    ASSUME SyncInv, NEW r \in Desks, NEW rows, Committed(r, rows)
    PROVE  /\ \A q \in Desks : desk'[q] = Idle \/ (desk'[q] = desk[q] /\ q \in overtaken')
           /\ blind \subseteq blind'
           /\ r \in overtaken => rows \subseteq blind'
<1>1. desk = [q \in Desks |-> desk[q]] /\ desk' = [desk EXCEPT ![r] = Idle]
  BY DEF Committed, SyncInv, SyncTypes
<1>2. \A q \in Desks : desk'[q] = IF q = r THEN Idle ELSE desk[q]
  BY <1>1
<1>3. \A q \in Desks \ {r} : desk[q] # Idle => q \in overtaken'
  BY DEF Committed
<1>4. ASSUME NEW q \in Desks PROVE desk'[q] = Idle \/ (desk'[q] = desk[q] /\ q \in overtaken')
  BY <1>2, <1>3
<1>5. blind \subseteq blind' /\ (r \in overtaken => rows \subseteq blind')
  BY DEF Committed
<1> QED
  BY <1>4, <1>5

\* The stock falls below nothing only by an invoice of an overtaken replay.
LEMMA StockFalls ==
    ASSUME OrderInv, NEW n, n = Len(invoices) + 1, Len(invoices) \in Nat, Len(invoices') = n,
           DOMAIN invoices = 1 .. Len(invoices), DOMAIN invoices' = 1 .. n,
           blind \subseteq blind',
           CloudStock > 0 \/ <<"invoice", n>> \in blind'
    PROVE  ReplayHasStock'
<1>1. SUFFICES ASSUME CloudStock' < 0 PROVE \E i \in 1 .. n : ~Seen("invoice", i)'
  BY DEF ReplayHasStock
<1>2. CASE CloudStock < 0
  <2>1. PICK i \in 1 .. Len(invoices) : ~Seen("invoice", i)
    BY <1>2 DEF OrderInv, ReplayHasStock
  <2>2. i \in 1 .. n /\ ~Seen("invoice", i)'
    BY <2>1 DEF Seen
  <2> QED
    BY <2>2
<1>3. CASE ~(CloudStock < 0)
  <2>1. ~(CloudStock > 0)
    BY <1>1, SpokeSyncAssumption DEF CloudStock
  <2>2. n \in 1 .. n /\ ~Seen("invoice", n)'
    BY <2>1 DEF Seen
  <2> QED
    BY <2>2
<1> QED
  BY <1>2, <1>3

\* The tables of the cloud stand still.
LEMMA StillOrder ==
    ASSUME OrderInv, SyncInv, UNCHANGED <<log, envelope, invoices, cursor, pulled, blind>>, PushesRead', ReplaysRead'
    PROVE  OrderInv'
<1>1. LogHolds'
  BY DEF OrderInv, LogHolds, LogTypes, Rising, CursorReached, PullMissesNothing, NoLostUpdate, Seen
<1>2. SalesLogged' /\ ReplayHasStock'
  BY DEF OrderInv, SalesLogged, ReplayHasStock, CloudStock, Seen
<1> QED
  BY <1>1, <1>2 DEF OrderInv

\* A push that was not overtaken writes what it has numbered upon the log it has seen.
LEMMA StorePushOrder ==
    ASSUME OrderInv, SyncInv, NEW r \in Desks, StorePush(r)
    PROVE  OrderInv'
<1>1. PICK d : d = desk[r]
  OBVIOUS
<1>2. PICK end : end = Applied(d)
  OBVIOUS
<1>3. PICK added : added = SubSeq(end.log, d.seen + 1, Len(end.log))
  OBVIOUS
<1>4. PICK l : l = log \o added
  OBVIOUS
<1>5. PICK rows : rows = {<<"mutation", n>> : n \in Len(log) + 1 .. Len(log \o added)}
  OBVIOUS
<1>6. /\ log' = l /\ Committed(r, rows) /\ UNCHANGED <<invoices, cursor, pulled>>
      /\ \E answer : envelope' = [envelope EXCEPT ![d.key] = answer]
      /\ d.op = "push"
  BY <1>1, <1>2, <1>3, <1>4, <1>5 DEF StorePush, syncHub, Doing
<1>7. log \in Seq(Mutation)
  BY DEF OrderInv, LogHolds, LogTypes
<1>8. PushErrand(d) /\ (r \notin overtaken => d.seen = Len(log))
  BY <1>1, <1>6 DEF OrderInv, PushesRead, Doing
<1>9. SoFar(d, end)
  BY <1>2, <1>7, <1>8, BatchEnds
<1>10. PICK el : el = end.log
  OBVIOUS
<1>11. /\ el \in Seq(Mutation) /\ d.seen <= Len(el) /\ d.seen \in Nat /\ \A n \in 1 .. d.seen : el[n] = log[n]
       /\ \A n \in d.seen + 1 .. Len(el) :
            /\ el[n].record \in SyncRecords
            /\ \A m \in 1 .. n - 1 :
                 /\ el[m].version < el[n].version
                 /\ el[m].record = el[n].record => el[m].version <= el[n].expected
  BY <1>8, <1>9, <1>10 DEF SoFar, PushErrand
<1>12. /\ added \in Seq(Mutation) /\ Len(added) = Len(el) - d.seen /\ Len(added) \in Nat
       /\ \A n \in 1 .. Len(added) : added[n] = el[d.seen + n]
  <2>1. added = SubSeq(el, d.seen + 1, Len(el))
    BY <1>3, <1>10
  <2>2. PICK a : a = d.seen
    OBVIOUS
  <2>3. PICK b : b = Len(el)
    OBVIOUS
  <2>4. a \in Nat /\ b \in Nat /\ a <= b /\ DOMAIN el = 1 .. b
    BY <1>11, <2>2, <2>3
  <2>5. a + 1 \in Int /\ b \in Int /\ \A i \in a + 1 .. b : el[i] \in Mutation
    <3>1. \A i \in a + 1 .. b : i \in DOMAIN el
      BY <2>4
    <3> QED
      BY <1>11, <2>4, <3>1
  <2>6. /\ SubSeq(el, a + 1, b) \in Seq(Mutation)
        /\ Len(SubSeq(el, a + 1, b)) = IF a + 1 <= b THEN b - (a + 1) + 1 ELSE 0
        /\ \A i \in 1 .. b - (a + 1) + 1 : SubSeq(el, a + 1, b)[i] = el[a + 1 + i - 1]
    BY <2>5, SubSeqProperties
  <2>7. b - (a + 1) + 1 = b - a /\ b - a \in Nat /\ \A i \in Nat : a + 1 + i - 1 = a + i
    BY <2>4
  <2>8. Len(SubSeq(el, a + 1, b)) = b - a
    BY <2>4, <2>6, <2>7
  <2>9. \A i \in 1 .. b - a : SubSeq(el, a + 1, b)[i] = el[a + i]
    BY <2>6, <2>7
  <2> QED
    BY <2>1, <2>2, <2>3, <2>6, <2>7, <2>8, <2>9
<1>13. /\ l \in Seq(Mutation) /\ Len(l) = Len(log) + Len(added) /\ Len(log) <= Len(l)
       /\ \A n \in 1 .. Len(log) : l[n] = log[n]
       /\ \A n \in Len(log) + 1 .. Len(l) : n - Len(log) \in 1 .. Len(added) /\ l[n] = added[n - Len(log)]
  <2>1. l \in Seq(Mutation) /\ Len(l) = Len(log) + Len(added)
    BY <1>4, <1>7, <1>12, ConcatProperties
  <2>2. \A i \in 1 .. Len(log) + Len(added) : l[i] = IF i <= Len(log) THEN log[i] ELSE added[i - Len(log)]
    BY <1>4, <1>7, <1>12, ConcatProperties
  <2>3. PICK k : k = Len(log)
    OBVIOUS
  <2>4. PICK a : a = Len(added)
    OBVIOUS
  <2>5. k \in Nat /\ a \in Nat /\ k <= k + a
    BY <1>7, <1>12, <2>3, <2>4
  <2>6. \A n \in 1 .. k : n \in 1 .. k + a /\ n <= k
    BY <2>5
  <2>7. \A n \in k + 1 .. k + a : n \in 1 .. k + a /\ ~(n <= k) /\ n - k \in 1 .. a
    BY <2>5
  <2>8. \A i \in 1 .. k + a : l[i] = IF i <= k THEN log[i] ELSE added[i - k]
    BY <2>2, <2>3, <2>4
  <2>9. \A n \in 1 .. k : l[n] = log[n]
    BY <2>6, <2>8
  <2>10. \A n \in k + 1 .. k + a : n - k \in 1 .. a /\ l[n] = added[n - k]
    BY <2>7, <2>8
  <2> QED
    BY <2>1, <2>3, <2>4, <2>5, <2>9, <2>10
<1>14. \A n \in Len(log) + 1 .. Len(l) : l[n].record \in SyncRecords
  <2> SUFFICES ASSUME NEW n \in Len(log) + 1 .. Len(l) PROVE l[n].record \in SyncRecords
    OBVIOUS
  <2>1. PICK i \in 1 .. Len(added) : i = n - Len(log)
    BY <1>13
  <2>2. l[n] = el[d.seen + i]
    BY <1>12, <1>13, <2>1
  <2>3. d.seen + i \in d.seen + 1 .. Len(el)
    <3>1. PICK e \in Nat : e = Len(el)
      BY <1>11
    <3>2. PICK s \in Nat : s = d.seen
      BY <1>11
    <3>3. i \in Nat /\ 1 <= i /\ i <= e - s
      BY <1>12, <2>1, <3>1, <3>2
    <3>4. s + i \in s + 1 .. e
      BY <3>3
    <3> QED
      BY <3>1, <3>2, <3>4
  <2> QED
    BY <1>11, <2>2, <2>3
<1>15. /\ \A q \in Desks : desk'[q] = Idle \/ (desk'[q] = desk[q] /\ q \in overtaken')
       /\ blind \subseteq blind'
       /\ r \in overtaken => rows \subseteq blind'
  BY <1>6, CommitOvertakesOthers
<1>16. \A n \in Len(log) + 1 .. Len(l) :
         \/ <<"mutation", n>> \in blind'
         \/ \A m \in 1 .. n - 1 :
              /\ l[m].version < l[n].version
              /\ l[m].record = l[n].record => l[m].version <= l[n].expected
  <2>1. CASE r \in overtaken
    BY <1>4, <1>5, <1>15, <2>1
  <2>2. CASE r \notin overtaken
    <3>1. d.seen = Len(log)
      BY <1>8, <2>2
    <3>2. Len(l) = Len(el)
      BY <1>7, <1>11, <1>12, <1>13, <3>1
    <3>3. \A n \in 1 .. Len(l) : l[n] = el[n]
      <4> SUFFICES ASSUME NEW n \in 1 .. Len(l) PROVE l[n] = el[n]
        OBVIOUS
      <4>1. CASE n \in 1 .. Len(log)
        BY <1>11, <1>13, <3>1, <4>1
      <4>2. CASE n \notin 1 .. Len(log)
        <5>1. n \in Len(log) + 1 .. Len(l) /\ Len(log) \in Nat /\ n \in Nat
          BY <1>7, <4>2
        <5>2. PICK i \in 1 .. Len(added) : i = n - Len(log)
          BY <1>13, <5>1
        <5>3. n = d.seen + i
          BY <3>1, <5>1, <5>2
        <5> QED
          BY <1>12, <1>13, <5>1, <5>2, <5>3
      <4> QED
        BY <4>1, <4>2
    <3>4. ASSUME NEW n \in Len(log) + 1 .. Len(l), NEW m \in 1 .. n - 1
          PROVE  /\ l[m].version < l[n].version
                 /\ l[m].record = l[n].record => l[m].version <= l[n].expected
      <4>1. n \in 1 .. Len(l) /\ m \in 1 .. Len(l) /\ n \in d.seen + 1 .. Len(el)
        BY <1>7, <3>1, <3>2
      <4>2. l[n] = el[n] /\ l[m] = el[m]
        BY <3>3, <4>1
      <4>3. /\ el[m].version < el[n].version
            /\ el[m].record = el[n].record => el[m].version <= el[n].expected
        BY <1>11, <4>1
      <4> QED
        BY <4>2, <4>3
    <3> QED
      BY <3>4
  <2> QED
    BY <2>1, <2>2
<1>17. LogHolds'
  BY <1>6, <1>13, <1>15, <1>16, LogGrows DEF OrderInv
<1>18. PushesRead' /\ ReplaysRead'
  BY <1>6, <1>13, <1>15, OvertakenReads
<1>19. SalesLogged'
  <2> SUFFICES ASSUME NEW n \in 1 .. Len(l), l[n].record \in SaleKeys
               PROVE  envelope'[l[n].record].result = "SYNCED"
    BY <1>6, <1>13 DEF SalesLogged
  <2>1. n \in 1 .. Len(log)
    BY <1>7, <1>13, <1>14, SpokeSyncAssumption
  <2>2. l[n] = log[n] /\ envelope[log[n].record].result = "SYNCED"
    BY <1>7, <1>13, <2>1 DEF OrderInv, SalesLogged
  <2>3. l[n].record # d.key
    BY <1>8, SpokeSyncAssumption DEF PushErrand
  <2>4. envelope'[l[n].record] = envelope[l[n].record]
    BY <1>6, <2>3 DEF SyncInv, SyncTypes, Keys
  <2> QED
    BY <2>2, <2>4
<1>20. ReplayHasStock'
  BY <1>6, <1>15 DEF OrderInv, ReplayHasStock, CloudStock, Seen
<1> QED
  BY <1>17, <1>18, <1>19, <1>20 DEF OrderInv

\* A replay that was not overtaken writes its mutation above all others, and takes a piece that is
\* there.
LEMMA StoreReplayOrder ==
    ASSUME OrderInv, SyncInv, NEW r \in Desks, StoreReplay(r)
    PROVE  OrderInv'
<1>1. PICK d : d = desk[r]
  OBVIOUS
<1>2. PICK k : k = d.key
  OBVIOUS
<1>3. PICK m : m = [record |-> k, key |-> k, version |-> d.base + 1, expected |-> 0]
  OBVIOUS
<1>4. PICK l : l = Append(log, m)
  OBVIOUS
<1>5. PICK rows : rows = {<<"mutation", Len(log) + 1>>, <<"invoice", Len(invoices) + 1>>}
  OBVIOUS
<1>6. /\ log' = l /\ Committed(r, rows) /\ UNCHANGED <<cursor, pulled>>
      /\ invoices' = Append(invoices, k)
      /\ envelope' = [envelope EXCEPT ![k] = [result |-> "SYNCED", accepted |-> Len(invoices) + 1, cursor |-> 0]]
      /\ d.op = "numbered" /\ envelope[k] = NoEnvelope
  BY <1>1, <1>2, <1>3, <1>4, <1>5 DEF StoreReplay, syncHub, Doing
<1>7. log \in Seq(Mutation)
  BY DEF OrderInv, LogHolds, LogTypes
<1>8. /\ d.base \in Nat /\ k \in SaleKeys
      /\ r \notin overtaken => CloudStock > 0 /\ \A n \in DOMAIN log : log[n].version <= d.base
  BY <1>1, <1>2, <1>6 DEF OrderInv, ReplaysRead, SyncInv, ErrandsFit, Doing
<1>9. m \in Mutation
  BY <1>3, <1>8 DEF Mutation
<1>10. /\ l \in Seq(Mutation) /\ Len(l) = Len(log) + 1 /\ Len(log) <= Len(l) /\ l[Len(l)] = m
       /\ \A n \in 1 .. Len(log) : l[n] = log[n]
  BY <1>4, <1>7, <1>9
<1>11. /\ \A q \in Desks : desk'[q] = Idle \/ (desk'[q] = desk[q] /\ q \in overtaken')
       /\ blind \subseteq blind'
       /\ r \in overtaken => rows \subseteq blind'
  BY <1>6, CommitOvertakesOthers
<1>12. \A n \in DOMAIN log : log[n].record # k
  BY <1>6, <1>8 DEF OrderInv, SalesLogged, NoEnvelope
<1>13. m.version = d.base + 1 /\ m.record = k /\ m.expected = 0
  BY <1>3
<1>14. \A n \in Len(log) + 1 .. Len(l) :
         \/ <<"mutation", n>> \in blind'
         \/ \A i \in 1 .. n - 1 :
              /\ l[i].version < l[n].version
              /\ l[i].record = l[n].record => l[i].version <= l[n].expected
  <2> SUFFICES ASSUME NEW n \in Len(log) + 1 .. Len(l)
               PROVE  \/ <<"mutation", n>> \in blind'
                      \/ \A i \in 1 .. n - 1 :
                           /\ l[i].version < l[n].version
                           /\ l[i].record = l[n].record => l[i].version <= l[n].expected
    OBVIOUS
  <2>1. n = Len(l) /\ n = Len(log) + 1
    BY <1>7, <1>10
  <2>2. CASE r \in overtaken
    BY <1>5, <1>11, <2>1, <2>2
  <2>3. CASE r \notin overtaken
    <3> SUFFICES ASSUME NEW i \in 1 .. n - 1
                 PROVE  l[i].version < l[n].version /\ l[i].record # l[n].record
      OBVIOUS
    <3>1. i \in 1 .. Len(log) /\ i \in DOMAIN log /\ l[i] = log[i]
      BY <1>7, <1>10, <2>1
    <3>2. log[i].version \in Nat /\ log[i].version <= d.base /\ log[i].record # k
      BY <1>7, <1>8, <1>12, <2>3, <3>1, MutationFacts
    <3> QED
      BY <1>8, <1>10, <1>13, <2>1, <3>1, <3>2
  <2> QED
    BY <2>2, <2>3
<1>15. LogHolds'
  BY <1>6, <1>10, <1>11, <1>14, LogGrows DEF OrderInv
<1>16. PushesRead' /\ ReplaysRead'
  BY <1>6, <1>10, <1>11, OvertakenReads
<1>17. SalesLogged'
  <2> SUFFICES ASSUME NEW n \in 1 .. Len(l), l[n].record \in SaleKeys
               PROVE  envelope'[l[n].record].result = "SYNCED"
    BY <1>6, <1>10 DEF SalesLogged
  <2>1. envelope'[k].result = "SYNCED"
    BY <1>6, <1>8 DEF SyncInv, SyncTypes, Keys
  <2>2. CASE l[n].record = k
    BY <2>1, <2>2
  <2>3. CASE l[n].record # k
    <3>1. n \in 1 .. Len(log)
      BY <1>7, <1>10, <1>13, <2>3
    <3>2. l[n] = log[n] /\ envelope[log[n].record].result = "SYNCED"
      BY <1>7, <1>10, <3>1 DEF OrderInv, SalesLogged
    <3>3. envelope'[l[n].record] = envelope[l[n].record]
      BY <1>6, <2>3 DEF SyncInv, SyncTypes, Keys
    <3> QED
      BY <3>2, <3>3
  <2> QED
    BY <2>2, <2>3
<1>18. ReplayHasStock'
  <2>1. invoices \in Seq(SaleKeys \cup {Till})
    BY DEF SyncInv, SyncTypes
  <2>2. /\ Len(invoices) \in Nat /\ Len(invoices') = Len(invoices) + 1
        /\ DOMAIN invoices = 1 .. Len(invoices) /\ DOMAIN invoices' = 1 .. Len(invoices) + 1
    BY <1>6, <1>8, <2>1
  <2>3. CloudStock > 0 \/ <<"invoice", Len(invoices) + 1>> \in blind'
    BY <1>5, <1>8, <1>11
  <2> QED
    BY <1>11, <2>2, <2>3, StockFalls
<1> QED
  BY <1>15, <1>16, <1>17, <1>18 DEF OrderInv

\* A refusal adds nothing to the log.
LEMMA StoreConflictOrder ==
    ASSUME OrderInv, SyncInv, NEW r \in Desks, StoreConflict(r)
    PROVE  OrderInv'
<1>1. PICK rows : rows = {<<"conflict", desk[r].key>>}
  OBVIOUS
<1>2. /\ log' = log /\ UNCHANGED <<invoices, cursor, pulled>> /\ Committed(r, rows)
      /\ \E answer : envelope' = [envelope EXCEPT ![desk[r].key] = answer]
      /\ envelope[desk[r].key] = NoEnvelope
  BY <1>1 DEF StoreConflict, syncHub
<1>3. log \in Seq(Mutation)
  BY DEF OrderInv, LogHolds, LogTypes
<1>4. /\ \A q \in Desks : desk'[q] = Idle \/ (desk'[q] = desk[q] /\ q \in overtaken')
      /\ blind \subseteq blind'
  BY <1>2, CommitOvertakesOthers
<1>5. Len(log) <= Len(log) /\ \A n \in 1 .. Len(log) : log[n] = log[n]
  BY <1>3
<1>6. Len(log) + 1 .. Len(log) = {}
  BY <1>3
<1>7. LogHolds'
  BY <1>2, <1>3, <1>4, <1>5, <1>6, LogGrows DEF OrderInv
<1>8. PushesRead' /\ ReplaysRead'
  BY <1>2, <1>3, <1>4, <1>5, OvertakenReads
<1>9. SalesLogged'
  <2>1. \A n \in DOMAIN log : log[n].record \in SaleKeys =>
          log[n].record # desk[r].key /\ envelope[log[n].record].result = "SYNCED"
    BY <1>2 DEF OrderInv, SalesLogged, NoEnvelope
  <2> QED
    BY <1>2, <2>1 DEF SalesLogged, SyncInv, SyncTypes, Keys
<1>10. ReplayHasStock'
  BY <1>2, <1>4 DEF OrderInv, ReplayHasStock, CloudStock, Seen
<1> QED
  BY <1>7, <1>8, <1>9, <1>10 DEF OrderInv

\* A sale at another till takes a piece that is there.
LEMMA TillSaleOrder == OrderInv /\ SyncInv /\ TillSale => OrderInv'
<1> SUFFICES ASSUME OrderInv, SyncInv, TillSale PROVE OrderInv'
  OBVIOUS
<1>1. /\ UNCHANGED <<log, envelope, cursor, pulled, desk, blind>> /\ invoices' = Append(invoices, Till)
      /\ CloudStock > 0 /\ overtaken' = {q \in Desks : desk[q] # Idle}
  BY DEF TillSale, AtOnce, syncHub
<1>2. log \in Seq(Mutation)
  BY DEF OrderInv, LogHolds, LogTypes
<1>3. ASSUME NEW q \in Desks PROVE desk'[q] = Idle \/ (desk'[q] = desk[q] /\ q \in overtaken')
  <2>1. desk'[q] = desk[q] /\ (desk[q] # Idle => q \in overtaken')
    BY <1>1
  <2> QED
    BY <2>1
<1>4. Len(log) <= Len(log) /\ \A n \in 1 .. Len(log) : log[n] = log[n]
  BY <1>2
<1>5. PushesRead' /\ ReplaysRead'
  BY <1>1, <1>2, <1>3, <1>4, OvertakenReads
<1>6. LogHolds'
  BY <1>1 DEF OrderInv, LogHolds, LogTypes, Rising, CursorReached, PullMissesNothing, NoLostUpdate, Seen
<1>7. SalesLogged'
  BY <1>1 DEF OrderInv, SalesLogged
<1>8. ReplayHasStock'
  <2>1. invoices \in Seq(SaleKeys \cup {Till})
    BY DEF SyncInv, SyncTypes
  <2>2. /\ Len(invoices) \in Nat /\ Len(invoices') = Len(invoices) + 1
        /\ DOMAIN invoices = 1 .. Len(invoices) /\ DOMAIN invoices' = 1 .. Len(invoices) + 1
    BY <1>1, <2>1
  <2>3. blind \subseteq blind'
    BY <1>1
  <2> QED
    BY <1>1, <2>2, <2>3, StockFalls
<1> QED
  BY <1>5, <1>6, <1>7, <1>8 DEF OrderInv

\* A page that leaves a mutation of its last version behind shows two of that version, and the
\* later of the two was written by an overtaken request.
LEMMA PullOrder ==
    ASSUME OrderInv, NEW S, Pull(S)
    PROVE  OrderInv'
<1>1. /\ log \in Seq(Mutation) /\ cursor \in Nat /\ pulled \subseteq DOMAIN log
  BY DEF OrderInv, LogHolds, LogTypes
<1>2. PICK newer : newer = {n \in DOMAIN log : log[n].version > cursor}
  OBVIOUS
<1>3. /\ S \subseteq newer /\ S # {}
      /\ \A n \in S, m \in newer \ S : log[n].version <= log[m].version
  BY <1>2 DEF Pull, Page
<1>4. PICK top : top = Greatest({log[n].version : n \in S})
  OBVIOUS
<1>5. /\ pulled' = pulled \cup S /\ cursor' = top
      /\ UNCHANGED <<envelope, log, conflicts, invoices, offline, desk, overtaken, blind>>
  BY <1>4 DEF Pull, syncRows, deskVars
<1>6. S \subseteq DOMAIN log
  BY <1>2, <1>3
<1>7. top \in Nat /\ (\A n \in S : log[n].version <= top) /\ \E n \in S : log[n].version = top
  BY <1>1, <1>3, <1>4, <1>6, GreatestVersion
<1>8. PICK s \in S : log[s].version = top
  BY <1>7
<1>9. LogTypes'
  BY <1>1, <1>5, <1>6, <1>7 DEF LogTypes
<1>10. CursorReached'
  BY <1>5, <1>6, <1>8 DEF CursorReached
<1>11. PullMissesNothing'
  <2> SUFFICES ASSUME NEW n \in DOMAIN log, log[n].version <= top, n \notin pulled, n \notin S
               PROVE  \E m \in DOMAIN log : log[m].version = log[n].version /\ ~Seen("mutation", m)
    BY <1>5 DEF PullMissesNothing, Seen
  <2>1. log[n].version \in Nat /\ n \in Nat /\ s \in DOMAIN log /\ s \in Nat
    BY <1>1, <1>6, MutationFacts
  <2>2. CASE log[n].version <= cursor
    BY <2>2 DEF OrderInv, LogHolds, PullMissesNothing
  <2>3. CASE ~(log[n].version <= cursor)
    <3>1. n \in newer \ S
      BY <1>1, <1>2, <2>1, <2>3
    <3>2. log[n].version = top /\ n # s
      BY <1>3, <1>7, <1>8, <2>1, <3>1
    <3>3. CASE n < s
      BY <1>7, <1>8, <2>1, <3>2, <3>3 DEF OrderInv, LogHolds, Rising
    <3>4. CASE s < n
      BY <1>7, <1>8, <2>1, <3>2, <3>4 DEF OrderInv, LogHolds, Rising
    <3> QED
      BY <2>1, <3>2, <3>3, <3>4
  <2> QED
    BY <2>2, <2>3
<1>12. LogHolds'
  BY <1>5, <1>9, <1>10, <1>11 DEF OrderInv, LogHolds, Rising, NoLostUpdate, Seen
<1>13. PushesRead' /\ ReplaysRead' /\ SalesLogged' /\ ReplayHasStock'
  BY <1>5 DEF OrderInv, PushesRead, PushErrand, ReplaysRead, SalesLogged, ReplayHasStock, CloudStock, Doing, Seen
<1> QED
  BY <1>12, <1>13 DEF OrderInv

-----------------------------------------------------------------------------
\* Every step keeps the order.
LEMMA OrderStepInv == OrderInv /\ SyncInv /\ [SpokeSyncNext]_syncVars => OrderInv'
<1> SUFFICES ASSUME OrderInv, SyncInv, [SpokeSyncNext]_syncVars PROVE OrderInv'
  OBVIOUS
<1>0. log \in Seq(Mutation) /\ BranchCursor(log) \in Nat
      /\ (\A n \in DOMAIN log : log[n].version <= BranchCursor(log))
      /\ DOMAIN log = 1 .. Len(log) /\ Len(log) \in Nat
  <2>1. log \in Seq(Mutation)
    BY DEF OrderInv, LogHolds, LogTypes
  <2>2. DOMAIN log = 1 .. Len(log) /\ Len(log) \in Nat
    BY <2>1
  <2> QED
    BY <2>1, <2>2, CursorsBound
<1>1. ASSUME NEW r \in Desks, NEW k \in PushKeys, Push(r, k) PROVE OrderInv'
  <2>1. PICK exp : exp = [i \in DOMAIN Batch[k] |-> KnownVersion(Batch[k][i])]
    OBVIOUS
  <2>2. PICK b : b = BranchCursor(log)
    OBVIOUS
  <2>3. PICK d : d = [op |-> "push", key |-> k, base |-> b, seen |-> Len(log), expected |-> exp]
    OBVIOUS
  <2>4. Checked(r, d) /\ UNCHANGED <<log, envelope, invoices, cursor, pulled>>
    BY <1>1, <2>1, <2>2, <2>3 DEF Push, Arrives, syncRows, syncHub
  <2>5. UNCHANGED <<overtaken, blind>> /\ desk' = [desk EXCEPT ![r] = d]
    BY <2>4 DEF Checked
  <2>6. d.op = "push" /\ d.key = k /\ d.base = b /\ d.seen = Len(log)
    BY <2>3
  <2>7. PushErrand(d)' /\ d.seen = Len(log)'
    BY <1>0, <2>2, <2>4, <2>6 DEF PushErrand
  <2>8. \A q \in Desks : desk'[q] = IF q = r THEN d ELSE desk[q]
    BY <2>5 DEF SyncInv, SyncTypes
  <2>9. PushesRead'
    <3> SUFFICES ASSUME NEW q \in Desks, desk'[q].op = "push"
                 PROVE  PushErrand(desk[q])' /\ (q \notin overtaken' => desk'[q].seen = Len(log'))
      BY DEF PushesRead, Doing
    <3>1. CASE q = r
      BY <2>7, <2>8, <3>1 DEF PushErrand
    <3>2. CASE q # r
      <4>1. desk'[q] = desk[q]
        BY <2>8, <3>2
      <4> QED
        BY <2>4, <2>5, <4>1 DEF OrderInv, PushesRead, PushErrand, Doing
    <3> QED
      BY <3>1, <3>2
  <2>10. ReplaysRead'
    BY <2>4, <2>5, <2>6, <2>8 DEF OrderInv, ReplaysRead, Doing, CloudStock
  <2> QED
    BY <2>4, <2>5, <2>9, <2>10, StillOrder
<1>2. ASSUME NEW r \in Desks, NEW k \in SaleKeys, NEW agrees \in BOOLEAN, Replay(r, k, agrees)
      PROVE  OrderInv'
  <2>1. PICK d : d = [op |-> IF Replayable(agrees) THEN "replay" ELSE "refuse", key |-> k]
    OBVIOUS
  <2>2. Checked(r, d) /\ UNCHANGED <<log, envelope, invoices, cursor, pulled>>
    BY <1>2, <2>1 DEF Replay, Arrives, syncRows, syncHub
  <2>3. UNCHANGED <<overtaken, blind>> /\ desk' = [desk EXCEPT ![r] = d]
    BY <2>2 DEF Checked
  <2>4. d.op # "push" /\ d.op # "numbered" /\ (d.op = "replay" => CloudStock > 0)
    BY <2>1 DEF Replayable
  <2>5. \A q \in Desks : desk'[q] = IF q = r THEN d ELSE desk[q]
    BY <2>3 DEF SyncInv, SyncTypes
  <2>6. PushesRead'
    BY <2>2, <2>3, <2>4, <2>5 DEF OrderInv, PushesRead, PushErrand, Doing
  <2>7. ReplaysRead'
    BY <2>2, <2>3, <2>4, <2>5 DEF OrderInv, ReplaysRead, Doing, CloudStock
  <2> QED
    BY <2>2, <2>3, <2>6, <2>7, StillOrder
<1>3. ASSUME NEW r \in Desks, NumberReplay(r) PROVE OrderInv'
  <2>1. PICK b : b = BranchCursor(log)
    OBVIOUS
  <2>2. PICK d : d = [op |-> "numbered", key |-> desk[r].key, base |-> b]
    OBVIOUS
  <2>3. /\ UNCHANGED <<log, envelope, invoices, cursor, pulled, overtaken, blind>>
        /\ desk' = [desk EXCEPT ![r] = d] /\ desk[r].op = "replay"
    BY <1>3, <2>1, <2>2 DEF NumberReplay, syncRows, syncHub, Doing
  <2>4. d.op = "numbered" /\ d.base = b
    BY <2>2
  <2>5. \A q \in Desks : desk'[q] = IF q = r THEN d ELSE desk[q]
    BY <2>3 DEF SyncInv, SyncTypes
  <2>6. PushesRead'
    BY <2>3, <2>4, <2>5 DEF OrderInv, PushesRead, PushErrand, Doing
  <2>7. r \notin overtaken => CloudStock > 0
    BY <2>3 DEF OrderInv, ReplaysRead
  <2>8. ReplaysRead'
    BY <1>0, <2>1, <2>3, <2>4, <2>5, <2>7 DEF OrderInv, ReplaysRead, Doing, CloudStock
  <2> QED
    BY <2>3, <2>6, <2>8, StillOrder
<1>4. ASSUME NEW r \in Desks, SyncFails(r) PROVE OrderInv'
  <2>1. /\ UNCHANGED <<log, envelope, invoices, cursor, pulled, blind>>
        /\ desk' = [desk EXCEPT ![r] = Idle] /\ overtaken' = overtaken \ {r}
    BY <1>4 DEF SyncFails, RolledBack, syncRows, syncHub
  <2>2. \A q \in Desks : desk'[q] = IF q = r THEN Idle ELSE desk[q]
    BY <2>1 DEF SyncInv, SyncTypes
  <2>3. PushesRead'
    BY <2>1, <2>2 DEF OrderInv, PushesRead, PushErrand, Doing, Idle
  <2>4. ReplaysRead'
    BY <2>1, <2>2 DEF OrderInv, ReplaysRead, Doing, CloudStock, Idle
  <2> QED
    BY <2>1, <2>3, <2>4, StillOrder
<1>5. ASSUME UNCHANGED <<log, envelope, invoices, cursor, pulled, desk, overtaken, blind>> PROVE OrderInv'
  <2>1. PushesRead' /\ ReplaysRead'
    BY <1>5 DEF OrderInv, PushesRead, PushErrand, ReplaysRead, Doing, CloudStock
  <2> QED
    BY <1>5, <2>1, StillOrder
<1>6. CASE SwitchOfflineSales
  BY <1>5, <1>6 DEF SwitchOfflineSales, syncHub, deskVars
<1>7. CASE UNCHANGED syncVars
  BY <1>5, <1>7 DEF syncVars, syncRows, syncHub, deskVars
<1> QED
  BY <1>1, <1>2, <1>3, <1>4, <1>6, <1>7,
     StorePushOrder, StoreConflictOrder, StoreReplayOrder, TillSaleOrder, PullOrder DEF SpokeSyncNext

\* What goes wrong between a hub and the cloud goes wrong only where a request was overtaken: for
\* any number of calls, keys, records and pages.
THEOREM SpokeSyncOnlyTheOvertakenErr == SpokeSyncSpec => []OnlyTheOvertakenErr
<1>1. OrderInv => OnlyTheOvertakenErr
  BY DEF OrderInv, LogHolds, OnlyTheOvertakenErr
<1> QED
  BY <1>1, SyncInitInv, SyncStepInv, OrderInitInv, OrderStepInv, PTL DEF SpokeSyncSpec

-----------------------------------------------------------------------------
(* The till without a cloud. *)

States == {"PENDING_REPLAY", "REPLAYING", "RECONCILED", "CONFLICT"}
Sale == [id : Purchases, number : Nat, state : States]
Snapshot == [sales : SUBSET Sale, scope : Scopes \cup {"none"}, next : Nat]

TillTypes ==
    /\ shelf \in Snapshot /\ view \in Snapshot /\ scope \in Scopes
    /\ billing \in {Rest} \cup [step : {"asked", "booked"}, base : Snapshot] \cup [step : {"saved"}, snap : Snapshot]
    /\ replay \in {Rest} \cup [step : {"marked", "calling", "saved"}, work : Snapshot, left : SUBSET Purchases]
    /\ seeding \in {Rest} \cup [step : {"saved"}, snap : Snapshot]
    /\ replayed \in [Purchases -> {"none", "RECONCILED", "CONFLICT"}]
    /\ booked \in [Purchases -> Nat]
    /\ numbers \in [Purchases -> Nat]
    /\ served \in 0 .. MaxPurchases

\* A snapshot has numbered sales only, tells what the cloud answered, and can number the next one.
TrueSnapshot(snap) ==
    /\ snap = Nothing \/ snap.next > 0
    /\ \A s \in snap.sales :
         /\ numbers[s.id] > 0
         /\ s.state \in {"RECONCILED", "CONFLICT"} => replayed[s.id] = s.state

BillingBase == billing.step \in {"asked", "booked"}

SnapshotsAreTrue ==
    /\ TrueSnapshot(shelf) /\ TrueSnapshot(view)
    /\ BillingBase => TrueSnapshot(billing.base) /\ billing.base.next > 0 /\ served > 0
    /\ billing.step = "saved" => TrueSnapshot(billing.snap)
    /\ ~AtRest(seeding) => TrueSnapshot(seeding.snap)
    /\ ~AtRest(replay) => TrueSnapshot(replay.work) /\ \A p \in replay.left : numbers[p] > 0

\* The cloud has a sale once, or twice when it was booked online and replayed.
BookingsAreFew ==
    \A p \in Purchases :
        /\ booked[p] <= (IF replayed[p] = "RECONCILED" THEN 2 ELSE 1)
        /\ replayed[p] # "none" => numbers[p] > 0

Unserved(p) == p > served \/ (p = served /\ billing.step = "asked")
UnservedIsUnknown == \A p \in Purchases : Unserved(p) => numbers[p] = 0 /\ booked[p] = 0

TillInv == TillTypes /\ SnapshotsAreTrue /\ BookingsAreFew /\ UnservedIsUnknown

-----------------------------------------------------------------------------
(* Snapshots. *)

LEMMA EmptyShelf == Nothing \in Snapshot /\ TrueSnapshot(Nothing)
BY DEF Nothing, Snapshot, TrueSnapshot

LEMMA SeedIsTrue ==
    ASSUME scope \in Scopes
    PROVE  SeedSnapshot \in Snapshot /\ TrueSnapshot(SeedSnapshot) /\ SeedSnapshot.next > 0
BY DEF SeedSnapshot, Snapshot, TrueSnapshot

LEMMA MarkedType ==
    ASSUME NEW snap \in Snapshot, NEW ids, NEW state \in States
    PROVE  /\ MarkedAs(snap, ids, state) \in Snapshot
           /\ MarkedAs(snap, ids, state).next = snap.next
           /\ \A t \in MarkedAs(snap, ids, state).sales : \E s \in snap.sales :
                 t.id = s.id /\ t.state = IF s.id \in ids THEN state ELSE s.state
<1> DEFINE Mark(s) == IF s.id \in ids THEN [s EXCEPT !.state = state] ELSE s
           sales == {Mark(s) : s \in snap.sales}
<1>1. MarkedAs(snap, ids, state) = [snap EXCEPT !.sales = sales]
  BY DEF MarkedAs
<1>2. \A s \in Sale : Mark(s) \in Sale /\ Mark(s).id = s.id
                      /\ Mark(s).state = IF s.id \in ids THEN state ELSE s.state
  BY DEF Sale
<1>3. snap.sales \subseteq Sale
  BY DEF Snapshot
<1>4. sales \in SUBSET Sale
  BY <1>2, <1>3
<1>5. \A t \in sales : \E s \in snap.sales :
         t.id = s.id /\ t.state = IF s.id \in ids THEN state ELSE s.state
  BY <1>2, <1>3
<1> HIDE DEF sales
<1> QED
  BY <1>1, <1>4, <1>5 DEF Snapshot

\* A true snapshot stays true while the cloud keeps its answers and numbers are not taken back.
LEMMA StaysTrue ==
    ASSUME NEW snap \in Snapshot, TrueSnapshot(snap),
           \A p \in Purchases : replayed[p] # "none" => replayed'[p] = replayed[p],
           \A p \in Purchases : numbers[p] > 0 => numbers'[p] > 0
    PROVE  /\ snap = Nothing \/ snap.next > 0
           /\ \A s \in snap.sales :
                /\ numbers'[s.id] > 0
                /\ s.state \in {"RECONCILED", "CONFLICT"} => replayed'[s.id] = s.state
BY DEF Snapshot, Sale, TrueSnapshot

\* A non-empty set of purchases has a first one.
LEMMA FirstOfThem ==
    ASSUME NEW S \in SUBSET Purchases, S # {}
    PROVE  (CHOOSE p \in S : \A q \in S : p <= q) \in S
<1> DEFINE R == OpToRel(<, Nat)
<1>1. IsWellFoundedOn(R, Nat)
  BY NatLessThanWellFounded
<1>2. \A x, y \in Nat : x < y => <<x, y>> \in R
  BY DEF OpToRel
<1> HIDE DEF R
<1>3. S \subseteq Nat
  BY OfflineTillAssumption DEF Purchases
<1>4. PICK p \in S : \A q \in S : ~(<<q, p>> \in R)
  BY <1>1, <1>3, WFMin
<1>5. ASSUME NEW q \in S PROVE p <= q
  <2>1. p \in Nat /\ q \in Nat
    BY <1>3
  <2>2. ~(q < p)
    BY <1>2, <1>4, <2>1
  <2> QED
    BY <2>1, <2>2
<1> QED
  BY <1>4, <1>5

-----------------------------------------------------------------------------
\* A device that was never used satisfies the invariant.
LEMMA TillInitInv == OfflineTillInit => TillInv
<1> SUFFICES ASSUME OfflineTillInit PROVE TillInv
  OBVIOUS
<1> USE OfflineTillAssumption DEF OfflineTillInit
<1>1. scope \in Scopes
  OBVIOUS
<1>2. TillTypes
  BY <1>1, EmptyShelf DEF TillTypes
<1>3. SnapshotsAreTrue
  BY EmptyShelf DEF SnapshotsAreTrue, BillingBase, AtRest, Rest
<1>4. BookingsAreFew /\ UnservedIsUnknown
  BY DEF BookingsAreFew, UnservedIsUnknown
<1> QED
  BY <1>2, <1>3, <1>4 DEF TillInv

-----------------------------------------------------------------------------
(* What the cloud and the numbering do not hear of. *)

cloudSide == <<tillCloud, numbers, served>>

\* Snapshots only move between the hands of handlers.
LEMMA QuietInv ==
    ASSUME TillInv, TillTypes', SnapshotsAreTrue', UNCHANGED cloudSide,
           billing'.step = "asked" => billing.step = "asked"
    PROVE  TillInv'
BY DEF TillInv, BookingsAreFew, UnservedIsUnknown, Unserved, cloudSide, tillCloud

\* The store and the effects.
LEMMA StoreInv ==
    ASSUME TillInv, LoadContinuity \/ LoadFails \/ SeedContinuity \/ ShowSeed \/ SetUpElsewhere \/ EndApp
    PROVE  TillInv'
<1> USE DEF TillInv, cloudSide, tillCloud, tillStore
<1>1. TrueSnapshot(shelf)' /\ TrueSnapshot(view)'
  <2>1. TrueSnapshot(SeedSnapshot) /\ TrueSnapshot(Nothing)
    BY SeedIsTrue, EmptyShelf DEF TillTypes
  <2>2. UNCHANGED <<numbers, replayed>>
    BY DEF LoadContinuity, LoadFails, SeedContinuity, ShowSeed, SetUpElsewhere, EndApp
  <2>3. shelf' \in {shelf, view, SeedSnapshot}
    BY DEF LoadContinuity, LoadFails, SeedContinuity, ShowSeed, SetUpElsewhere, EndApp
  <2>4. view' \in {shelf, view, Nothing} \/ (~AtRest(seeding) /\ view' = seeding.snap)
    BY DEF LoadContinuity, LoadFails, SeedContinuity, ShowSeed, SetUpElsewhere, EndApp
  <2> QED
    BY <2>1, <2>2, <2>3, <2>4 DEF TrueSnapshot, SnapshotsAreTrue
<1>2. TillTypes'
  <2>1. SeedSnapshot \in Snapshot /\ Nothing \in Snapshot
    BY SeedIsTrue, EmptyShelf DEF TillTypes
  <2>2. CASE LoadContinuity \/ LoadFails \/ SetUpElsewhere \/ EndApp
    BY <2>1, <2>2 DEF TillTypes, LoadContinuity, LoadFails, SetUpElsewhere, EndApp
  <2>3. CASE SeedContinuity
    BY <2>1, <2>3 DEF TillTypes, SeedContinuity
  <2>4. CASE ShowSeed
    BY <2>4 DEF TillTypes, ShowSeed, AtRest, Rest
  <2> QED
    BY <2>2, <2>3, <2>4
<1>3. SnapshotsAreTrue'
  BY <1>1 DEF SnapshotsAreTrue, TrueSnapshot, BillingBase, AtRest, Rest,
              LoadContinuity, LoadFails, SeedContinuity, ShowSeed, SetUpElsewhere, EndApp
<1>4. UNCHANGED cloudSide /\ (billing' = billing \/ billing' = Rest)
  BY DEF LoadContinuity, LoadFails, SeedContinuity, ShowSeed, SetUpElsewhere, EndApp
<1> QED
  BY <1>2, <1>3, <1>4, QuietInv DEF Rest

-----------------------------------------------------------------------------
(* Billing. *)

\* The next customer is unknown to all; the handler keeps the snapshot it sees.
LEMMA BillInv == TillInv /\ Bill => TillInv'
<1> SUFFICES ASSUME TillInv, Bill PROVE TillInv'
  OBVIOUS
<1> USE OfflineTillAssumption DEF TillInv, Bill, tillStore, tillCloud
<1> DEFINE base == IF view = Nothing THEN SeedSnapshot ELSE view
<1>1. base \in Snapshot /\ TrueSnapshot(base) /\ base.next > 0
  BY SeedIsTrue DEF TillTypes, SnapshotsAreTrue, TrueSnapshot
<1>2. billing' = [step |-> "asked", base |-> base]
  OBVIOUS
<1> HIDE DEF base
<1>3. TillTypes'
  BY <1>1, <1>2 DEF TillTypes
<1>4. SnapshotsAreTrue'
  BY <1>1, <1>2 DEF SnapshotsAreTrue, TrueSnapshot, BillingBase, AtRest, TillTypes
<1>5. UnservedIsUnknown'
  BY DEF UnservedIsUnknown, Unserved, TillTypes, Purchases
<1>6. BookingsAreFew'
  BY DEF BookingsAreFew
<1> QED
  BY <1>3, <1>4, <1>5, <1>6

\* The cloud books a sale it had not heard of.
LEMMA BookOnlineInv == TillInv /\ BookOnline => TillInv'
<1> SUFFICES ASSUME TillInv, BookOnline PROVE TillInv'
  OBVIOUS
<1> USE OfflineTillAssumption DEF TillInv, BookOnline, tillStore
<1>1. served \in Purchases
  BY DEF SnapshotsAreTrue, BillingBase, TillTypes, Purchases
<1>2. booked[served] = 0
  BY <1>1 DEF UnservedIsUnknown, Unserved
<1>3. /\ booked' \in [Purchases -> Nat] /\ booked'[served] = 1
      /\ \A p \in Purchases : p # served => booked'[p] = booked[p]
  BY <1>1, <1>2 DEF TillTypes
<1>4. billing'.step = "booked" /\ billing'.base = billing.base
      /\ billing' \in [step : {"asked", "booked"}, base : Snapshot]
  BY DEF TillTypes, Rest
<1>5. TillTypes'
  BY <1>3, <1>4 DEF TillTypes
<1>6. SnapshotsAreTrue'
  BY <1>4 DEF SnapshotsAreTrue, TrueSnapshot, BillingBase, AtRest
<1>7. BookingsAreFew'
  BY <1>3 DEF BookingsAreFew
<1>8. UnservedIsUnknown'
  BY <1>3, <1>4 DEF UnservedIsUnknown, Unserved, TillTypes
<1> QED
  BY <1>5, <1>6, <1>7, <1>8

\* A handler that ends, or shows what it has saved.
LEMMA BillEndsInv == TillInv /\ (EndBill \/ ShowSale) => TillInv'
<1> SUFFICES ASSUME TillInv, EndBill \/ ShowSale PROVE TillInv'
  OBVIOUS
<1> USE DEF TillInv, cloudSide, tillStore, tillCloud
<1>1. UNCHANGED <<cloudSide, shelf, scope, replay, seeding>> /\ billing' = Rest
      /\ (view' = view \/ (billing.step = "saved" /\ view' = billing.snap))
  BY DEF EndBill, ShowSale
<1>2. TillTypes'
  BY <1>1 DEF TillTypes, Rest
<1>3. SnapshotsAreTrue'
  BY <1>1 DEF SnapshotsAreTrue, TrueSnapshot, BillingBase, AtRest, Rest
<1> QED
  BY <1>1, <1>2, <1>3, QuietInv DEF Rest

\* The sale that is kept here is given its number.
LEMMA SellOfflineInv == TillInv /\ SellOffline => TillInv'
<1> SUFFICES ASSUME TillInv, SellOffline PROVE TillInv'
  OBVIOUS
<1> USE OfflineTillAssumption DEF TillInv, SellOffline, tillCloud
<1> DEFINE base == billing.base
           sale == [id |-> served, number |-> base.next, state |-> "PENDING_REPLAY"]
<1>1. served \in Purchases /\ base \in Snapshot /\ TrueSnapshot(base) /\ base.next > 0
  BY DEF SnapshotsAreTrue, BillingBase, TillTypes, Purchases, Rest
<1>2. sale \in Sale
  BY <1>1 DEF Sale, States, Snapshot
<1>3. shelf' = [base EXCEPT !.sales = @ \cup {sale}, !.next = @ + 1]
      /\ numbers' = [numbers EXCEPT ![served] = base.next]
      /\ billing' = [step |-> "saved", snap |-> shelf']
      /\ UNCHANGED <<view, scope, replay, seeding, replayed, booked, served>>
  OBVIOUS
<1>4. sale.id = served /\ sale.state = "PENDING_REPLAY"
  OBVIOUS
<1> HIDE DEF base, sale, SellOffline
<1>5. shelf' \in Snapshot /\ shelf'.sales = base.sales \cup {sale} /\ shelf'.next = base.next + 1
  <2>1. base.sales \cup {sale} \in SUBSET Sale /\ base.next + 1 \in Nat
    BY <1>1, <1>2 DEF Snapshot
  <2>2. PICK sales \in SUBSET Sale, next \in Nat : sales = base.sales \cup {sale} /\ next = base.next + 1
    BY <2>1
  <2>3. shelf' = [base EXCEPT !.sales = sales, !.next = next]
    BY <1>3, <2>2
  <2> QED
    BY <1>1, <2>2, <2>3 DEF Snapshot
<1>6. /\ numbers' \in [Purchases -> Nat] /\ numbers'[served] > 0
      /\ \A p \in Purchases : numbers[p] > 0 => numbers'[p] > 0
      /\ \A p \in Purchases : p # served => numbers'[p] = numbers[p]
  BY <1>1, <1>3 DEF TillTypes, Snapshot
<1>7. TillTypes'
  BY <1>3, <1>5, <1>6 DEF TillTypes
<1>8. ASSUME NEW snap \in Snapshot, TrueSnapshot(snap)
      PROVE  /\ snap = Nothing \/ snap.next > 0
             /\ \A s \in snap.sales :
                  /\ numbers'[s.id] > 0
                  /\ s.state \in {"RECONCILED", "CONFLICT"} => replayed'[s.id] = s.state
  BY <1>3, <1>6, <1>8, StaysTrue
<1>9. TrueSnapshot(shelf)'
  <2>1. shelf'.next > 0
    BY <1>1, <1>5 DEF Snapshot
  <2> QED
    BY <1>1, <1>4, <1>5, <1>6, <1>8, <2>1 DEF TrueSnapshot
<1>10. SnapshotsAreTrue'
  <2>1. TrueSnapshot(view)'
    BY <1>3, <1>8 DEF SnapshotsAreTrue, TrueSnapshot, TillTypes
  <2>2. ~AtRest(seeding) => TrueSnapshot(seeding.snap)'
    BY <1>3, <1>8 DEF SnapshotsAreTrue, TrueSnapshot, TillTypes, AtRest, Rest
  <2>3. ~AtRest(replay) => TrueSnapshot(replay.work)' /\ \A p \in replay.left : numbers'[p] > 0
    BY <1>3, <1>6, <1>8 DEF SnapshotsAreTrue, TrueSnapshot, TillTypes, AtRest, Rest
  <2>4. billing'.step = "saved" /\ billing'.snap = shelf'
    BY <1>3
  <2> QED
    BY <1>3, <1>9, <2>1, <2>2, <2>3, <2>4 DEF SnapshotsAreTrue, TrueSnapshot, BillingBase, AtRest
<1>11. BookingsAreFew'
  BY <1>3, <1>6 DEF BookingsAreFew
<1>12. UnservedIsUnknown'
  BY <1>1, <1>3, <1>6 DEF UnservedIsUnknown, Unserved, TillTypes, Purchases
<1> QED
  BY <1>7, <1>10, <1>11, <1>12

-----------------------------------------------------------------------------
(* The replay. *)

\* Marking sales of the empty snapshot changes nothing.
LEMMA NothingMarked == ASSUME NEW ids, NEW state PROVE MarkedAs(Nothing, ids, state) = Nothing
BY DEF MarkedAs, Nothing

\* Marking a sale as waiting or under way claims nothing about the cloud.
LEMMA MarkedIsTrue ==
    ASSUME NEW snap \in Snapshot, TrueSnapshot(snap), NEW ids,
           NEW state \in {"PENDING_REPLAY", "REPLAYING"}
    PROVE  MarkedAs(snap, ids, state) \in Snapshot /\ TrueSnapshot(MarkedAs(snap, ids, state))
<1>1. PICK marked : marked = MarkedAs(snap, ids, state)
  OBVIOUS
<1>2. /\ marked \in Snapshot /\ marked.next = snap.next
      /\ \A t \in marked.sales : \E s \in snap.sales :
            t.id = s.id /\ t.state = IF s.id \in ids THEN state ELSE s.state
  BY <1>1, MarkedType DEF States
<1>3. marked = Nothing \/ marked.next > 0
  BY <1>1, <1>2, NothingMarked DEF TrueSnapshot
<1>4. TrueSnapshot(marked)
  BY <1>2, <1>3 DEF TrueSnapshot
<1> QED
  BY <1>1, <1>2, <1>4

\* Noting the cloud's answer to a sale that was given a number.
LEMMA AnsweredIsTrue ==
    ASSUME NEW snap \in Snapshot, TrueSnapshot(snap), NEW p \in Purchases,
           NEW answer \in {"RECONCILED", "CONFLICT"}, replayed'[p] = answer,
           \A q \in Purchases : replayed[q] # "none" => replayed'[q] = replayed[q],
           numbers' = numbers
    PROVE  MarkedAs(snap, {p}, answer) \in Snapshot /\ TrueSnapshot(MarkedAs(snap, {p}, answer))'
<1>1. PICK marked : marked = MarkedAs(snap, {p}, answer)
  OBVIOUS
<1>2. /\ marked \in Snapshot /\ marked.next = snap.next
      /\ \A t \in marked.sales : \E s \in snap.sales :
            t.id = s.id /\ t.state = IF s.id = p THEN answer ELSE s.state
  <2>1. \A s \in snap.sales : s.id \in {p} <=> s.id = p
    OBVIOUS
  <2> QED
    BY <1>1, <2>1, MarkedType DEF States
<1>3. marked = Nothing \/ marked.next > 0
  BY <1>1, <1>2, NothingMarked DEF TrueSnapshot
<1>4. ASSUME NEW t \in marked.sales
      PROVE  /\ numbers'[t.id] > 0
             /\ t.state \in {"RECONCILED", "CONFLICT"} => replayed'[t.id] = t.state
  <2>1. PICK s \in snap.sales : t.id = s.id /\ t.state = IF s.id = p THEN answer ELSE s.state
    BY <1>2
  <2>2. s.id \in Purchases
    BY DEF Snapshot, Sale
  <2> QED
    BY <2>1, <2>2 DEF TrueSnapshot
<1> QED
  BY <1>1, <1>2, <1>3, <1>4 DEF TrueSnapshot

\* Whatever the cloud answers, it keeps its answers and books a numbered sale at most once more.
LEMMA CloudAnswers ==
    ASSUME TillInv, NEW p \in Purchases, numbers[p] > 0,
           UNCHANGED tillCloud \/ \E answer \in {"RECONCILED", "CONFLICT"} : Served(p, answer),
           UNCHANGED <<numbers, served, billing>>
    PROVE  /\ replayed' \in [Purchases -> {"none", "RECONCILED", "CONFLICT"}]
           /\ booked' \in [Purchases -> Nat]
           /\ \A q \in Purchases : replayed[q] # "none" => replayed'[q] = replayed[q]
           /\ BookingsAreFew' /\ UnservedIsUnknown'
<1> USE DEF TillInv
<1>1. CASE UNCHANGED tillCloud
  BY <1>1 DEF tillCloud, TillTypes, BookingsAreFew, UnservedIsUnknown, Unserved
<1>2. ASSUME NEW answer \in {"RECONCILED", "CONFLICT"}, Served(p, answer), ~UNCHANGED tillCloud
      PROVE  /\ replayed[p] = "none"
             /\ replayed' = [replayed EXCEPT ![p] = answer]
             /\ booked' = [booked EXCEPT ![p] = @ + (IF answer = "RECONCILED" THEN 1 ELSE 0)]
  BY <1>2 DEF Served
<1>3. ASSUME NEW answer \in {"RECONCILED", "CONFLICT"}, Served(p, answer), ~UNCHANGED tillCloud
      PROVE  /\ replayed' \in [Purchases -> {"none", "RECONCILED", "CONFLICT"}]
             /\ booked' \in [Purchases -> Nat]
             /\ \A q \in Purchases : replayed[q] # "none" => replayed'[q] = replayed[q]
             /\ BookingsAreFew' /\ UnservedIsUnknown'
  <2>1. /\ booked' \in [Purchases -> Nat] /\ booked'[p] = booked[p] + (IF answer = "RECONCILED" THEN 1 ELSE 0)
        /\ \A q \in Purchases : q # p => booked'[q] = booked[q]
    BY <1>2, <1>3 DEF TillTypes
  <2>2. /\ replayed' \in [Purchases -> {"none", "RECONCILED", "CONFLICT"}] /\ replayed'[p] = answer
        /\ \A q \in Purchases : q # p => replayed'[q] = replayed[q]
    BY <1>2, <1>3 DEF TillTypes
  <2>3. replayed[p] = "none" /\ booked[p] <= 1
    BY <1>2, <1>3 DEF BookingsAreFew
  <2>4. BookingsAreFew'
    BY <2>1, <2>2, <2>3 DEF BookingsAreFew, TillTypes
  <2>5. UnservedIsUnknown'
    BY <2>1 DEF UnservedIsUnknown, Unserved
  <2> QED
    BY <2>1, <2>2, <2>3, <2>4, <2>5
<1> QED
  BY <1>1, <1>3

\* The handlers' snapshots stay true whatever the cloud answers.
LEMMA OthersStayTrue ==
    ASSUME TillInv, \A q \in Purchases : replayed[q] # "none" => replayed'[q] = replayed[q],
           UNCHANGED <<view, billing, seeding, numbers, served>>
    PROVE  /\ TrueSnapshot(view)'
           /\ BillingBase' => TrueSnapshot(billing.base)' /\ billing'.base.next > 0 /\ served' > 0
           /\ billing'.step = "saved" => TrueSnapshot(billing.snap)'
           /\ ~AtRest(seeding') => TrueSnapshot(seeding.snap)'
<1>1. ASSUME NEW snap \in Snapshot, TrueSnapshot(snap)
      PROVE  /\ snap = Nothing \/ snap.next > 0
             /\ \A s \in snap.sales :
                  /\ numbers'[s.id] > 0
                  /\ s.state \in {"RECONCILED", "CONFLICT"} => replayed'[s.id] = s.state
  BY <1>1, StaysTrue
<1>2. TrueSnapshot(view)'
  BY <1>1 DEF TrueSnapshot, TillInv, TillTypes, SnapshotsAreTrue
<1>3. BillingBase' => TrueSnapshot(billing.base)' /\ billing'.base.next > 0 /\ served' > 0
  BY <1>1 DEF TrueSnapshot, TillInv, TillTypes, SnapshotsAreTrue, BillingBase, Rest
<1>4. billing'.step = "saved" => TrueSnapshot(billing.snap)'
  BY <1>1 DEF TrueSnapshot, TillInv, TillTypes, SnapshotsAreTrue, Rest
<1>5. ~AtRest(seeding') => TrueSnapshot(seeding.snap)'
  BY <1>1 DEF TrueSnapshot, TillInv, TillTypes, SnapshotsAreTrue, AtRest, Rest
<1> QED
  BY <1>2, <1>3, <1>4, <1>5

\* The sale whose turn it is has a number.
LEMMA TurnIsNumbered ==
    ASSUME TillInv, Calls
    PROVE  /\ Turn \in Purchases /\ numbers[Turn] > 0
           /\ replay.work \in Snapshot /\ TrueSnapshot(replay.work)
           /\ replay.left \in SUBSET Purchases /\ \A p \in replay.left : numbers[p] > 0
<1>1. /\ replay.left \in SUBSET Purchases /\ replay.left # {} /\ replay.work \in Snapshot
      /\ TrueSnapshot(replay.work) /\ \A p \in replay.left : numbers[p] > 0
  BY DEF TillInv, TillTypes, SnapshotsAreTrue, Calls, AtRest, Rest
<1>2. Turn \in replay.left
  BY <1>1, FirstOfThem DEF Turn
<1> QED
  BY <1>1, <1>2

LEMMA ReplayAnsweredInv == TillInv /\ ReplayAnswered => TillInv'
<1> SUFFICES ASSUME TillInv, ReplayAnswered PROVE TillInv'
  OBVIOUS
<1>1. PICK answer \in {"RECONCILED", "CONFLICT"} :
        /\ Served(Turn, answer)
        /\ replay' = [replay EXCEPT !.work = MarkedAs(@, {Turn}, answer), !.left = @ \ {Turn}]
  BY DEF ReplayAnswered
<1>2. PICK p : p = Turn
  OBVIOUS
<1>3. /\ p \in Purchases /\ numbers[p] > 0
      /\ replay.work \in Snapshot /\ TrueSnapshot(replay.work)
      /\ replay.left \in SUBSET Purchases /\ \A q \in replay.left : numbers[q] > 0
  BY <1>2, TurnIsNumbered DEF ReplayAnswered
<1>4. UNCHANGED <<shelf, view, scope, billing, seeding, numbers, served>>
  BY DEF ReplayAnswered, tillStore
<1>5. /\ replayed' \in [Purchases -> {"none", "RECONCILED", "CONFLICT"}]
      /\ booked' \in [Purchases -> Nat]
      /\ \A q \in Purchases : replayed[q] # "none" => replayed'[q] = replayed[q]
      /\ BookingsAreFew' /\ UnservedIsUnknown'
  BY <1>1, <1>2, <1>3, <1>4, CloudAnswers
<1>6. replayed'[p] = answer
  BY <1>1, <1>2, <1>3 DEF Served, tillCloud, TillInv, TillTypes
<1>7. PICK work : work = MarkedAs(replay.work, {p}, answer)
  OBVIOUS
<1>8. work \in Snapshot /\ (work = Nothing \/ work.next > 0)
      /\ \A s \in work.sales :
           numbers'[s.id] > 0 /\ (s.state \in {"RECONCILED", "CONFLICT"} => replayed'[s.id] = s.state)
  BY <1>3, <1>4, <1>5, <1>6, <1>7, AnsweredIsTrue DEF TrueSnapshot
<1>9. /\ replay'.work = work /\ replay'.left = replay.left \ {p} /\ replay'.step = "calling"
      /\ replay' \in [step : {"marked", "calling", "saved"}, work : Snapshot, left : SUBSET Purchases]
  <2>1. replay \in [step : {"marked", "calling", "saved"}, work : Snapshot, left : SUBSET Purchases]
        /\ replay.step = "calling"
    BY DEF TillInv, TillTypes, ReplayAnswered, Calls, Rest
  <2> QED
    BY <1>1, <1>2, <1>7, <1>8, <2>1
<1>10. TillTypes'
  BY <1>4, <1>5, <1>9 DEF TillInv, TillTypes
<1>11. TrueSnapshot(shelf)'
  BY <1>4, <1>5, StaysTrue DEF TillInv, TillTypes, SnapshotsAreTrue, TrueSnapshot
<1>12. SnapshotsAreTrue'
  BY <1>3, <1>4, <1>5, <1>8, <1>9, <1>11, OthersStayTrue DEF SnapshotsAreTrue, TrueSnapshot
<1> QED
  BY <1>5, <1>10, <1>12 DEF TillInv

LEMMA ReplayUnansweredInv == TillInv /\ ReplayUnanswered => TillInv'
<1> SUFFICES ASSUME TillInv, ReplayUnanswered PROVE TillInv'
  OBVIOUS
<1>1. /\ UNCHANGED <<view, scope, billing, seeding, numbers, served>>
      /\ replay' = [step |-> "saved", work |-> shelf', left |-> {}]
      /\ shelf' = MarkedAs(replay.work, {Turn}, "PENDING_REPLAY")
  BY DEF ReplayUnanswered, AfterFailure
<1>2. PICK p : p = Turn
  OBVIOUS
<1>3. /\ p \in Purchases /\ numbers[p] > 0
      /\ replay.work \in Snapshot /\ TrueSnapshot(replay.work)
  BY <1>2, TurnIsNumbered DEF ReplayUnanswered
<1>4. /\ replayed' \in [Purchases -> {"none", "RECONCILED", "CONFLICT"}]
      /\ booked' \in [Purchases -> Nat]
      /\ \A q \in Purchases : replayed[q] # "none" => replayed'[q] = replayed[q]
      /\ BookingsAreFew' /\ UnservedIsUnknown'
  BY <1>1, <1>2, <1>3, CloudAnswers DEF ReplayUnanswered
<1>5. shelf' \in Snapshot /\ TrueSnapshot(shelf')
  BY <1>1, <1>3, MarkedIsTrue
<1>6. TrueSnapshot(shelf)'
  BY <1>1, <1>4, <1>5, StaysTrue DEF TrueSnapshot
<1>7. TillTypes'
  BY <1>1, <1>4, <1>5 DEF TillInv, TillTypes
<1>8. SnapshotsAreTrue'
  BY <1>1, <1>4, <1>6, OthersStayTrue DEF SnapshotsAreTrue, TrueSnapshot
<1> QED
  BY <1>4, <1>7, <1>8 DEF TillInv

\* The other steps of a replay hand its snapshot on.
LEMMA ReplayMovesInv ==
    ASSUME TillInv, StartReplay \/ ShowReplaying \/ ReplayRefused \/ EndReplay \/ ShowReplayed
    PROVE  TillInv'
<1>1. UNCHANGED <<cloudSide, scope, billing, seeding>>
  BY DEF StartReplay, ShowReplaying, ReplayRefused, EndReplay, ShowReplayed, cloudSide, tillStore
<1>2. CASE StartReplay
  <2> DEFINE ids == Ids(ToReplay(view))
  <2>1. /\ shelf' = MarkedAs(view, ids, "REPLAYING") /\ UNCHANGED view
        /\ replay' = [step |-> "marked", work |-> shelf', left |-> ids]
    BY <1>2 DEF StartReplay
  <2>2. view \in Snapshot /\ TrueSnapshot(view)
    BY DEF TillInv, TillTypes, SnapshotsAreTrue
  <2>3. ids \in SUBSET Purchases /\ \A p \in ids : numbers[p] > 0
    BY <2>2 DEF Ids, ToReplay, InState, Snapshot, Sale, TrueSnapshot
  <2> HIDE DEF ids
  <2>4. shelf' \in Snapshot /\ TrueSnapshot(shelf')
    BY <2>1, <2>2, MarkedIsTrue
  <2>5. TillTypes'
    BY <1>1, <2>1, <2>3, <2>4 DEF TillInv, TillTypes, cloudSide, tillCloud
  <2>6. SnapshotsAreTrue'
    BY <1>1, <2>1, <2>3, <2>4
       DEF TillInv, SnapshotsAreTrue, TrueSnapshot, BillingBase, AtRest, cloudSide, tillCloud
  <2> QED
    BY <1>1, <2>5, <2>6, QuietInv
<1>3. CASE ShowReplaying \/ ReplayRefused \/ EndReplay \/ ShowReplayed
  <2>1. TillTypes'
    BY <1>1, <1>3 DEF TillInv, TillTypes, cloudSide, tillCloud, tillStore, Rest,
                      ShowReplaying, ReplayRefused, EndReplay, ShowReplayed
  <2>2. /\ \/ replay.step # "idle" /\ shelf' = replay.work
           \/ shelf' = shelf
        /\ \/ replay.step # "idle" /\ view' = replay.work
           \/ view' = view
        /\ \/ AtRest(replay')
           \/ replay.step # "idle" /\ replay'.work = replay.work /\ replay'.left = replay.left
    BY <1>3 DEF TillInv, TillTypes, AtRest, tillStore, Rest,
                ShowReplaying, ReplayRefused, EndReplay, ShowReplayed
  <2>3. SnapshotsAreTrue'
    BY <1>1, <2>2 DEF TillInv, SnapshotsAreTrue, TrueSnapshot, BillingBase, AtRest, cloudSide, tillCloud
  <2> QED
    BY <1>1, <2>1, <2>3, QuietInv
<1> QED
  BY <1>2, <1>3

-----------------------------------------------------------------------------
\* Every step keeps the invariant.
LEMMA TillStepInv == TillInv /\ [OfflineTillNext]_tillVars => TillInv'
<1>1. TillInv /\ UNCHANGED tillVars => TillInv'
  BY DEF tillVars, tillStore, tillCloud, TillInv, TillTypes, SnapshotsAreTrue, TrueSnapshot,
         BillingBase, AtRest, BookingsAreFew, UnservedIsUnknown, Unserved
<1> QED
  BY <1>1, StoreInv, BillInv, BookOnlineInv, BillEndsInv, SellOfflineInv,
     ReplayAnsweredInv, ReplayUnansweredInv, ReplayMovesInv DEF OfflineTillNext

\* The invariant says it of the two snapshots that are kept.
THEOREM OfflineTillTellsTheCloud == OfflineTillSpec => []TillTellsTheCloud
<1>1. TillInv => TillTellsTheCloud
  BY DEF TillInv, SnapshotsAreTrue, TrueSnapshot, BookingsAreFew, TillTellsTheCloud
<1> QED
  BY <1>1, TillInitInv, TillStepInv, PTL DEF OfflineTillSpec

\* A set of numbers of rows that is not empty has a first one.
LEMMA FirstIsThere ==
    ASSUME NEW n \in Nat, NEW S \in SUBSET (1 .. n), S # {}
    PROVE  \E i \in S : \A j \in S : i <= j
<1>1. S \subseteq Nat
  OBVIOUS
<1> QED
  BY <1>1, LeastNumber

-----------------------------------------------------------------------------
(* The printers. *)

PollPlaces == {"away", "begun", "listed", "printed", "failed", "refused"}
PollRow == [at: PollPlaces, jobs: SUBSET JobIds, cancelled: BOOLEAN]
PrintRow == [type: JobTypes, status: {"QUEUED", "COMPLETED", "FAILED"}]

Counts == [Apps -> [JobIds -> Nat]]
Pollings == [Apps -> [Timers -> PollRow]]

PrintTyped ==
    /\ printJobs \in Seq(PrintRow) /\ Len(printJobs) <= MaxPrintJobs
    /\ polling \in Pollings /\ \A a \in Apps, t \in Timers : polling[a][t].jobs \subseteq DOMAIN printJobs
    /\ dispatching \in [Apps -> BOOLEAN]
    /\ sheets \in Counts /\ untold \in Counts
    /\ shown \subseteq DOMAIN printJobs

\* A poll that has come to a job has one.
PollHasJob == \A a \in Apps, t \in Timers : polling[a][t].at \in {"printed", "failed", "refused"} => polling[a][t].jobs # {}

\* The app's lock lets one poll at a time under way.
OnePoll(a) ==
    /\ \A t \in Timers : polling[a][t].at # "away" => dispatching[a]
    /\ \A t, u \in Timers : polling[a][t].at # "away" /\ polling[a][u].at # "away" => t = u

NotQueued(j) == j \in DOMAIN printJobs /\ printJobs[j].status # "QUEUED"

\* The app has printed job j and not yet said so.
HeldSheet(a, j) == \E t \in Timers : polling[a][t].at \in {"printed", "failed"} /\ Min(polling[a][t].jobs) = j

\* A print that was not lost was reported, or is about to be.
SheetsReported(a) ==
    \A j \in JobIds :
        \/ sheets[a][j] <= untold[a][j]
        \/ sheets[a][j] = untold[a][j] + 1 /\ (HeldSheet(a, j) \/ NotQueued(j))

\* What the app was told is queued it has printed only if that was lost.
ListedUnprinted(a) ==
    \A t \in Timers : polling[a][t].at = "listed" => \A j \in polling[a][t].jobs : sheets[a][j] <= untold[a][j]

HeldPrinted(a) ==
    \A t \in Timers : polling[a][t].at \in {"printed", "failed"} => sheets[a][Min(polling[a][t].jobs)] > 0

AppInv(a) == OnePoll(a) /\ SheetsReported(a) /\ ListedUnprinted(a) /\ HeldPrinted(a)

PrintInv == PrintTyped /\ PollHasJob /\ (\A a \in Apps : AppInv(a)) /\ CompletedWasPrinted

\* The invariant says what the run checks.
LEMMA PrintInvShows == PrintInv => PaperMatchesReports
<1> SUFFICES ASSUME PrintInv PROVE PaperMatchesReports
  OBVIOUS
<1>1. ASSUME NEW a \in Apps, NEW j \in JobIds PROVE sheets[a][j] <= 1 + untold[a][j]
  <2>1. sheets[a][j] \in Nat /\ untold[a][j] \in Nat
    BY DEF PrintInv, PrintTyped, Counts
  <2>2. sheets[a][j] <= untold[a][j] \/ sheets[a][j] = untold[a][j] + 1
    BY DEF PrintInv, AppInv, SheetsReported
  <2> QED
    BY <2>1, <2>2
<1> QED
  BY <1>1 DEF PaperMatchesReports, PrintedOncePerReport, PrintInv

\* At first nothing is queued, listed or printed.
LEMMA PrintInitInv == PrintInit => PrintInv
<1> SUFFICES ASSUME PrintInit PROVE PrintInv
  OBVIOUS
<1>1. DOMAIN printJobs = {} /\ Len(printJobs) = 0 /\ printJobs \in Seq(PrintRow)
  BY DEF PrintInit
<1>2. \A a \in Apps, t \in Timers : polling[a][t] = Away
  BY DEF PrintInit
<1>3. Away \in PollRow /\ Away.at = "away" /\ Away.jobs = {}
  BY DEF Away, PollRow, PollPlaces
<1>4. \A a \in Apps, j \in JobIds : sheets[a][j] = 0 /\ untold[a][j] = 0
  BY DEF PrintInit
<1>5. sheets \in Counts /\ untold \in Counts
  BY DEF PrintInit, Counts
<1>6. polling \in Pollings
  BY <1>3 DEF PrintInit, Pollings
<1>7. PrintTyped
  BY <1>1, <1>2, <1>3, <1>5, <1>6, PrintAssumption DEF PrintInit, PrintTyped
<1>8. PollHasJob /\ CompletedWasPrinted
  BY <1>1, <1>2, <1>3 DEF PollHasJob, CompletedWasPrinted
<1>9. ASSUME NEW a \in Apps PROVE AppInv(a)
  BY <1>2, <1>3, <1>4 DEF AppInv, OnePoll, SheetsReported, ListedUnprinted, HeldPrinted
<1> QED
  BY <1>7, <1>8, <1>9 DEF PrintInv

\* The oldest of the jobs an app was answered, or a shell shows, is one of them.
LEMMA OldestIsThere ==
    ASSUME PrintTyped, NEW jobs, jobs \subseteq DOMAIN printJobs, jobs # {}
    PROVE  Min(jobs) \in jobs /\ Min(jobs) \in JobIds /\ Min(jobs) \in DOMAIN printJobs
<1>1. DOMAIN printJobs = 1 .. Len(printJobs) /\ Len(printJobs) \in Nat /\ Len(printJobs) <= MaxPrintJobs
  BY DEF PrintTyped
<1>2. DOMAIN printJobs \subseteq JobIds
  BY <1>1, PrintAssumption DEF JobIds
<1>3. PICK j \in jobs : \A k \in jobs : j <= k
  BY <1>1, FirstIsThere
<1>4. Min(jobs) \in jobs
  BY <1>3 DEF Min
<1> QED
  BY <1>2, <1>4

\* A job that is settled is never queued again.
StaySettled ==
    /\ printJobs' \in Seq(PrintRow) /\ Len(printJobs') <= MaxPrintJobs
    /\ DOMAIN printJobs \subseteq DOMAIN printJobs'
    /\ \A j \in DOMAIN printJobs : printJobs[j].status # "QUEUED" => printJobs'[j].status # "QUEUED"

\* A report settles its job and no other.
LEMMA SettledStays ==
    ASSUME PrintTyped, NEW j \in DOMAIN printJobs, NEW status \in {"COMPLETED", "FAILED"}, Settled(j, status)
    PROVE  /\ StaySettled /\ NotQueued(j)'
           /\ DOMAIN printJobs' = DOMAIN printJobs
           /\ printJobs'[j].status = status /\ \A k \in DOMAIN printJobs \ {j} : printJobs'[k] = printJobs[k]
<1>1. printJobs \in Seq(PrintRow) /\ printJobs[j] \in PrintRow
  BY DEF PrintTyped
<1>2. PICK row : row = [printJobs[j] EXCEPT !.status = status]
  OBVIOUS
<1>3. row \in PrintRow /\ row.status = status
  BY <1>1, <1>2 DEF PrintRow
<1>4. printJobs' = [printJobs EXCEPT ![j] = row]
  BY <1>2 DEF Settled
<1>5. /\ printJobs' \in Seq(PrintRow) /\ Len(printJobs') = Len(printJobs) /\ DOMAIN printJobs' = DOMAIN printJobs
      /\ printJobs'[j] = row /\ \A k \in DOMAIN printJobs \ {j} : printJobs'[k] = printJobs[k]
  BY <1>1, <1>3, <1>4
<1> QED
  BY <1>3, <1>5 DEF StaySettled, NotQueued, PrintTyped

\* What has happened to an app's paper stays true while others move.
LEMMA AppStays ==
    ASSUME NEW a \in Apps, AppInv(a), StaySettled, dispatching'[a] = dispatching[a],
           \A t \in Timers : polling'[a][t] = polling[a][t],
           \A j \in JobIds : sheets'[a][j] = sheets[a][j] /\ untold'[a][j] = untold[a][j],
           PrintTyped, PollHasJob
    PROVE  AppInv(a)'
<1>1. \A j : NotQueued(j) => NotQueued(j)'
  BY DEF NotQueued, StaySettled
<1>2. \A j : HeldSheet(a, j) => HeldSheet(a, j)'
  BY DEF HeldSheet
<1>3. OnePoll(a)'
  BY DEF AppInv, OnePoll
<1>4. SheetsReported(a)'
  BY <1>1, <1>2 DEF AppInv, SheetsReported
<1>5. \A t \in Timers : polling[a][t].jobs \subseteq JobIds
  BY DEF PrintTyped, Pollings, PollRow
<1>6. ListedUnprinted(a)'
  BY <1>5 DEF AppInv, ListedUnprinted
<1>7. \A t \in Timers : polling[a][t].at \in {"printed", "failed"} => Min(polling[a][t].jobs) \in JobIds
  BY OldestIsThere DEF PollHasJob, PrintTyped
<1>8. HeldPrinted(a)'
  BY <1>7 DEF AppInv, HeldPrinted
<1> QED
  BY <1>3, <1>4, <1>6, <1>8 DEF AppInv

\* A poll of an app moves on, in all it may do at once.
LEMMA PollMoves ==
    ASSUME PrintInv, NEW a \in Apps, NEW t \in Timers, NEW row \in PollRow,
           polling' = [polling EXCEPT ![a][t] = row], row.jobs \subseteq DOMAIN printJobs,
           row.at \in {"printed", "failed", "refused"} => row.jobs # {},
           StaySettled, UNCHANGED shown,
           dispatching' \in [Apps -> BOOLEAN], row.at # "away" => dispatching'[a],
           \A b \in Apps \ {a} : dispatching'[b] = dispatching[b],
           sheets' \in Counts, untold' \in Counts,
           \A b \in Apps \ {a}, j \in JobIds : sheets'[b][j] = sheets[b][j] /\ untold'[b][j] = untold[b][j],
           \A u \in Timers \ {t} : polling[a][u].at = "away",
           row.at = "listed" => \A j \in row.jobs : sheets'[a][j] <= untold'[a][j],
           row.at \in {"printed", "failed"} => sheets'[a][Min(row.jobs)] > 0,
           \A j \in JobIds :
              \/ sheets'[a][j] <= untold'[a][j]
              \/ sheets'[a][j] = untold'[a][j] + 1 /\
                    ((row.at \in {"printed", "failed"} /\ Min(row.jobs) = j) \/ NotQueued(j)')
    PROVE  PrintTyped' /\ PollHasJob' /\ \A b \in Apps : AppInv(b)'
<1>1. polling \in Pollings
  BY DEF PrintInv, PrintTyped
<1>2. /\ polling' \in Pollings /\ polling'[a][t] = row
      /\ \A b \in Apps, u \in Timers : (b # a \/ u # t) => polling'[b][u] = polling[b][u]
  BY <1>1 DEF Pollings
<1>3. ASSUME NEW b \in Apps, NEW u \in Timers
      PROVE  /\ polling'[b][u].jobs \subseteq DOMAIN printJobs'
             /\ polling'[b][u].at \in {"printed", "failed", "refused"} => polling'[b][u].jobs # {}
  <2>1. CASE b = a /\ u = t
    BY <1>2, <2>1 DEF StaySettled
  <2>2. CASE b # a \/ u # t
    BY <1>2, <2>2 DEF StaySettled, PrintInv, PrintTyped, PollHasJob
  <2> QED
    BY <2>1, <2>2
<1>4. PrintTyped' /\ PollHasJob'
  BY <1>2, <1>3 DEF PrintInv, PrintTyped, PollHasJob, StaySettled
<1>5. ASSUME NEW b \in Apps, b # a PROVE AppInv(b)'
  <2>1. AppInv(b) /\ PrintTyped /\ PollHasJob
    BY DEF PrintInv
  <2>2. \A u \in Timers : polling'[b][u] = polling[b][u]
    BY <1>2, <1>5
  <2>3. dispatching'[b] = dispatching[b] /\ \A j \in JobIds : sheets'[b][j] = sheets[b][j] /\ untold'[b][j] = untold[b][j]
    BY <1>5
  <2> QED
    BY <2>1, <2>2, <2>3, AppStays
<1>6. \A u \in Timers \ {t} : polling'[a][u].at = "away"
  BY <1>2
<1>7. AppInv(a)'
  <2>1. OnePoll(a)'
    BY <1>2, <1>6 DEF OnePoll
  <2>2. ListedUnprinted(a)' /\ HeldPrinted(a)'
    BY <1>2, <1>6 DEF ListedUnprinted, HeldPrinted
  <2>3. SheetsReported(a)'
    BY <1>2, <1>6 DEF SheetsReported, HeldSheet
  <2> QED
    BY <2>1, <2>2, <2>3 DEF AppInv
<1> QED
  BY <1>4, <1>5, <1>7

\* What is known of a poll under way: it is the only one of its app.
LEMMA PollUnderWay ==
    ASSUME PrintInv, NEW a \in Apps, NEW t \in Timers, polling[a][t].at # "away"
    PROVE  /\ dispatching[a] /\ \A u \in Timers \ {t} : polling[a][u].at = "away"
           /\ polling[a][t] \in PollRow /\ polling[a][t].jobs \subseteq DOMAIN printJobs
           /\ polling[a][t].at \in {"printed", "failed", "refused"} => polling[a][t].jobs # {}
           /\ polling[a][t].jobs # {} => Job(a, t) \in polling[a][t].jobs /\ Job(a, t) \in JobIds /\ Job(a, t) \in DOMAIN printJobs
           /\ Job(a, t) = Min(polling[a][t].jobs)
           /\ \A j \in JobIds :
                \/ sheets[a][j] <= untold[a][j]
                \/ sheets[a][j] = untold[a][j] + 1 /\
                      ((polling[a][t].at \in {"printed", "failed"} /\ Job(a, t) = j) \/ NotQueued(j))
<1>1. AppInv(a) /\ PrintTyped /\ PollHasJob
  BY DEF PrintInv
<1>2. dispatching[a] /\ \A u \in Timers \ {t} : polling[a][u].at = "away"
  BY <1>1 DEF AppInv, OnePoll
<1>3. Job(a, t) = Min(polling[a][t].jobs)
  BY DEF Job, Poll
<1>4. polling[a][t] \in PollRow /\ polling[a][t].jobs \subseteq DOMAIN printJobs
  BY <1>1 DEF PrintTyped, Pollings
<1>5. polling[a][t].jobs # {} => Job(a, t) \in polling[a][t].jobs /\ Job(a, t) \in JobIds /\ Job(a, t) \in DOMAIN printJobs
  BY <1>1, <1>3, <1>4, OldestIsThere
<1>6. \A j : HeldSheet(a, j) => polling[a][t].at \in {"printed", "failed"} /\ Job(a, t) = j
  BY <1>2, <1>3 DEF HeldSheet
<1> QED
  BY <1>1, <1>2, <1>3, <1>4, <1>5, <1>6 DEF PollHasJob, AppInv, SheetsReported

\* The rows stand while a poll moves.
LEMMA RowsStand == ASSUME PrintTyped, UNCHANGED printJobs PROVE StaySettled
BY DEF PrintTyped, StaySettled

\* A counter after one more.
Grown(counts, a, j) == [counts EXCEPT ![a][j] = @ + 1]

\* Only that one has grown.
LEMMA CountsGrow ==
    ASSUME NEW counts, counts \in Counts, NEW a \in Apps, NEW j \in JobIds
    PROVE  /\ Grown(counts, a, j) \in Counts /\ Grown(counts, a, j)[a][j] = counts[a][j] + 1
           /\ \A k \in JobIds \ {j} : Grown(counts, a, j)[a][k] = counts[a][k]
           /\ \A b \in Apps \ {a} : Grown(counts, a, j)[b] = counts[b]
<1>1. counts[a] \in [JobIds -> Nat] /\ counts[a][j] \in Nat
  BY DEF Counts
<1>2. PICK row : row = [counts[a] EXCEPT ![j] = counts[a][j] + 1]
  OBVIOUS
<1>3. row \in [JobIds -> Nat] /\ row[j] = counts[a][j] + 1 /\ \A k \in JobIds \ {j} : row[k] = counts[a][k]
  BY <1>1, <1>2
<1>4. Grown(counts, a, j) = [counts EXCEPT ![a] = row]
  BY <1>2 DEF Grown
<1> QED
  BY <1>3, <1>4 DEF Counts

\* A tick of the timer begins a poll only while the lock is free.
LEMMA PollBeginsKeeps == ASSUME PrintInv, NEW a \in Apps, NEW t \in Timers, PollBegins(a, t) PROVE PrintInv'
<1>1. PICK row : row = [polling[a][t] EXCEPT !.at = "begun"]
  OBVIOUS
<1>2. PrintTyped /\ AppInv(a) /\ CompletedWasPrinted
  BY DEF PrintInv
<1>3. polling[a][t] \in PollRow /\ polling[a][t].jobs \subseteq DOMAIN printJobs
  BY <1>2 DEF PrintTyped, Pollings
<1>4. row \in PollRow /\ row.at = "begun" /\ row.jobs = polling[a][t].jobs
  BY <1>1, <1>3 DEF PollRow, PollPlaces
<1>5. polling' = [polling EXCEPT ![a][t] = row]
  BY <1>1 DEF PollBegins, MoveTo
<1>6. /\ dispatching' = [dispatching EXCEPT ![a] = TRUE] /\ ~dispatching[a]
      /\ UNCHANGED <<printJobs, shown, sheets, untold, byHand>>
  BY DEF PollBegins, MayPoll
<1>7. \A u \in Timers : polling[a][u].at = "away"
  BY <1>2, <1>6 DEF AppInv, OnePoll
<1>8. StaySettled
  BY <1>2, <1>6, RowsStand
<1>9. \A j \in JobIds : sheets'[a][j] <= untold'[a][j] \/ (sheets'[a][j] = untold'[a][j] + 1 /\ NotQueued(j)')
  BY <1>2, <1>6, <1>7 DEF AppInv, SheetsReported, HeldSheet, NotQueued
<1>10. /\ dispatching' \in [Apps -> BOOLEAN] /\ dispatching'[a]
       /\ \A b \in Apps \ {a} : dispatching'[b] = dispatching[b]
       /\ sheets' \in Counts /\ untold' \in Counts
       /\ \A b \in Apps \ {a}, j \in JobIds : sheets'[b][j] = sheets[b][j] /\ untold'[b][j] = untold[b][j]
  BY <1>2, <1>6 DEF PrintTyped
<1>11. PrintTyped' /\ PollHasJob' /\ \A b \in Apps : AppInv(b)'
  <2>1. UNCHANGED shown /\ row.jobs \subseteq DOMAIN printJobs
    BY <1>3, <1>4, <1>6
  <2>2. row.at \notin {"printed", "failed", "refused"} /\ row.at # "listed" /\ row.at \notin {"printed", "failed"}
    BY <1>4
  <2> QED
    BY <1>4, <1>5, <1>7, <1>8, <1>9, <1>10, <2>1, <2>2, PollMoves
<1>12. CompletedWasPrinted'
  BY <1>2, <1>6 DEF CompletedWasPrinted
<1> QED
  BY <1>11, <1>12 DEF PrintInv

\* The same of a poll under way, which gives the lock back when it ends.
LEMMA PollGoesOn ==
    ASSUME PrintInv, NEW a \in Apps, NEW t \in Timers, polling[a][t].at # "away", NEW row \in PollRow,
           polling' = [polling EXCEPT ![a][t] = row], row.jobs \subseteq DOMAIN printJobs,
           row.at \in {"printed", "failed", "refused"} => row.jobs # {},
           StaySettled, UNCHANGED shown,
           dispatching' = IF row.at = "away" THEN [dispatching EXCEPT ![a] = FALSE] ELSE dispatching,
           sheets' \in Counts, \A b \in Apps \ {a} : sheets'[b] = sheets[b],
           untold' \in Counts, \A b \in Apps \ {a} : untold'[b] = untold[b],
           row.at = "listed" => \A j \in row.jobs : sheets'[a][j] <= untold'[a][j],
           row.at \in {"printed", "failed"} => sheets'[a][Min(row.jobs)] > 0,
           \A j \in JobIds :
              \/ sheets'[a][j] <= untold'[a][j]
              \/ sheets'[a][j] = untold'[a][j] + 1 /\
                    ((row.at \in {"printed", "failed"} /\ Min(row.jobs) = j) \/ NotQueued(j)')
    PROVE  PrintTyped' /\ PollHasJob' /\ \A b \in Apps : AppInv(b)'
<1>1. dispatching[a] /\ \A u \in Timers \ {t} : polling[a][u].at = "away"
  BY PollUnderWay
<1>2. dispatching \in [Apps -> BOOLEAN]
  BY DEF PrintInv, PrintTyped
<1>3. /\ dispatching' \in [Apps -> BOOLEAN] /\ (row.at # "away" => dispatching'[a])
      /\ \A b \in Apps \ {a} : dispatching'[b] = dispatching[b]
  BY <1>1, <1>2
<1>4. \A b \in Apps \ {a}, j \in JobIds : sheets'[b][j] = sheets[b][j] /\ untold'[b][j] = untold[b][j]
  OBVIOUS
<1> QED
  BY <1>1, <1>3, <1>4, PollMoves

\* A poll that ends without having printed.
LEMMA PollEndsUnprinted ==
    ASSUME PrintInv, NEW a \in Apps, NEW t \in Timers, polling[a][t].at \in {"begun", "listed", "refused"},
           PollEnds(a, t), UNCHANGED <<printJobs, shown, sheets, untold, byHand>>
    PROVE  PrintInv'
<1>1. PrintTyped /\ CompletedWasPrinted
  BY DEF PrintInv
<1>2. Away \in PollRow /\ Away.at = "away" /\ Away.jobs = {}
  BY DEF Away, PollRow, PollPlaces
<1>3. /\ polling' = [polling EXCEPT ![a][t] = Away]
      /\ dispatching' = IF Away.at = "away" THEN [dispatching EXCEPT ![a] = FALSE] ELSE dispatching
  BY <1>2 DEF PollEnds
<1>4. StaySettled /\ sheets' \in Counts /\ untold' \in Counts /\ UNCHANGED shown
  BY <1>1, RowsStand DEF PrintTyped
<1>5. (\A b \in Apps \ {a} : sheets'[b] = sheets[b]) /\ (\A b \in Apps \ {a} : untold'[b] = untold[b])
  OBVIOUS
<1>6. polling[a][t].at # "away" /\ polling[a][t].at \notin {"printed", "failed"}
  OBVIOUS
<1>7. \A j \in JobIds : sheets'[a][j] <= untold'[a][j] \/ (sheets'[a][j] = untold'[a][j] + 1 /\ NotQueued(j)')
  BY <1>6, PollUnderWay DEF NotQueued
<1>8. PrintTyped' /\ PollHasJob' /\ \A b \in Apps : AppInv(b)'
  <2>1. Away.at \notin {"printed", "failed", "refused"} /\ Away.at # "listed" /\ Away.at \notin {"printed", "failed"}
    BY <1>2
  <2>2. Away.jobs \subseteq DOMAIN printJobs
    BY <1>2
  <2> QED
    BY <1>2, <1>3, <1>4, <1>5, <1>6, <1>7, <2>1, <2>2, PollGoesOn
<1>9. CompletedWasPrinted'
  BY <1>1 DEF CompletedWasPrinted
<1> QED
  BY <1>8, <1>9 DEF PrintInv

\* The queued jobs are none that the app has printed and told.
LEMMA ListKeeps == ASSUME PrintInv, NEW a \in Apps, NEW t \in Timers, JobsListed(a, t) PROVE PrintInv'
<1>1. PICK row : row = [polling[a][t] EXCEPT !.at = "listed", !.jobs = QueuedJobs]
  OBVIOUS
<1>2. PrintTyped /\ CompletedWasPrinted
  BY DEF PrintInv
<1>3. polling[a][t].at = "begun" /\ polling' = [polling EXCEPT ![a][t] = row]
      /\ UNCHANGED <<printJobs, dispatching, shown, sheets, untold, byHand>>
  BY <1>1 DEF JobsListed, Poll
<1>4. polling[a][t].at # "away" /\ polling[a][t].at \notin {"printed", "failed"}
  BY <1>3
<1>5. polling[a][t] \in PollRow
  BY <1>4, PollUnderWay
<1>6. QueuedJobs \subseteq DOMAIN printJobs /\ DOMAIN printJobs \subseteq JobIds
  <2>1. DOMAIN printJobs = 1 .. Len(printJobs) /\ Len(printJobs) \in Nat /\ Len(printJobs) <= MaxPrintJobs
    BY <1>2 DEF PrintTyped
  <2> QED
    BY <2>1, PrintAssumption DEF QueuedJobs, JobIds
<1>7. row \in PollRow /\ row.at = "listed" /\ row.jobs = QueuedJobs
  BY <1>1, <1>5, <1>6 DEF PollRow, PollPlaces
<1>8. StaySettled /\ sheets' \in Counts /\ untold' \in Counts /\ UNCHANGED shown
  BY <1>2, <1>3, RowsStand DEF PrintTyped
<1>9. (\A b \in Apps \ {a} : sheets'[b] = sheets[b]) /\ (\A b \in Apps \ {a} : untold'[b] = untold[b])
  BY <1>3
<1>10. \A j \in JobIds : sheets[a][j] <= untold[a][j] \/ (sheets[a][j] = untold[a][j] + 1 /\ NotQueued(j))
  BY <1>4, PollUnderWay
<1>11. \A j \in row.jobs : sheets'[a][j] <= untold'[a][j]
  BY <1>3, <1>6, <1>7, <1>10 DEF NotQueued, QueuedJobs
<1>12. \A j \in JobIds : sheets'[a][j] <= untold'[a][j] \/ (sheets'[a][j] = untold'[a][j] + 1 /\ NotQueued(j)')
  BY <1>3, <1>10 DEF NotQueued
<1>13. PrintTyped' /\ PollHasJob' /\ \A b \in Apps : AppInv(b)'
  <2>1. row.at \notin {"printed", "failed", "refused"} /\ row.at \notin {"printed", "failed"} /\ row.at # "away"
    BY <1>7
  <2>2. row.jobs \subseteq DOMAIN printJobs
    BY <1>6, <1>7
  <2>3. dispatching' = IF row.at = "away" THEN [dispatching EXCEPT ![a] = FALSE] ELSE dispatching
    BY <1>3, <2>1
  <2> QED
    BY <1>3, <1>4, <1>7, <1>8, <1>9, <1>11, <1>12, <2>1, <2>2, <2>3, PollGoesOn
<1>14. CompletedWasPrinted'
  BY <1>2, <1>3 DEF CompletedWasPrinted
<1> QED
  BY <1>13, <1>14 DEF PrintInv

\* A poll that moves on to place with the job it has.
LEMMA PollKeepsJob ==
    ASSUME PrintInv, NEW a \in Apps, NEW t \in Timers, polling[a][t].at # "away",
           NEW place \in {"printed", "failed", "refused"}, MoveTo(a, t, place), polling[a][t].jobs # {},
           StaySettled, UNCHANGED <<dispatching, shown>>,
           sheets' \in Counts, \A b \in Apps \ {a} : sheets'[b] = sheets[b],
           untold' \in Counts, \A b \in Apps \ {a} : untold'[b] = untold[b],
           place # "refused" => sheets'[a][Job(a, t)] > 0,
           \A j \in JobIds :
              \/ sheets'[a][j] <= untold'[a][j]
              \/ sheets'[a][j] = untold'[a][j] + 1 /\ ((place # "refused" /\ Job(a, t) = j) \/ NotQueued(j)')
    PROVE  PrintTyped' /\ PollHasJob' /\ \A b \in Apps : AppInv(b)'
<1>1. PICK row : row = [polling[a][t] EXCEPT !.at = place]
  OBVIOUS
<1>2. polling[a][t] \in PollRow /\ polling[a][t].jobs \subseteq DOMAIN printJobs /\ Job(a, t) = Min(polling[a][t].jobs)
  BY PollUnderWay
<1>3. row \in PollRow /\ row.at = place /\ row.jobs = polling[a][t].jobs
  BY <1>1, <1>2 DEF PollRow, PollPlaces
<1>4. polling' = [polling EXCEPT ![a][t] = row]
  BY <1>1 DEF MoveTo
<1>5. row.jobs \subseteq DOMAIN printJobs /\ row.jobs # {} /\ Min(row.jobs) = Job(a, t) /\ row.at # "listed" /\ row.at # "away"
      /\ (row.at \in {"printed", "failed"} <=> place # "refused")
  BY <1>2, <1>3
<1>6. dispatching' = IF row.at = "away" THEN [dispatching EXCEPT ![a] = FALSE] ELSE dispatching
  BY <1>5
<1>7. row.at \in {"printed", "failed"} => sheets'[a][Min(row.jobs)] > 0
  BY <1>5
<1>8. \A j \in JobIds :
              \/ sheets'[a][j] <= untold'[a][j]
              \/ sheets'[a][j] = untold'[a][j] + 1 /\
                    ((row.at \in {"printed", "failed"} /\ Min(row.jobs) = j) \/ NotQueued(j)')
  BY <1>5
<1>9. UNCHANGED shown
  OBVIOUS
<1> QED
  BY <1>3, <1>4, <1>5, <1>6, <1>7, <1>8, <1>9, PollGoesOn

\* A sheet goes out: of a job the app had not printed, or only in vain.
LEMMA DispatchKeeps == ASSUME PrintInv, NEW a \in Apps, NEW t \in Timers, Dispatch(a, t) PROVE PrintInv'
<1>1. PICK j : j = Job(a, t)
  OBVIOUS
<1>2. PICK place \in {"printed", "failed"} : MoveTo(a, t, place)
  BY DEF Dispatch
<1>3. /\ polling[a][t].at = "listed" /\ polling[a][t].jobs # {} /\ sheets' = [sheets EXCEPT ![a][j] = @ + 1]
      /\ UNCHANGED <<printJobs, dispatching, shown, untold, byHand>>
  BY <1>1 DEF Dispatch, MayDispatch, Poll
<1>4. polling[a][t].at # "away" /\ polling[a][t].at \notin {"printed", "failed"}
  BY <1>3
<1>5. j \in polling[a][t].jobs /\ j \in JobIds
  BY <1>1, <1>3, <1>4, PollUnderWay
<1>6. PrintTyped /\ AppInv(a) /\ CompletedWasPrinted /\ sheets \in Counts /\ untold \in Counts
  BY DEF PrintInv, PrintTyped
<1>7. sheets[a][j] <= untold[a][j]
  BY <1>3, <1>5, <1>6 DEF AppInv, ListedUnprinted
<1>8. /\ sheets' \in Counts /\ sheets'[a][j] = sheets[a][j] + 1
      /\ \A k \in JobIds \ {j} : sheets'[a][k] = sheets[a][k]
      /\ \A b \in Apps \ {a} : sheets'[b] = sheets[b]
  <2>1. sheets \in Counts /\ sheets' = Grown(sheets, a, j)
    BY <1>3, <1>6 DEF Grown
  <2> QED
    BY <1>5, <2>1, CountsGrow
<1>9. \A k \in JobIds : sheets[a][k] <= untold[a][k] \/ (sheets[a][k] = untold[a][k] + 1 /\ NotQueued(k))
  BY <1>4, PollUnderWay
<1>10. sheets[a][j] \in Nat /\ untold[a][j] \in Nat /\ (\A b \in Apps : sheets[b] \in [JobIds -> Nat])
  BY <1>5, <1>6 DEF Counts
<1>11. \A k \in JobIds :
          \/ sheets'[a][k] <= untold'[a][k]
          \/ sheets'[a][k] = untold'[a][k] + 1 /\ ((place # "refused" /\ Job(a, t) = k) \/ NotQueued(k)')
  <2> SUFFICES ASSUME NEW k \in JobIds
               PROVE  \/ sheets'[a][k] <= untold[a][k]
                      \/ sheets'[a][k] = untold[a][k] + 1 /\ (Job(a, t) = k \/ NotQueued(k))
    BY <1>2, <1>3 DEF NotQueued
  <2>1. CASE k = j
    BY <1>1, <1>7, <1>8, <1>10, <2>1
  <2>2. CASE k # j
    BY <1>8, <1>9, <2>2
  <2> QED
    BY <2>1, <2>2
<1>12. StaySettled /\ sheets'[a][Job(a, t)] > 0
  BY <1>1, <1>3, <1>6, <1>8, <1>10, RowsStand
<1>13. PrintTyped' /\ PollHasJob' /\ \A b \in Apps : AppInv(b)'
  <2>1. untold' \in Counts /\ (\A b \in Apps \ {a} : untold'[b] = untold[b]) /\ UNCHANGED <<dispatching, shown>>
    BY <1>3, <1>6
  <2>2. place \in {"printed", "failed", "refused"} /\ MoveTo(a, t, place) /\ polling[a][t].at # "away" /\ polling[a][t].jobs # {}
    BY <1>2, <1>3
  <2>3. sheets' \in Counts /\ (\A b \in Apps \ {a} : sheets'[b] = sheets[b])
    BY <1>8
  <2>4. place # "refused" => sheets'[a][Job(a, t)] > 0
    BY <1>12
  <2>5. StaySettled
    BY <1>12
  <2> QED
    BY <1>11, <2>1, <2>2, <2>3, <2>4, <2>5, PollKeepsJob
<1>14. CompletedWasPrinted'
  <2>1. \A b \in Apps, k \in JobIds : sheets[b][k] > 0 => sheets'[b][k] > 0
    BY <1>8, <1>10
  <2>2. DOMAIN printJobs \subseteq JobIds
    BY <1>6, PrintAssumption DEF PrintTyped, JobIds
  <2> QED
    BY <1>3, <1>6, <2>1, <2>2 DEF CompletedWasPrinted
<1> QED
  BY <1>13, <1>14 DEF PrintInv

\* A refused sheet is none.
LEMMA RefusalKeeps == ASSUME PrintInv, NEW a \in Apps, NEW t \in Timers, DispatchRefused(a, t) PROVE PrintInv'
<1>1. /\ polling[a][t].at = "listed" /\ polling[a][t].jobs # {} /\ MoveTo(a, t, "refused")
      /\ UNCHANGED <<printJobs, dispatching, shown, sheets, untold, byHand>>
  BY DEF DispatchRefused, MayDispatch, Poll
<1>2. polling[a][t].at # "away" /\ polling[a][t].at \notin {"printed", "failed"}
  BY <1>1
<1>3. \A k \in JobIds : sheets'[a][k] <= untold'[a][k] \/ (sheets'[a][k] = untold'[a][k] + 1 /\ NotQueued(k)')
  BY <1>1, <1>2, PollUnderWay DEF NotQueued
<1>4. StaySettled /\ sheets' \in Counts /\ untold' \in Counts
  BY <1>1, RowsStand DEF PrintInv, PrintTyped
<1>5. PrintTyped' /\ PollHasJob' /\ \A b \in Apps : AppInv(b)'
  <2>1. (\A b \in Apps \ {a} : sheets'[b] = sheets[b]) /\ (\A b \in Apps \ {a} : untold'[b] = untold[b])
    BY <1>1
  <2>2. PICK place \in {"printed", "failed", "refused"} : place = "refused" /\ MoveTo(a, t, place)
    BY <1>1
  <2>3. UNCHANGED <<dispatching, shown>>
    BY <1>1
  <2> QED
    BY <1>1, <1>2, <1>3, <1>4, <2>1, <2>2, <2>3, PollKeepsJob
<1>6. CompletedWasPrinted'
  BY <1>1 DEF PrintInv, CompletedWasPrinted
<1> QED
  BY <1>5, <1>6 DEF PrintInv

\* A poll that ends after it has come to a job, which it has told, lost, or not printed.
LEMMA PollEndsWithJob ==
    ASSUME PrintInv, NEW a \in Apps, NEW t \in Timers, polling[a][t].at \in {"printed", "failed", "refused"},
           PollEnds(a, t), StaySettled, UNCHANGED <<shown, sheets>>, NEW j, j = Job(a, t),
           \/ untold' = Grown(untold, a, j)
           \/ untold' = untold /\ (polling[a][t].at = "refused" \/ NotQueued(j)')
    PROVE  PrintTyped' /\ PollHasJob' /\ \A b \in Apps : AppInv(b)'
<1>1. j = Job(a, t)
  OBVIOUS
<1>2. Away \in PollRow /\ Away.at = "away" /\ Away.jobs = {}
  BY DEF Away, PollRow, PollPlaces
<1>3. /\ polling' = [polling EXCEPT ![a][t] = Away]
      /\ dispatching' = IF Away.at = "away" THEN [dispatching EXCEPT ![a] = FALSE] ELSE dispatching
  BY <1>2 DEF PollEnds
<1>4. polling[a][t].at # "away"
  OBVIOUS
<1>5. polling[a][t].jobs # {}
  BY <1>4, PollUnderWay
<1>6. j \in JobIds
  BY <1>1, <1>4, <1>5, PollUnderWay
<1>7. sheets \in Counts /\ untold \in Counts
  BY DEF PrintInv, PrintTyped
<1>8. /\ untold' \in Counts /\ (\A b \in Apps \ {a} : untold'[b] = untold[b])
      /\ \A k \in JobIds \ {j} : untold'[a][k] = untold[a][k]
      /\ \/ untold'[a][j] = untold[a][j] + 1
         \/ untold'[a][j] = untold[a][j] /\ (polling[a][t].at = "refused" \/ NotQueued(j)')
  <2>1. CASE untold' = Grown(untold, a, j)
    <3>1. /\ Grown(untold, a, j) \in Counts /\ Grown(untold, a, j)[a][j] = untold[a][j] + 1
          /\ \A k \in JobIds \ {j} : Grown(untold, a, j)[a][k] = untold[a][k]
          /\ \A b \in Apps \ {a} : Grown(untold, a, j)[b] = untold[b]
      BY <1>6, <1>7, CountsGrow
    <3> QED
      BY <2>1, <3>1
  <2>2. CASE untold' = untold /\ (polling[a][t].at = "refused" \/ NotQueued(j)')
    BY <1>7, <2>2
  <2> QED
    BY <1>1, <2>1, <2>2
<1>9. \A k \in JobIds :
                \/ sheets[a][k] <= untold[a][k]
                \/ sheets[a][k] = untold[a][k] + 1 /\ ((polling[a][t].at \in {"printed", "failed"} /\ j = k) \/ NotQueued(k))
  BY <1>1, <1>4, PollUnderWay
<1>10. \A k \in JobIds : NotQueued(k) => NotQueued(k)'
  BY DEF NotQueued, StaySettled
<1>11. \A k \in JobIds : sheets[a][k] \in Nat /\ untold[a][k] \in Nat
  BY <1>7 DEF Counts
<1>12. \A k \in JobIds : sheets'[a][k] <= untold'[a][k] \/ (sheets'[a][k] = untold'[a][k] + 1 /\ NotQueued(k)')
  <2> SUFFICES ASSUME NEW k \in JobIds
               PROVE  sheets[a][k] <= untold'[a][k] \/ (sheets[a][k] = untold'[a][k] + 1 /\ NotQueued(k)')
    OBVIOUS
  <2>1. CASE k = j
    BY <1>8, <1>9, <1>10, <1>11, <2>1
  <2>2. CASE k # j
    BY <1>8, <1>9, <1>10, <1>11, <2>2
  <2> QED
    BY <2>1, <2>2
<1> QED
  <2>1. Away.at \notin {"printed", "failed", "refused"} /\ Away.at # "listed" /\ Away.at \notin {"printed", "failed"}
    BY <1>2
  <2>2. Away.jobs \subseteq DOMAIN printJobs
    BY <1>2
  <2>3. sheets' \in Counts /\ (\A b \in Apps \ {a} : sheets'[b] = sheets[b]) /\ UNCHANGED shown
    BY <1>7
  <2>4. untold' \in Counts /\ (\A b \in Apps \ {a} : untold'[b] = untold[b])
    BY <1>8
  <2> QED
    BY <1>2, <1>3, <1>4, <1>12, <2>1, <2>2, <2>3, <2>4, PollGoesOn

\* A cancelled poll forgets what it has printed.
LEMMA GivingUpKeeps == ASSUME PrintInv, NEW a \in Apps, NEW t \in Timers, PollGivesUp(a, t) PROVE PrintInv'
<1>1. /\ PollEnds(a, t) /\ UNCHANGED <<printJobs, shown, sheets, byHand>>
      /\ polling[a][t].at \in {"begun", "listed", "printed"}
      /\ untold' = IF polling[a][t].at = "printed" THEN Grown(untold, a, Job(a, t)) ELSE untold
  BY DEF PollGivesUp, Poll, Grown
<1>2. CASE polling[a][t].at = "printed"
  <2>1. StaySettled
    BY <1>1, RowsStand DEF PrintInv
  <2>2. PICK j : j = Job(a, t)
    OBVIOUS
  <2>3. PrintTyped' /\ PollHasJob' /\ \A b \in Apps : AppInv(b)'
    BY <1>1, <1>2, <2>1, <2>2, PollEndsWithJob
  <2>4. CompletedWasPrinted'
    BY <1>1 DEF PrintInv, CompletedWasPrinted
  <2> QED
    BY <2>3, <2>4 DEF PrintInv
<1>3. CASE polling[a][t].at # "printed"
  BY <1>1, <1>3, PollEndsUnprinted
<1> QED
  BY <1>2, <1>3

\* A completed job has a sheet of the app that says so.
LEMMA CompletionKeeps == ASSUME PrintInv, NEW a \in Apps, NEW t \in Timers, ReportCompleted(a, t) PROVE PrintInv'
<1>1. PICK j : j = Job(a, t)
  OBVIOUS
<1>2. polling[a][t].at = "printed" /\ UNCHANGED <<shown, sheets, untold, byHand>>
  BY DEF ReportCompleted, Poll
<1>3. polling[a][t].at # "away" /\ polling[a][t].at \in {"printed", "failed", "refused"}
  BY <1>2
<1>4. polling[a][t].jobs # {}
  BY <1>3, PollUnderWay
<1>5. j \in JobIds /\ j \in DOMAIN printJobs /\ j = Min(polling[a][t].jobs)
  BY <1>1, <1>3, <1>4, PollUnderWay
<1>6. PrintTyped /\ AppInv(a) /\ CompletedWasPrinted /\ sheets \in Counts /\ untold \in Counts
  BY DEF PrintInv, PrintTyped
<1>7. sheets[a][j] > 0
  BY <1>2, <1>5, <1>6 DEF AppInv, HeldPrinted
<1>8. CASE Settled(j, "COMPLETED") /\ PollEnds(a, t)
  <2>1. /\ StaySettled /\ NotQueued(j)' /\ DOMAIN printJobs' = DOMAIN printJobs
        /\ \A k \in DOMAIN printJobs \ {j} : printJobs'[k] = printJobs[k]
    BY <1>5, <1>6, <1>8, SettledStays
  <2>2. PrintTyped' /\ PollHasJob' /\ \A b \in Apps : AppInv(b)'
    BY <1>1, <1>2, <1>3, <1>8, <2>1, PollEndsWithJob
  <2>3. CompletedWasPrinted'
    BY <1>2, <1>6, <1>7, <2>1 DEF CompletedWasPrinted
  <2> QED
    BY <2>2, <2>3 DEF PrintInv
<1>9. CASE (Settled(j, "COMPLETED") \/ UNCHANGED printJobs) /\ MoveTo(a, t, "failed") /\ UNCHANGED dispatching
  <2>1. /\ StaySettled /\ DOMAIN printJobs' = DOMAIN printJobs
        /\ \A k \in DOMAIN printJobs \ {j} : printJobs'[k] = printJobs[k]
    BY <1>5, <1>6, <1>9, SettledStays, RowsStand
  <2>2. \A k \in JobIds : NotQueued(k) => NotQueued(k)'
    BY <2>1 DEF NotQueued, StaySettled
  <2>3. PICK place \in {"printed", "failed", "refused"} : place = "failed" /\ MoveTo(a, t, place)
    BY <1>9
  <2>4. \A k \in JobIds :
              \/ sheets'[a][k] <= untold'[a][k]
              \/ sheets'[a][k] = untold'[a][k] + 1 /\ ((place # "refused" /\ Job(a, t) = k) \/ NotQueued(k)')
    BY <1>2, <1>3, <2>2, <2>3, PollUnderWay
  <2>5. sheets' \in Counts /\ (\A b \in Apps \ {a} : sheets'[b] = sheets[b]) /\ UNCHANGED <<dispatching, shown>>
    BY <1>2, <1>6, <1>9
  <2>6. untold' \in Counts /\ (\A b \in Apps \ {a} : untold'[b] = untold[b])
    BY <1>2, <1>6
  <2>7. place # "refused" => sheets'[a][Job(a, t)] > 0
    BY <1>1, <1>2, <1>7
  <2>8. PrintTyped' /\ PollHasJob' /\ \A b \in Apps : AppInv(b)'
    BY <1>3, <1>4, <2>1, <2>3, <2>4, <2>5, <2>6, <2>7, PollKeepsJob
  <2>9. CompletedWasPrinted'
    BY <1>2, <1>6, <1>7, <2>1 DEF CompletedWasPrinted
  <2> QED
    BY <2>8, <2>9 DEF PrintInv
<1> QED
  BY <1>1, <1>8, <1>9 DEF ReportCompleted

\* A failed job is settled as well; the report that is lost counts.
LEMMA FailureReportKeeps == ASSUME PrintInv, NEW a \in Apps, NEW t \in Timers, ReportFailed(a, t) PROVE PrintInv'
<1>1. PICK j : j = Job(a, t)
  OBVIOUS
<1>2. polling[a][t].at \in {"failed", "refused"} /\ PollEnds(a, t) /\ UNCHANGED <<shown, sheets, byHand>>
  BY DEF ReportFailed, Poll
<1>3. polling[a][t].at # "away" /\ polling[a][t].at \in {"printed", "failed", "refused"}
  BY <1>2
<1>4. polling[a][t].jobs # {}
  BY <1>3, PollUnderWay
<1>5. j \in JobIds /\ j \in DOMAIN printJobs
  BY <1>1, <1>3, <1>4, PollUnderWay
<1>6. PrintTyped /\ CompletedWasPrinted
  BY DEF PrintInv
<1>7. CASE Settled(j, "FAILED") /\ UNCHANGED untold
  <2>1. /\ StaySettled /\ NotQueued(j)' /\ DOMAIN printJobs' = DOMAIN printJobs /\ printJobs'[j].status = "FAILED"
        /\ \A k \in DOMAIN printJobs \ {j} : printJobs'[k] = printJobs[k]
    BY <1>5, <1>6, <1>7, SettledStays
  <2>2. PrintTyped' /\ PollHasJob' /\ \A b \in Apps : AppInv(b)'
    BY <1>1, <1>2, <1>3, <1>7, <2>1, PollEndsWithJob
  <2>3. CompletedWasPrinted'
    BY <1>2, <1>6, <2>1 DEF CompletedWasPrinted
  <2> QED
    BY <2>2, <2>3 DEF PrintInv
<1>8. CASE UNCHANGED printJobs /\ untold' = IF polling[a][t].at = "failed" THEN Grown(untold, a, j) ELSE untold
  <2>1. StaySettled
    BY <1>6, <1>8, RowsStand
  <2>2. PrintTyped' /\ PollHasJob' /\ \A b \in Apps : AppInv(b)'
    BY <1>1, <1>2, <1>3, <1>8, <2>1, PollEndsWithJob
  <2>3. CompletedWasPrinted'
    BY <1>2, <1>6, <1>8 DEF CompletedWasPrinted
  <2> QED
    BY <2>2, <2>3 DEF PrintInv
<1> QED
  BY <1>1, <1>7, <1>8 DEF ReportFailed, Poll, Grown

-----------------------------------------------------------------------------
(* Around the poll. *)

\* Cancelled polls are where they were.
LEMMA SessionKeeps == ASSUME PrintInv, NEW a \in Apps, SessionChanges(a) PROVE PrintInv'
<1>1. PrintTyped /\ PollHasJob /\ CompletedWasPrinted /\ polling \in Pollings
  BY DEF PrintInv, PrintTyped
<1>2. PICK row : row = [t \in Timers |-> IF polling[a][t] # Away THEN [polling[a][t] EXCEPT !.cancelled = TRUE] ELSE polling[a][t]]
  OBVIOUS
<1>3. polling' = [polling EXCEPT ![a] = row] /\ UNCHANGED <<printJobs, dispatching, shown, sheets, untold, byHand>>
  BY <1>2 DEF SessionChanges, Poll
<1>4. \A t \in Timers : row[t] \in PollRow /\ row[t].at = polling[a][t].at /\ row[t].jobs = polling[a][t].jobs
  <2> SUFFICES ASSUME NEW t \in Timers
               PROVE  row[t] \in PollRow /\ row[t].at = polling[a][t].at /\ row[t].jobs = polling[a][t].jobs
    OBVIOUS
  <2>1. PICK poll : poll = polling[a][t] /\ poll \in PollRow
    BY <1>1 DEF Pollings
  <2>2. row[t] = poll \/ row[t] = [poll EXCEPT !.cancelled = TRUE]
    BY <1>2, <2>1
  <2> QED
    BY <2>1, <2>2 DEF PollRow
<1>5. row \in [Timers -> PollRow]
  BY <1>2, <1>4
<1>6. /\ polling' \in Pollings
      /\ \A b \in Apps, t \in Timers : polling'[b][t].at = polling[b][t].at /\ polling'[b][t].jobs = polling[b][t].jobs
  BY <1>1, <1>3, <1>4, <1>5 DEF Pollings
<1>7. PrintTyped' /\ PollHasJob'
  BY <1>1, <1>3, <1>6 DEF PrintTyped, PollHasJob
<1>8. ASSUME NEW b \in Apps PROVE AppInv(b)'
  <2>1. AppInv(b)
    BY DEF PrintInv
  <2>2. OnePoll(b)'
    BY <1>3, <1>6, <2>1 DEF AppInv, OnePoll
  <2>3. \A j : (HeldSheet(b, j) => HeldSheet(b, j)') /\ (NotQueued(j) => NotQueued(j)')
    BY <1>3, <1>6 DEF HeldSheet, NotQueued
  <2>4. SheetsReported(b)' /\ ListedUnprinted(b)' /\ HeldPrinted(b)'
    BY <1>3, <1>6, <2>1, <2>3 DEF AppInv, SheetsReported, ListedUnprinted, HeldPrinted
  <2> QED
    BY <2>2, <2>4 DEF AppInv
<1>9. CompletedWasPrinted'
  BY <1>1, <1>3 DEF CompletedWasPrinted
<1> QED
  BY <1>7, <1>8, <1>9 DEF PrintInv

\* An app that starts again has lost what it had printed and not told.
LEMMA RestartKeeps == ASSUME PrintInv, NEW a \in Apps, AppRestarts(a) PROVE PrintInv'
<1>1. PrintTyped /\ PollHasJob /\ CompletedWasPrinted /\ polling \in Pollings /\ sheets \in Counts /\ untold \in Counts
  BY DEF PrintInv, PrintTyped
<1>2. PICK lost : lost = [j \in JobIds |-> IF HeldSheet(a, j) THEN untold[a][j] + 1 ELSE untold[a][j]]
  OBVIOUS
<1>3. untold' = [untold EXCEPT ![a] = lost]
  BY <1>2 DEF AppRestarts, HeldSheet, Poll, Job
<1>4. PICK row : row = [t \in Timers |-> Away]
  OBVIOUS
<1>5. /\ polling' = [polling EXCEPT ![a] = row] /\ dispatching' = [dispatching EXCEPT ![a] = FALSE]
      /\ UNCHANGED <<printJobs, shown, sheets, byHand>>
  BY <1>4 DEF AppRestarts
<1>6. Away \in PollRow /\ Away.at = "away" /\ Away.jobs = {}
  BY DEF Away, PollRow, PollPlaces
<1>7. row \in [Timers -> PollRow] /\ \A t \in Timers : row[t].at = "away" /\ row[t].jobs = {}
  BY <1>4, <1>6
<1>8. /\ polling' \in Pollings /\ (\A t \in Timers : polling'[a][t].at = "away" /\ polling'[a][t].jobs = {})
      /\ \A b \in Apps \ {a}, t \in Timers : polling'[b][t] = polling[b][t]
  BY <1>1, <1>5, <1>7 DEF Pollings
<1>9. \A j \in JobIds : untold[a][j] \in Nat /\ sheets[a][j] \in Nat
  BY <1>1 DEF Counts
<1>10. lost \in [JobIds -> Nat] /\ \A j \in JobIds : lost[j] = IF HeldSheet(a, j) THEN untold[a][j] + 1 ELSE untold[a][j]
  BY <1>2, <1>9
<1>11. untold' \in Counts /\ untold'[a] = lost /\ \A b \in Apps \ {a} : untold'[b] = untold[b]
  BY <1>1, <1>3, <1>10 DEF Counts
<1>12. PrintTyped' /\ PollHasJob'
  <2>1. dispatching' \in [Apps -> BOOLEAN]
    BY <1>1, <1>5 DEF PrintTyped
  <2> QED
    BY <1>1, <1>5, <1>8, <1>11, <2>1 DEF PrintTyped, PollHasJob
<1>13. AppInv(a)'
  <2>1. AppInv(a)
    BY DEF PrintInv
  <2>2. OnePoll(a)' /\ ListedUnprinted(a)' /\ HeldPrinted(a)'
    BY <1>8 DEF OnePoll, ListedUnprinted, HeldPrinted
  <2>3. \A j : NotQueued(j) => NotQueued(j)'
    BY <1>5 DEF NotQueued
  <2>4. ASSUME NEW j \in JobIds
        PROVE  sheets'[a][j] <= untold'[a][j] \/ (sheets'[a][j] = untold'[a][j] + 1 /\ NotQueued(j)')
    <3>1. sheets[a][j] <= untold[a][j] \/ (sheets[a][j] = untold[a][j] + 1 /\ (HeldSheet(a, j) \/ NotQueued(j)))
      BY <2>1 DEF AppInv, SheetsReported
    <3>2. sheets'[a][j] = sheets[a][j] /\ untold'[a][j] = lost[j]
      BY <1>5, <1>11
    <3> QED
      BY <1>9, <1>10, <2>3, <3>1, <3>2
  <2>5. SheetsReported(a)'
    BY <2>4 DEF SheetsReported
  <2> QED
    BY <2>2, <2>5 DEF AppInv
<1>14. ASSUME NEW b \in Apps, b # a PROVE AppInv(b)'
  <2>1. AppInv(b) /\ PrintTyped /\ PollHasJob /\ StaySettled
    BY <1>1, <1>5, RowsStand DEF PrintInv
  <2>2. dispatching'[b] = dispatching[b] /\ \A t \in Timers : polling'[b][t] = polling[b][t]
    BY <1>1, <1>5, <1>8, <1>14 DEF PrintTyped
  <2>3. \A j \in JobIds : sheets'[b][j] = sheets[b][j] /\ untold'[b][j] = untold[b][j]
    BY <1>5, <1>11, <1>14
  <2> QED
    BY <2>1, <2>2, <2>3, AppStays
<1>15. CompletedWasPrinted'
  BY <1>1, <1>5 DEF CompletedWasPrinted
<1> QED
  BY <1>12, <1>13, <1>14, <1>15 DEF PrintInv

\* What does not touch the apps' polls and paper keeps all that is known of them.
LEMMA RowsMove ==
    ASSUME PrintInv, StaySettled, UNCHANGED <<dispatching, polling, sheets, untold>>,
           shown' \subseteq DOMAIN printJobs'
    PROVE  PrintTyped' /\ PollHasJob' /\ \A b \in Apps : AppInv(b)'
<1>1. PrintTyped /\ PollHasJob
  BY DEF PrintInv
<1>2. PrintTyped' /\ PollHasJob'
  BY <1>1 DEF PrintTyped, PollHasJob, StaySettled
<1>3. ASSUME NEW b \in Apps PROVE AppInv(b)'
  <2>1. AppInv(b)
    BY DEF PrintInv
  <2>2. dispatching'[b] = dispatching[b] /\ (\A t \in Timers : polling'[b][t] = polling[b][t])
    OBVIOUS
  <2>3. \A j \in JobIds : sheets'[b][j] = sheets[b][j] /\ untold'[b][j] = untold[b][j]
    OBVIOUS
  <2> QED
    BY <1>1, <2>1, <2>2, <2>3, AppStays
<1> QED
  BY <1>2, <1>3

\* A new job is queued, and was not printed.
LEMMA QueueJobKeeps == ASSUME PrintInv, NEW type \in JobTypes, QueueJob(type) PROVE PrintInv'
<1>1. PICK row : row = [type |-> type, status |-> "QUEUED"]
  OBVIOUS
<1>2. row \in PrintRow /\ row.status = "QUEUED"
  BY <1>1 DEF PrintRow
<1>3. /\ printJobs' = Append(printJobs, row) /\ Len(printJobs) < MaxPrintJobs
      /\ UNCHANGED <<dispatching, polling, shown, sheets, untold, byHand>>
  BY <1>1 DEF QueueJob
<1>4. PrintTyped /\ CompletedWasPrinted /\ printJobs \in Seq(PrintRow)
  BY DEF PrintInv, PrintTyped
<1>5. /\ printJobs' \in Seq(PrintRow) /\ Len(printJobs') = Len(printJobs) + 1
      /\ DOMAIN printJobs' = DOMAIN printJobs \cup {Len(printJobs) + 1} /\ printJobs'[Len(printJobs) + 1] = row
      /\ \A j \in DOMAIN printJobs : printJobs'[j] = printJobs[j]
  BY <1>2, <1>3, <1>4
<1>6. StaySettled
  BY <1>3, <1>4, <1>5, PrintAssumption DEF StaySettled
<1>7. shown' \subseteq DOMAIN printJobs'
  BY <1>3, <1>4, <1>5 DEF PrintTyped
<1>8. PrintTyped' /\ PollHasJob' /\ \A b \in Apps : AppInv(b)'
  BY <1>3, <1>6, <1>7, RowsMove
<1>9. CompletedWasPrinted'
  BY <1>2, <1>3, <1>4, <1>5 DEF CompletedWasPrinted
<1> QED
  BY <1>8, <1>9 DEF PrintInv

\* What the cashier completes by hand counts as said by hand.
LEMMA ByHandKeeps == ASSUME PrintInv, CompleteFirstPrintJob PROVE PrintInv'
<1>1. PICK j : j = Min(shown)
  OBVIOUS
<1>2. /\ shown # {} /\ Settled(j, "COMPLETED") /\ byHand' = byHand \cup {j} /\ shown' = shown \ {j}
      /\ UNCHANGED <<dispatching, polling, sheets, untold>>
  BY <1>1 DEF CompleteFirstPrintJob
<1>3. PrintTyped /\ CompletedWasPrinted /\ shown \subseteq DOMAIN printJobs
  BY DEF PrintInv, PrintTyped
<1>4. j \in DOMAIN printJobs
  BY <1>1, <1>2, <1>3, OldestIsThere
<1>5. /\ StaySettled /\ DOMAIN printJobs' = DOMAIN printJobs
      /\ \A k \in DOMAIN printJobs \ {j} : printJobs'[k] = printJobs[k]
  BY <1>2, <1>3, <1>4, SettledStays
<1>6. shown' \subseteq DOMAIN printJobs'
  BY <1>2, <1>3, <1>5
<1>7. PrintTyped' /\ PollHasJob' /\ \A b \in Apps : AppInv(b)'
  BY <1>2, <1>5, <1>6, RowsMove
<1>8. CompletedWasPrinted'
  BY <1>2, <1>3, <1>5 DEF CompletedWasPrinted
<1> QED
  BY <1>7, <1>8 DEF PrintInv

\* The profile of the printers and the list on the screen change nothing that was printed.
LEMMA ScreensKeep ==
    ASSUME PrintInv, RefreshPrintQueue \/ (\E a \in Apps : SavePrinterProfile(a)) \/ UNCHANGED printVars
    PROVE  PrintInv'
<1>1. UNCHANGED <<printJobs, dispatching, polling, sheets, untold, byHand>> /\ (shown' = QueuedJobs \/ shown' = shown)
  BY DEF RefreshPrintQueue, SavePrinterProfile, printVars
<1>2. PrintTyped /\ CompletedWasPrinted
  BY DEF PrintInv
<1>3. StaySettled
  BY <1>1, <1>2, RowsStand
<1>4. shown' \subseteq DOMAIN printJobs'
  BY <1>1, <1>2 DEF PrintTyped, QueuedJobs
<1>5. PrintTyped' /\ PollHasJob' /\ \A b \in Apps : AppInv(b)'
  BY <1>1, <1>3, <1>4, RowsMove
<1>6. CompletedWasPrinted'
  BY <1>1, <1>2 DEF CompletedWasPrinted
<1> QED
  BY <1>5, <1>6 DEF PrintInv

\* Every step of the printers keeps the invariant.
LEMMA PrintStepInv == PrintInv /\ [PrintNext]_printVars => PrintInv'
<1> SUFFICES ASSUME PrintInv, [PrintNext]_printVars PROVE PrintInv'
  OBVIOUS
<1>1. ASSUME QueueSaleInvoice \/ QueueSaleReturn \/ QueueBarcodeLabel PROVE PrintInv'
  <2>1. {"SALES_INVOICE", "CREDIT_NOTE", "BARCODE_LABEL"} \subseteq JobTypes
    BY DEF JobTypes
  <2> QED
    BY <1>1, <2>1, QueueJobKeeps DEF QueueSaleInvoice, QueueSaleReturn, QueueBarcodeLabel
<1>2. ASSUME NEW a \in Apps, NEW t \in Timers, NothingQueued(a, t) \/ LeftQueued(a, t) PROVE PrintInv'
  <2>1. PollEnds(a, t) /\ UNCHANGED <<printJobs, shown, sheets, untold, byHand>>
        /\ polling[a][t].at \in {"begun", "listed", "refused"}
    BY <1>2 DEF NothingQueued, LeftQueued, Poll
  <2> QED
    BY <2>1, PollEndsUnprinted
<1> QED
  BY <1>1, <1>2, PollBeginsKeeps, ListKeeps, GivingUpKeeps, DispatchKeeps, RefusalKeeps, CompletionKeeps,
     FailureReportKeeps, SessionKeeps, RestartKeeps, ByHandKeeps, ScreensKeep DEF PrintNext

\* What the apps have printed, told and lost agrees with the rows always.
THEOREM PrintInvariant == PrintSpec => []PrintInv
BY PrintInitInv, PrintStepInv, PTL DEF PrintSpec

\* An app prints a job again only when the report of its print was lost, and what is COMPLETED was
\* printed by some app or said to be by a cashier (useStoreRuntimeHardwareIntegration.ts).
THEOREM PrintPaperMatches == PrintSpec => []PaperMatchesReports
BY PrintInvariant, PrintInvShows, PTL

-----------------------------------------------------------------------------
(* The floor. *)

\* A part that stands still is as it began.
DayStands == shifts = <<>> /\ attendances = <<>> /\ cashiers = <<>>
DevicesStand == devices = <<>> /\ claims = <<>> /\ activations = <<>>
HubStands == spokeActs = <<>> /\ hubBoard.by = "none"
SyncStands == log = <<>> /\ invoices = <<>> /\ envelope = [k \in Keys |-> NoEnvelope]

\* The part that moves keeps its own invariant.  The till and the printers have no requests.
FloorInv ==
    /\ IF floor = "workforce" THEN DayInv ELSE DayStands
    /\ IF floor = "devices" THEN DeviceInv ELSE DevicesStand
    /\ IF floor = "hub" THEN HubInv ELSE HubStands
    /\ IF floor = "sync" THEN SyncInv /\ OrderInv ELSE SyncStands
    /\ PrintInv /\ TillInv

\* The floor begins with every part at its beginning.
LEMMA FloorBegins == FloorInit => FloorInv
<1> SUFFICES ASSUME FloorInit PROVE FloorInv
  OBVIOUS
<1>1. DayInv /\ DeviceInv /\ HubInv /\ SyncInv /\ OrderInv /\ PrintInv /\ TillInv
  BY DayInit, DeviceStarts, HubInitInv, SyncInitInv, OrderInitInv, PrintInitInv, TillInitInv DEF FloorInit
<1>2. DayStands /\ DevicesStand
  BY DEF FloorInit, WorkforceInit, DeviceAccessInit, DayStands, DevicesStand
<1>3. HubStands /\ SyncStands
  BY DEF FloorInit, HubRuntimeInit, SpokeSyncInit, HubStands, SyncStands, Keys
<1> QED
  BY <1>1, <1>2, <1>3 DEF FloorInv

\* Rows that are left alone stay as they began.
LEMMA StandingStays ==
    /\ DayStands /\ UNCHANGED workforceRows => DayStands'
    /\ DevicesStand /\ UNCHANGED deviceRows => DevicesStand'
    /\ HubStands /\ UNCHANGED hubVars => HubStands'
    /\ SyncStands /\ UNCHANGED <<syncRows, syncHub>> => SyncStands'
<1>1. DayStands /\ UNCHANGED workforceRows => DayStands'
  BY DEF DayStands, workforceRows
<1>2. DevicesStand /\ UNCHANGED deviceRows => DevicesStand'
  BY DEF DevicesStand, deviceRows
<1>3. HubStands /\ UNCHANGED hubVars => HubStands'
  BY DEF HubStands, hubVars
<1>4. SyncStands /\ UNCHANGED <<syncRows, syncHub>> => SyncStands'
  BY DEF SyncStands, syncRows, Keys
<1> QED
  BY <1>1, <1>2, <1>3, <1>4

\* The printers and the till stand still, or move alone.
LEMMA AppsKeep ==
    /\ PrintInv /\ UNCHANGED printVars => PrintInv'
    /\ TillInv /\ UNCHANGED tillVars => TillInv'
BY PrintStepInv, TillStepInv

\* One part moves, the others stand.
LEMMA FloorStep == FloorInv /\ [FloorNext]_floorVars => FloorInv'
<1> SUFFICES ASSUME FloorInv, [FloorNext]_floorVars PROVE FloorInv'
  OBVIOUS
<1>1. ASSUME NEW part, Stand(part)
      PROVE  /\ floor = part /\ floor' = part
             /\ part # "workforce" => (DayStands => DayStands')
             /\ part # "devices" => (DevicesStand => DevicesStand')
             /\ part # "hub" => (HubStands => HubStands')
             /\ part # "sync" => (SyncStands => SyncStands')
             /\ part # "printers" => PrintInv'
             /\ part # "till" => TillInv'
  BY <1>1, StandingStays, AppsKeep DEF Stand, FloorInv
<1>2. CASE Stand("workforce") /\ WorkforceNext
  <2>1. DayInv'
    BY <1>1, <1>2, DayStep DEF FloorInv
  <2> QED
    BY <1>1, <1>2, <2>1 DEF FloorInv
<1>3. CASE Stand("devices") /\ DeviceAccessNext
  <2>1. DeviceInv'
    BY <1>1, <1>3, DeviceStep DEF FloorInv
  <2> QED
    BY <1>1, <1>3, <2>1 DEF FloorInv
<1>4. CASE Stand("hub") /\ HubRuntimeNext
  <2>1. HubInv'
    BY <1>1, <1>4, HubStepInv DEF FloorInv
  <2> QED
    BY <1>1, <1>4, <2>1 DEF FloorInv
<1>5. CASE Stand("sync") /\ SpokeSyncNext
  <2>1. SyncInv' /\ OrderInv'
    BY <1>1, <1>5, SyncStepInv, OrderStepInv DEF FloorInv
  <2> QED
    BY <1>1, <1>5, <2>1 DEF FloorInv
<1>6. CASE Stand("printers") /\ PrintNext
  <2>1. PrintInv'
    BY <1>6, PrintStepInv DEF FloorInv
  <2> QED
    BY <1>1, <1>6, <2>1 DEF FloorInv
<1>7. CASE Stand("till") /\ OfflineTillNext
  <2>1. TillInv'
    BY <1>7, TillStepInv DEF FloorInv
  <2> QED
    BY <1>1, <1>7, <2>1 DEF FloorInv
<1>8. CASE UNCHANGED floorVars
  <2>1. floor' = floor
    BY <1>8 DEF floorVars
  <2>2. /\ UNCHANGED <<workforceRows, deskVars>> /\ UNCHANGED <<deviceRows, deskVars>>
        /\ UNCHANGED <<deskVars, hubVars>> /\ UNCHANGED <<syncRows, syncHub, deskVars>>
        /\ UNCHANGED printVars /\ UNCHANGED tillVars
    BY <1>8 DEF floorVars
  <2>3. (DayInv => DayInv') /\ (DeviceInv => DeviceInv')
    BY <2>2, DayStep, DeviceStep DEF workforceVars, deviceVars
  <2>4. (HubInv => HubInv') /\ (SyncInv => SyncInv') /\ (SyncInv /\ OrderInv => OrderInv')
    BY <2>2, HubStepInv, SyncStepInv, OrderStepInv DEF syncVars
  <2>5. PrintInv' /\ TillInv'
    BY <2>2, AppsKeep DEF FloorInv
  <2> QED
    BY <2>1, <2>2, <2>3, <2>4, <2>5, StandingStays DEF FloorInv
<1> QED
  BY <1>2, <1>3, <1>4, <1>5, <1>6, <1>7, <1>8 DEF FloorNext

\* What a part that stands still shows is as good as nothing.
LEMMA StandingShows ==
    /\ DayStands => DayHolds
    /\ DevicesStand => DevicesAgree
    /\ HubStands => HubRowsAgree
    /\ SyncStands => ReplayedOnce /\ OnlyTheOvertakenErr
<1>1. DayStands => DayHolds
  BY DEF DayStands, DayHolds, DayNests, OneOpenEach, CashierIsClockedIn, OpenRows
<1>2. DevicesStand => DevicesAgree
  BY DEF DevicesStand, DevicesAgree, ClaimsAgree, OneHubOneActivation, OneSurfacePerHolder, HubDevices
<1>3. HubStands => HubRowsAgree
  <2> SUFFICES ASSUME HubStands PROVE HubRowsAgree
    OBVIOUS
  <2>1. \A p \in SpokeProfiles : IssuedFor(p) = {}
    BY DEF HubStands, IssuedFor
  <2>2. \A p \in SpokeProfiles : Cardinality(IssuedFor(p)) <= 1
    BY <2>1, FS_EmptySet
  <2> QED
    BY <2>2 DEF HubStands, HubRowsAgree, OneSpokeActivation, BoardCountsSpokes
<1>4. SyncStands => ReplayedOnce /\ OnlyTheOvertakenErr
  <2> SUFFICES ASSUME SyncStands PROVE ReplayedOnce /\ OnlyTheOvertakenErr
    OBVIOUS
  <2>1. DOMAIN log = {} /\ DOMAIN invoices = {} /\ Len(invoices) = 0
    BY DEF SyncStands
  <2>2. \A k \in SaleKeys : envelope[k].result = "none"
    BY DEF SyncStands, Keys, NoEnvelope
  <2>3. ~(CloudStock < 0)
    BY <2>1, SpokeSyncAssumption DEF CloudStock
  <2> QED
    BY <2>1, <2>2, <2>3 DEF ReplayedOnce, OnlyTheOvertakenErr, PullMissesNothing, NoLostUpdate, ReplayHasStock
<1> QED
  BY <1>1, <1>2, <1>3, <1>4

\* What the run of the floor checks follows.
LEMMA FloorShows ==
    FloorInv => /\ DayHolds /\ DevicesAgree /\ HubRowsAgree
                /\ ReplayedOnce /\ OnlyTheOvertakenErr
                /\ PaperMatchesReports /\ TillTellsTheCloud
<1> SUFFICES ASSUME FloorInv
             PROVE  /\ DayHolds /\ DevicesAgree /\ HubRowsAgree
                    /\ ReplayedOnce /\ OnlyTheOvertakenErr
                    /\ PaperMatchesReports /\ TillTellsTheCloud
  OBVIOUS
<1>1. DayInv => DayHolds
  BY DEF DayInv
<1>2. SyncInv /\ OrderInv => ReplayedOnce /\ OnlyTheOvertakenErr
  BY DEF SyncInv, OrderInv, LogHolds, OnlyTheOvertakenErr
<1>3. TillTellsTheCloud
  BY DEF FloorInv, TillInv, SnapshotsAreTrue, TrueSnapshot, BookingsAreFew, TillTellsTheCloud
<1>4. PaperMatchesReports
  BY PrintInvShows DEF FloorInv
<1> QED
  BY <1>1, <1>2, <1>3, <1>4, StandingShows, DeviceInvShows, HubInvShows DEF FloorInv

\* Of the whole branch, as its run checks it: the working day, the devices, the hub, the sync, the
\* printers and the till each keep what they promise, whichever of them moves.
THEOREM FloorHolds ==
    FloorSpec => /\ []DayHolds /\ []DevicesAgree /\ []HubRowsAgree
                 /\ []ReplayedOnce /\ []OnlyTheOvertakenErr
                 /\ []PaperMatchesReports /\ []TillTellsTheCloud
BY FloorBegins, FloorStep, FloorShows, PTL DEF FloorSpec
=============================================================================
