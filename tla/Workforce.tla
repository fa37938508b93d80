------------------------------ MODULE Workforce ------------------------------
(***************************************************************************)
(* A branch's working day (services/workforce.py): shifts, the attendance   *)
(* of staff under a shift, and the cashier sessions opened by a member of   *)
(* staff who is clocked in.  Billing hangs every sale on a cashier session. *)
(*                                                                          *)
(* The three numbers are counts of rows that are never deleted, unique in   *)
(* the branch: a row's index.  A request whose number was taken first is    *)
(* rolled back (Desk).                                                      *)
(***************************************************************************)
EXTENDS Desk, Sequences

CONSTANTS
    Staff,          \* staff profiles, each the user with the profile's e-mail
    Tills,          \* active store_desktop device registrations
    AssignedStaff,  \* till -> the member of staff it is assigned to
    MaxShifts,      \* bounds: rows of each table and sales of a session
    MaxAttendances,
    MaxCashiers,
    MaxBills,
    DayPolicies     \* the policies the owner switches between

ASSUME WorkforceAssumption ==
    /\ AssignedStaff \in [Tills -> Staff]
    /\ {MaxShifts, MaxAttendances, MaxCashiers, MaxBills} \subseteq Nat \ {0}
    /\ DayPolicies \subseteq [needsShift: BOOLEAN, needsAssigned: BOOLEAN]

VARIABLES
    policy,         \* the branch's runtime policy
    shifts,         \* branch_shift_sessions, by number
    attendances,    \* branch_attendance_sessions, by number
    cashiers        \* branch_cashier_sessions, by number

workforceRows == <<policy, shifts, attendances, cashiers>>
workforceVars == <<workforceRows, deskVars>>

\* FORCED_CLOSED counts as CLOSED: nothing the service decides tells them apart.
RowStatus == {"OPEN", "CLOSED"}
DefaultDayPolicy == [needsShift |-> FALSE, needsAssigned |-> TRUE]

\* Rows; shift and attendance are numbers, 0 for none.
ShiftRow      == [status: RowStatus]
AttendanceRow == [status: RowStatus, shift: Nat, staff: Staff, till: Tills]
CashierRow    == [status: RowStatus, attendance: Nat, staff: Staff, till: Tills, sales: Nat]

\* What a request is about to do: open a row, close one, or bill under a cashier session.
OpenTheShift == [op |-> "open shift"]
Opening(op, link, s, t) == [op |-> op, link |-> link, staff |-> s, till |-> t]
OnRow(op, row) == [op |-> op, row |-> row]
Errands ==
    {Idle, OpenTheShift}
    \cup [op: {"clock in", "open cashier"}, link: Nat, staff: Staff, till: Tills]
    \cup [op: {"close shift", "clock out", "close cashier", "bill"}, row: Nat]

OpenRows(rows) == {n \in DOMAIN rows : rows[n].status = "OPEN"}

\* get_open_shift_session: the newest of the open ones.
OpenShift == IF OpenRows(shifts) = {} THEN 0
             ELSE CHOOSE n \in OpenRows(shifts) : \A m \in OpenRows(shifts) : m <= n

\* The open rows of a till and of a member of staff.
AtTill(rows, t)  == {n \in OpenRows(rows) : rows[n].till = t}
OfStaff(rows, s) == {n \in OpenRows(rows) : rows[n].staff = s}

\* Open attendance of a shift; open cashier sessions of an attendance, of a shift through the join.
AttendedUnder(n) == {a \in OpenRows(attendances) : attendances[a].shift = n}
CashiersOf(a)    == {c \in OpenRows(cashiers) : cashiers[c].attendance = a}
CashiersUnder(n) == {c \in OpenRows(cashiers) : attendances[cashiers[c].attendance].shift = n}

WorkforceInit ==
    /\ policy = DefaultDayPolicy
    /\ shifts = <<>> /\ attendances = <<>> /\ cashiers = <<>>
    /\ DeskInit

-----------------------------------------------------------------------------
(* What a request reads and checks before it writes. *)

Begun(r, errand) == Checked(r, errand) /\ UNCHANGED workforceRows

\* create_shift_session
CreateShiftSession(r) ==
    /\ OpenShift = 0 /\ Len(shifts) < MaxShifts
    /\ Begun(r, OpenTheShift)

\* close_shift_session
CloseShiftSession(r, n) ==
    /\ n \in OpenRows(shifts)
    /\ AttendedUnder(n) = {}
    /\ CashiersUnder(n) = {}
    /\ Begun(r, OnRow("close shift", n))

\* force_close_shift_session refuses what close_shift_session refuses.
ForceCloseShiftSession(r, n) == CloseShiftSession(r, n)

\* The till must be the member's own while the policy asks for that.
MayUse(s, t) == policy.needsAssigned => AssignedStaff[t] = s

\* create_attendance_session
CreateAttendanceSession(r, s, t) ==
    /\ MayUse(s, t)
    /\ AtTill(attendances, t) = {} /\ OfStaff(attendances, s) = {}
    /\ policy.needsShift => OpenShift # 0
    /\ Len(attendances) < MaxAttendances
    /\ Begun(r, Opening("clock in", OpenShift, s, t))

\* Mutant of CloseAttendanceSession: clocks out whoever still has a cashier session open.
CloseAttendanceAnyway(r, n) ==
    /\ n \in OpenRows(attendances)
    /\ Begun(r, OnRow("clock out", n))

\* close_attendance_session, by the member of staff.
CloseAttendanceSession(r, n) ==
    /\ n \in OpenRows(attendances)
    /\ CashiersOf(n) = {}
    /\ Begun(r, OnRow("clock out", n))

\* force_close_attendance_session: the same, by a manager.
ForceCloseAttendanceSession(r, n) == CloseAttendanceSession(r, n)

\* create_cashier_session.  Without the member's own attendance at the till it ends in an error
\* whatever the policy says: refused where attendance is required, attendance_session.id of None
\* where it is not.
CreateCashierSession(r, s, t) ==
    \E a \in AtTill(attendances, t) :
        /\ MayUse(s, t)
        /\ AtTill(cashiers, t) = {} /\ OfStaff(cashiers, s) = {}
        /\ attendances[a].staff = s
        /\ Len(cashiers) < MaxCashiers
        /\ Begun(r, Opening("open cashier", a, s, t))

\* close_cashier_session, and force_close_cashier_session by a manager.
CloseCashierSession(r, n) ==
    n \in OpenRows(cashiers) /\ Begun(r, OnRow("close cashier", n))
ForceCloseCashierSession(r, n) == CloseCashierSession(r, n)

\* require_open_cashier_session, which a sale, a return and a payment session begin with.
RequireOpenCashierSession(r, n) ==
    /\ n \in OpenRows(cashiers)
    /\ cashiers[n].sales < MaxBills
    /\ Begun(r, OnRow("bill", n))

-----------------------------------------------------------------------------
(* What it writes. *)

Written(r, table, n) == Committed(r, {<<table, n>>}) /\ UNCHANGED policy

StoreShift(r) ==
    /\ Doing(r, "open shift") /\ Len(shifts) < MaxShifts
    /\ shifts' = Append(shifts, [status |-> "OPEN"])
    /\ Written(r, "shift", Len(shifts) + 1)
    /\ UNCHANGED <<attendances, cashiers>>

StoreShiftEnd(r) ==
    /\ Doing(r, "close shift")
    /\ shifts' = [shifts EXCEPT ![desk[r].row].status = "CLOSED"]
    /\ Written(r, "shift", desk[r].row)
    /\ UNCHANGED <<attendances, cashiers>>

StoreAttendance(r) ==
    /\ Doing(r, "clock in") /\ Len(attendances) < MaxAttendances
    /\ attendances' = Append(attendances, [status |-> "OPEN", shift |-> desk[r].link,
                                           staff |-> desk[r].staff, till |-> desk[r].till])
    /\ Written(r, "attendance", Len(attendances) + 1)
    /\ UNCHANGED <<shifts, cashiers>>

StoreAttendanceEnd(r) ==
    /\ Doing(r, "clock out")
    /\ attendances' = [attendances EXCEPT ![desk[r].row].status = "CLOSED"]
    /\ Written(r, "attendance", desk[r].row)
    /\ UNCHANGED <<shifts, cashiers>>

StoreCashier(r) ==
    /\ Doing(r, "open cashier") /\ Len(cashiers) < MaxCashiers
    /\ cashiers' = Append(cashiers, [status |-> "OPEN", attendance |-> desk[r].link,
                                     staff |-> desk[r].staff, till |-> desk[r].till, sales |-> 0])
    /\ Written(r, "cashier", Len(cashiers) + 1)
    /\ UNCHANGED <<shifts, attendances>>

StoreCashierEnd(r) ==
    /\ Doing(r, "close cashier")
    /\ cashiers' = [cashiers EXCEPT ![desk[r].row].status = "CLOSED"]
    /\ Written(r, "cashier", desk[r].row)
    /\ UNCHANGED <<shifts, attendances>>

\* The sale's row names the session; touch_branch_cashier_session_activity writes no other column.
StoreBill(r) ==
    /\ Doing(r, "bill") /\ cashiers[desk[r].row].sales < MaxBills
    /\ cashiers' = [cashiers EXCEPT ![desk[r].row].sales = @ + 1]
    /\ Written(r, "sale", desk[r].row)
    /\ UNCHANGED <<shifts, attendances>>

DeskFails(r) == RolledBack(r) /\ UNCHANGED workforceRows

\* update_branch_runtime_policy: an upsert, whatever is under way.
UpdatePolicy(p) ==
    /\ p # policy
    /\ policy' = p
    /\ UNCHANGED <<shifts, attendances, cashiers, deskVars>>

Check(r) ==
    \/ CreateShiftSession(r)
    \/ \E n \in OpenRows(shifts) : CloseShiftSession(r, n) \/ ForceCloseShiftSession(r, n)
    \/ \E n \in OpenRows(attendances) :
         CloseAttendanceSession(r, n) \/ ForceCloseAttendanceSession(r, n)
    \/ \E n \in DOMAIN cashiers :
         CloseCashierSession(r, n) \/ ForceCloseCashierSession(r, n) \/ RequireOpenCashierSession(r, n)
    \/ \E s \in Staff, t \in Tills :
         CreateAttendanceSession(r, s, t) \/ CreateCashierSession(r, s, t)

Write(r) ==
    \/ StoreShift(r) \/ StoreShiftEnd(r) \/ StoreAttendance(r) \/ StoreAttendanceEnd(r)
    \/ StoreCashier(r) \/ StoreCashierEnd(r) \/ StoreBill(r)

WorkforceNext ==
    \/ \E r \in Desks : Check(r) \/ Write(r) \/ DeskFails(r)
    \/ \E p \in DayPolicies : UpdatePolicy(p)

WorkforceSpec == WorkforceInit /\ [][WorkforceNext]_workforceVars

-----------------------------------------------------------------------------
(* Properties. *)

WorkforceTypeOK ==
    /\ policy \in DayPolicies \cup {DefaultDayPolicy}
    /\ shifts \in Seq(ShiftRow) /\ attendances \in Seq(AttendanceRow) /\ cashiers \in Seq(CashierRow)
    /\ \A n \in DOMAIN attendances : attendances[n].shift \in {0} \cup DOMAIN shifts
    /\ \A n \in DOMAIN cashiers : cashiers[n].attendance \in DOMAIN attendances
    /\ desk \in [Desks -> Errands]
    /\ overtaken \subseteq Desks

\* Whoever has a cashier session open is clocked in, and whoever clocked in under a shift works
\* under an open shift, unless one of the two rows was written by a request that another one
\* overtook: the checks of the close operations and of the open operations cover each other.
DayNests ==
    /\ \A c \in OpenRows(cashiers) : LET a == cashiers[c].attendance IN
         \/ attendances[a].status = "OPEN"
         \/ {<<"cashier", c>>, <<"attendance", a>>} \cap blind # {}
    /\ \A a \in OpenRows(attendances) : LET n == attendances[a].shift IN
         \/ n = 0 \/ shifts[n].status = "OPEN"
         \/ {<<"attendance", a>>, <<"shift", n>>} \cap blind # {}

\* One open cashier session and one open attendance per till and per member of staff, and one open
\* shift; two of them only where the later was written by a request that another one overtook.
OneOpenEach ==
    /\ \A m, n \in OpenRows(shifts) : m < n => <<"shift", n>> \in blind
    /\ \A m, n \in OpenRows(attendances) :
         m < n /\ (attendances[m].till = attendances[n].till \/ attendances[m].staff = attendances[n].staff)
           => <<"attendance", n>> \in blind
    /\ \A m, n \in OpenRows(cashiers) :
         m < n /\ (cashiers[m].till = cashiers[n].till \/ cashiers[m].staff = cashiers[n].staff)
           => <<"cashier", n>> \in blind

\* A cashier session belongs to the attendance of the same person at the same till, in whatever
\* order requests overtake each other.
CashierIsClockedIn ==
    \A c \in DOMAIN cashiers : LET a == attendances[cashiers[c].attendance] IN
        a.staff = cashiers[c].staff /\ a.till = cashiers[c].till

\* The working day holds together: sessions nest, nothing is open twice, and a cashier is clocked in.
DayHolds == DayNests /\ OneOpenEach /\ CashierIsClockedIn
=============================================================================
