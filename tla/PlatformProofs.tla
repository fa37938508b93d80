--------------------------- MODULE PlatformProofs ---------------------------
(***************************************************************************)
(* Subscriptions, sign-ins and what the roles reach, for any number of      *)
(* people, tenants, plans, events, requests and sessions; and the same of   *)
(* the Platform that composes them with the legacy store.                   *)
(*                                                                          *)
(* A request that nothing has overtaken still sees what it read, so what it *)
(* writes fits the rows: Knows for a refresh and its sign-in, the           *)
(* CommerceChecks for the subscription, the default plan and the state of   *)
(* the tenant a rebuild goes by.  What an overtaken one writes is in blind  *)
(* when it is done.  What the staff of the floor reach follows from the map *)
(* of the roles and the guards alone.                                       *)
(***************************************************************************)
EXTENDS Platform, LegacyStoreProofs

\* A set without two members.
LEMMA AtMostOne ==
    ASSUME NEW S, \A i, j \in S : i = j
    PROVE  Cardinality(S) <= 1
<1>1. CASE S = {}
  BY <1>1, FS_EmptySet
<1>2. CASE S # {}
  <2>1. PICK i \in S : S = {i}
    BY <1>2
  <2>2. Cardinality({i}) = 1
    BY FS_Singleton
  <2> QED
    BY <2>1, <2>2
<1> QED
  BY <1>1, <1>2

-----------------------------------------------------------------------------
(* The desks. *)

OneRequestEach == desk = [q \in Desks |-> desk[q]]

\* A request that begins is the only one to move.
LEMMA DeskChecks ==
    ASSUME OneRequestEach, NEW r \in Desks, NEW e, Checked(r, e)
    PROVE  /\ OneRequestEach' /\ desk'[r] = e /\ UNCHANGED <<overtaken, blind>>
           /\ \A q \in Desks \ {r} : desk'[q] = desk[q]
BY DEF Checked, OneRequestEach

\* A commit overtakes every other request under way; what an overtaken one writes is blind.
LEMMA DeskCommits ==
    ASSUME OneRequestEach, NEW r \in Desks, NEW rows, Committed(r, rows)
    PROVE  /\ OneRequestEach'
           /\ \A q \in Desks : desk'[q].op = "none" \/ desk'[q] = desk[q]
           /\ \A q \in Desks : q \notin overtaken' => desk'[q].op = "none"
           /\ blind \subseteq blind'
           /\ r \in overtaken => rows \subseteq blind'
<1>1. desk' = [desk EXCEPT ![r] = Idle] /\ Idle.op = "none"
  BY DEF Committed, Idle
<1>2. OneRequestEach' /\ desk'[r] = Idle /\ \A q \in Desks \ {r} : desk'[q] = desk[q]
  BY <1>1 DEF OneRequestEach
<1>3. \A q \in Desks : q \notin overtaken' => desk'[q] = Idle
  BY <1>2 DEF Committed
<1> QED
  BY <1>1, <1>2, <1>3 DEF Committed

\* So does a request that is one step.
LEMMA DeskAtOnce ==
    ASSUME AtOnce
    PROVE  /\ UNCHANGED <<desk, blind>>
           /\ \A q \in Desks : q \notin overtaken' => desk[q].op = "none"
BY DEF AtOnce, Idle

\* One that fails leaves the others as they were.
LEMMA DeskRollsBack ==
    ASSUME OneRequestEach, NEW r \in Desks, RolledBack(r)
    PROVE  /\ OneRequestEach' /\ UNCHANGED blind
           /\ desk'[r].op = "none" /\ r \notin overtaken'
           /\ \A q \in Desks \ {r} : desk'[q] = desk[q] /\ (q \in overtaken' <=> q \in overtaken)
<1>1. desk' = [desk EXCEPT ![r] = Idle] /\ Idle.op = "none"
  BY DEF RolledBack, Idle
<1> QED
  BY <1>1 DEF RolledBack, OneRequestEach

-----------------------------------------------------------------------------
(* Sign-ins and their sessions. *)
\* Sessions are numbered, and belong to sign-ins that were there before them.
AllSurfaces == Surfaces \cup {"web"}
SessionRow(n) == [user: Staff, root: 1 .. n, surface: AllSurfaces, live: BOOLEAN]
Sessions(n) == [1 .. n -> SessionRow(n)]
Numbered(n) == n \in Nat /\ sessions \in Sessions(n) /\ signedOut \subseteq 1 .. n

Types ==
    /\ \E n \in Nat : Numbered(n)
    /\ desk = [r \in Desks |-> desk[r]]
    /\ \A r \in Desks : Doing(r, "refresh") => desk[r].session \in DOMAIN sessions

\* The sessions of a sign-in, but for only, are over, and it was not signed out unless it has none.
Only(root, only) ==
    /\ \A i \in DOMAIN sessions : sessions[i].root = root /\ sessions[i].live => i = only
    /\ root \notin signedOut

\* What a refresh knows of the sign-in of its session.
Knows(r) ==
    Doing(r, "refresh") =>
        LET i == desk[r].session IN Seen("signin", sessions[i].root) => Only(sessions[i].root, i)

OneEach ==
    \A i, j \in DOMAIN sessions :
        sessions[i].live /\ Seen("signin", sessions[i].root) =>
            /\ sessions[j].live /\ sessions[j].root = sessions[i].root => i = j
            /\ sessions[i].root \notin signedOut

AccessInv == Types /\ OneEach /\ \A r \in Desks \ overtaken : Knows(r)

-----------------------------------------------------------------------------
(* The property. *)

\* Of a sign-in that no overtaken request has written, at most one session is alive, none once it
\* was signed out.
LEMMA AccessInvShows == AccessInv => OneSessionPerSignIn
<1> SUFFICES ASSUME AccessInv, NEW root \in DOMAIN sessions, Seen("signin", root)
             PROVE  LET alive == {i \in DOMAIN sessions : sessions[i].root = root /\ sessions[i].live}
                    IN  Cardinality(alive) <= 1 /\ (root \in signedOut => alive = {})
  BY DEF OneSessionPerSignIn
<1> DEFINE alive == {i \in DOMAIN sessions : sessions[i].root = root /\ sessions[i].live}
<1>1. \A i, j \in alive : i = j /\ root \notin signedOut
  BY DEF AccessInv, OneEach
<1>2. Cardinality(alive) <= 1
  BY <1>1, AtMostOne
<1>3. root \in signedOut => alive = {}
  BY <1>1
<1> QED
  BY <1>2, <1>3

-----------------------------------------------------------------------------
(* The parts of a step. *)

\* The number of the next session.
LEMMA NextNumber ==
    ASSUME NEW n \in Nat, Numbered(n)
    PROVE  Cardinality(DOMAIN sessions) = n
<1>1. Cardinality(1 .. n) = n
  BY FS_Interval
<1> QED
  BY <1>1 DEF Numbered, Sessions

\* A request that stands for itself, in one step, overtakes those under way.
LEMMA AtOnceOvertakes ==
    ASSUME AtOnce, Types, Types'
    PROVE  \A r \in Desks \ overtaken' : Knows(r)'
<1> SUFFICES ASSUME NEW r \in Desks \ overtaken' PROVE ~(desk'[r].op = "refresh")
  BY DEF Knows, Doing
<1>1. desk'[r] = Idle
  BY DEF AtOnce
<1> QED
  BY <1>1 DEF Idle

\* What is alive and what was signed out does not change with the other tables.
LEMMA SessionsStay ==
    ASSUME AccessInv, UNCHANGED <<sessions, signedOut, desk, blind>>
    PROVE  Types' /\ OneEach' /\ \A r \in Desks \ overtaken : Knows(r)'
<1>1. Types'
  BY DEF AccessInv, Types, Numbered, Sessions, Doing
<1>2. OneEach'
  BY DEF AccessInv, OneEach, Seen
<1>3. ASSUME NEW r \in Desks \ overtaken PROVE Knows(r)'
  <2>1. Knows(r)
    BY DEF AccessInv
  <2> QED
    BY <2>1 DEF Knows, Only, Seen, Doing
<1> QED
  BY <1>1, <1>2, <1>3

\* What is done for the tenants leaves the sessions alone.
LEMMA TenantWork ==
    ASSUME AccessInv, AtOnce, UNCHANGED <<sessions, signedOut>>
    PROVE  AccessInv'
<1>1. UNCHANGED <<desk, blind>>
  BY DEF AtOnce
<1>2. Types' /\ OneEach'
  BY <1>1, SessionsStay
<1>3. \A r \in Desks \ overtaken' : Knows(r)'
  BY <1>2, AtOnceOvertakes DEF AccessInv
<1> QED
  BY <1>2, <1>3 DEF AccessInv

\* What a new session leaves of the others.
LEMMA NewSessionAdds ==
    ASSUME AccessInv, NEW n \in Nat, Numbered(n), NEW s \in Staff, NEW root \in 0 .. n, NEW surface \in AllSurfaces,
           NEW all, all = NewSession(s, root, surface), NEW new, new = n + 1
    PROVE  /\ all \in Sessions(new)
           /\ all[new].live /\ all[new].root = IF root = 0 THEN new ELSE root
           /\ \A i \in 1 .. n : i \in 1 .. new /\ i # new /\ all[i] = sessions[i]
<1>1. /\ Cardinality(DOMAIN sessions) = n /\ DOMAIN sessions = 1 .. n
      /\ \A i \in 1 .. n : sessions[i] \in SessionRow(n)
  BY NextNumber DEF Numbered, Sessions
<1>2. (1 .. n) \cup {new} = 1 .. new /\ new \in 1 .. new /\ new \notin 1 .. n
  OBVIOUS
<1>3. PICK row : row = [user |-> s, root |-> IF root = 0 THEN new ELSE root, surface |-> surface, live |-> TRUE]
  OBVIOUS
<1>4. /\ row \in SessionRow(new) /\ row.live /\ row.root = IF root = 0 THEN new ELSE root
      /\ \A i \in 1 .. n : sessions[i] \in SessionRow(new)
  <2>1. row \in SessionRow(new)
    BY <1>2, <1>3 DEF SessionRow
  <2>2. \A i \in 1 .. n : sessions[i] \in SessionRow(new)
    BY <1>1, <1>2 DEF SessionRow
  <2> QED
    BY <1>3, <2>1, <2>2
<1>5. all = [i \in 1 .. new |-> IF i = new THEN row ELSE sessions[i]]
  BY <1>1, <1>2, <1>3 DEF NewSession
<1> QED
  BY <1>1, <1>2, <1>4, <1>5 DEF Sessions

\* A session that is over.
LEMMA RetiredIsOver ==
    ASSUME NEW n \in Nat, NEW all \in Sessions(n), NEW i \in 1 .. n, NEW after, after = Retired(all, i)
    PROVE  /\ after \in Sessions(n)
           /\ ~after[i].live /\ after[i].root = all[i].root
           /\ \A j \in 1 .. n \ {i} : after[j] = all[j]
<1>1. PICK row : row = [all[i] EXCEPT !.live = FALSE]
  OBVIOUS
<1>2. all[i] \in SessionRow(n)
  BY DEF Sessions
<1>3. row \in SessionRow(n) /\ ~row.live /\ row.root = all[i].root
  BY <1>1, <1>2 DEF SessionRow
<1>4. after = [all EXCEPT ![i] = row]
  BY <1>1 DEF Retired
<1> QED
  BY <1>3, <1>4 DEF Sessions

-----------------------------------------------------------------------------
(* The steps. *)

\* A sign-in begins with one session.
LEMMA SignInKeeps ==
    ASSUME AccessInv, AtOnce, NEW s \in Staff, NEW surface \in AllSurfaces,
           sessions' = NewSession(s, 0, surface), UNCHANGED signedOut
    PROVE  AccessInv'
<1>1. PICK n \in Nat : Numbered(n)
  BY DEF AccessInv, Types
<1>2. PICK new : new = n + 1
  OBVIOUS
<1>3. /\ sessions' \in Sessions(new)
      /\ sessions'[new].live /\ sessions'[new].root = new
      /\ \A i \in 1 .. n : i \in 1 .. new /\ i # new /\ sessions'[i] = sessions[i]
  <2>1. PICK all : all = NewSession(s, 0, surface)
    OBVIOUS
  <2>2. PICK root : root = 0 /\ root \in 0 .. n
    OBVIOUS
  <2>3. all = NewSession(s, root, surface)
    BY <2>1, <2>2
  <2>4. /\ all \in Sessions(new)
        /\ all[new].live /\ all[new].root = IF root = 0 THEN new ELSE root
        /\ \A i \in 1 .. n : i \in 1 .. new /\ i # new /\ all[i] = sessions[i]
    BY <1>1, <1>2, <2>2, <2>3, NewSessionAdds
  <2> QED
    BY <2>1, <2>2, <2>4
<1>4. /\ signedOut \subseteq 1 .. n /\ new \notin 1 .. n /\ new \in Nat
      /\ DOMAIN sessions = 1 .. n /\ \A i \in 1 .. n : sessions[i].root \in 1 .. n
  BY <1>1, <1>2 DEF Numbered, Sessions, SessionRow
<1>5. UNCHANGED <<desk, blind>>
  BY DEF AtOnce
<1>6. 1 .. n \subseteq 1 .. new /\ \A i \in 1 .. new : i \in 1 .. n \/ i = new
  BY <1>2
<1>7. Numbered(new)' /\ DOMAIN sessions' = 1 .. new
  BY <1>3, <1>4, <1>6 DEF Numbered, Sessions, SessionRow
<1>8. Types'
  <2>1. \A r \in Desks : Doing(r, "refresh") => desk[r].session \in DOMAIN sessions
    BY DEF AccessInv, Types
  <2>2. desk = [r \in Desks |-> desk[r]]
    BY DEF AccessInv, Types
  <2> QED
    BY <1>4, <1>5, <1>6, <1>7, <2>1, <2>2 DEF Types, Doing
<1>9. OneEach'
  <2> SUFFICES ASSUME NEW i \in 1 .. new, NEW j \in 1 .. new,
                      sessions'[i].live, <<"signin", sessions'[i].root>> \notin blind
               PROVE  /\ sessions'[j].live /\ sessions'[j].root = sessions'[i].root => i = j
                      /\ sessions'[i].root \notin signedOut
    BY <1>5, <1>7 DEF OneEach, Seen
  <2>1. CASE i = new
    BY <1>3, <1>4, <1>6, <2>1
  <2>2. CASE i \in 1 .. n /\ j = new
    <3>1. sessions'[i].root # sessions'[j].root
      BY <1>3, <1>4, <2>2
    <3>2. sessions[i].root \notin signedOut /\ sessions'[i] = sessions[i]
      BY <1>3, <1>4, <2>2 DEF AccessInv, OneEach, Seen
    <3> QED
      BY <2>2, <3>1, <3>2
  <2>3. CASE i \in 1 .. n /\ j \in 1 .. n
    <3>1. sessions'[i] = sessions[i] /\ sessions'[j] = sessions[j]
      BY <1>3, <2>3
    <3> QED
      BY <1>4, <2>3, <3>1 DEF AccessInv, OneEach, Seen
  <2> QED
    BY <1>6, <2>1, <2>2, <2>3
<1>10. \A r \in Desks \ overtaken' : Knows(r)'
  BY <1>8, AtOnceOvertakes DEF AccessInv
<1> QED
  BY <1>8, <1>9, <1>10 DEF AccessInv

\* What the end of a session changes.
LEMMA OneRetired ==
    ASSUME AccessInv, NEW i \in DOMAIN sessions, sessions' = Retired(sessions, i), UNCHANGED <<desk, blind>>,
           signedOut' \in {signedOut, signedOut \cup {sessions[i].root}}
    PROVE  /\ Types' /\ DOMAIN sessions' = DOMAIN sessions
           /\ ~sessions'[i].live /\ \A j \in DOMAIN sessions \ {i} : sessions'[j] = sessions[j]
           /\ \A j \in DOMAIN sessions : sessions'[j].root = sessions[j].root
<1>1. PICK n \in Nat : Numbered(n)
  BY DEF AccessInv, Types
<1>2. DOMAIN sessions = 1 .. n /\ sessions \in Sessions(n) /\ sessions[i].root \in 1 .. n
  BY <1>1 DEF Numbered, Sessions, SessionRow
<1>3. PICK after : after = Retired(sessions, i)
  OBVIOUS
<1>4. /\ after \in Sessions(n)
      /\ ~after[i].live /\ after[i].root = sessions[i].root
      /\ \A j \in 1 .. n \ {i} : after[j] = sessions[j]
  <2>1. PICK all, k, last : all = sessions /\ k = i /\ last = n /\ last \in Nat
    OBVIOUS
  <2>2. k \in 1 .. last /\ all \in Sessions(last)
    BY <1>2, <2>1
  <2>3. after = Retired(all, k)
    BY <1>3, <2>1
  <2>4. /\ after \in Sessions(last)
        /\ ~after[k].live /\ after[k].root = all[k].root
        /\ \A j \in 1 .. last \ {k} : after[j] = all[j]
    BY <2>1, <2>2, <2>3, RetiredIsOver
  <2> QED
    BY <2>1, <2>4
<1>5. sessions' = after
  BY <1>3
<1>6. Numbered(n)'
  BY <1>1, <1>2, <1>4, <1>5 DEF Numbered, Sessions
<1>7. DOMAIN sessions' = DOMAIN sessions
  BY <1>2, <1>4, <1>5 DEF Sessions
<1>8. Types'
  BY <1>6, <1>7 DEF AccessInv, Types, Doing
<1> QED
  BY <1>2, <1>4, <1>5, <1>7, <1>8

\* Who signs out ends the session of the sign-in.
LEMMA SignOutKeeps ==
    ASSUME AccessInv, NEW i \in DOMAIN sessions, SignOut(i)
    PROVE  AccessInv'
<1>1. /\ sessions[i].live /\ sessions' = Retired(sessions, i) /\ AtOnce
      /\ signedOut' = signedOut \cup {sessions[i].root} /\ UNCHANGED <<desk, blind>>
  BY DEF SignOut, AtOnce
<1>2. /\ Types' /\ DOMAIN sessions' = DOMAIN sessions
      /\ ~sessions'[i].live /\ \A j \in DOMAIN sessions \ {i} : sessions'[j] = sessions[j]
      /\ \A j \in DOMAIN sessions : sessions'[j].root = sessions[j].root
  BY <1>1, OneRetired
<1>3. OneEach'
  <2> SUFFICES ASSUME NEW a \in DOMAIN sessions, NEW b \in DOMAIN sessions,
                      sessions'[a].live, <<"signin", sessions'[a].root>> \notin blind
               PROVE  /\ sessions'[b].live /\ sessions'[b].root = sessions'[a].root => a = b
                      /\ sessions'[a].root \notin signedOut'
    BY <1>1, <1>2 DEF OneEach, Seen
  <2>1. a # i /\ sessions'[a] = sessions[a]
    BY <1>2
  <2>2. /\ sessions[a].root # sessions[i].root /\ sessions[a].root \notin signedOut
        /\ sessions[b].live /\ sessions[b].root = sessions[a].root => a = b
    BY <1>1, <2>1 DEF AccessInv, OneEach, Seen
  <2> QED
    BY <1>1, <1>2, <2>1, <2>2
<1>4. \A r \in Desks \ overtaken' : Knows(r)'
  BY <1>1, <1>2, AtOnceOvertakes DEF AccessInv
<1> QED
  BY <1>2, <1>3, <1>4 DEF AccessInv

\* A session expires while others do what they do.
LEMMA ExpiryKeeps ==
    ASSUME AccessInv, NEW i \in DOMAIN sessions, SessionExpires(i)
    PROVE  AccessInv'
<1>1. /\ sessions[i].live /\ sessions' = Retired(sessions, i) /\ UNCHANGED <<signedOut, desk, blind, overtaken>>
  BY DEF SessionExpires, deskVars
<1>2. /\ Types' /\ DOMAIN sessions' = DOMAIN sessions
      /\ ~sessions'[i].live /\ \A j \in DOMAIN sessions \ {i} : sessions'[j] = sessions[j]
      /\ \A j \in DOMAIN sessions : sessions'[j].root = sessions[j].root
  BY <1>1, OneRetired
<1>3. \A j \in DOMAIN sessions : sessions'[j].live => sessions[j].live
  BY <1>2
<1>4. OneEach'
  <2> SUFFICES ASSUME NEW a \in DOMAIN sessions, NEW b \in DOMAIN sessions,
                      sessions'[a].live, <<"signin", sessions'[a].root>> \notin blind
               PROVE  /\ sessions'[b].live /\ sessions'[b].root = sessions'[a].root => a = b
                      /\ sessions'[a].root \notin signedOut
    BY <1>1, <1>2 DEF OneEach, Seen
  <2> QED
    BY <1>2, <1>3 DEF AccessInv, OneEach, Seen
<1>5. \A r \in Desks \ overtaken' : Knows(r)'
  <2> SUFFICES ASSUME NEW r \in Desks \ overtaken, desk[r].op = "refresh",
                      <<"signin", sessions'[desk[r].session].root>> \notin blind
               PROVE  Only(sessions[desk[r].session].root, desk[r].session)'
    <3>1. \A r \in Desks : desk[r].op = "refresh" => desk[r].session \in DOMAIN sessions
      BY DEF AccessInv, Types, Doing
    <3> QED
      BY <1>1, <1>2, <3>1 DEF Knows, Doing, Seen
  <2>1. PICK k : k = desk[r].session /\ k \in DOMAIN sessions
    BY DEF AccessInv, Types, Doing
  <2>2. Only(sessions[k].root, k)
    BY <1>2, <2>1 DEF AccessInv, Knows, Doing, Seen
  <2> QED
    BY <1>1, <1>2, <1>3, <2>1, <2>2 DEF Only
<1> QED
  BY <1>2, <1>4, <1>5 DEF AccessInv

\* Who asks for a refresh has seen the one session of the sign-in.
LEMMA RefreshReads ==
    ASSUME AccessInv, NEW r \in Desks, NEW i \in DOMAIN sessions, AskRefresh(r, i)
    PROVE  AccessInv'
<1>1. /\ sessions[i].live /\ desk' = [desk EXCEPT ![r] = [op |-> "refresh", session |-> i]]
      /\ UNCHANGED <<sessions, signedOut, overtaken, blind>>
  BY DEF AskRefresh, Signed, Checked, accessRows
<1>2. desk = [q \in Desks |-> desk[q]]
  BY DEF AccessInv, Types
<1>3. /\ desk' = [q \in Desks |-> desk'[q]] /\ desk'[r] = [op |-> "refresh", session |-> i]
      /\ \A q \in Desks \ {r} : desk'[q] = desk[q]
  BY <1>1, <1>2
<1>4. Types'
  BY <1>1, <1>3 DEF AccessInv, Types, Numbered, Sessions, Doing
<1>5. OneEach'
  BY <1>1 DEF AccessInv, OneEach, Seen
<1>6. Knows(r)'
  <2>1. Seen("signin", sessions[i].root) => Only(sessions[i].root, i)
    BY <1>1 DEF AccessInv, OneEach, Only
  <2> QED
    BY <1>1, <1>3, <2>1 DEF Knows, Doing, Seen, Only
<1>7. ASSUME NEW q \in Desks \ {r}, q \notin overtaken PROVE Knows(q)'
  <2>1. Knows(q) /\ desk'[q] = desk[q]
    BY <1>3, <1>7 DEF AccessInv
  <2> QED
    BY <1>1, <2>1 DEF Knows, Doing, Seen, Only
<1> QED
  BY <1>1, <1>4, <1>5, <1>6, <1>7 DEF AccessInv

\* The replacement takes the place of the session it was asked for.
LEMMA RotationKeeps ==
    ASSUME AccessInv, NEW r \in Desks, RotateSession(r)
    PROVE  AccessInv'
<1>1. PICK i, rho, s, surface :
        /\ i = desk[r].session /\ rho = sessions[i].root /\ s = sessions[i].user /\ surface = sessions[i].surface
  OBVIOUS
<1>2. /\ desk[r].op = "refresh" /\ sessions' = Retired(NewSession(s, rho, surface), i)
      /\ Committed(r, {<<"signin", rho>>}) /\ UNCHANGED signedOut
  BY <1>1 DEF RotateSession, Doing
<1>3. PICK n \in Nat : Numbered(n)
  BY DEF AccessInv, Types
<1>4. PICK new : new = n + 1
  OBVIOUS
<1>5. /\ i \in 1 .. n /\ rho \in 1 .. n /\ s \in Staff /\ surface \in AllSurfaces
      /\ DOMAIN sessions = 1 .. n /\ signedOut \subseteq 1 .. n
  <2>1. i \in DOMAIN sessions
    BY <1>1, <1>2 DEF AccessInv, Types, Doing
  <2> QED
    BY <1>1, <1>3, <2>1 DEF Numbered, Sessions, SessionRow
<1>6. PICK all : all = NewSession(s, rho, surface)
  OBVIOUS
<1>7. /\ all \in Sessions(new)
      /\ all[new].live /\ all[new].root = IF rho = 0 THEN new ELSE rho
      /\ \A j \in 1 .. n : j \in 1 .. new /\ j # new /\ all[j] = sessions[j]
  <2>1. rho \in 0 .. n
    BY <1>5
  <2> QED
    BY <1>3, <1>4, <1>5, <1>6, <2>1, NewSessionAdds
<1>8. /\ sessions' \in Sessions(new) /\ DOMAIN sessions' = 1 .. new
      /\ sessions'[new].root = rho /\ ~sessions'[i].live /\ new # i
      /\ \A j \in 1 .. n : sessions'[j].root = sessions[j].root
      /\ \A j \in 1 .. n \ {i} : sessions'[j] = sessions[j]
  <2>1. PICK after : after = Retired(all, i)
    OBVIOUS
  <2>2. i \in 1 .. new
    BY <1>5, <1>7
  <2>3. /\ after \in Sessions(new)
        /\ ~after[i].live /\ after[i].root = all[i].root
        /\ \A j \in 1 .. new \ {i} : after[j] = all[j]
    <3>1. all \in Sessions(new) /\ new \in Nat
      BY <1>4, <1>7
    <3> QED
      BY <2>1, <2>2, <3>1, RetiredIsOver
  <2>4. sessions' = after
    BY <1>2, <1>6, <2>1
  <2>5. new \in 1 .. new /\ new # i /\ rho # 0
    BY <1>4, <1>5
  <2> QED
    BY <1>5, <1>7, <2>3, <2>4, <2>5 DEF Sessions
<1>9. 1 .. n \subseteq 1 .. new /\ new \in Nat /\ \A j \in 1 .. new : j \in 1 .. n \/ j = new
  BY <1>4
<1>10. /\ desk' = [q \in Desks |-> desk'[q]] /\ \A q \in Desks : desk'[q] = Idle \/ desk'[q] = desk[q]
       /\ \A q \in Desks \ overtaken' : desk'[q] = Idle
  <2>1. desk = [q \in Desks |-> desk[q]]
    BY DEF AccessInv, Types
  <2> QED
    BY <1>2, <2>1 DEF Committed
<1>11. Types'
  <2>1. Numbered(new)'
    BY <1>2, <1>5, <1>8, <1>9 DEF Numbered, Sessions
  <2>2. \A q \in Desks : Doing(q, "refresh") => desk[q].session \in 1 .. n
    BY <1>5 DEF AccessInv, Types
  <2>3. ASSUME NEW q \in Desks, desk'[q].op = "refresh" PROVE desk'[q].session \in 1 .. new
    <3>1. desk'[q] = desk[q]
      BY <1>10, <2>3 DEF Idle
    <3> QED
      BY <1>9, <2>2, <2>3, <3>1 DEF Doing
  <2> QED
    BY <1>8, <1>9, <1>10, <2>1, <2>3 DEF Types, Doing
<1>12. blind \subseteq blind' /\ (r \in overtaken => <<"signin", rho>> \in blind')
  BY <1>2 DEF Committed
<1>13. <<"signin", rho>> \notin blind' => Only(rho, i)
  <2> SUFFICES ASSUME <<"signin", rho>> \notin blind' PROVE Only(rho, i)
    OBVIOUS
  <2>1. r \notin overtaken /\ <<"signin", rho>> \notin blind
    BY <1>12
  <2>2. Knows(r)
    BY <2>1 DEF AccessInv
  <2> QED
    BY <1>1, <1>2, <2>1, <2>2 DEF Knows, Doing, Seen
<1>14. OneEach'
  <2> SUFFICES ASSUME NEW a \in 1 .. new, NEW b \in 1 .. new,
                      sessions'[a].live, <<"signin", sessions'[a].root>> \notin blind'
               PROVE  /\ sessions'[b].live /\ sessions'[b].root = sessions'[a].root => a = b
                      /\ sessions'[a].root \notin signedOut
    BY <1>2, <1>8 DEF OneEach, Seen
  <2>1. \A j \in 1 .. new : sessions'[j].live => j = new \/ (j \in 1 .. n /\ j # i /\ sessions'[j] = sessions[j])
    BY <1>8, <1>9
  <2>2. CASE sessions'[a].root = rho
    <3>1. Only(rho, i)
      BY <1>13, <2>2
    <3>2. \A j \in 1 .. new : sessions'[j].live /\ sessions'[j].root = rho => j = new
      BY <1>5, <2>1, <3>1 DEF Only
    <3> QED
      BY <2>2, <3>1, <3>2 DEF Only
  <2>3. CASE sessions'[a].root # rho
    <3>1. a \in 1 .. n /\ sessions'[a] = sessions[a]
      BY <1>8, <2>1, <2>3
    <3>2. <<"signin", sessions[a].root>> \notin blind
      BY <1>12, <3>1
    <3>3. /\ sessions[a].root \notin signedOut
          /\ \A j \in 1 .. n : sessions[j].live /\ sessions[j].root = sessions[a].root => a = j
      BY <1>5, <3>1, <3>2 DEF AccessInv, OneEach, Seen
    <3> QED
      BY <1>8, <2>1, <2>3, <3>1, <3>3
  <2> QED
    BY <2>2, <2>3
<1>15. \A q \in Desks \ overtaken' : Knows(q)'
  BY <1>10 DEF Knows, Doing, Idle
<1> QED
  BY <1>11, <1>14, <1>15 DEF AccessInv

\* A refresh that fails forgets what it has read.
LEMMA FailureKeeps ==
    ASSUME AccessInv, NEW r \in Desks, RefreshFails(r)
    PROVE  AccessInv'
<1>1. /\ desk' = [desk EXCEPT ![r] = Idle] /\ overtaken' = overtaken \ {r}
      /\ UNCHANGED <<sessions, signedOut, blind>>
  BY DEF RefreshFails, RolledBack, accessRows
<1>2. desk = [q \in Desks |-> desk[q]]
  BY DEF AccessInv, Types
<1>3. /\ desk' = [q \in Desks |-> desk'[q]] /\ desk'[r].op = "none"
      /\ \A q \in Desks \ {r} : desk'[q] = desk[q]
  BY <1>1, <1>2 DEF Idle
<1>4. Types'
  BY <1>1, <1>3 DEF AccessInv, Types, Numbered, Sessions, Doing
<1>5. OneEach'
  BY <1>1 DEF AccessInv, OneEach, Seen
<1>6. Knows(r)'
  BY <1>3 DEF Knows, Doing
<1>7. ASSUME NEW q \in Desks \ {r}, q \notin overtaken PROVE Knows(q)'
  <2>1. Knows(q) /\ desk'[q] = desk[q]
    BY <1>3, <1>7 DEF AccessInv
  <2> QED
    BY <1>1, <2>1 DEF Knows, Doing, Seen, Only
<1> QED
  BY <1>1, <1>4, <1>5, <1>6, <1>7 DEF AccessInv

-----------------------------------------------------------------------------
(* The specification. *)

\* Nobody is signed in at first.
LEMMA AccessStarts == AccessInit => AccessInv
<1> SUFFICES ASSUME AccessInit PROVE AccessInv
  OBVIOUS
<1>1. sessions = [i \in {} |-> {}] /\ signedOut = {} /\ desk = [r \in Desks |-> Idle]
  BY DEF AccessInit, DeskInit
<1>2. \A r \in Desks : desk[r].op = "none"
  BY <1>1 DEF Idle
<1>3. Numbered(0)
  <2>1. 1 .. 0 = {}
    OBVIOUS
  <2> QED
    BY <1>1, <2>1 DEF Numbered, Sessions
<1>4. Types
  BY <1>1, <1>2, <1>3 DEF Types, Doing
<1>5. OneEach
  BY <1>1 DEF OneEach
<1>6. \A r \in Desks : Knows(r)
  BY <1>2 DEF Knows, Doing
<1> QED
  BY <1>4, <1>5, <1>6 DEF AccessInv

\* Every step keeps the invariant.
LEMMA AccessStep == AccessInv /\ [AccessNext]_accessVars => AccessInv'
<1> SUFFICES ASSUME AccessInv, [AccessNext]_accessVars PROVE AccessInv'
  OBVIOUS
<1>1. ASSUME NEW s \in Staff, ExchangeToken(s) PROVE AccessInv'
  BY <1>1, SignInKeeps DEF ExchangeToken, AllSurfaces
<1>2. ASSUME NEW s \in Staff, NEW t, NEW b, NEW surface \in Surfaces, ActivateRuntime(s, t, b, surface)
      PROVE  AccessInv'
  BY <1>2, SignInKeeps DEF ActivateRuntime, AllSurfaces
<1>3. ASSUME NEW i \in DOMAIN sessions, SignOut(i) PROVE AccessInv'
  BY <1>3, SignOutKeeps
<1>4. ASSUME NEW i \in DOMAIN sessions, SessionExpires(i) PROVE AccessInv'
  BY <1>4, ExpiryKeeps
<1>5. ASSUME NEW i \in DOMAIN sessions, NEW r \in Desks, AskRefresh(r, i) PROVE AccessInv'
  BY <1>5, RefreshReads
<1>6. ASSUME NEW i, NEW t, SwitchSuspension(i, t) PROVE AccessInv'
  BY <1>6, TenantWork DEF SwitchSuspension
<1>7. ASSUME NEW i, NEW t, NEW s, CreateOwnerInvite(i, t, s) PROVE AccessInv'
  BY <1>7, TenantWork DEF CreateOwnerInvite
<1>8. ASSUME NEW i, NEW t, NEW s, NEW role, AssignTenantMembership(i, t, s, role) PROVE AccessInv'
  BY <1>8, TenantWork DEF AssignTenantMembership, Assigns
<1>9. ASSUME NEW i, NEW t, NEW b, NEW s, NEW role, AssignBranchMembership(i, t, b, s, role) PROVE AccessInv'
  BY <1>9, TenantWork DEF AssignBranchMembership, Assigns
<1>10. ASSUME NEW r \in Desks, RotateSession(r) PROVE AccessInv'
  BY <1>10, RotationKeeps
<1>11. ASSUME NEW r \in Desks, RefreshFails(r) PROVE AccessInv'
  BY <1>11, FailureKeeps
<1>12. CASE UNCHANGED accessVars
  <2>1. UNCHANGED <<sessions, signedOut, desk, blind, overtaken>>
    BY <1>12 DEF accessVars, accessRows, deskVars
  <2> QED
    BY <2>1, SessionsStay DEF AccessInv
<1> QED
  BY <1>1, <1>2, <1>3, <1>4, <1>5, <1>6, <1>7, <1>8, <1>9, <1>10, <1>11, <1>12 DEF AccessNext

\* Sign-ins, their sessions and what refreshes know of them agree always.
THEOREM AccessInvariant == AccessSpec => []AccessInv
BY AccessStarts, AccessStep, PTL DEF AccessSpec

\* A sign-in has one session however it is refreshed, and none after its sign-out, unless an overtaken
\* refresh has written one (refresh_session and sign_out of services/auth.py).
THEOREM AccessOneSessionPerSignIn == AccessSpec => []OneSessionPerSignIn
BY AccessInvariant, AccessInvShows, PTL

-----------------------------------------------------------------------------
(* What the roles reach. *)

\* Who passes the guard of a branch without being of the platform has a role that grants it there.
LEMMA PassesInBranch ==
    ASSUME NEW i, NEW t, NEW b, NEW cap, sessions[i].user \notin admins, Allowed(i, t, b, InBranch({cap}))
    PROVE  \E m \in Belongs(sessions[i].user, t) : m.branch \in {"", b} /\ cap \in RoleCapabilities(m.role)
<1>1. Passes(sessions[i].user, t, b, InBranch({cap}))
  BY DEF Allowed
<1>2. InBranch({cap}).scope = "branch" /\ InBranch({cap}).caps = {cap}
  BY DEF InBranch, Guard
<1> QED
  BY <1>1, <1>2 DEF Passes, Grants

\* The same of a guard for the whole tenant.
LEMMA PassesTenantWide ==
    ASSUME NEW i, NEW t, NEW b, NEW cap, sessions[i].user \notin admins, Allowed(i, t, b, TenantWide(cap))
    PROVE  \E m \in Belongs(sessions[i].user, t) : m.branch = "" /\ cap \in RoleCapabilities(m.role)
<1>1. Passes(sessions[i].user, t, b, TenantWide(cap))
  BY DEF Allowed
<1>2. TenantWide(cap).scope = "tenant" /\ TenantWide(cap).caps = {cap}
  BY DEF TenantWide, Guard
<1> QED
  BY <1>1, <1>2 DEF Passes, Grants, TenantMemberships

LEMMA RolesThatGrant ==
    ASSUME NEW role
    PROVE  /\ "refund.approve" \in RoleCapabilities(role) => role \in {"tenant_owner", "finance_admin"}
           /\ "purchase.manage" \in RoleCapabilities(role) => role \in {"tenant_owner", "inventory_admin"}
           /\ "tenant.manage" \in RoleCapabilities(role) => role \in {"tenant_owner", "platform_super_admin"}
  BY DEF RoleCapabilities

\* The guards of the routes the property names.
LEMMA GuardsOfTheFloor ==
    /\ TenantRoutes.get_tenant_summary = InAnyBranch({"tenant.manage", "sales.bill"})
    /\ PlatformBillingRoutes.suspend_tenant_billing = PlatformOnly
    /\ SaleReturnRoutes.approve_sale_return_refund = InBranch({"refund.approve"})
    /\ ProcurementRoutes.create_supplier_payment = TenantWide("purchase.manage")
    /\ GiftCardRoutes.create_gift_card = TenantWide("tenant.manage")
    /\ CheckoutRoutes.create_sale = InBranch({"sales.bill"})
<1>1. TenantRoutes.get_tenant_summary = InAnyBranch({"tenant.manage", "sales.bill"})
  BY DEF TenantRoutes
<1>2. PlatformBillingRoutes.suspend_tenant_billing = PlatformOnly
  BY DEF PlatformBillingRoutes
<1>3. SaleReturnRoutes.approve_sale_return_refund = InBranch({"refund.approve"})
  BY DEF SaleReturnRoutes
<1>4. ProcurementRoutes.create_supplier_payment = TenantWide("purchase.manage")
  BY DEF ProcurementRoutes
<1>5. GiftCardRoutes.create_gift_card = TenantWide("tenant.manage")
  BY DEF GiftCardRoutes
<1>6. CheckoutRoutes.create_sale = InBranch({"sales.bill"})
  BY DEF CheckoutRoutes
<1> QED
  BY <1>1, <1>2, <1>3, <1>4, <1>5, <1>6

\* What the staff reach follows from the map of the roles and the guards, whatever the tables say.
LEMMA GuardsHoldTheFloor == FloorStaysOnTheFloor
<1> SUFFICES ASSUME NEW i \in DOMAIN sessions, sessions[i].user \notin admins, NEW t \in Tenants
             PROVE  LET s == sessions[i].user IN
            /\ Belongs(s, t) = {} => ~Allowed(i, t, "", TenantRoutes.get_tenant_summary)
            /\ ~Allowed(i, t, "", PlatformBillingRoutes.suspend_tenant_billing)
            /\ \A b \in BranchesOf[t] :
                 /\ Allowed(i, t, b, SaleReturnRoutes.approve_sale_return_refund) => Holds(s, t, {"tenant_owner", "finance_admin"})
                 /\ Allowed(i, t, b, ProcurementRoutes.create_supplier_payment) => Holds(s, t, {"tenant_owner", "inventory_admin"})
                 /\ Allowed(i, t, b, GiftCardRoutes.create_gift_card) =>
                      Holds(s, t, {"tenant_owner", "platform_super_admin"})
                 /\ Allowed(i, t, b, CheckoutRoutes.create_sale) =>
                      \E m \in Belongs(s, t) : m.branch \in {"", b} /\ "sales.bill" \in RoleCapabilities(m.role)
  BY DEF FloorStaysOnTheFloor
<1> DEFINE s == sessions[i].user
<1>1. Belongs(s, t) = {} => ~Allowed(i, t, "", TenantRoutes.get_tenant_summary)
  <2>1. InAnyBranch({"tenant.manage", "sales.bill"}).scope = "any branch"
    BY DEF InAnyBranch, Guard
  <2>2. SUFFICES ASSUME Belongs(s, t) = {}, Allowed(i, t, "", InAnyBranch({"tenant.manage", "sales.bill"})) PROVE FALSE
    BY GuardsOfTheFloor
  <2>3. Grants(Belongs(s, t), InAnyBranch({"tenant.manage", "sales.bill"}).caps)
    BY <2>1, <2>2 DEF Allowed, Passes
  <2> QED
    BY <2>2, <2>3 DEF Grants
<1>2. ~Allowed(i, t, "", PlatformBillingRoutes.suspend_tenant_billing)
  BY GuardsOfTheFloor DEF Allowed, Passes, PlatformOnly, Guard
<1>3. ASSUME NEW b \in BranchesOf[t], Allowed(i, t, b, SaleReturnRoutes.approve_sale_return_refund)
      PROVE  Holds(s, t, {"tenant_owner", "finance_admin"})
  <2>1. Allowed(i, t, b, InBranch({"refund.approve"}))
    BY <1>3, GuardsOfTheFloor
  <2>2. PICK m \in Belongs(s, t) : "refund.approve" \in RoleCapabilities(m.role)
    BY <2>1, PassesInBranch
  <2> QED
    BY <2>2, RolesThatGrant DEF Holds
<1>4. ASSUME NEW b \in BranchesOf[t], Allowed(i, t, b, ProcurementRoutes.create_supplier_payment)
      PROVE  Holds(s, t, {"tenant_owner", "inventory_admin"})
  <2>1. Allowed(i, t, b, TenantWide("purchase.manage"))
    BY <1>4, GuardsOfTheFloor
  <2>2. PICK m \in Belongs(s, t) : "purchase.manage" \in RoleCapabilities(m.role)
    BY <2>1, PassesTenantWide
  <2> QED
    BY <2>2, RolesThatGrant DEF Holds
<1>5. ASSUME NEW b \in BranchesOf[t], Allowed(i, t, b, GiftCardRoutes.create_gift_card)
      PROVE  Holds(s, t, {"tenant_owner", "platform_super_admin"})
  <2>1. Allowed(i, t, b, TenantWide("tenant.manage"))
    BY <1>5, GuardsOfTheFloor
  <2>2. PICK m \in Belongs(s, t) : "tenant.manage" \in RoleCapabilities(m.role)
    BY <2>1, PassesTenantWide
  <2> QED
    BY <2>2, RolesThatGrant DEF Holds
<1>6. ASSUME NEW b \in BranchesOf[t], Allowed(i, t, b, CheckoutRoutes.create_sale)
      PROVE  \E m \in Belongs(s, t) : m.branch \in {"", b} /\ "sales.bill" \in RoleCapabilities(m.role)
  <2>1. Allowed(i, t, b, InBranch({"sales.bill"}))
    BY <1>6, GuardsOfTheFloor
  <2>2. PICK m \in Belongs(s, t) : m.branch \in {"", b} /\ "sales.bill" \in RoleCapabilities(m.role)
    BY <2>1, PassesInBranch
  <2> QED
    BY <2>2
<1> HIDE DEF s
<1> QED
  BY <1>1, <1>2, <1>3, <1>4, <1>5, <1>6 DEF s

\* In every state, whoever was invited, signed in or given a role.
THEOREM AccessFloorStays == AccessSpec => []FloorStaysOnTheFloor
<1>1. FloorStaysOnTheFloor
  BY GuardsHoldTheFloor
<1> QED
  BY <1>1, PTL

-----------------------------------------------------------------------------
(* A non-empty set of numbers has a first and a last one. *)

\* A set of numbers of rows that is not empty has a first one,
LEMMA FirstIsThere ==
    ASSUME NEW n \in Nat, NEW S \in SUBSET (1 .. n), S # {}
    PROVE  \E i \in S : \A j \in S : i <= j
<1> DEFINE R == OpToRel(<, Nat)
<1>1. IsWellFoundedOn(R, Nat)
  BY NatLessThanWellFounded
<1>2. \A x, y \in Nat : x < y => <<x, y>> \in R
  BY DEF OpToRel
<1> HIDE DEF R
<1>3. S \subseteq Nat
  OBVIOUS
<1>4. PICK i \in S : \A j \in S : ~(<<j, i>> \in R)
  BY <1>1, <1>3, WFMin
<1>5. ASSUME NEW j \in S PROVE i <= j
  <2>1. i \in Nat /\ j \in Nat /\ ~(j < i)
    BY <1>2, <1>3, <1>4
  <2> QED
    BY <2>1
<1> QED
  BY <1>5

\* and a last one, which is its maximum.
LEMMA MaxIsThere ==
    ASSUME NEW n \in Nat, NEW S \in SUBSET (1 .. n), S # {}
    PROVE  Max(S) \in S
<1> DEFINE T == {n + 1 - k : k \in S}
<1>1. T \in SUBSET (1 .. n) /\ T # {}
  <2>1. \A k \in S : k \in 1 .. n
    OBVIOUS
  <2>2. \A k \in 1 .. n : n + 1 - k \in 1 .. n
    OBVIOUS
  <2> QED
    BY <2>1, <2>2
<1>2. PICK i \in T : \A j \in T : i <= j
  BY <1>1, FirstIsThere
<1>3. PICK k \in S : i = n + 1 - k
  BY <1>2
<1>4. \A j \in S : k >= j
  <2> SUFFICES ASSUME NEW j \in S PROVE k >= j
    OBVIOUS
  <2>1. i <= n + 1 - j
    BY <1>2
  <2> QED
    BY <1>3, <2>1
<1> QED
  BY <1>3, <1>4 DEF Max

-----------------------------------------------------------------------------
(* The subscription. *)

Statuses == {"TRIALING", "ACTIVE", "GRACE", "CANCELED"}
Subscription ==
    [status: Statuses, plan: Plans, trialEnds: Int, periodEnds: Int, grace: Int, canceledAt: Int, ref: BOOLEAN]

OnCurrent == {"suspend", "reactivate", "override", "bootstrap"}

\* A request has in hand a subscription of the table, or a fresh one.
HasSubscription(r) ==
    /\ desk[r].op \in OnCurrent =>
         /\ tenantStatus # "none" /\ desk[r].sub \in Subscription
         /\ desk[r].at # 0 => desk[r].at \in DOMAIN subs
    /\ Doing(r, "event") =>
         /\ desk[r].event \in DOMAIN Events
         /\ desk[r].at \in DOMAIN subs /\ desk[r].sub \in Subscription

CommerceTyped ==
    /\ OneRequestEach
    /\ today \in Int
    /\ plans = [p \in Plans |-> plans[p]]
    /\ subs \in Seq(Subscription)
    /\ tenantStatus = "none" => subs = <<>>
    /\ \A r \in Desks : HasSubscription(r)

AppliedOnce ==
    /\ applied = [e \in DOMAIN Events |-> applied[e]]
    /\ \A e \in DOMAIN Events : applied[e] = IF e \in events THEN 1 ELSE 0

\* What a request has read of the tenant.
CommerceChecks(r) ==
    /\ desk[r].op \in OnCurrent =>
         /\ desk[r].tenant = tenantStatus
         /\ desk[r].at # 0 => subs[desk[r].at] = desk[r].sub
    /\ Doing(r, "event") => subs[desk[r].at] = desk[r].read
    /\ Doing(r, "plan") => desk[r].seen = {p \in Plans : plans[p] = "default"}

CommerceStillTrue == \A r \in Desks : r \notin overtaken => CommerceChecks(r)

\* The entitlement was worked out of the subscription sub.
ShowsDates(sub) ==
    entitlement.plan = sub.plan /\ entitlement.grace = sub.grace /\ entitlement.suspendAt = SuspendAt(sub)

EntitlementShown ==
    Seen("entitlement", 1) /\ tenantStatus # "none" => \E i \in DOMAIN subs : ShowsDates(subs[i])

OneDefault ==
    Seen("plans", 1) => \A p, q \in Plans : plans[p] = "default" /\ plans[q] = "default" => p = q

LockedOut ==
    tenantStatus = "SUSPENDED" /\ ~lifted /\ Seen("entitlement", 1) => entitlement.status = "SUSPENDED"

CommerceInv ==
    CommerceTyped /\ AppliedOnce /\ CommerceStillTrue /\ EntitlementShown /\ OneDefault /\ LockedOut

\* The invariant says what the run checks.
LEMMA CommerceInvShows == CommerceInv => EntitlementFollowsSubscription /\ SuspensionHolds
<1> SUFFICES ASSUME CommerceInv PROVE EntitlementFollowsSubscription /\ SuspensionHolds
  OBVIOUS
<1>1. \A e \in DOMAIN Events : applied[e] <= 1
  BY DEF CommerceInv, AppliedOnce
<1>2. Seen("plans", 1) => Cardinality({p \in Plans : plans[p] = "default"}) <= 1
  <2> SUFFICES ASSUME Seen("plans", 1) PROVE Cardinality({p \in Plans : plans[p] = "default"}) <= 1
    OBVIOUS
  <2>1. \A p, q \in {p \in Plans : plans[p] = "default"} : p = q
    BY DEF CommerceInv, OneDefault
  <2> QED
    BY <2>1, AtMostOne
<1>3. EntitlementFollowsSubscription
  BY <1>1, <1>2 DEF EntitlementFollowsSubscription, CommerceInv, EntitlementShown, ShowsDates
<1>4. SuspensionHolds
  BY DEF SuspensionHolds, CommerceInv, LockedOut, RuntimeAllowed
<1> QED
  BY <1>3, <1>4

\* A tenant that is not there yet has no subscription, and nothing was applied to it.
LEMMA CommerceInitInv == CommerceInit => CommerceInv
<1> SUFFICES ASSUME CommerceInit PROVE CommerceInv
  OBVIOUS
<1> USE DEF CommerceInit, DeskInit
<1>1. \A r \in Desks : desk[r].op = "none"
  BY DEF Idle
<1>2. CommerceTyped
  BY <1>1 DEF CommerceTyped, OneRequestEach, HasSubscription, OnCurrent, Doing
<1>3. CommerceStillTrue
  BY <1>1 DEF CommerceStillTrue, CommerceChecks, OnCurrent, Doing
<1>4. AppliedOnce
  BY DEF AppliedOnce
<1>5. EntitlementShown /\ LockedOut /\ OneDefault
  BY DEF EntitlementShown, LockedOut, OneDefault
<1> QED
  BY <1>2, <1>3, <1>4, <1>5 DEF CommerceInv

-----------------------------------------------------------------------------
(* The subscription a request works on. *)

\* The current subscription is in the table.
LEMMA CurrentIsThere ==
    ASSUME CommerceTyped
    PROVE  Current(subs) # 0 => Current(subs) \in DOMAIN subs
<1>1. DOMAIN subs = 1 .. Len(subs) /\ Len(subs) \in Nat
  BY DEF CommerceTyped
<1>2. Live(subs) \in SUBSET (1 .. Len(subs))
  BY <1>1 DEF Live
<1>3. Live(subs) # {} => Max(Live(subs)) \in Live(subs)
  BY <1>1, <1>2, MaxIsThere
<1> QED
  BY <1>1, <1>2, <1>3 DEF Current

\* So is the one an event is for.
LEMMA SubjectIsThere ==
    ASSUME CommerceTyped, NEW withTenant \in BOOLEAN
    PROVE  Subject(withTenant) # 0 => Subject(withTenant) \in DOMAIN subs
<1>1. DOMAIN subs = 1 .. Len(subs) /\ Len(subs) \in Nat
  BY DEF CommerceTyped
<1> DEFINE S == {i \in DOMAIN subs : subs[i].ref}
<1>2. CASE \E i \in DOMAIN subs : subs[i].ref
  <2>1. S \in SUBSET (1 .. Len(subs)) /\ S # {}
    BY <1>1, <1>2
  <2>2. PICK i \in S : \A j \in S : i <= j
    BY <1>1, <2>1, FirstIsThere
  <2>3. \A j \in 1 .. i - 1 : ~subs[j].ref
    BY <1>1, <2>2
  <2> QED
    BY <1>2, <2>2, <2>3, CurrentIsThere DEF Subject
<1>3. CASE ~ \E i \in DOMAIN subs : subs[i].ref
  BY <1>3, CurrentIsThere DEF Subject
<1> QED
  BY <1>2, <1>3

\* The plan that is the default, or will be.
LEMMA DefaultIsAPlan == DefaultPlan \in Plans
BY CommerceAssumption DEF DefaultPlan

\* A trial is a subscription,
LEMMA TrialIsSubscription ==
    ASSUME CommerceTyped, NEW p \in Plans
    PROVE  Trial(p) \in Subscription
BY CommerceAssumption DEF CommerceTyped, Trial, Subscription, Statuses

\* and so is what an event makes of one.
LEMMA AppliedIsSubscription ==
    ASSUME CommerceTyped, NEW sub \in Subscription, NEW kind \in Kinds
    PROVE  Applies(sub, kind) \in Subscription
<1>0. PICK zero : zero = 0 /\ zero \in Int
  OBVIOUS
<1>1. today + PeriodDays \in Int /\ today + GraceDays \in Int /\ today \in Int
  BY CommerceAssumption DEF CommerceTyped
<1>2. CASE kind = "subscription.activated"
  <2>1. PICK half : half = [sub EXCEPT !.status = "ACTIVE", !.grace = zero]
    OBVIOUS
  <2>2. half \in Subscription
    BY <1>0, <2>1 DEF Subscription, Statuses
  <2>3. Applies(sub, kind) = [half EXCEPT !.periodEnds = today + PeriodDays, !.ref = TRUE]
    BY <1>2, <1>0, <2>1 DEF Applies
  <2> QED
    BY <1>1, <2>2, <2>3 DEF Subscription
<1>3. CASE kind = "subscription.renewal_failed"
  <2>1. Applies(sub, kind) = [sub EXCEPT !.status = "GRACE", !.grace = today + GraceDays, !.ref = TRUE]
    BY <1>3 DEF Applies
  <2> QED
    BY <1>1, <2>1 DEF Subscription, Statuses
<1>4. CASE kind = "subscription.canceled"
  <2>1. PICK half : half = [sub EXCEPT !.status = "CANCELED", !.grace = zero]
    OBVIOUS
  <2>2. half \in Subscription
    BY <1>0, <2>1 DEF Subscription, Statuses
  <2>3. Applies(sub, kind) = [half EXCEPT !.canceledAt = today, !.ref = TRUE]
    BY <1>4, <1>0, <2>1 DEF Applies
  <2> QED
    BY <1>1, <2>2, <2>3 DEF Subscription
<1> QED
  BY <1>2, <1>3, <1>4 DEF Kinds

-----------------------------------------------------------------------------
(* The requests that begin. *)

\* A request that begins has read what it has in hand.
LEMMA CommerceBegins ==
    ASSUME CommerceInv, NEW r \in Desks, NEW e, Orders(r, e),
           e.op \in OnCurrent =>
             /\ tenantStatus # "none" /\ e.sub \in Subscription /\ e.tenant = tenantStatus
             /\ e.at # 0 => e.at \in DOMAIN subs /\ subs[e.at] = e.sub,
           e.op = "event" =>
             e.event \in DOMAIN Events /\ e.at \in DOMAIN subs /\ e.sub \in Subscription /\ subs[e.at] = e.read,
           e.op = "plan" => e.seen = {p \in Plans : plans[p] = "default"}
    PROVE  CommerceInv'
<1>1. /\ Checked(r, e)
      /\ UNCHANGED <<today, plans, tenantStatus, subs, entitlement, override, events, applied, lifted, overtaken, blind>>
  BY DEF Orders, Checked
<1>2. OneRequestEach' /\ desk'[r] = e /\ \A q \in Desks \ {r} : desk'[q] = desk[q]
  BY <1>1, DeskChecks DEF CommerceInv, CommerceTyped
<1>3. \A q \in Desks : HasSubscription(q)'
  <2> SUFFICES ASSUME NEW q \in Desks PROVE HasSubscription(q)'
    OBVIOUS
  <2>1. CASE q = r
    BY <1>1, <1>2, <2>1 DEF HasSubscription, Doing
  <2>2. CASE q # r
    <3>1. HasSubscription(q) /\ desk'[q] = desk[q]
      BY <1>2, <2>2 DEF CommerceInv, CommerceTyped
    <3> QED
      BY <1>1, <3>1 DEF HasSubscription, Doing
  <2> QED
    BY <2>1, <2>2
<1>4. CommerceStillTrue'
  <2> SUFFICES ASSUME NEW q \in Desks, q \notin overtaken' PROVE CommerceChecks(q)'
    BY DEF CommerceStillTrue
  <2>1. CASE q = r
    BY <1>1, <1>2, <2>1 DEF CommerceChecks, Doing
  <2>2. CASE q # r
    <3>1. CommerceChecks(q) /\ desk'[q] = desk[q]
      BY <1>1, <1>2, <2>2 DEF CommerceInv, CommerceStillTrue
    <3> QED
      BY <1>1, <3>1 DEF CommerceChecks, Doing
  <2> QED
    BY <2>1, <2>2
<1>5. CommerceTyped'
  BY <1>1, <1>2, <1>3 DEF CommerceInv, CommerceTyped
<1>6. AppliedOnce' /\ EntitlementShown' /\ OneDefault' /\ LockedOut'
  BY <1>1 DEF CommerceInv, AppliedOnce, EntitlementShown, ShowsDates, SuspendAt, OneDefault, LockedOut, Seen
<1> QED
  BY <1>4, <1>5, <1>6 DEF CommerceInv

\* An owner or the platform asks for the current subscription, or a fresh one.
LEMMA CommerceAsks ==
    ASSUME CommerceInv, NEW r \in Desks, NEW op \in OnCurrent, NEW until, Asks(r, op, until)
    PROVE  CommerceInv'
<1>1. PICK i : i = Current(subs)
  OBVIOUS
<1>2. PICK sub : sub = IF i = 0 THEN Trial(DefaultPlan) ELSE subs[i]
  OBVIOUS
<1>3. PICK e : e = [op |-> op, tenant |-> tenantStatus, until |-> Max({until, override}), new |-> until, at |-> i, sub |-> sub]
  OBVIOUS
<1>4. tenantStatus # "none" /\ Orders(r, e) /\ e.op = op /\ e.tenant = tenantStatus /\ e.at = i /\ e.sub = sub
  BY <1>1, <1>2, <1>3 DEF Asks
<1>5. CommerceTyped
  BY DEF CommerceInv
<1>6. i # 0 => i \in DOMAIN subs /\ subs[i] = sub
  BY <1>1, <1>2, <1>5, CurrentIsThere
<1>7. sub \in Subscription
  <2>1. Trial(DefaultPlan) \in Subscription
    BY <1>5, DefaultIsAPlan, TrialIsSubscription
  <2>2. i # 0 => subs[i] \in Subscription
    BY <1>5, <1>6 DEF CommerceTyped
  <2> QED
    BY <1>2, <2>1, <2>2
<1>8. op # "event" /\ op # "plan"
  BY DEF OnCurrent
<1> QED
  BY <1>4, <1>6, <1>7, <1>8, CommerceBegins

\* Every request begins so.
LEMMA CommerceReads ==
    ASSUME CommerceInv, NEW r \in Desks,
           \/ \E p \in Plans, isDefault \in BOOLEAN : AskPlan(r, p, isDefault)
           \/ \E until \in 1 .. MaxDay : AskOverride(r, until)
           \/ \E e \in DOMAIN Events, withTenant \in BOOLEAN : ReceiveEvent(r, e, withTenant)
           \/ AskSuspension(r) \/ AskReactivation(r) \/ AskBootstrap(r)
    PROVE  CommerceInv'
<1>1. CASE \E p \in Plans, isDefault \in BOOLEAN : AskPlan(r, p, isDefault)
  <2>1. PICK e : Orders(r, e) /\ e.op = "plan" /\ e.seen = {q \in Plans : plans[q] = "default"}
    BY <1>1 DEF AskPlan
  <2>2. e.op \notin OnCurrent /\ e.op # "event"
    BY <2>1 DEF OnCurrent
  <2> QED
    BY <2>1, <2>2, CommerceBegins
<1>2. CASE \/ \E until \in 1 .. MaxDay : AskOverride(r, until)
           \/ AskSuspension(r) \/ AskReactivation(r) \/ AskBootstrap(r)
  <2>1. {"suspend", "reactivate", "override", "bootstrap"} \subseteq OnCurrent
    BY DEF OnCurrent
  <2> QED
    BY <1>2, <2>1, CommerceAsks DEF AskOverride, AskSuspension, AskReactivation, AskBootstrap
<1>3. CASE \E e \in DOMAIN Events, withTenant \in BOOLEAN : ReceiveEvent(r, e, withTenant)
  <2>1. PICK n \in DOMAIN Events, withTenant \in BOOLEAN : ReceiveEvent(r, n, withTenant)
    BY <1>3
  <2>2. PICK i : i = Subject(withTenant)
    OBVIOUS
  <2>3. PICK e : Orders(r, e) /\ e.op = "event" /\ e.event = n /\ e.at = i /\ e.read = subs[i] /\ e.sub = Applies(subs[i], Events[n])
    BY <2>1, <2>2 DEF ReceiveEvent
  <2>4. CommerceTyped
    BY DEF CommerceInv
  <2>5. i \in DOMAIN subs
    BY <2>1, <2>2, <2>4, SubjectIsThere DEF ReceiveEvent
  <2>6. subs[i] \in Subscription /\ Events[n] \in Kinds
    BY <2>4, <2>5, CommerceAssumption DEF CommerceTyped
  <2>7. e.sub \in Subscription
    BY <2>3, <2>4, <2>6, AppliedIsSubscription
  <2>8. e.op \notin OnCurrent /\ e.op # "plan"
    BY <2>3 DEF OnCurrent
  <2> QED
    BY <2>3, <2>5, <2>7, <2>8, CommerceBegins
<1> QED
  BY <1>1, <1>2, <1>3

-----------------------------------------------------------------------------
(* The requests that write. *)

\* After a commit nobody but the overtaken has anything in hand, and what they have in hand stays there.
LEMMA CommerceCommits ==
    ASSUME CommerceInv, NEW r \in Desks, NEW rows, Committed(r, rows),
           today' \in Int, plans' = [p \in Plans |-> plans'[p]],
           subs' \in Seq(Subscription), DOMAIN subs \subseteq DOMAIN subs',
           tenantStatus' = "none" => tenantStatus = "none" /\ subs' = <<>>
    PROVE  CommerceTyped' /\ CommerceStillTrue'
<1>1. /\ OneRequestEach'
      /\ \A q \in Desks : desk'[q].op = "none" \/ desk'[q] = desk[q]
      /\ \A q \in Desks : q \notin overtaken' => desk'[q].op = "none"
  BY DeskCommits DEF CommerceInv, CommerceTyped
<1>2. \A q \in Desks : HasSubscription(q)'
  <2> SUFFICES ASSUME NEW q \in Desks PROVE HasSubscription(q)'
    OBVIOUS
  <2>1. CASE desk'[q].op = "none"
    BY <2>1 DEF HasSubscription, OnCurrent, Doing
  <2>2. CASE desk'[q] = desk[q]
    <3>1. HasSubscription(q)
      BY DEF CommerceInv, CommerceTyped
    <3> QED
      BY <2>2, <3>1 DEF HasSubscription, Doing
  <2> QED
    BY <1>1, <2>1, <2>2
<1>3. CommerceStillTrue'
  BY <1>1 DEF CommerceStillTrue, CommerceChecks, OnCurrent, Doing
<1> QED
  BY <1>1, <1>2, <1>3 DEF CommerceTyped

\* A fresh subscription is appended, an old one stays.
LEMMA SubsAfterType ==
    ASSUME CommerceInv, NEW r \in Desks, desk[r].op \in OnCurrent, NEW new \in Subscription
    PROVE  /\ Append(subs, new) \in Seq(Subscription)
           /\ DOMAIN subs \subseteq DOMAIN Append(subs, new)
           /\ Len(subs) + 1 \in DOMAIN Append(subs, new) /\ Append(subs, new)[Len(subs) + 1] = new
           /\ \A i \in DOMAIN subs : Append(subs, new)[i] = subs[i]
<1>1. subs \in Seq(Subscription)
  BY DEF CommerceInv, CommerceTyped
<1> QED
  BY <1>1

\* What every rebuild writes: of its own subscription, in the state of the tenant it has read.
LEMMA RebuiltShows ==
    ASSUME NEW sub, NEW tenant, NEW until
    PROVE  /\ Rebuilt(sub, tenant, until).plan = sub.plan
           /\ Rebuilt(sub, tenant, until).grace = sub.grace
           /\ Rebuilt(sub, tenant, until).suspendAt = SuspendAt(sub)
           /\ tenant = "SUSPENDED" => Rebuilt(sub, tenant, until).status = "SUSPENDED"
BY DEF Rebuilt, Entitles

\* Suspension, reactivation and override: what was rebuilt is of the subscription that is written, and
\* a rebuild that is not blind is in the state the tenant has.
LEMMA RewritesShows ==
    ASSUME CommerceInv, NEW r \in Desks, desk[r].op \in OnCurrent, NEW status, Rewrites(r, status),
           tenantStatus' # "none"
    PROVE  /\ CommerceTyped' /\ CommerceStillTrue' /\ AppliedOnce' /\ EntitlementShown' /\ OneDefault'
           /\ status = "SUSPENDED" => entitlement'.status = "SUSPENDED"
           /\ Seen("entitlement", 1)' => Seen("entitlement", 1) /\ desk[r].tenant = tenantStatus
<1>1. PICK at, sub, until : at = desk[r].at /\ sub = desk[r].sub /\ until = desk[r].until
  OBVIOUS
<1>2. PICK rows : Committed(r, rows) /\ <<"entitlement", 1>> \in rows
  BY DEF Rewrites
<1>3. /\ subs' = IF at = 0 THEN Append(subs, sub) ELSE subs
      /\ entitlement' = Rebuilt(sub, status, until)
      /\ UNCHANGED <<today, plans, events, orders, applied>>
  BY <1>1 DEF Rewrites, SubsAfter
<1>4. sub \in Subscription /\ (at # 0 => at \in DOMAIN subs)
  BY <1>1 DEF CommerceInv, CommerceTyped, HasSubscription
<1>5. subs' \in Seq(Subscription) /\ DOMAIN subs \subseteq DOMAIN subs'
  BY <1>3, <1>4, SubsAfterType DEF CommerceInv, CommerceTyped
<1>6. CommerceTyped' /\ CommerceStillTrue'
  BY <1>2, <1>3, <1>5, CommerceCommits DEF CommerceInv, CommerceTyped
<1>7. AppliedOnce'
  BY <1>3 DEF CommerceInv, AppliedOnce
<1>8. blind \subseteq blind' /\ (r \in overtaken => <<"entitlement", 1>> \in blind')
  BY <1>2, DeskCommits DEF CommerceInv, CommerceTyped
<1>9. OneDefault'
  BY <1>3, <1>8 DEF CommerceInv, OneDefault, Seen
<1>10. ASSUME Seen("entitlement", 1)'
       PROVE  CommerceChecks(r) /\ Seen("entitlement", 1)
  BY <1>8, <1>10 DEF CommerceInv, CommerceStillTrue, Seen
<1>11. EntitlementShown'
  <2> SUFFICES ASSUME Seen("entitlement", 1)' PROVE \E i \in DOMAIN subs' : ShowsDates(subs[i])'
    BY DEF EntitlementShown
  <2>1. PICK i \in DOMAIN subs' : subs'[i] = sub
    <3>1. CASE at = 0
      BY <1>3, <1>4, <3>1, SubsAfterType
    <3>2. CASE at # 0
      BY <1>1, <1>3, <1>4, <1>10, <3>2 DEF CommerceChecks
    <3> QED
      BY <3>1, <3>2
  <2>2. entitlement'.plan = sub.plan /\ entitlement'.grace = sub.grace /\ entitlement'.suspendAt = SuspendAt(sub)
    BY <1>3, RebuiltShows
  <2>3. SuspendAt(subs[i])' = SuspendAt(sub)
    BY <2>1 DEF SuspendAt
  <2> QED
    BY <2>1, <2>2, <2>3 DEF ShowsDates
<1>12. status = "SUSPENDED" => entitlement'.status = "SUSPENDED"
  BY <1>3, RebuiltShows
<1> QED
  BY <1>6, <1>7, <1>9, <1>10, <1>11, <1>12 DEF CommerceChecks

\* A suspension writes the tenant and the entitlement at once.
LEMMA SuspendKeeps == ASSUME CommerceInv, NEW r \in Desks, SuspendTenant(r) PROVE CommerceInv'
<1>1. desk[r].op \in OnCurrent
  BY DEF SuspendTenant, Doing, OnCurrent
<1>2. Rewrites(r, "SUSPENDED") /\ tenantStatus' # "none"
  BY <1>1 DEF SuspendTenant, CommerceInv, CommerceTyped, HasSubscription, Written
<1>3. entitlement'.status = "SUSPENDED"
  BY <1>1, <1>2, RewritesShows
<1>4. LockedOut'
  BY <1>3 DEF LockedOut
<1> QED
  BY <1>1, <1>2, <1>4, RewritesShows DEF CommerceInv

\* A reactivation that is not blind ends the suspension there is.
LEMMA ReactivateKeeps == ASSUME CommerceInv, NEW r \in Desks, ReactivateTenant(r) PROVE CommerceInv'
<1>1. desk[r].op \in OnCurrent
  BY DEF ReactivateTenant, Doing, OnCurrent
<1>2. Rewrites(r, "ACTIVE") /\ tenantStatus' = Written(desk[r].tenant, "ACTIVE", tenantStatus) /\ tenantStatus' # "none"
  BY <1>1 DEF ReactivateTenant, CommerceInv, CommerceTyped, HasSubscription, Written
<1>3. Seen("entitlement", 1)' => desk[r].tenant = tenantStatus
  BY <1>1, <1>2, RewritesShows
<1>4. LockedOut'
  BY <1>2, <1>3 DEF LockedOut, Written
<1> QED
  BY <1>1, <1>2, <1>4, RewritesShows DEF CommerceInv

\* An override that is not blind keeps a suspended entitlement suspended.
LEMMA OverrideKeeps == ASSUME CommerceInv, NEW r \in Desks, CreateBillingOverride(r) PROVE CommerceInv'
<1>1. desk[r].op \in OnCurrent
  BY DEF CreateBillingOverride, Doing, OnCurrent
<1>2. PICK tenant : tenant = desk[r].tenant
  OBVIOUS
<1>3. Rewrites(r, tenant) /\ tenantStatus' = tenantStatus /\ tenantStatus' # "none"
  BY <1>1, <1>2 DEF CreateBillingOverride, CommerceInv, CommerceTyped, HasSubscription
<1>4. Seen("entitlement", 1)' => tenant = tenantStatus
  BY <1>1, <1>2, <1>3, RewritesShows
<1>5. tenant = "SUSPENDED" => entitlement'.status = "SUSPENDED"
  BY <1>1, <1>3, RewritesShows
<1>6. LockedOut'
  BY <1>3, <1>4, <1>5 DEF LockedOut
<1> QED
  BY <1>1, <1>3, <1>6, RewritesShows DEF CommerceInv

\* The reference of the provider is no date.
LEMMA BootstrapKeeps == ASSUME CommerceInv, NEW r \in Desks, BootstrapCheckout(r) PROVE CommerceInv'
<1>1. PICK at, sub : at = desk[r].at /\ sub = desk[r].sub
  OBVIOUS
<1>2. PICK rows : Committed(r, rows)
  BY DEF BootstrapCheckout
<1>3. desk[r].op \in OnCurrent
  BY DEF BootstrapCheckout, Doing, OnCurrent
<1>4. tenantStatus # "none" /\ sub \in Subscription /\ (at # 0 => at \in DOMAIN subs) /\ subs \in Seq(Subscription)
  BY <1>1, <1>3 DEF CommerceInv, CommerceTyped, HasSubscription
<1>5. PICK new : new = [sub EXCEPT !.ref = TRUE]
  OBVIOUS
<1>6. new \in Subscription /\ new.plan = sub.plan /\ new.grace = sub.grace /\ SuspendAt(new) = SuspendAt(sub)
  BY <1>4, <1>5 DEF Subscription, SuspendAt
<1>7. /\ subs' = IF at = 0 THEN Append(subs, new) ELSE [subs EXCEPT ![at].ref = TRUE]
      /\ entitlement' = IF at = 0 THEN Entitles(sub, "TRIALING", "subscription") ELSE entitlement
      /\ lifted' = (lifted \/ at = 0)
      /\ UNCHANGED <<today, plans, tenantStatus, events, applied>>
  BY <1>1, <1>5 DEF BootstrapCheckout
<1>8. /\ subs' \in Seq(Subscription) /\ DOMAIN subs \subseteq DOMAIN subs'
      /\ at = 0 => \E i \in DOMAIN subs' : subs'[i] = new
      /\ at # 0 => \A i \in DOMAIN subs :
           subs'[i].plan = subs[i].plan /\ subs'[i].grace = subs[i].grace /\ SuspendAt(subs[i])' = SuspendAt(subs[i])
  <2>1. CASE at = 0
    BY <1>3, <1>6, <1>7, <2>1, SubsAfterType
  <2>2. CASE at # 0
    <3>1. PICK row : row = [subs[at] EXCEPT !.ref = TRUE]
      OBVIOUS
    <3>2. subs[at] \in Subscription
      BY <1>4, <2>2
    <3>3. row \in Subscription /\ row.plan = subs[at].plan /\ row.grace = subs[at].grace /\ SuspendAt(row) = SuspendAt(subs[at])
      BY <3>1, <3>2 DEF Subscription, SuspendAt
    <3>4. subs' = [subs EXCEPT ![at] = row]
      BY <1>7, <2>2, <3>1
    <3>5. DOMAIN subs' = DOMAIN subs /\ subs'[at] = row /\ \A i \in DOMAIN subs \ {at} : subs'[i] = subs[i]
      BY <1>4, <2>2, <3>4
    <3>6. subs' \in Seq(Subscription)
      BY <1>4, <2>2, <3>3, <3>4
    <3>7. ASSUME NEW i \in DOMAIN subs
          PROVE  subs'[i].plan = subs[i].plan /\ subs'[i].grace = subs[i].grace /\ SuspendAt(subs[i])' = SuspendAt(subs[i])
      <4>1. SuspendAt(subs[i])' = SuspendAt(subs'[i])
        BY DEF SuspendAt
      <4> QED
        BY <3>3, <3>5, <4>1
    <3> QED
      BY <2>2, <3>5, <3>6, <3>7
  <2> QED
    BY <2>1, <2>2
<1>9. CommerceTyped' /\ CommerceStillTrue'
  BY <1>2, <1>4, <1>7, <1>8, CommerceCommits DEF CommerceInv, CommerceTyped
<1>10. blind \subseteq blind'
  BY <1>2, DeskCommits DEF CommerceInv, CommerceTyped
<1>11. EntitlementShown'
  <2>1. CASE at = 0
    <3>1. PICK i \in DOMAIN subs' : subs'[i] = new
      BY <1>8, <2>1
    <3>2. entitlement'.plan = sub.plan /\ entitlement'.grace = sub.grace /\ entitlement'.suspendAt = SuspendAt(sub)
      BY <1>7, <2>1 DEF Entitles
    <3>3. SuspendAt(subs[i])' = SuspendAt(new)
      BY <3>1 DEF SuspendAt
    <3> QED
      BY <1>6, <3>1, <3>2, <3>3 DEF EntitlementShown, ShowsDates
  <2>2. CASE at # 0
    BY <1>7, <1>8, <1>10, <2>2 DEF CommerceInv, EntitlementShown, ShowsDates, Seen
  <2> QED
    BY <2>1, <2>2
<1>12. AppliedOnce' /\ OneDefault' /\ LockedOut'
  BY <1>7, <1>10 DEF CommerceInv, AppliedOnce, OneDefault, LockedOut, Seen
<1> QED
  BY <1>9, <1>11, <1>12 DEF CommerceInv

\* An event that nothing has overtaken writes the whole of what it has worked out.
LEMMA EventKeeps == ASSUME CommerceInv, NEW r \in Desks, ApplyEvent(r) PROVE CommerceInv'
<1>1. PICK at, read, sub, e : at = desk[r].at /\ read = desk[r].read /\ sub = desk[r].sub /\ e = desk[r].event
  OBVIOUS
<1>2. PICK rows : Committed(r, rows) /\ <<"entitlement", 1>> \in rows
  BY DEF ApplyEvent
<1>3. PICK row : row = [c \in DOMAIN subs[at] |-> Written(read[c], sub[c], subs[at][c])]
  OBVIOUS
<1>4. /\ Doing(r, "event") /\ e \notin events
      /\ subs' = [subs EXCEPT ![at] = row]
      /\ entitlement' = Entitles(sub, sub.status, "subscription")
      /\ events' = events \cup {e}
      /\ applied' = [applied EXCEPT ![e] = @ + 1]
      /\ lifted'
      /\ UNCHANGED <<today, plans, tenantStatus>>
  BY <1>1, <1>3 DEF ApplyEvent, Fresh, EntitledByEvent
<1>5. /\ at \in DOMAIN subs /\ sub \in Subscription /\ e \in DOMAIN Events
      /\ subs \in Seq(Subscription) /\ tenantStatus # "none"
  BY <1>1, <1>4 DEF CommerceInv, CommerceTyped, HasSubscription
<1>6. subs[at] \in Subscription
  BY <1>5
<1>7. row \in Subscription /\ (read = subs[at] => row.plan = sub.plan /\ row.grace = sub.grace /\ SuspendAt(row) = SuspendAt(sub))
  BY <1>3, <1>5, <1>6 DEF Subscription, Written, SuspendAt
<1>8. subs' \in Seq(Subscription) /\ DOMAIN subs \subseteq DOMAIN subs' /\ subs'[at] = row
  BY <1>4, <1>5, <1>7
<1>9. CommerceTyped' /\ CommerceStillTrue'
  BY <1>2, <1>4, <1>5, <1>8, CommerceCommits DEF CommerceInv, CommerceTyped
<1>10. blind \subseteq blind' /\ (r \in overtaken => <<"entitlement", 1>> \in blind')
  BY <1>2, DeskCommits DEF CommerceInv, CommerceTyped
<1>11. EntitlementShown'
  <2> SUFFICES ASSUME Seen("entitlement", 1)' PROVE ShowsDates(subs[at])'
    BY <1>5, <1>8 DEF EntitlementShown
  <2>1. read = subs[at]
    BY <1>1, <1>4, <1>10 DEF CommerceInv, CommerceStillTrue, CommerceChecks, Seen
  <2>2. SuspendAt(subs[at])' = SuspendAt(row)
    BY <1>8 DEF SuspendAt
  <2> QED
    BY <1>4, <1>7, <1>8, <2>1, <2>2 DEF ShowsDates, Entitles
<1>12. AppliedOnce'
  BY <1>4, <1>5 DEF CommerceInv, AppliedOnce
<1>13. OneDefault' /\ LockedOut'
  BY <1>4, <1>10 DEF CommerceInv, OneDefault, LockedOut, Seen
<1> QED
  BY <1>9, <1>11, <1>12, <1>13 DEF CommerceInv

\* A default plan that nothing has overtaken has taken the flag of the one before it.
LEMMA PlanKeeps == ASSUME CommerceInv, NEW r \in Desks, CreateBillingPlan(r) PROVE CommerceInv'
<1>1. PICK seen, isDefault, plan : seen = desk[r].seen /\ isDefault = desk[r].isDefault /\ plan = desk[r].plan
  OBVIOUS
<1>2. PICK rows : Committed(r, rows) /\ (isDefault => <<"plans", 1>> \in rows)
  BY <1>1 DEF CreateBillingPlan
<1>3. /\ Doing(r, "plan")
      /\ plans' = [q \in Plans |-> IF q = plan THEN IF isDefault THEN "default" ELSE "other"
                                   ELSE IF isDefault /\ q \in seen THEN "other" ELSE plans[q]]
      /\ UNCHANGED <<today, tenantStatus, subs, entitlement, override, events, applied, lifted>>
  BY <1>1 DEF CreateBillingPlan
<1>4. CommerceTyped' /\ CommerceStillTrue'
  BY <1>2, <1>3, CommerceCommits DEF CommerceInv, CommerceTyped
<1>5. blind \subseteq blind' /\ (isDefault /\ r \in overtaken => <<"plans", 1>> \in blind')
  BY <1>2, DeskCommits DEF CommerceInv, CommerceTyped
<1>6. OneDefault'
  <2> SUFFICES ASSUME Seen("plans", 1)', NEW p \in Plans, NEW q \in Plans,
                      plans'[p] = "default", plans'[q] = "default"
               PROVE  p = q
    BY DEF OneDefault
  <2>1. CASE isDefault
    <3>1. seen = {d \in Plans : plans[d] = "default"}
      BY <1>1, <1>3, <1>5, <2>1 DEF CommerceInv, CommerceStillTrue, CommerceChecks, Seen
    <3> QED
      BY <1>3, <2>1, <3>1
  <2>2. CASE ~isDefault
    <3>1. plans[p] = "default" /\ plans[q] = "default"
      BY <1>3, <2>2
    <3>2. Seen("plans", 1)
      BY <1>5 DEF Seen
    <3> QED
      BY <3>1, <3>2 DEF CommerceInv, OneDefault
  <2> QED
    BY <2>1, <2>2
<1>7. AppliedOnce' /\ EntitlementShown' /\ LockedOut'
  BY <1>3, <1>5 DEF CommerceInv, AppliedOnce, EntitlementShown, ShowsDates, SuspendAt, LockedOut, Seen
<1> QED
  BY <1>4, <1>6, <1>7 DEF CommerceInv

\* A tenant begins with a trial of the default plan, the launch plan if there is none.
LEMMA TenantKeeps == ASSUME CommerceInv, CreateTenant PROVE CommerceInv'
<1>1. UNCHANGED <<desk, blind>> /\ \A q \in Desks : q \notin overtaken' => desk'[q].op = "none"
  BY DeskAtOnce DEF CreateTenant
<1>2. PICK p, trial : p = DefaultPlan /\ trial = Trial(p)
  OBVIOUS
<1>3. /\ tenantStatus' = "ACTIVE" /\ plans' = [plans EXCEPT ![p] = "default"] /\ subs' = <<trial>>
      /\ entitlement' = Entitles(trial, "TRIALING", "subscription")
      /\ UNCHANGED <<today, override, events, orders, applied, lifted>>
  BY <1>2 DEF CreateTenant
<1>4. p \in Plans /\ trial \in Subscription
  BY <1>2, DefaultIsAPlan, TrialIsSubscription DEF CommerceInv
<1>5. subs' \in Seq(Subscription) /\ 1 \in DOMAIN subs' /\ subs'[1] = trial
  BY <1>3, <1>4
<1>6. \A q \in Desks : HasSubscription(q)'
  <2> SUFFICES ASSUME NEW q \in Desks PROVE HasSubscription(q)'
    OBVIOUS
  <2>1. desk'[q] = desk[q] /\ HasSubscription(q) /\ tenantStatus = "none" /\ subs = <<>>
    BY <1>1 DEF CommerceInv, CommerceTyped, CreateTenant
  <2>2. desk[q].op \notin OnCurrent /\ ~Doing(q, "event")
    BY <2>1 DEF HasSubscription
  <2> QED
    BY <2>1, <2>2 DEF HasSubscription, Doing
<1>7. CommerceTyped' /\ CommerceStillTrue'
  <2>1. CommerceStillTrue'
    BY <1>1 DEF CommerceStillTrue, CommerceChecks, OnCurrent, Doing
  <2>2. OneRequestEach' /\ today' \in Int /\ plans' = [q \in Plans |-> plans'[q]]
    BY <1>1, <1>3 DEF CommerceInv, CommerceTyped, OneRequestEach
  <2> QED
    BY <1>3, <1>5, <1>6, <2>1, <2>2 DEF CommerceTyped
<1>8. EntitlementShown'
  <2>1. SuspendAt(subs[1])' = SuspendAt(trial)
    BY <1>5 DEF SuspendAt
  <2> QED
    BY <1>3, <1>5, <2>1 DEF EntitlementShown, ShowsDates, Entitles
<1>9. OneDefault'
  <2>1. CASE \E q \in Plans : plans[q] = "default"
    <3>1. plans[p] = "default"
      BY <1>2, <2>1 DEF DefaultPlan
    <3>2. \A q \in Plans : plans'[q] = plans[q]
      BY <1>3, <3>1 DEF CommerceInv, CommerceTyped
    <3> QED
      BY <1>1, <3>2 DEF CommerceInv, OneDefault, Seen
  <2>2. CASE ~ \E q \in Plans : plans[q] = "default"
    BY <1>3, <2>2 DEF CommerceInv, CommerceTyped, OneDefault
  <2> QED
    BY <2>1, <2>2
<1>10. AppliedOnce' /\ LockedOut'
  BY <1>3 DEF CommerceInv, AppliedOnce, LockedOut
<1> QED
  BY <1>7, <1>8, <1>9, <1>10 DEF CommerceInv

-----------------------------------------------------------------------------
(* The specification. *)

\* A request that fails leaves what it has read.
LEMMA CommerceFails == ASSUME CommerceInv, NEW r \in Desks, CommerceRequestFails(r) PROVE CommerceInv'
<1>1. RolledBack(r)
      /\ UNCHANGED <<today, plans, tenantStatus, subs, entitlement, override, events, applied, lifted>>
  BY DEF CommerceRequestFails, commerceRows
<1>2. /\ OneRequestEach' /\ UNCHANGED blind
      /\ desk'[r].op = "none" /\ r \notin overtaken'
      /\ \A q \in Desks \ {r} : desk'[q] = desk[q] /\ (q \in overtaken' <=> q \in overtaken)
  BY <1>1, DeskRollsBack DEF CommerceInv, CommerceTyped
<1>3. ASSUME NEW q \in Desks
      PROVE  HasSubscription(q)' /\ (q \notin overtaken' => CommerceChecks(q)')
  <2>1. CASE q = r
    BY <1>2, <2>1 DEF HasSubscription, CommerceChecks, OnCurrent, Doing
  <2>2. CASE q # r
    <3>1. desk'[q] = desk[q] /\ HasSubscription(q) /\ (q \notin overtaken' => CommerceChecks(q))
      BY <1>2, <2>2 DEF CommerceInv, CommerceTyped, CommerceStillTrue
    <3> QED
      BY <1>1, <3>1 DEF HasSubscription, CommerceChecks, Doing
  <2> QED
    BY <2>1, <2>2
<1>4. CommerceTyped' /\ CommerceStillTrue'
  BY <1>1, <1>2, <1>3 DEF CommerceInv, CommerceTyped, CommerceStillTrue
<1>5. AppliedOnce' /\ EntitlementShown' /\ OneDefault' /\ LockedOut'
  BY <1>1, <1>2 DEF CommerceInv, AppliedOnce, EntitlementShown, ShowsDates, SuspendAt, OneDefault, LockedOut, Seen
<1> QED
  BY <1>4, <1>5 DEF CommerceInv

\* Neither reads nor writes depend on the day.
LEMMA DayKeeps == ASSUME CommerceInv, DayPasses \/ UNCHANGED commerceVars PROVE CommerceInv'
<1>1. UNCHANGED <<plans, tenantStatus, subs, entitlement, events, applied, lifted, desk, overtaken, blind>>
  BY DEF DayPasses, commerceVars, commerceRows, deskVars
<1>2. today' \in Int
  BY DEF CommerceInv, CommerceTyped, DayPasses, commerceVars, commerceRows
<1>3. CommerceTyped'
  <2>1. \A q \in Desks : HasSubscription(q)'
    BY <1>1 DEF CommerceInv, CommerceTyped, HasSubscription, Doing
  <2> QED
    BY <1>1, <1>2, <2>1 DEF CommerceInv, CommerceTyped, OneRequestEach
<1>4. CommerceStillTrue'
  BY <1>1 DEF CommerceInv, CommerceStillTrue, CommerceChecks, Doing
<1>5. AppliedOnce' /\ EntitlementShown' /\ OneDefault' /\ LockedOut'
  BY <1>1 DEF CommerceInv, AppliedOnce, EntitlementShown, ShowsDates, SuspendAt, OneDefault, LockedOut, Seen
<1> QED
  BY <1>3, <1>4, <1>5 DEF CommerceInv

\* Every step of a tenant keeps the invariant.
LEMMA CommerceStepInv == CommerceInv /\ [CommerceNext]_commerceVars => CommerceInv'
BY CommerceReads, SuspendKeeps, ReactivateKeeps, OverrideKeeps, BootstrapKeeps, EventKeeps, PlanKeeps,
   TenantKeeps, CommerceFails, DayKeeps DEF CommerceNext

\* The inductive invariant.
THEOREM CommerceInvariant == CommerceSpec => []CommerceInv
BY CommerceInitInv, CommerceStepInv, PTL DEF CommerceSpec

\* But for overtaken requests, the entitlement shows the dates of a subscription of the tenant and one
\* plan is the default; an event is applied once.
THEOREM CommerceEntitlementFollows == CommerceSpec => []EntitlementFollowsSubscription
BY CommerceInvariant, CommerceInvShows, PTL

\* A suspended tenant stays locked out until an event, a trial or a reactivation, whatever overrides it gets.
THEOREM CommerceSuspensionHolds == CommerceSpec => []SuspensionHolds
BY CommerceInvariant, CommerceInvShows, PTL

-----------------------------------------------------------------------------
(* The platform. *)

\* A part that stands still is as it began.
CommerceStands == tenantStatus = "none" /\ plans = [p \in Plans |-> "none"] /\ applied = [e \in DOMAIN Events |-> 0]
AccessStands == sessions = [i \in {} |-> {}]
LegacyStands == called = 0

PlatformInv ==
    /\ IF platform = "commerce" THEN CommerceInv ELSE CommerceStands
    /\ IF platform = "access" THEN AccessInv ELSE AccessStands
    /\ IF platform = "legacy" THEN LegacyInv ELSE LegacyStands

\* The platform begins with every part at its beginning.
LEMMA PlatformBegins == PlatformInit => PlatformInv
<1> SUFFICES ASSUME PlatformInit PROVE PlatformInv
  OBVIOUS
<1>1. CommerceInv /\ AccessInv /\ LegacyInv
  BY CommerceInitInv, AccessStarts, LegacyStarts DEF PlatformInit
<1>2. CommerceStands /\ AccessStands /\ LegacyStands
  BY DEF PlatformInit, CommerceInit, AccessInit, LegacyInit, CommerceStands, AccessStands, LegacyStands
<1> QED
  BY <1>1, <1>2 DEF PlatformInv

\* One part moves, the others stand.
LEMMA PlatformStep == PlatformInv /\ [PlatformNext]_platformVars => PlatformInv'
<1> SUFFICES ASSUME PlatformInv, [PlatformNext]_platformVars PROVE PlatformInv'
  OBVIOUS
<1>1. CASE Within("commerce") /\ CommerceNext
  <2>1. platform = "commerce" /\ platform' = platform /\ UNCHANGED accessRows /\ UNCHANGED legacyVars
    BY <1>1 DEF Within
  <2>2. CommerceInv'
    BY <1>1, <2>1, CommerceStepInv DEF PlatformInv
  <2> QED
    BY <2>1, <2>2 DEF PlatformInv, AccessStands, accessRows, LegacyStands, legacyVars
<1>2. CASE Within("access") /\ AccessNext
  <2>1. platform = "access" /\ platform' = platform /\ UNCHANGED commerceRows /\ UNCHANGED legacyVars
    BY <1>2 DEF Within
  <2>2. AccessInv'
    BY <1>2, <2>1, AccessStep DEF PlatformInv
  <2> QED
    BY <2>1, <2>2 DEF PlatformInv, CommerceStands, commerceRows, LegacyStands, legacyVars
<1>3. CASE Within("legacy") /\ LegacyNext
  <2>1. platform = "legacy" /\ platform' = platform /\ UNCHANGED commerceRows /\ UNCHANGED accessRows
    BY <1>3 DEF Within
  <2>2. LegacyInv'
    BY <1>3, <2>1, LegacySteps DEF PlatformInv
  <2> QED
    BY <2>1, <2>2 DEF PlatformInv, CommerceStands, commerceRows, AccessStands, accessRows
<1>4. CASE UNCHANGED platformVars
  <2>1. platform' = platform /\ UNCHANGED commerceVars /\ UNCHANGED accessVars /\ UNCHANGED legacyVars
    BY <1>4 DEF platformVars, commerceVars, accessVars
  <2>2. CommerceInv => CommerceInv'
    BY <2>1, CommerceStepInv
  <2>3. AccessInv => AccessInv'
    BY <2>1, AccessStep
  <2>4. LegacyInv => LegacyInv'
    BY <2>1, LegacySteps
  <2>5. LegacyStands => LegacyStands'
    BY <2>1 DEF LegacyStands, legacyVars
  <2> QED
    BY <2>1, <2>2, <2>3, <2>4, <2>5 DEF PlatformInv, CommerceStands, commerceVars, commerceRows, AccessStands, accessVars, accessRows
<1> QED
  BY <1>1, <1>2, <1>3, <1>4 DEF PlatformNext

\* What the runs check of subscriptions, sign-ins and the legacy store follows, of a part that stands
\* still as well.
LEMMA PlatformShows ==
    PlatformInv => /\ EntitlementFollowsSubscription /\ SuspensionHolds /\ OneSessionPerSignIn
                   /\ ServedWholeOrNotAtAll /\ LegacySettledOnce
<1>1. CommerceStands => EntitlementFollowsSubscription /\ SuspensionHolds
  <2> SUFFICES ASSUME CommerceStands PROVE EntitlementFollowsSubscription /\ SuspensionHolds
    OBVIOUS
  <2>1. {p \in Plans : plans[p] = "default"} = {}
    BY DEF CommerceStands
  <2>2. Cardinality({p \in Plans : plans[p] = "default"}) <= 1
    BY <2>1, FS_EmptySet
  <2>3. \A e \in DOMAIN Events : applied[e] <= 1
    BY DEF CommerceStands
  <2> QED
    BY <2>2, <2>3 DEF CommerceStands, EntitlementFollowsSubscription, SuspensionHolds
<1>2. AccessStands => OneSessionPerSignIn
  BY DEF AccessStands, OneSessionPerSignIn
<1>3. LegacyStands => ServedWholeOrNotAtAll /\ LegacySettledOnce
  BY DEF LegacyStands, ServedWholeOrNotAtAll, LegacySettledOnce
<1>4. LegacyInv => ServedWholeOrNotAtAll /\ LegacySettledOnce
  BY LegacyInvServes, LegacyInvSettles
<1> QED
  BY <1>1, <1>2, <1>3, <1>4, CommerceInvShows, AccessInvShows DEF PlatformInv

\* Of the whole platform, as its run checks it: the entitlement follows a subscription and a suspension
\* holds (services/commerce.py), a sign-in has one session, the staff stay on the floor, and the legacy
\* store is served whole and settled once.
THEOREM PlatformHolds ==
    PlatformSpec => /\ []EntitlementFollowsSubscription /\ []SuspensionHolds /\ []OneSessionPerSignIn
                    /\ []FloorStaysOnTheFloor
                    /\ []ServedWholeOrNotAtAll /\ []LegacySettledOnce
<1>1. FloorStaysOnTheFloor
  BY GuardsHoldTheFloor
<1> QED
  BY <1>1, PlatformBegins, PlatformStep, PlatformShows, PTL DEF PlatformSpec
=============================================================================
