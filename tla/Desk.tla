-------------------------------- MODULE Desk --------------------------------
(***************************************************************************)
(* HTTP requests of the control plane, as every service of it works: one    *)
(* AsyncSession and one transaction for a request (db/session.py), which    *)
(* reads and checks first, takes no lock before it writes, and commits once *)
(* (READ COMMITTED).  A request's reads and checks are one step here, its   *)
(* writes and its commit another, and requests interleave between the two.  *)
(***************************************************************************)
EXTENDS Integers, FiniteSets

CONSTANTS
    Desks,      \* requests the service works on at one time
    MaxBlind    \* bound: no request begins after so many rows were written by overtaken ones

VARIABLES
    desk,       \* request -> what it has checked and is about to write
    overtaken,  \* history: requests during which another one has written a row
    blind       \* history: the rows written by an overtaken request

deskVars == <<desk, overtaken, blind>>

Idle == [op |-> "none"]
Doing(r, op) == desk[r].op = op

DeskInit ==
    /\ desk = [r \in Desks |-> Idle]
    /\ overtaken = {}
    /\ blind = {}

\* The request has read and checked, and is about to do errand.
Checked(r, errand) ==
    /\ desk[r] = Idle
    /\ Cardinality(blind) < MaxBlind
    /\ desk' = [desk EXCEPT ![r] = errand]
    /\ UNCHANGED <<overtaken, blind>>

\* It has written rows, <<table, key>>, and committed.
Committed(r, rows) ==
    /\ desk' = [desk EXCEPT ![r] = Idle]
    /\ overtaken' = (overtaken \ {r}) \cup {q \in Desks \ {r} : desk[q] # Idle}
    /\ blind' = IF r \in overtaken THEN blind \cup rows ELSE blind

\* A request whose writes depend on nothing it has read: checked and committed in one step.
AtOnce ==
    /\ overtaken' = {q \in Desks : desk[q] # Idle}
    /\ UNCHANGED <<desk, blind>>

\* It has died, or a unique constraint has refused its row: the transaction is rolled back.
RolledBack(r) ==
    /\ desk[r] # Idle
    /\ desk' = [desk EXCEPT ![r] = Idle]
    /\ overtaken' = overtaken \ {r}
    /\ UNCHANGED blind

\* A row that only a request which had seen everything can have written.
Seen(table, key) == <<table, key>> \notin blind
=============================================================================
