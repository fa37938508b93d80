----------------------------- MODULE HubRuntime -----------------------------
(***************************************************************************)
(* The hub of a branch and the control plane: the hub's sync secret         *)
(* (services/runtime.py, sync_runtime_auth.py), the activations it issues   *)
(* to spokes (spoke_runtime.py), its heartbeats and its reports of the      *)
(* spokes it sees (sync_runtime.py).  Requests interleave as in Desk; the   *)
(* answers that carry a new secret reach the hub in any order.              *)
(***************************************************************************)
EXTENDS Desk, Sequences

CONSTANTS
    Spokes,             \* devices that may be paired with the hub
    SpokeProfiles,      \* SUPPORTED_SPOKE_RUNTIME_PROFILES
    MaxSecrets,         \* bound: secrets issued
    MaxSpokeActivations \* bound: spoke activations issued

VARIABLES
    syncSecret,     \* sync_secret_hash of the hub's device row: which secret, 0 none
    issuedSecrets,  \* secrets made so far
    secretAnswers,  \* answers of bootstrap requests under way to the hub
    hubSecret,      \* the secret the hub has stored and sends
    spokeActs,      \* spoke_runtime_activations: profile and status
    observed,       \* hub_spoke_observations: spoke -> connection state, "NONE" without a row
    hubBoard        \* hub_sync_status: connected_spoke_count and who wrote it last, "none" without a row

hubVars == <<syncSecret, issuedSecrets, secretAnswers, hubSecret, spokeActs, observed, hubBoard>>

HubRuntimeInit ==
    /\ DeskInit
    /\ syncSecret = 0
    /\ issuedSecrets = 0
    /\ secretAnswers = {}
    /\ hubSecret = 0
    /\ spokeActs = <<>>
    /\ observed = [s \in Spokes |-> "NONE"]
    /\ hubBoard = [count |-> 0, by |-> "none"]

----------------------------------------------------------------------------
(* The secret *)

\* A new secret takes the place of whichever the hub had; its only copy is in the answer.
BootstrapHubIdentity ==
    /\ issuedSecrets < MaxSecrets
    /\ issuedSecrets' = issuedSecrets + 1
    /\ syncSecret' = issuedSecrets + 1
    /\ secretAnswers' = secretAnswers \cup {issuedSecrets + 1}
    /\ AtOnce
    /\ UNCHANGED <<hubSecret, spokeActs, observed, hubBoard>>

\* The hub stores the secret it is answered, in whatever order the answers come; some never do.
HubStoresSecret ==
    /\ \E s \in secretAnswers :
         /\ hubSecret' = s
         /\ secretAnswers' = secretAnswers \ {s}
    /\ UNCHANGED <<deskVars, syncSecret, issuedSecrets, spokeActs, observed, hubBoard>>

SecretAnswerLost ==
    /\ \E s \in secretAnswers : secretAnswers' = secretAnswers \ {s}
    /\ UNCHANGED <<deskVars, syncSecret, issuedSecrets, hubSecret, spokeActs, observed, hubBoard>>

\* authenticate_hub_device: the hash of the secret sent is the one on the device's row.
Authentic == syncSecret # 0 /\ hubSecret = syncSecret

----------------------------------------------------------------------------
(* Spoke activations *)

IssuedFor(profile) == {i \in DOMAIN spokeActs : spokeActs[i] = [profile |-> profile, status |-> "ISSUED"]}

\* The activations it will supersede have been read.
IssueSpokeActivation(r) ==
    /\ Authentic
    /\ Len(spokeActs) < MaxSpokeActivations
    /\ \E p \in SpokeProfiles : Checked(r, [op |-> "issue", profile |-> p, old |-> IssuedFor(p)])
    /\ UNCHANGED hubVars

\* The ISSUED activations that were read are over.
SupersededSpokes(acts, old) ==
    [i \in DOMAIN acts |-> IF i \in old THEN [acts[i] EXCEPT !.status = "SUPERSEDED"] ELSE acts[i]]

StoreSpokeActivation(r) ==
    /\ Doing(r, "issue")
    /\ Len(spokeActs) < MaxSpokeActivations
    /\ spokeActs' = Append(SupersededSpokes(spokeActs, desk[r].old),
                           [profile |-> desk[r].profile, status |-> "ISSUED"])
    /\ Committed(r, {<<"spoke_activation", desk[r].profile>>})
    /\ UNCHANGED <<syncSecret, issuedSecrets, secretAnswers, hubSecret, observed, hubBoard>>

----------------------------------------------------------------------------
(* What the hub tells of its spokes *)

\* record_heartbeat: the board is read, and will be told the hub's own count.
RecordHeartbeat(r) ==
    /\ Authentic
    /\ \E n \in 0..Cardinality(Spokes) : Checked(r, [op |-> "heartbeat", count |-> n, board |-> hubBoard])
    /\ UNCHANGED hubVars

\* observe_spokes: the rows of the spokes and the board have been read.
ObserveSpokes(r) ==
    /\ Authentic
    /\ \E seen \in [Spokes -> {"CONNECTED", "DISCONNECTED", "ABSENT"}] :
         Checked(r, [op |-> "observe", seen |-> seen, rows |-> observed, board |-> hubBoard])
    /\ UNCHANGED hubVars

\* The state a spoke's row is to have: a spoke the report does not name is disconnected.
Reported(seen, rows, s) ==
    IF seen[s] # "ABSENT" THEN seen[s] ELSE IF rows[s] = "NONE" THEN "NONE" ELSE "DISCONNECTED"

\* Mutant of ConnectedCount: counts the spokes whose row the report is about to give up.
ConnectedCountNamed(seen, rows) == Cardinality({s \in Spokes : seen[s] # "ABSENT" \/ rows[s] # "NONE"})

\* connected_spoke_count of a report
ConnectedCount(seen, rows) == Cardinality({s \in Spokes : Reported(seen, rows, s) = "CONNECTED"})

\* A unique constraint: no second row for a branch's board or for a spoke.
Collides(r) ==
    \/ desk[r].board.by = "none" /\ hubBoard.by # "none"
    \/ desk[r].op = "observe" /\ \E s \in Spokes :
         desk[r].rows[s] = "NONE" /\ desk[r].seen[s] # "ABSENT" /\ observed[s] # "NONE"

\* Only a column the request has changed is written.
Column(read, wanted, now) == IF wanted = read THEN now ELSE wanted

StoreHeartbeat(r) ==
    /\ Doing(r, "heartbeat")
    /\ ~Collides(r)
    /\ hubBoard' = [count |-> Column(desk[r].board.count, desk[r].count, hubBoard.count), by |-> "heartbeat"]
    /\ Committed(r, {<<"board", "count">>})
    /\ UNCHANGED <<syncSecret, issuedSecrets, secretAnswers, hubSecret, spokeActs, observed>>

StoreObservation(r) ==
    /\ Doing(r, "observe")
    /\ ~Collides(r)
    /\ LET seen == desk[r].seen
           rows == desk[r].rows
       IN  /\ observed' = [s \in Spokes |-> Column(rows[s], Reported(seen, rows, s), observed[s])]
           /\ hubBoard' = [count |-> Column(desk[r].board.count, ConnectedCount(seen, rows), hubBoard.count),
                           by |-> "observe"]
    /\ Committed(r, {<<"board", "count">>})
    /\ UNCHANGED <<syncSecret, issuedSecrets, secretAnswers, hubSecret, spokeActs>>

HubRequestFails(r) == RolledBack(r) /\ UNCHANGED hubVars

HubRuntimeNext ==
    \/ BootstrapHubIdentity \/ HubStoresSecret \/ SecretAnswerLost
    \/ \E r \in Desks :
         \/ IssueSpokeActivation(r) \/ StoreSpokeActivation(r)
         \/ RecordHeartbeat(r) \/ StoreHeartbeat(r)
         \/ ObserveSpokes(r) \/ StoreObservation(r)
         \/ HubRequestFails(r)

HubRuntimeSpec == HubRuntimeInit /\ [][HubRuntimeNext]_<<deskVars, hubVars>>

----------------------------------------------------------------------------
(* A spoke profile has at most one activation that can still be used,       *)
(* unless two requests have issued one at the same time.                    *)
OneSpokeActivation ==
    \A p \in SpokeProfiles : Seen("spoke_activation", p) => Cardinality(IssuedFor(p)) <= 1

(* The board's count of connected spokes is the number of spokes whose row  *)
(* says so, unless a heartbeat has told it another one since or a report    *)
(* was overtaken: a spoke the latest report leaves out is not counted.      *)
BoardCountsSpokes ==
    hubBoard.by = "observe" /\ Seen("board", "count")
        => hubBoard.count = Cardinality({s \in Spokes : observed[s] = "CONNECTED"})

\* The hub's rows agree: one activation a spoke profile can use, and a board that counts its spokes.
HubRowsAgree == OneSpokeActivation /\ BoardCountsSpokes
=============================================================================
