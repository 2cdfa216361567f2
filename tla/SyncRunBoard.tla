---------------------------- MODULE SyncRunBoard -----------------------------
(***************************************************************************)
(* What the unified sync engine promises to its users, without the lock,   *)
(* the requests and the process: runs are accepted one at a time, one      *)
(* writer at a time executes a run, and a run is closed either by its      *)
(* writer or when it has none.                                             *)
(***************************************************************************)
CONSTANT Runs

VARIABLES
    status,   \* [Runs -> "none", "pending", "running" or an outcome]
    writers   \* the runs being executed

bvars == <<status, writers>>

Open   == {"pending", "running"}
Closed == {"success", "partial", "failed"}

BInit == /\ status = [r \in Runs |-> "none"]
         /\ writers = {}

\* A run is accepted when no other is open.
Accept(r) == /\ \A q \in Runs : status[q] \notin Open
             /\ status[r] = "none"
             /\ status' = [status EXCEPT ![r] = "pending"]
             /\ UNCHANGED writers

\* Execution begins only when nothing else is being executed.
Begin(r) == /\ status[r] = "pending"
            /\ writers = {}
            /\ status' = [status EXCEPT ![r] = "running"]
            /\ writers' = {r}

\* The writer closes its run with an outcome.
Complete(r) == /\ r \in writers
               /\ status[r] = "running"
               /\ \E s \in Closed : status' = [status EXCEPT ![r] = s]
               /\ writers' = {}

\* The writer is gone (exception, restart); its row is left open.
Vanish == /\ writers # {}
          /\ writers' = {}
          /\ UNCHANGED status

\* A run without a writer is closed as failed.
CloseOut(r) == /\ r \notin writers
               /\ status[r] \in Open
               /\ status' = [status EXCEPT ![r] = "failed"]
               /\ UNCHANGED writers

BNext == \/ \E r \in Runs : Accept(r) \/ Begin(r) \/ Complete(r) \/ CloseOut(r)
         \/ Vanish

BSpec == BInit /\ [][BNext]_bvars
=============================================================================
