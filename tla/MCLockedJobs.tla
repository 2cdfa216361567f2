---------------------------- MODULE MCLockedJobs ----------------------------
(* The environments in which the jobs of Twilio and DIDWW are run. *)
EXTENDS LockedJobs, TLC
CONSTANTS c1, c2, w1, w2, w3

Faults(loss, late, crash, dberr) ==
  ("loss" :> loss) @@ ("late" :> late) @@ ("crash" :> crash) @@ ("dberr" :> dberr)
Env(f, cs, as, ws, faults) ==
  [family |-> f, clients |-> cs, asks |-> as, workers |-> ws, budget |-> faults]

AllAsks == {"countries", "numbers", "poll", "wipe"}

\* Overlapping requests with a late heartbeat; one request thread with a lost
\* session and a late heartbeat, or a restart and a database error; DIDWW, with
\* overlapping requests and a lost session, or a restart.
Worlds == {
  Env("twilio", {c1, c2}, {"countries", "numbers"}, {w1, w2}, Faults(0, 0, 0, 0)),
  Env("twilio", {c1}, {"countries", "numbers", "poll"}, {w1, w2}, Faults(1, 1, 0, 0)),
  Env("twilio", {c1}, AllAsks, {w1, w2, w3}, Faults(0, 0, 1, 1)),
  Env("didww", {c1, c2}, {"groups"}, {w1, w2}, Faults(1, 0, 0, 0)),
  Env("didww", {c1}, {"groups"}, {w1, w2}, Faults(0, 0, 1, 1))}
=============================================================================
