----------------------------- MODULE ServerLock -----------------------------
(***************************************************************************)
(* What LockAndExecute and LockAndRelease of pkg/infra/serverlock share:   *)
(* the servers, and where each is in its call.                             *)
(***************************************************************************)
CONSTANTS Servers,
          Interval  \* maxInterval, in seconds in LockAndExecute

VARIABLE pc  \* per server: its place in the call, or "idle"

Goto(s, from, to) ==
  /\ pc[s] = from
  /\ pc' = [pc EXCEPT ![s] = to]
=============================================================================
