--------------------------- MODULE StreamRegistry ---------------------------
(***************************************************************************)
(* What the run-stream manager promises its callers, without goroutines,   *)
(* contexts or a map: every request gets the CloseNotify of a stream that  *)
(* is open on its channel at that moment, its own or an earlier one's; a   *)
(* channel has at most one open stream; a stream opens once and is closed  *)
(* at most once.                                                           *)
(***************************************************************************)
CONSTANTS Requests, Channels, NoRequest

VARIABLES channel,  \* the channel each request asks for
          phase,    \* the stream a request opens: "new", "open" or "over"
          notify    \* the stream whose CloseNotify the request was given

vars == <<channel, phase, notify>>

Init ==
  /\ channel \in [Requests -> Channels]
  /\ phase = [r \in Requests |-> "new"]
  /\ notify = [r \in Requests |-> NoRequest]

OpenOn(c) == {q \in Requests : channel[q] = c /\ phase[q] = "open"}

Open(r) ==
  /\ notify[r] = NoRequest
  /\ phase[r] = "new"
  /\ OpenOn(channel[r]) = {}
  /\ phase' = [phase EXCEPT ![r] = "open"]
  /\ notify' = [notify EXCEPT ![r] = r]
  /\ UNCHANGED channel

Join(r) ==
  /\ notify[r] = NoRequest
  /\ \E q \in OpenOn(channel[r]) : notify' = [notify EXCEPT ![r] = q]
  /\ UNCHANGED <<channel, phase>>

Close(r) ==
  /\ phase[r] = "open"
  /\ phase' = [phase EXCEPT ![r] = "over"]
  /\ UNCHANGED <<channel, notify>>

Next == \E r \in Requests : Open(r) \/ Join(r) \/ Close(r)

Spec == Init /\ [][Next]_vars
=============================================================================
