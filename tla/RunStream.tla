------------------------------ MODULE RunStream ------------------------------
(***************************************************************************)
(* The manager of plugin streams: pkg/services/live/runstream/manager.go.  *)
(*                                                                         *)
(* A request r is one call of SubmitStream.  The Run loop turns every      *)
(* request it receives into a goroutine registerStream(r), which either    *)
(* answers with the stream already on the channel or becomes the runStream *)
(* goroutine of a new stream and starts a watchStream goroutine beside it. *)
(* The new stream is named after the request that opened it, and so are    *)
(* its context, its cancelFn and its CloseCh.  Both goroutines of a stream *)
(* end it through stopStream, which finds the entry to delete by CHANNEL:  *)
(* the entry may belong to another stream by then.                         *)
(*                                                                         *)
(* Go steps are atomic between two synchronisation points: a critical      *)
(* section of s.mu, a channel operation, a select, a call to the plugin.   *)
(***************************************************************************)
EXTENDS Naturals, FiniteSets

CONSTANTS Requests,    \* the calls of SubmitStream
          Channels,    \* the live channels they name
          MaxChecks,   \* Manager.maxChecks
          NoRequest    \* no stream: an absent map entry, an absent answer

ASSUME RunStreamAssumption ==
  /\ MaxChecks \in Nat \ {0}
  /\ NoRequest \notin Requests

VARIABLES
  channel,        \* channel[r]: the channel r asks for, never changed
  sub,            \* sub[r]: where the caller of SubmitStream stands
  proc,           \* proc[r]: the goroutine registerStream, then runStream
  answer,         \* answer[r]: the stream whose CloseCh registerStream sends back
  watch,          \* watch[r]: the goroutine watchStream of stream r
  checks,         \* checks[r]: its numNoSubscribersChecks
  streams,        \* Manager.streams, by channel
  cancelled,      \* cancelled[r]: the cancelFn of stream r was called
  closed,         \* closed[r]: the CloseCh of stream r is closed
  baseCancelled,  \* the context given to Run is cancelled
  closedCh,       \* Manager.closedCh is closed, Run has returned
  registerClosed, \* Manager.registerCh is closed
  panicked        \* a goroutine panicked and took the process with it

callerVars  == <<channel, sub>>
streamVars  == <<streams, cancelled, closed>>
managerVars == <<baseCancelled, closedCh, registerClosed>>
vars == <<channel, sub, proc, answer, watch, checks, streams, cancelled, closed,
          baseCancelled, closedCh, registerClosed, panicked>>

(* "over": the call failed or was given up, or the subscription has ended.  *)
SubStates   == {"idle", "sending", "waiting", "ok", "errClosed", "subscribed", "over"}
ProcStates  == {"none", "start", "respond", "first", "retry", "delay", "plugin",
                "running", "stop", "cancel", "done"}
WatchStates == {"none", "select", "stop", "done"}

-----------------------------------------------------------------------------
Init ==
  /\ channel \in [Requests -> Channels]
  /\ sub = [r \in Requests |-> "idle"]
  /\ proc = [r \in Requests |-> "none"]
  /\ answer = [r \in Requests |-> NoRequest]
  /\ watch = [r \in Requests |-> "none"]
  /\ checks = [r \in Requests |-> 0]
  /\ streams = [c \in Channels |-> NoRequest]
  /\ cancelled = [r \in Requests |-> FALSE]
  /\ closed = [r \in Requests |-> FALSE]
  /\ baseCancelled = FALSE
  /\ closedCh = FALSE
  /\ registerClosed = FALSE
  /\ panicked = FALSE

(* ctx.Done of a stream: its own cancelFn, or the context of Run above it. *)
Cancelled(r) == cancelled[r] \/ baseCancelled

(* GetNumLocalSubscribers: the callers whose subscription is in the hub. *)
Subscribers(c) == {r \in Requests : channel[r] = c /\ sub[r] = "subscribed"}

-----------------------------------------------------------------------------
(* SubmitStream, in the goroutine of the caller. *)

SetSub(r, from, to) ==
  /\ sub[r] = from
  /\ sub' = [sub EXCEPT ![r] = to]

Submit(r) ==
  /\ ~panicked
  /\ SetSub(r, "idle", "sending")
  /\ UNCHANGED <<channel, proc, answer, watch, checks, streamVars, managerVars, panicked>>

(* isResubmit: the plugin context is resolved again and cannot be had. *)
Refuse(r) ==
  /\ ~panicked
  /\ SetSub(r, "idle", "over")
  /\ UNCHANGED <<channel, proc, answer, watch, checks, streamVars, managerVars, panicked>>

(* <-ctx.Done in either select of SubmitStream. *)
GiveUp(r) ==
  /\ ~panicked
  /\ \E from \in {"sending", "waiting"} : SetSub(r, from, "over")
  /\ UNCHANGED <<channel, proc, answer, watch, checks, streamVars, managerVars, panicked>>

(* <-s.closedCh in the first select: the caller closes registerCh, which     *)
(* panics when it is closed already.                                       *)
SubmitClosed(r) ==
  /\ ~panicked
  /\ closedCh
  /\ SetSub(r, "sending", "errClosed")
  /\ registerClosed' = TRUE
  /\ panicked' = registerClosed
  /\ UNCHANGED <<channel, proc, answer, watch, checks, streamVars, baseCancelled, closedCh>>

(* registerCh <- req on the closed channel: a ready case, and it panics. *)
SendOnClosed(r) ==
  /\ ~panicked
  /\ sub[r] = "sending"
  /\ registerClosed
  /\ panicked' = TRUE
  /\ UNCHANGED <<callerVars, proc, answer, watch, checks, streamVars, managerVars>>

(* <-req.responseCh in the second select. *)
Return(r) ==
  /\ ~panicked
  /\ proc[r] \notin {"none", "start", "respond"}
  /\ SetSub(r, "waiting", "ok")
  /\ UNCHANGED <<channel, proc, answer, watch, checks, streamVars, managerVars, panicked>>

(* <-s.closedCh in the second select. *)
ReturnClosed(r) ==
  /\ ~panicked
  /\ closedCh
  /\ SetSub(r, "waiting", "errClosed")
  /\ UNCHANGED <<channel, proc, answer, watch, checks, streamVars, managerVars, panicked>>

(* The live server adds the subscription once OnSubscribe has returned. *)
Subscribe(r) ==
  /\ ~panicked
  /\ SetSub(r, "ok", "subscribed")
  /\ UNCHANGED <<channel, proc, answer, watch, checks, streamVars, managerVars, panicked>>

Unsubscribe(r) ==
  /\ ~panicked
  /\ SetSub(r, "subscribed", "over")
  /\ UNCHANGED <<channel, proc, answer, watch, checks, streamVars, managerVars, panicked>>

-----------------------------------------------------------------------------
(* Run *)

Accept(r) ==
  /\ ~panicked
  /\ ~closedCh
  /\ SetSub(r, "sending", "waiting")
  /\ proc' = [proc EXCEPT ![r] = "start"]
  /\ UNCHANGED <<channel, answer, watch, checks, streamVars, managerVars, panicked>>

CancelBase ==
  /\ ~panicked
  /\ ~baseCancelled
  /\ baseCancelled' = TRUE
  /\ UNCHANGED <<callerVars, proc, answer, watch, checks, streamVars, closedCh,
                 registerClosed, panicked>>

(* Mutant: Run closes registerCh itself when it returns. *)
RunExitClosesRegister ==
  /\ ~panicked
  /\ baseCancelled
  /\ ~closedCh
  /\ closedCh' = TRUE
  /\ registerClosed' = TRUE
  /\ UNCHANGED <<callerVars, proc, answer, watch, checks, streamVars, baseCancelled, panicked>>

RunExit ==
  /\ ~panicked
  /\ baseCancelled
  /\ ~closedCh
  /\ closedCh' = TRUE
  /\ UNCHANGED <<callerVars, proc, answer, watch, checks, streamVars, baseCancelled,
                 registerClosed, panicked>>

-----------------------------------------------------------------------------
(* registerStream *)

(* Mutant: the lookup is left out. *)
RegisterAlways(r) ==
  /\ ~panicked
  /\ proc[r] = "start"
  /\ proc' = [proc EXCEPT ![r] = "respond"]
  /\ answer' = [answer EXCEPT ![r] = r]
  /\ streams' = [streams EXCEPT ![channel[r]] = r]
  /\ UNCHANGED <<callerVars, watch, checks, cancelled, closed, managerVars, panicked>>

(* The critical section: the lookup of the channel, and the insertion. *)
Register(r) ==
  LET q == streams[channel[r]] IN
  /\ ~panicked
  /\ proc[r] = "start"
  /\ proc' = [proc EXCEPT ![r] = "respond"]
  /\ \/ /\ q # NoRequest
        /\ answer' = [answer EXCEPT ![r] = q]
        /\ streams' = streams
     \/ /\ q = NoRequest
        /\ answer' = [answer EXCEPT ![r] = r]
        /\ streams' = [streams EXCEPT ![channel[r]] = r]
  /\ UNCHANGED <<callerVars, watch, checks, cancelled, closed, managerVars, panicked>>

(* Mutant: only the goroutine of a new stream sends a response. *)
RespondNewOnly(r) ==
  /\ ~panicked
  /\ proc[r] = "respond"
  /\ answer[r] = r
  /\ proc' = [proc EXCEPT ![r] = "first"]
  /\ watch' = [watch EXCEPT ![r] = "select"]
  /\ UNCHANGED <<callerVars, answer, checks, streamVars, managerVars, panicked>>

(* responseCh holds one response, so sending it never blocks. *)
Respond(r) ==
  /\ ~panicked
  /\ proc[r] = "respond"
  /\ \/ /\ answer[r] # r
        /\ proc' = [proc EXCEPT ![r] = "done"]
        /\ watch' = watch
     \/ /\ answer[r] = r
        /\ proc' = [proc EXCEPT ![r] = "first"]
        /\ watch' = [watch EXCEPT ![r] = "select"]
  /\ UNCHANGED <<callerVars, answer, checks, streamVars, managerVars, panicked>>

-----------------------------------------------------------------------------
(* Mutant: the entry stays in the map. *)
StopStreamNoDelete(r) ==
  LET q == streams[channel[r]] IN
  IF q = NoRequest
  THEN UNCHANGED <<streamVars, panicked>>
  ELSE /\ streams' = streams
       /\ cancelled' = [cancelled EXCEPT ![r] = TRUE]
       /\ panicked' = closed[q]
       /\ closed' = [closed EXCEPT ![q] = TRUE]

(* stopStream, called with the cancelFn of r: the entry deleted and the      *)
(* CloseCh closed are those of whichever stream is on the channel.         *)
StopStream(r) ==
  LET q == streams[channel[r]] IN
  IF q = NoRequest
  THEN UNCHANGED <<streamVars, panicked>>
  ELSE /\ streams' = [streams EXCEPT ![channel[r]] = NoRequest]
       /\ cancelled' = [cancelled EXCEPT ![r] = TRUE]
       /\ panicked' = closed[q]
       /\ closed' = [closed EXCEPT ![q] = TRUE]

-----------------------------------------------------------------------------
(* runStream *)

SetProc(r, from, to) ==
  /\ proc[r] = from
  /\ proc' = [proc EXCEPT ![r] = to]

(* The head of the loop: ctx.Done, or go on; "retry" is isReconnect. *)
RunHead(r) ==
  /\ ~panicked
  /\ \/ Cancelled(r)  /\ \E from \in {"first", "retry"} : SetProc(r, from, "stop")
     \/ ~Cancelled(r) /\ (SetProc(r, "first", "running") \/ SetProc(r, "retry", "delay"))
  /\ UNCHANGED <<callerVars, answer, watch, checks, streamVars, managerVars, panicked>>

(* The select on ctx.Done and time.After(delay). *)
RunDelay(r) ==
  /\ ~panicked
  /\ \/ Cancelled(r) /\ SetProc(r, "delay", "stop")
     \/ SetProc(r, "delay", "plugin")
  /\ UNCHANGED <<callerVars, answer, watch, checks, streamVars, managerVars, panicked>>

(* GetPluginContext: found, failed, or not found any more. *)
RunPluginContext(r) ==
  /\ ~panicked
  /\ \E to \in {"running", "retry", "stop"} : SetProc(r, "plugin", to)
  /\ UNCHANGED <<callerVars, answer, watch, checks, streamVars, managerVars, panicked>>

(* RunStream of the plugin returns nil, or an error. *)
RunReturn(r) ==
  /\ ~panicked
  /\ \/ SetProc(r, "running", "stop")
     \/ ~Cancelled(r) /\ SetProc(r, "running", "retry")
  /\ UNCHANGED <<callerVars, answer, watch, checks, streamVars, managerVars, panicked>>

(* Mutant: a stream whose context is done leaves without stopStream. *)
RunStopUnlessCancelled(r) ==
  /\ ~panicked
  /\ SetProc(r, "stop", "cancel")
  /\ IF Cancelled(r) THEN UNCHANGED <<streamVars, panicked>> ELSE StopStream(r)
  /\ UNCHANGED <<callerVars, answer, watch, checks, managerVars>>

(* The deferred stopStream of runStream. *)
RunStop(r) ==
  /\ ~panicked
  /\ SetProc(r, "stop", "cancel")
  /\ StopStream(r)
  /\ UNCHANGED <<callerVars, answer, watch, checks, managerVars>>

(* The deferred cancel of registerStream. *)
RunCancel(r) ==
  /\ ~panicked
  /\ SetProc(r, "cancel", "done")
  /\ cancelled' = [cancelled EXCEPT ![r] = TRUE]
  /\ UNCHANGED <<callerVars, answer, watch, checks, streams, closed, managerVars, panicked>>

-----------------------------------------------------------------------------
(* watchStream *)

(* Mutant: the context is looked at only after a tick without subscribers. *)
WatchDoneIdle(r) ==
  /\ ~panicked
  /\ watch[r] = "select"
  /\ Cancelled(r)
  /\ checks[r] > 0
  /\ watch' = [watch EXCEPT ![r] = "done"]
  /\ UNCHANGED <<callerVars, proc, answer, checks, streamVars, managerVars, panicked>>

WatchDone(r) ==
  /\ ~panicked
  /\ watch[r] = "select"
  /\ Cancelled(r)
  /\ watch' = [watch EXCEPT ![r] = "done"]
  /\ UNCHANGED <<callerVars, proc, answer, checks, streamVars, managerVars, panicked>>

(* Mutants: one check too many; the watcher returns where it should go on. *)
WatchTickOneMore(r) ==
  /\ ~panicked
  /\ watch[r] = "select"
  /\ \/ /\ Subscribers(channel[r]) # {}
        /\ checks' = [checks EXCEPT ![r] = 0]
        /\ watch' = watch
     \/ /\ Subscribers(channel[r]) = {}
        /\ checks' = [checks EXCEPT ![r] = @ + 1]
        /\ watch' = [watch EXCEPT ![r] = IF checks[r] + 1 > MaxChecks THEN "stop" ELSE @]
  /\ UNCHANGED <<callerVars, proc, answer, streamVars, managerVars, panicked>>

WatchTickReturns(r) ==
  /\ ~panicked
  /\ watch[r] = "select"
  /\ \/ /\ Subscribers(channel[r]) # {}
        /\ checks' = [checks EXCEPT ![r] = 0]
        /\ watch' = [watch EXCEPT ![r] = "done"]
     \/ /\ Subscribers(channel[r]) = {}
        /\ checks' = [checks EXCEPT ![r] = @ + 1]
        /\ watch' = [watch EXCEPT ![r] = IF checks[r] + 1 >= MaxChecks THEN "stop" ELSE @]
  /\ UNCHANGED <<callerVars, proc, answer, streamVars, managerVars, panicked>>

(* A tick whose presence query succeeds; one that fails changes nothing.   *)
(* The select may take it although the context is cancelled.               *)
WatchTick(r) ==
  /\ ~panicked
  /\ watch[r] = "select"
  /\ \/ /\ Subscribers(channel[r]) # {}
        /\ checks' = [checks EXCEPT ![r] = 0]
        /\ watch' = watch
     \/ /\ Subscribers(channel[r]) = {}
        /\ checks' = [checks EXCEPT ![r] = @ + 1]
        /\ watch' = [watch EXCEPT ![r] = IF checks[r] + 1 >= MaxChecks THEN "stop" ELSE @]
  /\ UNCHANGED <<callerVars, proc, answer, streamVars, managerVars, panicked>>

WatchStop(r) ==
  /\ ~panicked
  /\ watch[r] = "stop"
  /\ watch' = [watch EXCEPT ![r] = "done"]
  /\ StopStream(r)
  /\ UNCHANGED <<callerVars, proc, answer, checks, managerVars>>

-----------------------------------------------------------------------------
CallerNext(r) ==
  \/ Submit(r) \/ Refuse(r) \/ GiveUp(r) \/ SubmitClosed(r) \/ SendOnClosed(r)
  \/ Return(r) \/ ReturnClosed(r) \/ Subscribe(r) \/ Unsubscribe(r)

StreamNext(r) ==
  \/ Accept(r) \/ Register(r) \/ Respond(r)
  \/ RunHead(r) \/ RunDelay(r) \/ RunPluginContext(r) \/ RunReturn(r)
  \/ RunStop(r) \/ RunCancel(r)
  \/ WatchDone(r) \/ WatchTick(r) \/ WatchStop(r)

Next ==
  \/ CancelBase
  \/ RunExit
  \/ \E r \in Requests : CallerNext(r) \/ StreamNext(r)

Spec == Init /\ [][Next]_vars

-----------------------------------------------------------------------------
(* Fairness: every goroutine that can go on does (the Go scheduler), the     *)
(* select of watchStream is not always decided against ctx.Done, presence  *)
(* queries do not fail for ever, and RunStream of the plugin returns once  *)
(* its context is cancelled.  Nothing makes callers submit, subscribe or   *)
(* leave, and nothing makes a plugin stream end by itself.                 *)

Submitting(r) == SubmitClosed(r) \/ SendOnClosed(r) \/ Return(r) \/ ReturnClosed(r)

Running(r) ==
  \/ Register(r) \/ Respond(r) \/ RunHead(r) \/ RunDelay(r) \/ RunPluginContext(r)
  \/ Cancelled(r) /\ RunReturn(r)
  \/ RunStop(r) \/ RunCancel(r)

Fairness ==
  /\ WF_vars(RunExit)
  /\ \A r \in Requests :
       /\ WF_vars(Submitting(r))
       /\ WF_vars(Accept(r))
       /\ WF_vars(Running(r))
       /\ WF_vars(WatchDone(r))
       /\ WF_vars(WatchTick(r) \/ WatchStop(r))

FairSpec == Spec /\ Fairness

-----------------------------------------------------------------------------
TypeOK ==
  /\ channel \in [Requests -> Channels]
  /\ sub \in [Requests -> SubStates]
  /\ proc \in [Requests -> ProcStates]
  /\ answer \in [Requests -> Requests \cup {NoRequest}]
  /\ watch \in [Requests -> WatchStates]
  /\ checks \in [Requests -> 0..MaxChecks]
  /\ streams \in [Channels -> Requests \cup {NoRequest}]
  /\ cancelled \in [Requests -> BOOLEAN]
  /\ closed \in [Requests -> BOOLEAN]
  /\ baseCancelled \in BOOLEAN
  /\ closedCh \in BOOLEAN
  /\ registerClosed \in BOOLEAN
  /\ panicked \in BOOLEAN

(* The goroutine of stream r has not run its deferred stopStream yet. *)
Unstopped(r) == proc[r] \in {"respond", "first", "retry", "delay", "plugin", "running", "stop"}

(* The stream in the map, the one later callers are told exists, is alive: *)
(* its goroutine has its deferred stopStream before it, its own context is *)
(* not cancelled and its CloseCh is open, whatever stopStream calls of     *)
(* earlier streams on the channel ran in between.                          *)
EntryIsLive ==
  \A c \in Channels : LET q == streams[c] IN
    q # NoRequest => /\ channel[q] = c
                     /\ answer[q] = q
                     /\ Unstopped(q)
                     /\ ~cancelled[q]
                     /\ ~closed[q]

(* A stream in the map has its watcher, unless the manager shuts down: no   *)
(* entry is left that nobody checks for subscribers.                       *)
EntryIsWatched ==
  \A c \in Channels : LET q == streams[c] IN
    q # NoRequest => baseCancelled \/ proc[q] = "respond" \/ watch[q] \in {"select", "stop"}

(* By the time the goroutine of a stream has gone, its CloseCh is closed:  *)
(* whoever waits on CloseNotify is woken, also when the manager shut down  *)
(* or when another stream's stopStream came first.                         *)
ExitedIsNotified ==
  \A r \in Requests : answer[r] = r /\ proc[r] \in {"cancel", "done"} => closed[r]

(* A CloseCh is closed only together with a cancelFn of a stream of the    *)
(* same channel, though not always its own stream's.                       *)
CloseNeedsCancel ==
  \A r \in Requests : closed[r] =>
    \E q \in Requests : channel[q] = channel[r] /\ answer[q] = q /\ cancelled[q]

(* The process panics only on submissions to a manager that has shut down, *)
(* and only when one such submission has been refused already.  No CloseCh *)
(* is ever closed twice, which would panic as well.                        *)
PanicNeedsLateSubmit ==
  panicked \/ registerClosed =>
    closedCh /\ \E r \in Requests : sub[r] = "errClosed"

(* The manager implements the registry: see StreamRegistry.                *)
Registry == INSTANCE StreamRegistry WITH
  phase  <- [r \in Requests |-> IF closed[r] THEN "over"
                               ELSE IF answer[r] = r THEN "open" ELSE "new"],
  notify <- answer

ImplementsRegistry == Registry!Spec

(* Every call of SubmitStream returns, whatever the manager is doing.      *)
SubmitReturns ==
  \A r \in Requests :
    sub[r] \in {"sending", "waiting"} ~> (sub[r] \notin {"sending", "waiting"} \/ panicked)

(* Once the context of Run is cancelled, every goroutine ends for good.    *)
ShutdownDrains ==
  <>baseCancelled =>
    <>[](panicked \/ \A r \in Requests : /\ proc[r] \in {"none", "done"}
                                        /\ watch[r] \in {"none", "done"})

(* A channel without subscribers from some time on loses its map entry.    *)
IdleEntryRemoved ==
  \A c \in Channels :
    <>[](Subscribers(c) = {}) => <>[](panicked \/ streams[c] = NoRequest)

-----------------------------------------------------------------------------
(* What a comment of manager.go says and the code does not keep.           *)

(* Line 296: CloseNotify is closed as soon as the stream cleanly exited.   *)
CloseNotifyOnExit ==
  \A r \in Requests : closed[r] => Cancelled(r) \/ proc[r] \in {"stop", "cancel", "done"}
=============================================================================
