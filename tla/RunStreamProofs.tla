--------------------------- MODULE RunStreamProofs ---------------------------
(***************************************************************************)
(* Theorems about RunStream, for any number of requests and channels.      *)
(* The inductive invariant adds to the safety invariants where the         *)
(* goroutines of a request stand relative to each other (Places) and that  *)
(* an open CloseCh is the one of its channel's map entry (OpenIsEntry).    *)
(***************************************************************************)
EXTENDS RunStream, TLAPS

(* Where the caller, registerStream and watchStream of a request may be.   *)
Places ==
  \A r \in Requests :
    /\ sub[r] \in {"idle", "sending"} => proc[r] = "none"
    /\ answer[r] = NoRequest <=> proc[r] \in {"none", "start"}
    /\ proc[r] \notin {"none", "start", "respond", "done"} => answer[r] = r
    /\ watch[r] = "none" \/ (answer[r] = r /\ proc[r] \notin {"none", "start", "respond"})
    /\ watch[r] \in {"none", "select"} => checks[r] < MaxChecks

(* A CloseCh that was made and not closed is reachable through the map.    *)
OpenIsEntry ==
  \A r \in Requests :
    /\ answer[r] = r /\ ~closed[r] => streams[channel[r]] = r
    /\ closed[r] \/ cancelled[r] => answer[r] = r

IInv ==
  /\ TypeOK
  /\ Places
  /\ OpenIsEntry
  /\ EntryIsLive
  /\ EntryIsWatched
  /\ CloseNeedsCancel
  /\ PanicNeedsLateSubmit

-----------------------------------------------------------------------------
(* Nothing is registered at first.                                         *)
LEMMA InitIInv == Init => IInv
  <1> SUFFICES ASSUME Init PROVE IInv
    OBVIOUS
  <1> USE RunStreamAssumption DEF Init
  <1>1. TypeOK
    <2>1. 0 \in 0..MaxChecks
      OBVIOUS
    <2>2. checks \in [Requests -> 0..MaxChecks]
      BY <2>1, Zenon
    <2> QED
      BY <2>2, Zenon DEF TypeOK, SubStates, ProcStates, WatchStates
  <1>2. Places
    BY DEF Places
  <1>3. OpenIsEntry /\ CloseNeedsCancel /\ PanicNeedsLateSubmit
    BY DEF OpenIsEntry, CloseNeedsCancel, PanicNeedsLateSubmit
  <1>4. EntryIsLive /\ EntryIsWatched
    BY DEF EntryIsLive, EntryIsWatched
  <1> QED
    BY <1>1, <1>2, <1>3, <1>4 DEF IInv

(* One lemma per kind of step, one step of the proof per part disturbed.   *)

LEMMA CallerStep ==
  ASSUME IInv, NEW r \in Requests,
         \/ Submit(r) \/ Refuse(r) \/ GiveUp(r) \/ Return(r) \/ ReturnClosed(r)
         \/ Subscribe(r) \/ Unsubscribe(r)
  PROVE  IInv'
  <1> USE DEF Submit, Refuse, GiveUp, Return, ReturnClosed, Subscribe, Unsubscribe, SetSub,
          callerVars, streamVars, managerVars
  <1>1. TypeOK'
    BY DEF IInv, TypeOK, SubStates, ProcStates, WatchStates
  <1>2. Places'
    BY DEF IInv, Places, TypeOK
  <1>3. PanicNeedsLateSubmit'
    BY DEF IInv, PanicNeedsLateSubmit, TypeOK
  <1>4. OpenIsEntry' /\ EntryIsLive' /\ EntryIsWatched' /\ CloseNeedsCancel'
    BY DEF IInv, OpenIsEntry, EntryIsLive, Unstopped, EntryIsWatched, CloseNeedsCancel
  <1> QED
    BY <1>1, <1>2, <1>3, <1>4 DEF IInv

LEMMA SubmitClosedStep ==
  ASSUME IInv, NEW r \in Requests, SubmitClosed(r)
  PROVE  IInv'
  <1> USE DEF SubmitClosed, SetSub, callerVars, streamVars, managerVars
  <1>1. TypeOK'
    BY DEF IInv, TypeOK, SubStates, ProcStates, WatchStates
  <1>2. Places'
    BY DEF IInv, Places
  <1>3. PanicNeedsLateSubmit'
    BY DEF IInv, PanicNeedsLateSubmit, TypeOK
  <1>4. OpenIsEntry' /\ EntryIsLive' /\ EntryIsWatched' /\ CloseNeedsCancel'
    BY DEF IInv, OpenIsEntry, EntryIsLive, Unstopped, EntryIsWatched, CloseNeedsCancel
  <1> QED
    BY <1>1, <1>2, <1>3, <1>4 DEF IInv

LEMMA SendOnClosedStep ==
  ASSUME IInv, NEW r \in Requests, SendOnClosed(r)
  PROVE  IInv'
  <1> USE DEF SendOnClosed, callerVars, streamVars, managerVars
  <1>1. TypeOK'
    BY DEF IInv, TypeOK, SubStates, ProcStates, WatchStates
  <1>2. PanicNeedsLateSubmit'
    BY DEF IInv, PanicNeedsLateSubmit
  <1>3. Places' /\ OpenIsEntry' /\ EntryIsLive' /\ EntryIsWatched' /\ CloseNeedsCancel'
    BY DEF IInv, Places, OpenIsEntry, EntryIsLive, Unstopped, EntryIsWatched, CloseNeedsCancel
  <1> QED
    BY <1>1, <1>2, <1>3 DEF IInv

LEMMA AcceptStep ==
  ASSUME IInv, NEW r \in Requests, Accept(r)
  PROVE  IInv'
  <1> USE DEF Accept, SetSub, callerVars, streamVars, managerVars
  <1>1. TypeOK'
    BY DEF IInv, TypeOK, SubStates, ProcStates, WatchStates
  <1>2. Places'
    BY DEF IInv, Places, TypeOK
  <1>3. EntryIsLive'
    BY DEF IInv, EntryIsLive, Unstopped, TypeOK, Places
  <1>4. EntryIsWatched'
    BY DEF IInv, EntryIsWatched, TypeOK, Places
  <1>5. PanicNeedsLateSubmit'
    BY DEF IInv, PanicNeedsLateSubmit
  <1>6. OpenIsEntry' /\ CloseNeedsCancel'
    BY DEF IInv, OpenIsEntry, CloseNeedsCancel
  <1> QED
    BY <1>1, <1>2, <1>3, <1>4, <1>5, <1>6 DEF IInv

LEMMA RegisterStep ==
  ASSUME IInv, NEW r \in Requests, Register(r)
  PROVE  IInv'
  <1> USE DEF Register, callerVars, streamVars, managerVars
  <1>1. TypeOK'
    BY RunStreamAssumption DEF IInv, TypeOK, SubStates, ProcStates, WatchStates
  <1>2. Places'
    BY RunStreamAssumption DEF IInv, Places, TypeOK
  <1>3. OpenIsEntry'
    BY RunStreamAssumption DEF IInv, OpenIsEntry, TypeOK, Places
  <1>4. EntryIsLive'
    BY RunStreamAssumption DEF IInv, EntryIsLive, Unstopped, TypeOK, Places, OpenIsEntry
  <1>5. EntryIsWatched'
    BY RunStreamAssumption DEF IInv, EntryIsWatched, TypeOK
  <1>6. CloseNeedsCancel'
    BY RunStreamAssumption DEF IInv, CloseNeedsCancel, TypeOK, Places
  <1>7. PanicNeedsLateSubmit'
    BY DEF IInv, PanicNeedsLateSubmit
  <1> QED
    BY <1>1, <1>2, <1>3, <1>4, <1>5, <1>6, <1>7 DEF IInv

LEMMA RespondStep ==
  ASSUME IInv, NEW r \in Requests, Respond(r)
  PROVE  IInv'
  <1> USE DEF Respond, callerVars, streamVars, managerVars
  <1>1. TypeOK'
    BY DEF IInv, TypeOK, SubStates, ProcStates, WatchStates
  <1>2. Places'
    BY DEF IInv, Places, TypeOK
  <1>3. EntryIsLive'
    BY DEF IInv, EntryIsLive, Unstopped, TypeOK
  <1>4. EntryIsWatched'
    BY DEF IInv, EntryIsWatched, TypeOK, Places, EntryIsLive, Unstopped, OpenIsEntry
  <1>5. OpenIsEntry' /\ CloseNeedsCancel' /\ PanicNeedsLateSubmit'
    BY DEF IInv, OpenIsEntry, CloseNeedsCancel, PanicNeedsLateSubmit
  <1> QED
    BY <1>1, <1>2, <1>3, <1>4, <1>5 DEF IInv

LEMMA RunLoopStep ==
  ASSUME IInv, NEW r \in Requests,
         RunHead(r) \/ RunDelay(r) \/ RunPluginContext(r) \/ RunReturn(r)
  PROVE  IInv'
  <1> USE DEF RunHead, RunDelay, RunPluginContext, RunReturn, SetProc, callerVars, streamVars,
          managerVars
  <1>1. TypeOK'
    BY DEF IInv, TypeOK, SubStates, ProcStates, WatchStates
  <1>2. Places'
    BY DEF IInv, Places, TypeOK
  <1>3. EntryIsLive'
    BY DEF IInv, EntryIsLive, Unstopped, TypeOK
  <1>4. EntryIsWatched'
    BY DEF IInv, EntryIsWatched, TypeOK
  <1>5. OpenIsEntry' /\ CloseNeedsCancel' /\ PanicNeedsLateSubmit'
    BY DEF IInv, OpenIsEntry, CloseNeedsCancel, PanicNeedsLateSubmit
  <1> QED
    BY <1>1, <1>2, <1>3, <1>4, <1>5 DEF IInv

LEMMA RunStopStep ==
  ASSUME IInv, NEW r \in Requests, RunStop(r)
  PROVE  IInv'
  <1> USE DEF RunStop, SetProc, StopStream, callerVars, streamVars, managerVars
  <1>1. TypeOK'
    BY RunStreamAssumption DEF IInv, TypeOK, SubStates, ProcStates, WatchStates
  <1>2. Places'
    BY RunStreamAssumption DEF IInv, Places
  <1>3. OpenIsEntry'
    BY RunStreamAssumption DEF IInv, OpenIsEntry, TypeOK, Places, EntryIsLive, Unstopped
  <1>4. EntryIsLive'
    BY RunStreamAssumption DEF IInv, EntryIsLive, Unstopped, TypeOK
  <1>5. EntryIsWatched'
    BY RunStreamAssumption DEF IInv, EntryIsWatched, TypeOK
  <1>6. CloseNeedsCancel'
    BY RunStreamAssumption DEF IInv, CloseNeedsCancel, TypeOK, Places, EntryIsLive, Unstopped, OpenIsEntry
  <1>7. PanicNeedsLateSubmit'
    BY RunStreamAssumption DEF IInv, PanicNeedsLateSubmit, TypeOK, Places, EntryIsLive, Unstopped, OpenIsEntry
  <1> QED
    BY <1>1, <1>2, <1>3, <1>4, <1>5, <1>6, <1>7 DEF IInv

LEMMA RunCancelStep ==
  ASSUME IInv, NEW r \in Requests, RunCancel(r)
  PROVE  IInv'
  <1> USE DEF RunCancel, SetProc, callerVars, streamVars, managerVars
  <1>1. TypeOK'
    BY DEF IInv, TypeOK, SubStates, ProcStates, WatchStates
  <1>2. Places'
    BY DEF IInv, Places
  <1>3. OpenIsEntry'
    BY DEF IInv, OpenIsEntry, TypeOK, Places
  <1>4. EntryIsLive'
    BY DEF IInv, EntryIsLive, Unstopped
  <1>5. EntryIsWatched'
    BY DEF IInv, EntryIsWatched
  <1>6. CloseNeedsCancel'
    BY DEF IInv, CloseNeedsCancel
  <1>7. PanicNeedsLateSubmit'
    BY DEF IInv, PanicNeedsLateSubmit
  <1> QED
    BY <1>1, <1>2, <1>3, <1>4, <1>5, <1>6, <1>7 DEF IInv

LEMMA WatchDoneStep ==
  ASSUME IInv, NEW r \in Requests, WatchDone(r)
  PROVE  IInv'
  <1> USE DEF WatchDone, Cancelled, callerVars, streamVars, managerVars
  <1>1. TypeOK'
    BY DEF IInv, TypeOK, SubStates, ProcStates, WatchStates
  <1>2. Places'
    BY DEF IInv, Places
  <1>3. EntryIsWatched'
    BY DEF IInv, EntryIsWatched, TypeOK, Places, EntryIsLive, Unstopped, OpenIsEntry
  <1>4. OpenIsEntry' /\ EntryIsLive' /\ CloseNeedsCancel' /\ PanicNeedsLateSubmit'
    BY DEF IInv, OpenIsEntry, EntryIsLive, Unstopped, CloseNeedsCancel, PanicNeedsLateSubmit
  <1> QED
    BY <1>1, <1>2, <1>3, <1>4 DEF IInv

LEMMA WatchTickStep ==
  ASSUME IInv, NEW r \in Requests, WatchTick(r)
  PROVE  IInv'
  <1> USE DEF WatchTick, callerVars, streamVars, managerVars
  <1>1. TypeOK'
    BY RunStreamAssumption DEF IInv, TypeOK, SubStates, ProcStates, WatchStates, Places
  <1>2. Places'
    BY RunStreamAssumption DEF IInv, Places, TypeOK
  <1>3. EntryIsWatched'
    BY RunStreamAssumption DEF IInv, EntryIsWatched, TypeOK
  <1>4. OpenIsEntry' /\ EntryIsLive' /\ CloseNeedsCancel' /\ PanicNeedsLateSubmit'
    BY DEF IInv, OpenIsEntry, EntryIsLive, Unstopped, CloseNeedsCancel, PanicNeedsLateSubmit
  <1> QED
    BY <1>1, <1>2, <1>3, <1>4 DEF IInv

LEMMA WatchStopStep ==
  ASSUME IInv, NEW r \in Requests, WatchStop(r)
  PROVE  IInv'
  <1> USE DEF WatchStop, StopStream, callerVars, streamVars, managerVars
  <1>1. TypeOK'
    BY RunStreamAssumption DEF IInv, TypeOK, SubStates, ProcStates, WatchStates
  <1>2. Places'
    BY RunStreamAssumption DEF IInv, Places
  <1>3. OpenIsEntry'
    BY RunStreamAssumption DEF IInv, OpenIsEntry, TypeOK, Places, EntryIsLive, Unstopped
  <1>4. EntryIsLive'
    BY RunStreamAssumption DEF IInv, EntryIsLive, Unstopped, TypeOK
  <1>5. EntryIsWatched'
    BY RunStreamAssumption DEF IInv, EntryIsWatched, TypeOK, Places, EntryIsLive, Unstopped, OpenIsEntry
  <1>6. CloseNeedsCancel'
    BY RunStreamAssumption DEF IInv, CloseNeedsCancel, TypeOK, Places, EntryIsLive, Unstopped, OpenIsEntry
  <1>7. PanicNeedsLateSubmit'
    BY RunStreamAssumption DEF IInv, PanicNeedsLateSubmit, TypeOK, Places, EntryIsLive, Unstopped, OpenIsEntry
  <1> QED
    BY <1>1, <1>2, <1>3, <1>4, <1>5, <1>6, <1>7 DEF IInv

LEMMA ManagerStep ==
  ASSUME IInv, CancelBase \/ RunExit
  PROVE  IInv'
  <1> USE DEF CancelBase, RunExit, callerVars, streamVars, managerVars
  <1>1. TypeOK'
    BY DEF IInv, TypeOK, SubStates, ProcStates, WatchStates
  <1>2. EntryIsWatched'
    BY DEF IInv, EntryIsWatched
  <1>3. PanicNeedsLateSubmit'
    BY DEF IInv, PanicNeedsLateSubmit, TypeOK
  <1>4. Places' /\ OpenIsEntry' /\ EntryIsLive' /\ CloseNeedsCancel'
    BY DEF IInv, Places, OpenIsEntry, EntryIsLive, Unstopped, CloseNeedsCancel
  <1> QED
    BY <1>1, <1>2, <1>3, <1>4 DEF IInv

LEMMA NextIInv == IInv /\ [Next]_vars => IInv'
  <1> SUFFICES ASSUME IInv, [Next]_vars PROVE IInv'
    OBVIOUS
  <1>1. CASE UNCHANGED vars
    BY <1>1 DEF vars, IInv, TypeOK, Places, OpenIsEntry, EntryIsLive, Unstopped,
                EntryIsWatched, CloseNeedsCancel, PanicNeedsLateSubmit
  <1>2. CASE CancelBase \/ RunExit
    BY <1>2, ManagerStep
  <1>3. ASSUME NEW r \in Requests, CallerNext(r)
        PROVE  IInv'
    BY <1>3, CallerStep, SubmitClosedStep, SendOnClosedStep DEF CallerNext
  <1>4. ASSUME NEW r \in Requests, StreamNext(r)
        PROVE  IInv'
    BY <1>4, AcceptStep, RegisterStep, RespondStep, RunLoopStep, RunStopStep, RunCancelStep,
       WatchDoneStep, WatchTickStep, WatchStopStep DEF StreamNext
  <1> QED
    BY <1>1, <1>2, <1>3, <1>4 DEF Next

LEMMA Invariance == Spec => []IInv
  BY InitIInv, NextIInv, PTL DEF Spec

-----------------------------------------------------------------------------
(* Every variable keeps its type: in particular a watcher never counts      *)
(* past MaxChecks, and the map holds requests only.                        *)
THEOREM TypeCorrect == Spec => []TypeOK
  <1>1. IInv => TypeOK
    BY DEF IInv
  <1> QED
    BY <1>1, Invariance, PTL

(* registerStream never answers with a stream that has been cancelled,     *)
(* notified or stopped, and stopStream never closes a closed CloseCh.      *)
THEOREM EntriesAreLive == Spec => []EntryIsLive
  <1>1. IInv => EntryIsLive
    BY DEF IInv
  <1> QED
    BY <1>1, Invariance, PTL

(* No map entry outlives its watchStream goroutine before a shutdown.      *)
THEOREM EntriesAreWatched == Spec => []EntryIsWatched
  <1>1. IInv => EntryIsWatched
    BY DEF IInv
  <1> QED
    BY <1>1, Invariance, PTL

(* When runStream has returned, CloseNotify of its stream is closed: an    *)
(* open one would be the map entry, whose goroutine has not stopped yet.   *)
THEOREM ExitsAreNotified == Spec => []ExitedIsNotified
  <1>1. IInv => ExitedIsNotified
    <2> SUFFICES ASSUME IInv, NEW r \in Requests, answer[r] = r,
                        proc[r] \in {"cancel", "done"}, ~closed[r]
                 PROVE  FALSE
      BY DEF ExitedIsNotified
    <2>1. streams[channel[r]] = r
      BY DEF IInv, OpenIsEntry
    <2>2. Unstopped(r)
      BY <2>1, RunStreamAssumption DEF IInv, TypeOK, EntryIsLive
    <2> QED
      BY <2>2 DEF Unstopped
  <1> QED
    BY <1>1, Invariance, PTL

(* CloseNotify is closed only when a stream of the channel is cancelled.   *)
THEOREM ClosesNeedCancel == Spec => []CloseNeedsCancel
  <1>1. IInv => CloseNeedsCancel
    BY DEF IInv
  <1> QED
    BY <1>1, Invariance, PTL

(* The manager panics only for submissions made after its shutdown.        *)
THEOREM PanicsNeedLateSubmit == Spec => []PanicNeedsLateSubmit
  <1>1. IInv => PanicNeedsLateSubmit
    BY DEF IInv
  <1> QED
    BY <1>1, Invariance, PTL

-----------------------------------------------------------------------------
(* The refinement: Register opens or joins, stopStream closes the stream   *)
(* whose entry it deletes, and every other step is a stutter.              *)

LEMMA RegisterRefines ==
  ASSUME IInv, NEW r \in Requests, Register(r)
  PROVE  Registry!Open(r) \/ Registry!Join(r)
  <1> DEFINE q == streams[channel[r]]
  <1> USE RunStreamAssumption
  <1>1. answer[r] = NoRequest /\ ~closed[r]
    BY DEF IInv, Places, OpenIsEntry, Register
  <1>2. UNCHANGED <<channel, closed>> /\ channel[r] \in Channels
    BY DEF Register, callerVars, IInv, TypeOK
  <1>3. CASE q # NoRequest
    <2>1. q \in Requests /\ channel[q] = channel[r] /\ answer[q] = q /\ ~closed[q]
      BY <1>3, <1>2 DEF IInv, TypeOK, EntryIsLive
    <2>2. answer' = [answer EXCEPT ![r] = q] /\ q # r
      BY <1>1, <1>3, <2>1 DEF Register
    <2>3. q \in Registry!OpenOn(channel[r])
      BY <2>1 DEF Registry!OpenOn
    <2>4. \A p \in Requests : answer'[p] = p <=> answer[p] = p
      BY <1>1, <2>2 DEF IInv, TypeOK
    <2> QED
      BY <1>1, <1>2, <2>2, <2>3, <2>4 DEF Registry!Join
  <1>4. CASE q = NoRequest
    <2>1. answer' = [answer EXCEPT ![r] = r]
      BY <1>4 DEF Register
    <2>2. Registry!OpenOn(channel[r]) = {}
      BY <1>4 DEF Registry!OpenOn, IInv, OpenIsEntry
    <2>3. \A p \in Requests : p # r => answer'[p] = answer[p]
      BY <2>1 DEF IInv, TypeOK
    <2>4. answer'[r] = r
      BY <2>1 DEF IInv, TypeOK
    <2> QED
      BY <1>1, <1>2, <2>1, <2>2, <2>3, <2>4 DEF Registry!Open
  <1> QED
    BY <1>3, <1>4

LEMMA StopRefines ==
  ASSUME IInv, NEW r \in Requests, StopStream(r), UNCHANGED <<channel, answer>>
  PROVE  (\E q \in Requests : Registry!Close(q)) \/ UNCHANGED Registry!vars
  <1> DEFINE q == streams[channel[r]]
  <1> USE RunStreamAssumption
  <1>1. CASE q = NoRequest
    BY <1>1 DEF StopStream, streamVars, Registry!vars
  <1>2. CASE q # NoRequest
    <2>1. q \in Requests /\ answer[q] = q /\ ~closed[q]
      BY <1>2 DEF IInv, TypeOK, EntryIsLive
    <2>2. closed' = [closed EXCEPT ![q] = TRUE]
      BY <1>2 DEF StopStream
    <2>3. closed'[q] /\ \A p \in Requests : p # q => closed'[p] = closed[p]
      BY <2>1, <2>2 DEF IInv, TypeOK
    <2>4. \E p \in Requests : Registry!Close(p)
      BY <2>1, <2>3 DEF Registry!Close
    <2> QED
      BY <2>4
  <1> QED
    BY <1>1, <1>2

LEMMA StepRefines ==
  ASSUME IInv, [Next]_vars
  PROVE  [Registry!Next]_(Registry!vars)
  <1>1. CASE UNCHANGED <<channel, answer, closed>>
    BY <1>1 DEF Registry!vars
  <1>2. ASSUME NEW r \in Requests, Register(r)
        PROVE  Registry!Next
    BY <1>2, RegisterRefines DEF Registry!Next
  <1>3. ASSUME NEW r \in Requests, RunStop(r) \/ WatchStop(r)
        PROVE  Registry!Next \/ UNCHANGED Registry!vars
    BY <1>3, StopRefines DEF RunStop, WatchStop, callerVars, Registry!Next
  <1>4. CASE CancelBase \/ RunExit
    BY <1>1, <1>4 DEF CancelBase, RunExit, callerVars, streamVars
  <1>5. ASSUME NEW r \in Requests, CallerNext(r)
        PROVE  UNCHANGED <<channel, answer, closed>>
    BY <1>5 DEF CallerNext, Submit, Refuse, GiveUp, SubmitClosed, SendOnClosed, Return,
                ReturnClosed, Subscribe, Unsubscribe, SetSub, callerVars, streamVars
  <1>6. ASSUME NEW r \in Requests, StreamNext(r)
        PROVE  \/ UNCHANGED <<channel, answer, closed>>
               \/ Register(r) \/ RunStop(r) \/ WatchStop(r)
    BY <1>6 DEF StreamNext, Accept, Respond, RunHead, RunDelay, RunPluginContext, RunReturn,
                RunCancel, WatchDone, WatchTick, SetSub, SetProc, callerVars, streamVars
  <1> QED
    BY <1>1, <1>2, <1>3, <1>4, <1>5, <1>6 DEF Next, vars

(* The manager implements the registry: a caller is only ever given the    *)
(* CloseNotify of a stream open on its channel, a channel has one open     *)
(* stream, and each stream is opened once and closed at most once.         *)
THEOREM RefinesRegistry == Spec => ImplementsRegistry
  <1>1. Init => Registry!Init
    BY RunStreamAssumption DEF Init, Registry!Init
  <1> QED
    BY <1>1, Invariance, StepRefines, PTL DEF Spec, ImplementsRegistry, Registry!Spec
=============================================================================
