-------------------------- MODULE ServerLockProofs --------------------------
(***************************************************************************)
(* Both locks of pkg/infra/serverlock, for any number of servers, any      *)
(* interval and clock.                                                     *)
(*                                                                         *)
(* LockAndExecute: claims are apart.  A copy that has the row's version is *)
(* the row, since every claim raises the version; so the interval that was *)
(* checked on the copy is over for the row at the moment the UPDATE        *)
(* succeeds, whenever that is.                                             *)
(*                                                                         *)
(* LockAndRelease: the lock excludes, with any number of crashes, but for  *)
(* the race of two servers that take over the same timed-out row.  A       *)
(* holder's row is as old as its hold, hence younger than Interval: nobody *)
(* can take it over, and who has found a row timed out is alone with it.   *)
(***************************************************************************)
EXTENDS LockAndExecute, LockAndRelease, TLAPS

Claiming(s) == pc[s] \in {"check", "stamp", "update"}

CopiesArePast ==
  /\ row # NoRow => row.last <= now
  /\ \A s \in Servers :
       /\ Claiming(s) => /\ row # NoRow
                         /\ read[s].version <= row.version
                         /\ read[s].version = row.version => read[s] = row
       /\ pc[s] \in {"stamp", "update"} =>
            read[s].last = 0 \/ now >= read[s].last + Interval
       /\ pc[s] = "update" =>
            /\ 1 <= stamp[s] /\ stamp[s] <= now
            /\ read[s].last = 0 \/ stamp[s] >= read[s].last + Interval

(* The stamp of an execution is not later than the row's.                  *)
StampsArePast ==
  \A s \in Servers : pc[s] = "executing" =>
    row # NoRow /\ 1 <= stamp[s] /\ stamp[s] <= row.last

IInv == TypeOK /\ CopiesArePast /\ StampsArePast /\ ExecutionsApart

-----------------------------------------------------------------------------
LEMMA NoRowIsNone == NoRow \notin Row
  BY NoRowAssumption

LEMMA InitIInv == Init => IInv
  BY LockAndExecuteAssumption
     DEF Init, IInv, TypeOK, Row, New, CopiesArePast, StampsArePast, ExecutionsApart, Claiming

LEMMA TickStep ==
  ASSUME IInv, Tick
  PROVE  IInv'
  <1> USE LockAndExecuteAssumption DEF Tick, IInv, TypeOK, Row
  <1>1. TypeOK'
    OBVIOUS
  <1>2. CopiesArePast'
    BY DEF CopiesArePast, Claiming
  <1>3. StampsArePast' /\ ExecutionsApart'
    BY DEF StampsArePast, ExecutionsApart
  <1> QED
    BY <1>1, <1>2, <1>3

LEMMA FindStep ==
  ASSUME IInv, NEW s \in Servers, Find(s)
  PROVE  IInv'
  <1> USE LockAndExecuteAssumption DEF Find, Goto, IInv, TypeOK, Row
  <1>1. TypeOK'
    OBVIOUS
  <1>2. CopiesArePast'
    BY DEF CopiesArePast, Claiming
  <1>3. StampsArePast' /\ ExecutionsApart'
    BY DEF StampsArePast, ExecutionsApart
  <1> QED
    BY <1>1, <1>2, <1>3

LEMMA InsertStep ==
  ASSUME IInv, NEW s \in Servers, Insert(s)
  PROVE  IInv'
  <1> USE LockAndExecuteAssumption, NoRowIsNone DEF Insert, Goto, New, IInv, TypeOK, Row
  <1>1. TypeOK'
    OBVIOUS
  <1>2. CopiesArePast'
    BY DEF CopiesArePast, Claiming
  <1>3. StampsArePast' /\ ExecutionsApart'
    BY DEF StampsArePast, ExecutionsApart
  <1> QED
    BY <1>1, <1>2, <1>3

LEMMA CheckStep ==
  ASSUME IInv, NEW s \in Servers, Check(s)
  PROVE  IInv'
  <1> USE LockAndExecuteAssumption DEF Check, Goto, IInv, TypeOK, Row
  <1>1. TypeOK'
    OBVIOUS
  <1>2. CopiesArePast'
    BY DEF CopiesArePast, Claiming, IsLockWithinInterval
  <1>3. StampsArePast' /\ ExecutionsApart'
    BY DEF StampsArePast, ExecutionsApart
  <1> QED
    BY <1>1, <1>2, <1>3

LEMMA StampStep ==
  ASSUME IInv, NEW s \in Servers, Stamp(s)
  PROVE  IInv'
  <1> USE LockAndExecuteAssumption DEF Stamp, Goto, IInv, TypeOK, Row
  <1>1. TypeOK'
    OBVIOUS
  <1>2. CopiesArePast'
    BY DEF CopiesArePast, Claiming
  <1>3. StampsArePast' /\ ExecutionsApart'
    BY DEF StampsArePast, ExecutionsApart
  <1> QED
    BY <1>1, <1>2, <1>3

(* The UPDATE that succeeds is of the row the server has a copy of.        *)
LEMMA ClaimIsOfCopy ==
  ASSUME IInv, NEW s \in Servers, pc[s] = "update", row.version = read[s].version
  PROVE  /\ row \in Row /\ row = read[s]
         /\ row.last = 0 \/ stamp[s] >= row.last + Interval
         /\ 1 <= stamp[s] /\ stamp[s] <= now
  BY DEF IInv, TypeOK, CopiesArePast, Claiming

LEMMA AcquireStep ==
  ASSUME IInv, NEW s \in Servers, Acquire(s)
  PROVE  IInv'
  <1> USE LockAndExecuteAssumption DEF Goto, TypeOK, Row
  <1>1. CASE row.version # read[s].version
    <2> USE <1>1 DEF Acquire, IInv
    <2>1. TypeOK'
      OBVIOUS
    <2>2. CopiesArePast'
      BY DEF CopiesArePast, Claiming
    <2>3. StampsArePast' /\ ExecutionsApart'
      BY DEF StampsArePast, ExecutionsApart
    <2> QED
      BY <2>1, <2>2, <2>3
  <1>2. CASE row.version = read[s].version
    <2>1. PICK to \in {"executing", "idle"} : Goto(s, "update", to)
      BY <1>2 DEF Acquire
    <2>2. /\ row' = [version |-> row.version + 1, last |-> stamp[s]]
          /\ UNCHANGED <<now, read, stamp>>
      BY <1>2 DEF Acquire
    <2>3. /\ row \in Row /\ row = read[s]
          /\ row.last = 0 \/ stamp[s] >= row.last + Interval
          /\ 1 <= stamp[s] /\ stamp[s] <= now
      BY <1>2, <2>1, ClaimIsOfCopy
    <2>4. row' \in Row /\ row' # NoRow /\ row'.version = row.version + 1
      BY <2>2, <2>3, NoRowIsNone DEF IInv
    <2>5. TypeOK'
      BY <2>1, <2>2, <2>4 DEF IInv
    <2>6. CopiesArePast'
      BY <2>1, <2>2, <2>3, <2>4 DEF IInv, CopiesArePast, Claiming
    <2>7. StampsArePast'
      BY <2>1, <2>2, <2>3, <2>4 DEF IInv, StampsArePast
    <2>8. ExecutionsApart'
      BY <2>1, <2>2, <2>3 DEF IInv, StampsArePast, ExecutionsApart
    <2> QED
      BY <2>5, <2>6, <2>7, <2>8 DEF IInv
  <1> QED
    BY <1>1, <1>2

LEMMA LeaveStep ==
  ASSUME IInv, NEW s \in Servers, Leave(s)
  PROVE  IInv'
  <1> USE LockAndExecuteAssumption DEF Leave, IInv, TypeOK, Row
  <1>1. TypeOK'
    OBVIOUS
  <1>2. CopiesArePast'
    BY DEF CopiesArePast, Claiming
  <1>3. StampsArePast' /\ ExecutionsApart'
    BY DEF StampsArePast, ExecutionsApart
  <1> QED
    BY <1>1, <1>2, <1>3

LEMMA Invariance == Spec => []IInv
  <1>1. IInv /\ [Next]_vars => IInv'
    <2>1. IInv /\ UNCHANGED vars => IInv'
      BY DEF vars, IInv, TypeOK, CopiesArePast, StampsArePast, ExecutionsApart, Claiming
    <2> QED
      BY <2>1, TickStep, FindStep, InsertStep, CheckStep, StampStep, AcquireStep, LeaveStep
         DEF Next
  <1> QED
    BY InitIInv, <1>1, PTL DEF Spec

-----------------------------------------------------------------------------
(* Type correctness.                                                       *)
THEOREM TypeCorrect == Spec => []TypeOK
  <1>1. IInv => TypeOK
    BY DEF IInv
  <1> QED
    BY <1>1, Invariance, PTL

(* Servers that execute the job at once claimed it an interval apart.      *)
THEOREM ExecutionsAreApart == Spec => []ExecutionsApart
  <1>1. IInv => ExecutionsApart
    BY DEF IInv
  <1> QED
    BY <1>1, Invariance, PTL

(* Any two claims of the row are an interval apart.                        *)
THEOREM ClaimsAreApart == Spec => ClaimsApart
  <1> DEFINE Apart == row # NoRow /\ row.last # 0 /\ row' # row => row'.last >= row.last + Interval
  <1>1. IInv /\ [Next]_vars => [Apart]_vars
    <2> SUFFICES ASSUME IInv, Next, row # NoRow, row.last # 0, row' # row
                 PROVE  row'.last >= row.last + Interval
      BY DEF vars
    <2>1. PICK s \in Servers : Acquire(s)
      BY DEF Next, Tick, Find, Insert, Check, Stamp, Leave
    <2>2. /\ pc[s] = "update" /\ row.version = read[s].version
          /\ row'.last = stamp[s]
      BY <2>1 DEF Acquire, Goto
    <2> QED
      BY <2>2, ClaimIsOfCopy
  <1> QED
    BY <1>1, Invariance, PTL DEF Spec, ClaimsApart

-----------------------------------------------------------------------------
(* A server that takes over a row that has timed out is alone with it.     *)
TakeoverAlone ==
  ~raced => \A s \in Servers : pc[s] = "update" =>
              /\ age = Interval
              /\ \A t \in Servers : ~Holding(t) /\ (pc[t] = "update" => t = s)

HeldIInv ==
  /\ LockTypeOK
  /\ TakeoverAlone
  /\ MutualExclusion
  /\ HolderHasRow

-----------------------------------------------------------------------------
(* When every server is out of its call nothing is left to prove.          *)
LEMMA SettledHeld ==
  ASSUME LockTypeOK, \A s \in Servers : pc[s] = "idle"
  PROVE  HeldIInv
  BY DEF HeldIInv, TakeoverAlone, MutualExclusion, HolderHasRow, Holding

LEMMA InitHeld == LockInit => HeldIInv
  <1> USE LockAndReleaseAssumption DEF LockInit
  <1>1. ASSUME LockInit PROVE LockTypeOK
    <2>1. age \in {Absent} \cup 0..Interval /\ raced \in BOOLEAN
      BY <1>1
    <2>2. held \in [Servers -> 0..MaxRun] /\ crashes \in 0..MaxCrashes
      BY <1>1
    <2> QED
      BY <1>1, <2>1, <2>2 DEF LockTypeOK
  <1>2. LockInit => \A s \in Servers : pc[s] = "idle"
    OBVIOUS
  <1> QED
    BY <1>1, <1>2, SettledHeld

LEMMA FindHeld ==
  ASSUME HeldIInv, NEW s \in Servers, FindForRelease(s)
  PROVE  HeldIInv'
  <1> USE LockAndReleaseAssumption DEF FindForRelease, Goto, Holding, Absent
  <1>1. LockTypeOK'
    BY DEF HeldIInv, LockTypeOK
  <1>2. TakeoverAlone'
    <2>1. ASSUME ~raced', NEW r \in Servers, pc'[r] = "update"
          PROVE  /\ age' = Interval
                 /\ \A t \in Servers : ~Holding(t)' /\ (pc'[t] = "update" => t = r)
      <3>1. ~raced
        BY <2>1 DEF HeldIInv, LockTypeOK
      <3>2. CASE pc[r] = "update"
        BY <2>1, <3>1, <3>2 DEF HeldIInv, LockTypeOK, TakeoverAlone
      <3>3. CASE pc[r] # "update"
        <4>1. r = s /\ age = Interval
          BY <2>1, <3>3 DEF HeldIInv, LockTypeOK, IsAgeWithinInterval
        <4>2. \A t \in Servers : ~Holding(t)
          BY <3>1, <4>1 DEF HeldIInv, LockTypeOK, HolderHasRow
        <4>3. \A t \in Servers : pc[t] # "update"
          BY <2>1, <3>3, <4>1 DEF HeldIInv, LockTypeOK
        <4> QED
          BY <4>1, <4>2, <4>3 DEF HeldIInv, LockTypeOK
      <3> QED
        BY <3>2, <3>3
    <2> QED
      BY <2>1 DEF TakeoverAlone
  <1>3. MutualExclusion' /\ HolderHasRow'
    BY DEF HeldIInv, LockTypeOK, MutualExclusion, HolderHasRow
  <1> QED
    BY <1>1, <1>2, <1>3 DEF HeldIInv

LEMMA InsertHeld ==
  ASSUME HeldIInv, NEW s \in Servers, InsertForRelease(s)
  PROVE  HeldIInv'
  <1> USE LockAndReleaseAssumption DEF InsertForRelease, Settle, Goto, Holding, Absent
  <1>1. LockTypeOK'
    BY DEF HeldIInv, LockTypeOK
  <1>2. CASE raced
    <2>1. raced' \/ \A t \in Servers : pc'[t] = "idle"
      BY <1>2
    <2> QED
      BY <1>1, <2>1, SettledHeld DEF HeldIInv, TakeoverAlone, MutualExclusion, HolderHasRow
  <1>3. CASE ~raced
    <2>1. CASE age = Absent
      <3>1. \A t \in Servers : ~Holding(t) /\ pc[t] # "update"
        BY <1>3, <2>1 DEF HeldIInv, LockTypeOK, TakeoverAlone, HolderHasRow
      <3> QED
        BY <1>1, <1>3, <2>1, <3>1
           DEF HeldIInv, LockTypeOK, TakeoverAlone, MutualExclusion, HolderHasRow
    <2>2. CASE age # Absent
      BY <1>1, <1>3, <2>2 DEF HeldIInv, LockTypeOK, TakeoverAlone, MutualExclusion, HolderHasRow
    <2> QED
      BY <2>1, <2>2
  <1> QED
    BY <1>2, <1>3

LEMMA UpdateHeld ==
  ASSUME HeldIInv, NEW s \in Servers, Update(s)
  PROVE  HeldIInv'
  <1> USE LockAndReleaseAssumption DEF Update, Goto, Holding, Absent
  <1>1. LockTypeOK'
    BY DEF HeldIInv, LockTypeOK
  <1>2. ~raced => age = Interval /\ \A t \in Servers : ~Holding(t) /\ (pc[t] = "update" => t = s)
    BY DEF HeldIInv, TakeoverAlone
  <1>3. TakeoverAlone'
    BY <1>2 DEF HeldIInv, LockTypeOK, TakeoverAlone
  <1>4. MutualExclusion' /\ HolderHasRow'
    BY <1>2 DEF HeldIInv, LockTypeOK, MutualExclusion, HolderHasRow
  <1> QED
    BY <1>1, <1>3, <1>4 DEF HeldIInv

LEMMA ExecuteHeld ==
  ASSUME HeldIInv, NEW s \in Servers, Execute(s)
  PROVE  HeldIInv'
  <1> USE LockAndReleaseAssumption DEF Execute, Goto, Holding, Absent
  <1>1. LockTypeOK'
    BY DEF HeldIInv, LockTypeOK
  <1>2. TakeoverAlone'
    BY DEF HeldIInv, LockTypeOK, TakeoverAlone
  <1>3. MutualExclusion' /\ HolderHasRow'
    BY DEF HeldIInv, LockTypeOK, MutualExclusion, HolderHasRow
  <1> QED
    BY <1>1, <1>2, <1>3 DEF HeldIInv

LEMMA ReleaseHeld ==
  ASSUME HeldIInv, NEW s \in Servers, Release(s)
  PROVE  HeldIInv'
  <1> USE LockAndReleaseAssumption DEF Release, Settle, Goto, Holding, Absent
  <1>1. LockTypeOK'
    BY DEF HeldIInv, LockTypeOK
  <1>2. CASE raced
    <2>1. raced' \/ \A t \in Servers : pc'[t] = "idle"
      BY <1>2
    <2> QED
      BY <1>1, <2>1, SettledHeld DEF HeldIInv, TakeoverAlone, MutualExclusion, HolderHasRow
  <1>3. CASE ~raced
    <2>1. \A t \in Servers : pc[t] # "update" /\ (Holding(t) => t = s)
      BY <1>3 DEF HeldIInv, TakeoverAlone, MutualExclusion
    <2> QED
      BY <1>1, <1>3, <2>1
         DEF HeldIInv, LockTypeOK, TakeoverAlone, MutualExclusion, HolderHasRow
  <1> QED
    BY <1>2, <1>3

LEMMA CrashHeld ==
  ASSUME HeldIInv, NEW s \in Servers, Crash(s)
  PROVE  HeldIInv'
  <1> USE LockAndReleaseAssumption DEF Crash, Settle, Holding, Absent
  <1>1. LockTypeOK'
    BY DEF HeldIInv, LockTypeOK
  <1>2. CASE raced
    <2>1. raced' \/ \A t \in Servers : pc'[t] = "idle"
      BY <1>2
    <2> QED
      BY <1>1, <2>1, SettledHeld DEF HeldIInv, TakeoverAlone, MutualExclusion, HolderHasRow
  <1>3. CASE ~raced
    BY <1>1, <1>3 DEF HeldIInv, LockTypeOK, TakeoverAlone, MutualExclusion, HolderHasRow
  <1> QED
    BY <1>2, <1>3

LEMMA TickHeld ==
  ASSUME HeldIInv, GrowOlder
  PROVE  HeldIInv'
  <1> USE LockAndReleaseAssumption DEF GrowOlder, Holding, Absent
  <1>1. LockTypeOK'
    BY DEF HeldIInv, LockTypeOK
  <1>2. TakeoverAlone'
    BY DEF HeldIInv, LockTypeOK, TakeoverAlone
  <1>3. MutualExclusion' /\ HolderHasRow'
    BY DEF HeldIInv, LockTypeOK, MutualExclusion, HolderHasRow
  <1> QED
    BY <1>1, <1>2, <1>3 DEF HeldIInv

LEMMA HeldInvariance == LockSpec => []HeldIInv
  <1>1. HeldIInv /\ [LockNext]_lockVars => HeldIInv'
    <2>1. HeldIInv /\ UNCHANGED lockVars => HeldIInv'
      BY DEF lockVars, HeldIInv, LockTypeOK, TakeoverAlone, MutualExclusion, HolderHasRow, Holding
    <2> QED
      BY <2>1, TickHeld, FindHeld, InsertHeld, UpdateHeld, ExecuteHeld, ReleaseHeld, CrashHeld
         DEF LockNext
  <1>2. LockInit => HeldIInv
    BY InitHeld
  <1> QED
    BY <1>1, <1>2, PTL DEF LockSpec

-----------------------------------------------------------------------------
(* Type correctness of LockAndRelease.                                     *)
THEOREM LockTypeCorrect == LockSpec => []LockTypeOK
  <1>1. HeldIInv => LockTypeOK
    BY DEF HeldIInv
  <1> QED
    BY <1>1, HeldInvariance, PTL

(* No two servers run the action at once, whichever of them crash, insert  *)
(* at once, time out or fail to release, as long as no two take over the   *)
(* same timed-out row at once.                                             *)
THEOREM Exclusion == LockSpec => []MutualExclusion
  <1>1. HeldIInv => MutualExclusion
    BY DEF HeldIInv
  <1> QED
    BY <1>1, HeldInvariance, PTL

(* A holder deletes no row but its own, but for the same race.             *)
THEOREM HoldersKeepTheirRow == LockSpec => []HolderHasRow
  <1>1. HeldIInv => HolderHasRow
    BY DEF HeldIInv
  <1> QED
    BY <1>1, HeldInvariance, PTL
=============================================================================
