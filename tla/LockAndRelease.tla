--------------------------- MODULE LockAndRelease ---------------------------
(***************************************************************************)
(* ServerLockService.LockExecuteAndRelease: pkg/infra/serverlock.  Servers *)
(* that share a database run an action one at a time by inserting a row    *)
(* under a UNIQUE operation_uid, updating it when it has timed out, and    *)
(* deleting it afterwards, by operation_uid and not by owner.              *)
(*                                                                         *)
(* acquireForRelease reads and writes in one transaction.  At the default  *)
(* isolation of MySQL and PostgreSQL, which the code leaves as it is, two  *)
(* such transactions may both read the row before either writes it; on     *)
(* SQLite they follow one another, which is among these behaviours.        *)
(*                                                                         *)
(* Time is kept as ages: how long ago LastExecution was, up to Interval,   *)
(* and how long each server has held the lock.  The caller is to choose    *)
(* maxInterval so long that no run lasts as long: MaxRun < Interval, and   *)
(* the truncation of LastExecution to seconds is within that difference.   *)
(***************************************************************************)
EXTENDS Integers, ServerLock

CONSTANTS MaxRun,       \* the longest a server that does not crash holds the lock
          MaxCrashes    \* how often processes crash

ASSUME LockAndReleaseAssumption ==
  /\ Interval \in Nat /\ MaxRun \in Nat /\ MaxRun < Interval
  /\ MaxCrashes \in Nat

Absent == -1  \* the table has no row for the action

VARIABLES
  age,     \* the age of the row's LastExecution, or Absent
  held,    \* per server: how long ago it acquired the lock it holds
  crashes, \* how many there were
  raced    \* history: a timed-out row is being taken over more than once

lockVars == <<age, pc, held, crashes, raced>>

LockInit ==
  /\ age = Absent
  /\ pc = [s \in Servers |-> "idle"]
  /\ held = [s \in Servers |-> 0]
  /\ crashes = 0
  /\ raced = FALSE

Holding(s) == pc[s] \in {"executing", "release"}

(* A race is over when every server is out of its call.                    *)
Settle == raced' = (raced /\ \E t \in Servers : pc'[t] # "idle")

-----------------------------------------------------------------------------
(* Mutants: a lock times out before maxInterval is over; it never does. *)
IsLockWithinIntervalShort == age < MaxRun
IsLockAtAll == TRUE

(* isLockWithinInterval, of a row that acquireForRelease wrote.            *)
IsAgeWithinInterval == age < Interval

(* acquireForRelease: the row is looked up; one within the interval is     *)
(* ServerLockExistsError and changes nothing.                              *)
FindForRelease(s) ==
  /\ \/ /\ age = Absent
        /\ Goto(s, "idle", "insert")
        /\ UNCHANGED raced
     \/ /\ age # Absent /\ ~IsAgeWithinInterval
        /\ Goto(s, "idle", "update")
        /\ raced' = (raced \/ \E t \in Servers : pc[t] = "update")
  /\ UNCHANGED <<age, held, crashes>>

(* The row is inserted; the UNIQUE index refuses a second one.             *)
InsertForRelease(s) ==
  /\ \/ /\ age = Absent
        /\ Goto(s, "insert", "executing")
        /\ age' = 0
        /\ held' = [held EXCEPT ![s] = 0]
     \/ /\ age # Absent
        /\ Goto(s, "insert", "idle")
        /\ UNCHANGED <<age, held>>
  /\ Settle
  /\ UNCHANGED crashes

(* Mutants: LastExecution becomes the time of expiry; it is not written. *)
UpdateAsExpiry(s) ==
  /\ Goto(s, "update", "executing")
  /\ age' = IF age = Absent THEN Absent ELSE -Interval
  /\ held' = [held EXCEPT ![s] = 0]
  /\ UNCHANGED <<crashes, raced>>

UpdateNothing(s) ==
  /\ Goto(s, "update", "executing")
  /\ held' = [held EXCEPT ![s] = 0]
  /\ UNCHANGED <<age, crashes, raced>>

(* A timed-out row gets a new LastExecution; that no row is affected is    *)
(* only logged.                                                            *)
Update(s) ==
  /\ Goto(s, "update", "executing")
  /\ age' = IF age = Absent THEN Absent ELSE 0
  /\ held' = [held EXCEPT ![s] = 0]
  /\ UNCHANGED <<crashes, raced>>

(* executeFunc returns.                                                    *)
Execute(s) ==
  /\ Goto(s, "executing", "release")
  /\ UNCHANGED <<age, held, crashes, raced>>

(* releaseLock deletes the row, whoever wrote it, or fails, which is logged. *)
Release(s) ==
  /\ Goto(s, "release", "idle")
  /\ age' \in {Absent, age}
  /\ Settle
  /\ UNCHANGED <<held, crashes>>

(* The process ends; a transaction is rolled back, a row stays behind.     *)
Crash(s) ==
  /\ pc[s] # "idle"
  /\ crashes < MaxCrashes
  /\ crashes' = crashes + 1
  /\ pc' = [pc EXCEPT ![s] = "idle"]
  /\ Settle
  /\ UNCHANGED <<age, held>>

GrowOlder ==
  /\ \A s \in Servers : Holding(s) => held[s] < MaxRun
  /\ age' = IF age \in {Absent, Interval} THEN age ELSE age + 1
  /\ held' = [s \in Servers |-> IF Holding(s) THEN held[s] + 1 ELSE held[s]]
  /\ UNCHANGED <<pc, crashes, raced>>

LockNext ==
  \/ GrowOlder
  \/ \E s \in Servers : \/ FindForRelease(s) \/ InsertForRelease(s) \/ Update(s)
                        \/ Execute(s) \/ Release(s) \/ Crash(s)

LockSpec == LockInit /\ [][LockNext]_lockVars

(* Time passes, a server goes on unless it crashes, and the servers keep   *)
(* asking for the lock.                                                    *)
FairLockSpec ==
  /\ LockSpec
  /\ WF_lockVars(GrowOlder)
  /\ \A s \in Servers :
       /\ WF_lockVars(InsertForRelease(s) \/ Update(s) \/ Execute(s) \/ Release(s))
       /\ WF_lockVars(FindForRelease(s))

-----------------------------------------------------------------------------
LockTypeOK ==
  /\ age \in {Absent} \cup 0..Interval
  /\ pc \in [Servers -> {"idle", "insert", "update", "executing", "release"}]
  /\ held \in [Servers -> 0..MaxRun]
  /\ crashes \in 0..MaxCrashes
  /\ raced \in BOOLEAN

(* While one server holds the lock no other does, whichever of them crash, *)
(* insert at once, time out or fail to release.  The one way to hold it    *)
(* twice is a race that the code has: a server finds the timed-out row     *)
(* when another has found it and not yet updated it.  What comes of that   *)
(* is over when all servers are out of their calls.                        *)
MutualExclusion ==
  ~raced => \A s, t \in Servers : Holding(s) /\ Holding(t) => s = t

(* A server that holds the lock finds its own row when it releases it,     *)
(* except after such a race.                                               *)
HolderHasRow ==
  ~raced => \A s \in Servers : Holding(s) => age = held[s]

(* A crash does not lock the action out, nor does a race: it is executed   *)
(* again and again.                                                        *)
RunsAgain == []<>(\E s \in Servers : pc[s] = "executing")
=============================================================================
