--------------------------- MODULE LockAndExecute ---------------------------
(***************************************************************************)
(* ServerLockService.LockAndExecute: pkg/infra/serverlock.  Servers that   *)
(* share a database run a job at most once per interval.  Each reads the   *)
(* row of the job, looks whether the last execution is long enough ago,    *)
(* and claims the next one by an UPDATE that is conditional on the version *)
(* it has read.  Nothing is locked between these steps.                    *)
(*                                                                         *)
(* Time is the seconds of the servers' common clock; a stamp is taken      *)
(* before the UPDATE that writes it.  Used by the cleanups of tokens (12h) *)
(* and of login attempts (10m).                                            *)
(***************************************************************************)
EXTENDS Integers, ServerLock

CONSTANTS MaxTime,   \* bound on the clock
          NoRow      \* the table has no row for the job

ASSUME LockAndExecuteAssumption ==
  /\ Interval \in Nat \ {0}
  /\ MaxTime \in Nat \ {0}

Row == [version : Nat, last : 0..MaxTime]

ASSUME NoRowAssumption == NoRow \notin Row

VARIABLES
  now,
  row,    \* the row of the job
  read,   \* per server: the row it has read
  stamp   \* per server: the last_execution it writes

vars == <<now, row, pc, read, stamp>>

New == [version |-> 0, last |-> 0]

Init ==
  /\ now = 1
  /\ row = NoRow
  /\ pc = [s \in Servers |-> "idle"]
  /\ read = [s \in Servers |-> New]
  /\ stamp = [s \in Servers |-> 0]

Tick ==
  /\ now < MaxTime
  /\ now' = now + 1
  /\ UNCHANGED <<row, pc, read, stamp>>

-----------------------------------------------------------------------------
(* getOrCreate: the row is found, or there is none yet.                    *)
Find(s) ==
  /\ \/ /\ row # NoRow
        /\ Goto(s, "idle", "check")
        /\ read' = [read EXCEPT ![s] = row]
     \/ /\ row = NoRow
        /\ Goto(s, "idle", "insert")
        /\ UNCHANGED read
  /\ UNCHANGED <<now, row, stamp>>

(* It is inserted; a second insert of the operation_uid fails.             *)
Insert(s) ==
  /\ \/ /\ row = NoRow
        /\ Goto(s, "insert", "check")
        /\ row' = New
        /\ read' = [read EXCEPT ![s] = New]
     \/ /\ row # NoRow
        /\ Goto(s, "insert", "idle")
        /\ UNCHANGED <<row, read>>
  /\ UNCHANGED <<now, stamp>>

(* isLockWithinInterval: a last execution of zero is none.                 *)
IsLockWithinInterval(r) == r.last # 0 /\ now - r.last < Interval

Check(s) ==
  /\ \/ IsLockWithinInterval(read[s])  /\ Goto(s, "check", "idle")
     \/ ~IsLockWithinInterval(read[s]) /\ Goto(s, "check", "stamp")
  /\ UNCHANGED <<now, row, read, stamp>>

(* Mutant: the time is written in milliseconds. *)
StampMillis(s) ==
  /\ Goto(s, "stamp", "update")
  /\ stamp' = [stamp EXCEPT ![s] = now * 1000]
  /\ UNCHANGED <<now, row, read>>

(* time.Now().Unix() of acquireLock.                                       *)
Stamp(s) ==
  /\ Goto(s, "stamp", "update")
  /\ stamp' = [stamp EXCEPT ![s] = now]
  /\ UNCHANGED <<now, row, read>>

(* Mutants: the version is no condition; the rows affected are not counted. *)
AcquireById(s) ==
  /\ pc[s] = "update"
  /\ row' = [version |-> read[s].version + 1, last |-> stamp[s]]
  /\ Goto(s, "update", "executing")
  /\ UNCHANGED <<now, read, stamp>>

AcquireUncounted(s) ==
  /\ Goto(s, "update", "executing")
  /\ row' = IF row.version = read[s].version
            THEN [version |-> read[s].version + 1, last |-> stamp[s]] ELSE row
  /\ UNCHANGED <<now, read, stamp>>

(* acquireLock: the conditional UPDATE.  One that is done and reported as   *)
(* an error claims the interval for nobody.                                *)
Acquire(s) ==
  /\ \/ /\ \E to \in {"executing", "idle"} : Goto(s, "update", to)
        /\ row.version = read[s].version
        /\ row' = [version |-> read[s].version + 1, last |-> stamp[s]]
     \/ /\ Goto(s, "update", "idle")
        /\ row.version # read[s].version
        /\ UNCHANGED row
  /\ UNCHANGED <<now, read, stamp>>

(* The end of the job, an error of the database or the end of the process. *)
Leave(s) ==
  /\ pc[s] # "idle"
  /\ pc' = [pc EXCEPT ![s] = "idle"]
  /\ UNCHANGED <<now, row, read, stamp>>

Next ==
  \/ Tick
  \/ \E s \in Servers : \/ Find(s) \/ Insert(s) \/ Check(s)
                        \/ Stamp(s) \/ Acquire(s) \/ Leave(s)

Spec == Init /\ [][Next]_vars

-----------------------------------------------------------------------------
TypeOK ==
  /\ now \in 1..MaxTime
  /\ row \in Row \cup {NoRow}
  /\ pc \in [Servers -> {"idle", "insert", "check", "stamp", "update", "executing"}]
  /\ read \in [Servers -> Row]
  /\ stamp \in [Servers -> 0..MaxTime]

(* Two claims of the row are at least an interval apart, however old the   *)
(* copies of the row are from which the servers claim it.                  *)
ClaimsApart ==
  [][row # NoRow /\ row.last # 0 /\ row' # row => row'.last >= row.last + Interval]_vars

(* Servers execute the job at the same time only when an execution takes   *)
(* longer than the interval.                                               *)
ExecutionsApart ==
  \A s, t \in Servers :
    s # t /\ pc[s] = "executing" /\ pc[t] = "executing" =>
      stamp[s] >= stamp[t] + Interval \/ stamp[t] >= stamp[s] + Interval
=============================================================================
