---------------------------- MODULE SearchIndex ----------------------------
(***************************************************************************)
(* The in-memory search index: pkg/services/searchV2/index.go.  One loop   *)
(* (run) applies the events of the entity_event table to the index of each *)
(* organization; rebuilds run in goroutines of their own, and when one is  *)
(* done the loop goes back to the event that was the last at its start.    *)
(*                                                                         *)
(* The loader is the repository's (sqlDashboardLoader): it answers the     *)
(* root folder to who asks for all, and nothing to who asks for a          *)
(* dashboard.  So the model keeps apart what an index holds (docs) and     *)
(* when the loader was asked for it (asOf), which is what the loop and     *)
(* the rebuilds have to get right whatever the answer.                     *)
(***************************************************************************)
EXTENDS Naturals, Sequences, FiniteSets

CONSTANTS Orgs, Uids,
          Initial,      \* the organizations that exist at the start
          Jobs,         \* goroutines that rebuild; bounds how many at once
          NoOrg,
          MaxChanges,   \* bound on a dashboard's changes
          MaxFailures   \* bound on the builds and updates that fail

ASSUME SearchIndexAssumption ==
  /\ Initial \subseteq Orgs /\ NoOrg \notin Orgs
  /\ MaxChanges \in Nat /\ MaxFailures \in Nat

VARIABLES
  db,          \* how often every dashboard was changed
  events,      \* the entity_event table: its ids are 1, 2, ...
  docs, built, \* perOrgIndex, and the organizations that have one
  asOf,        \* history: the changes there were when the loader was
               \* asked for what an index has of a dashboard
  started,     \* GetLastEvent has been called
  last,        \* lastEventID
  upTo,        \* the loop applies the events last + 1 .. upTo
  loaded,      \* the answer for the event last + 1, by when it was asked for
  timer,       \* fullReIndexTimer: "armed", and "fired" when not read yet
  job,         \* the goroutines
  done,        \* reIndexDoneCh
  overlapped,  \* history: a rebuild was started when one was in flight
  failures

table == <<db, events>>
loop == <<started, last, upTo, loaded>>
rebuild == <<timer, job, done, overlapped>>
vars == <<table, loop, asOf, docs, built, rebuild, failures>>

Event == [org : Orgs, uid : Uids, ver : Nat]

Root == ""  \* the uid of the root folder, and of none

ASSUME RootAssumption == Root \notin Uids

(* sqlDashboardLoader.LoadDashboards: the uids of what it returns.         *)
LoadDashboards(uid) == IF uid = "" THEN {Root} ELSE {}

Idle == [pc |-> "idle", todo |-> {}, org |-> NoOrg, snap |-> [u \in Uids |-> 0], from |-> 0]

Init ==
  /\ db = [o \in Orgs |-> [u \in Uids |-> 0]]
  /\ events = <<>>
  /\ docs = [o \in Orgs |-> {}]
  /\ asOf = db
  /\ built = {}
  /\ started = FALSE
  /\ last = 0 /\ upTo = 0 /\ loaded = {}
  /\ timer = {"armed"}
  /\ job = [j \in Jobs |-> Idle]
  /\ done = {}
  /\ overlapped = FALSE
  /\ failures = 0

Fail == failures < MaxFailures /\ failures' = failures + 1

-----------------------------------------------------------------------------
(* A dashboard is saved or deleted, and an event is issued in the same     *)
(* transaction; or none, which also stands for an event that is committed  *)
(* after one with a greater id has been applied.                           *)
Change(o, u) ==
  /\ db[o][u] < MaxChanges
  /\ db' = [db EXCEPT ![o][u] = @ + 1]
  /\ \/ events' = Append(events, [org |-> o, uid |-> u, ver |-> db[o][u] + 1])
     \/ UNCHANGED events
  /\ UNCHANGED <<loop, asOf, docs, built, rebuild, failures>>

-----------------------------------------------------------------------------
(* run, before its loop: the last event first, then the indexes.           *)
Start ==
  /\ ~started
  /\ started' = TRUE
  /\ last' = Len(events) /\ upTo' = Len(events)
  /\ UNCHANGED <<table, loaded, asOf, docs, built, rebuild, failures>>

BuildInitial(o) ==
  /\ started
  /\ built' = built \cup {o}
  /\ docs' = [docs EXCEPT ![o] = LoadDashboards("")]
  /\ asOf' = [asOf EXCEPT ![o] = db[o]]
  /\ UNCHANGED <<table, loop, rebuild, failures>>

AtSelect == started /\ Initial \subseteq built /\ upTo = last

(* Mutant: the events are read from the one after the next.                *)
UpdatePast ==
  /\ AtSelect /\ last < Len(events)
  /\ upTo' = Len(events) + 1
  /\ UNCHANGED <<table, started, last, loaded, asOf, docs, built, rebuild, failures>>

(* A search request syncs, or partialUpdateTimer fires, which it may at    *)
(* any time: GetAllEventsAfter.                                            *)
Update ==
  /\ AtSelect /\ last < Len(events)
  /\ upTo' = Len(events)
  /\ UNCHANGED <<table, started, last, loaded, asOf, docs, built, rebuild, failures>>

(* applyEvent: skip what is not indexed, load, then change the index that  *)
(* is there by then: what was not found is removed from it.                *)
Skip ==
  /\ last < upTo /\ events[last + 1].org \notin built
  /\ last' = last + 1
  /\ UNCHANGED <<table, started, upTo, loaded, asOf, docs, built, rebuild, failures>>

Load ==
  /\ last < upTo /\ loaded = {}
  /\ LET e == events[last + 1] IN
       /\ e.org \in built
       /\ loaded' = {db[e.org][e.uid]}
  /\ UNCHANGED <<table, started, last, upTo, asOf, docs, built, rebuild, failures>>

Store ==
  /\ last < upTo
  /\ LET e == events[last + 1]
         found == LoadDashboards(e.uid)
     IN  /\ \E n \in loaded : asOf' = [asOf EXCEPT ![e.org][e.uid] = n]
         /\ docs' = [docs EXCEPT ![e.org] = IF found = {} THEN @ \ {e.uid} ELSE @ \cup found]
  /\ last' = last + 1
  /\ loaded' = {}
  /\ UNCHANGED <<table, started, upTo, built, rebuild, failures>>

(* The index cannot be read or written: the events from this one on are    *)
(* left for the next update.                                               *)
StoreFails ==
  /\ last < upTo /\ loaded # {}
  /\ Fail
  /\ upTo' = last
  /\ loaded' = {}
  /\ UNCHANGED <<table, started, last, asOf, docs, built, rebuild>>

-----------------------------------------------------------------------------
InFlight == done # {} \/ \E j \in Jobs : job[j].pc # "idle"

(* go func(): it captures lastEventID and waits for the semaphore.         *)
Go(j, todo) ==
  /\ job[j].pc = "idle"
  /\ job' = [job EXCEPT ![j] = [Idle EXCEPT !.pc = "wait", !.todo = todo, !.from = last]]
  /\ overlapped' = (overlapped \/ InFlight)
  /\ UNCHANGED <<table, loop, asOf, docs, built, done, failures>>

(* buildSignals: a search met an organization without an index.  Stop does *)
(* not drain the channel of a timer that has fired.                        *)
BuildSignal(j, o) ==
  /\ AtSelect /\ o \notin built
  /\ Go(j, {o})
  /\ timer' = timer \ {"armed"}

FullTick(j) ==
  /\ AtSelect /\ "fired" \in timer
  /\ Go(j, {})
  /\ timer' = timer \ {"fired"}

TimerFires ==
  /\ "armed" \in timer
  /\ timer' = {"fired"}
  /\ UNCHANGED <<table, loop, asOf, docs, built, job, done, overlapped, failures>>

ReIndexSignal ==
  /\ AtSelect
  /\ timer' = timer \cup {"armed"}
  /\ UNCHANGED <<table, loop, asOf, docs, built, job, done, overlapped, failures>>

(* Mutants: the loop does not go back; the timer is only set again when it *)
(* does.                                                                   *)
ReIndexDoneForward ==
  /\ AtSelect /\ done # {}
  /\ done' = {}
  /\ timer' = timer \cup {"armed"}
  /\ UNCHANGED <<table, loop, asOf, docs, built, job, overlapped, failures>>

ReIndexDoneOnce ==
  /\ AtSelect
  /\ \E id \in done : /\ last' = id /\ upTo' = id
                      /\ timer' = IF id = last THEN timer ELSE timer \cup {"armed"}
  /\ done' = {}
  /\ UNCHANGED <<table, started, loaded, asOf, docs, built, job, overlapped, failures>>

(* A rebuild is done: back to where it started; partialUpdateTimer is set  *)
(* to fire at once.                                                        *)
ReIndexDone ==
  /\ AtSelect
  /\ \E id \in done : last' = id /\ upTo' = id
  /\ done' = {}
  /\ timer' = timer \cup {"armed"}
  /\ UNCHANGED <<table, started, loaded, asOf, docs, built, job, overlapped, failures>>

-----------------------------------------------------------------------------
Building(j) == job[j].pc \in {"build", "swap"}

(* Mutant: only the organizations of the start are rebuilt.                *)
AcquireInitial(j) ==
  /\ job[j].pc = "wait"
  /\ \A i \in Jobs : ~Building(i)
  /\ job' = [job EXCEPT ![j].pc = "build", ![j].todo = IF @ = {} THEN Initial ELSE @]
  /\ UNCHANGED <<table, loop, asOf, docs, built, timer, done, overlapped, failures>>

(* The semaphore; reIndexFromScratch then lists the organizations.         *)
Acquire(j) ==
  /\ job[j].pc = "wait"
  /\ \A i \in Jobs : ~Building(i)
  /\ job' = [job EXCEPT ![j].pc = "build", ![j].todo = IF @ = {} THEN built ELSE @]
  /\ UNCHANGED <<table, loop, asOf, docs, built, timer, done, overlapped, failures>>

(* buildOrgIndex: load everything, which may fail when the new index is    *)
(* made of it, then put that in place.                                     *)
LoadAll(j, o) ==
  /\ job[j].pc = "build" /\ o \in job[j].todo
  /\ \/ /\ job' = [job EXCEPT ![j].pc = "swap", ![j].org = o, ![j].snap = db[o]]
        /\ UNCHANGED failures
     \/ /\ Fail
        /\ job' = [job EXCEPT ![j].todo = @ \ {o}]
  /\ UNCHANGED <<table, loop, asOf, docs, built, timer, done, overlapped>>

Swap(j) ==
  /\ job[j].pc = "swap"
  /\ docs' = [docs EXCEPT ![job[j].org] = LoadDashboards("")]
  /\ asOf' = [asOf EXCEPT ![job[j].org] = job[j].snap]
  /\ built' = built \cup {job[j].org}
  /\ job' = [job EXCEPT ![j].pc = "build", ![j].todo = @ \ {job[j].org}]
  /\ UNCHANGED <<table, loop, timer, done, overlapped, failures>>

(* The event is sent when reIndexDoneCh has room; the semaphore is kept    *)
(* until then.                                                             *)
Finish(j) ==
  /\ job[j].pc = "build" /\ job[j].todo = {}
  /\ done = {}
  /\ done' = {job[j].from}
  /\ job' = [job EXCEPT ![j] = Idle]
  /\ UNCHANGED <<table, loop, asOf, docs, built, timer, overlapped, failures>>

-----------------------------------------------------------------------------
JobStep(j) ==
  \/ Acquire(j)
  \/ \E o \in Orgs : LoadAll(j, o)
  \/ Swap(j)
  \/ Finish(j)

LoopStep ==
  \/ Start
  \/ \E o \in Initial \ built : BuildInitial(o)
  \/ Skip
  \/ Load
  \/ Store

Next ==
  \/ \E o \in Orgs, u \in Uids : Change(o, u)
  \/ LoopStep
  \/ Update
  \/ StoreFails
  \/ \E j \in Jobs : \/ JobStep(j)
                     \/ FullTick(j)
                     \/ \E o \in Orgs : BuildSignal(j, o)
  \/ TimerFires
  \/ ReIndexSignal
  \/ ReIndexDone

Spec == Init /\ [][Next]_vars

(* select does not leave out a case that stays ready, and a goroutine that *)
(* waits for the semaphore gets it.                                        *)
FairSpec ==
  /\ Spec
  /\ WF_vars(LoopStep) /\ WF_vars(TimerFires)
  /\ WF_vars(ReIndexDone) /\ WF_vars(\E j \in Jobs : FullTick(j))
  /\ WF_vars(\E j \in Jobs : JobStep(j))

-----------------------------------------------------------------------------
(* The types.  An index holds the root folder and no dashboard.            *)
TypeOK ==
  /\ db \in [Orgs -> [Uids -> Nat]] /\ asOf \in [Orgs -> [Uids -> Nat]]
  /\ docs = [o \in Orgs |-> IF o \in built THEN {Root} ELSE {}]
  /\ events \in Seq(Event)
  /\ built \subseteq Orgs
  /\ started \in BOOLEAN /\ overlapped \in BOOLEAN
  /\ last \in Nat /\ upTo \in Nat /\ loaded \subseteq Nat
  /\ last <= upTo /\ upTo <= Len(events)
  /\ timer \subseteq {"armed", "fired"}
  /\ job \in [Jobs -> [pc : {"idle", "wait", "build", "swap"}, todo : SUBSET Orgs,
                       org : Orgs \cup {NoOrg}, snap : [Uids -> Nat], from : Nat]]
  /\ done \subseteq Nat
  /\ failures \in 0..MaxFailures

(* What an index has of the dashboard of an event up to lastEventID is an  *)
(* answer that the loader gave after the event, or the loop will come back *)
(* to it: a rebuild that started before the event is in flight.  This is   *)
(* what the comment on reIndexDoneCh promises.                             *)
EventsKept ==
  \A i \in 1..last :
    LET e == events[i] IN
      e.org \in built =>
        \/ e.ver <= asOf[e.org][e.uid]
        \/ \E id \in done : id < i
        \/ \E j \in Jobs : job[j].pc # "idle" /\ job[j].from < i

(* It is so as long as rebuilds follow one another: the older answers that *)
(* a rebuild puts in place, and one that was asked for before the swap and *)
(* is stored after it, are made good by the events that are re-applied.    *)
EventsKeptApart == ~overlapped => EventsKept

(* Whatever was missed, a full rebuild is always ahead: the timer that     *)
(* starts it is only off while a rebuild runs that will set it again.      *)
ReindexAhead == timer # {} \/ InFlight

(* When nothing changes any more every index comes to hold the answers     *)
(* that the loader gives then, changes without an event and overlapping    *)
(* rebuilds included: each was asked for after the last change.            *)
CatchesUp == <>[](\A o \in built : asOf[o] = db[o])
=============================================================================
