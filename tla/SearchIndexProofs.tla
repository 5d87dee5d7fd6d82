------------------------- MODULE SearchIndexProofs -------------------------
(***************************************************************************)
(* For any number of organizations, dashboards, rebuilds and changes: as   *)
(* long as rebuilds do not overlap, what an index has of a dashboard was   *)
(* asked for after every applied event of it, or a rebuild in flight goes  *)
(* back before the event; and a full rebuild is always ahead.              *)
(*                                                                         *)
(* What a rebuild loads it asks for after the events up to its start, so   *)
(* that the events it may undo are the ones that are applied again; what   *)
(* the loop stores it asked for after the events up to the one it applies. *)
(***************************************************************************)
EXTENDS SearchIndex, TLAPS

Active(j) == job[j].pc # "idle"

(* Before the loop starts nothing is indexed or rebuilt; afterwards        *)
(* rebuilds go back to events that exist.                                  *)
Running ==
  /\ ~started => last = upTo /\ built = {} /\ done = {} /\ \A j \in Jobs : ~Active(j)
  /\ \A id \in done : id <= Len(events)
  /\ \A j \in Jobs : job[j].from <= Len(events)
  /\ \A j \in Jobs : job[j].pc = "swap" => job[j].org \in Orgs

(* No event counts more changes than there were.                           *)
Stored == \A i \in 1..Len(events) : events[i].ver <= db[events[i].org][events[i].uid]

(* What is loaded was asked for after the events up to the one applied.    *)
LoadedInTime ==
  \A v \in loaded :
    /\ last < upTo /\ events[last + 1].org \in built
    /\ \A i \in 1..(last + 1) :
         events[i].org = events[last + 1].org /\ events[i].uid = events[last + 1].uid
           => events[i].ver <= v

(* Nor is a snapshot, than the events up to the start of its rebuild.      *)
SnapshotInTime ==
  \A j \in Jobs : job[j].pc = "swap" =>
    \A i \in 1..job[j].from :
      events[i].org = job[j].org => events[i].ver <= job[j].snap[events[i].uid]

(* At most one rebuild is in flight, and goes back.                        *)
OneInFlight ==
  /\ \A id \in done : id <= last /\ \A id2 \in done : id2 = id
  /\ \A j \in Jobs : Active(j) =>
       job[j].from <= last /\ done = {} /\ \A i \in Jobs : Active(i) => i = j

IInv ==
  /\ TypeOK
  /\ Running
  /\ Stored
  /\ LoadedInTime
  /\ SnapshotInTime
  /\ ReindexAhead
  /\ ~overlapped => OneInFlight /\ EventsKept
-----------------------------------------------------------------------------
LEMMA EventTypes ==
  ASSUME TypeOK
  PROVE  /\ Len(events) \in Nat
         /\ \A i \in 1..Len(events) :
              events[i].org \in Orgs /\ events[i].uid \in Uids /\ events[i].ver \in Nat
  <1>1. events \in Seq(Event)
    BY DEF TypeOK
  <1>2. Len(events) \in Nat /\ \A i \in 1..Len(events) : events[i] \in Event
    BY <1>1
  <1> QED
    BY <1>2 DEF Event

LEMMA PositionTypes ==
  ASSUME TypeOK
  PROVE  /\ last \in Nat /\ upTo \in Nat /\ last <= upTo /\ upTo <= Len(events)
         /\ \A id \in done : id \in Nat
  BY DEF TypeOK

LEMMA JobTypes ==
  ASSUME TypeOK, NEW j \in Jobs
  PROVE  /\ job[j].pc \in {"idle", "wait", "build", "swap"} /\ job[j].todo \in SUBSET Orgs
         /\ job[j].org \in Orgs \cup {NoOrg} /\ job[j].snap \in [Uids -> Nat]
         /\ job[j].from \in Nat
  BY DEF TypeOK

LEMMA InitIInv == Init => IInv
  <1> SUFFICES ASSUME Init PROVE IInv
    OBVIOUS
  <1>1. TypeOK
    <2>0. docs = [o \in Orgs |-> IF o \in built THEN {Root} ELSE {}]
      BY DEF Init
    <2>1. /\ db \in [Orgs -> [Uids -> Nat]] /\ asOf \in [Orgs -> [Uids -> Nat]]
          /\ events \in Seq(Event) /\ Len(events) = 0
      BY DEF Init
    <2>2. job \in [Jobs -> [pc : {"idle", "wait", "build", "swap"}, todo : SUBSET Orgs,
                            org : Orgs \cup {NoOrg}, snap : [Uids -> Nat], from : Nat]]
      BY DEF Init, Idle
    <2>3. /\ built \subseteq Orgs /\ started \in BOOLEAN /\ overlapped \in BOOLEAN
          /\ loaded \subseteq Nat /\ done \subseteq Nat /\ timer \subseteq {"armed", "fired"}
      BY DEF Init
    <2>4. last = 0 /\ upTo = 0 /\ failures = 0 /\ MaxFailures \in Nat
      BY SearchIndexAssumption DEF Init
    <2> QED
      BY <2>0, <2>1, <2>2, <2>3, <2>4 DEF TypeOK
  <1>2. Running /\ Stored /\ LoadedInTime /\ SnapshotInTime /\ OneInFlight /\ EventsKept
    BY DEF Init, Idle, Running, Active, Stored, LoadedInTime, SnapshotInTime, OneInFlight, EventsKept
  <1>3. ReindexAhead
    BY DEF Init, ReindexAhead
  <1> QED
    BY <1>1, <1>2, <1>3 DEF IInv

-----------------------------------------------------------------------------
(* An index that is built holds the root folder.                           *)
LEMMA RootDocs ==
  ASSUME TypeOK, NEW o \in Orgs, docs' = [docs EXCEPT ![o] = LoadDashboards("")],
         built' = built \cup {o}
  PROVE  docs' = [p \in Orgs |-> IF p \in built' THEN {Root} ELSE {}]
  BY DEF TypeOK, LoadDashboards

LEMMA ChangeStep ==
  ASSUME IInv, NEW o \in Orgs, NEW u \in Uids, Change(o, u)
  PROVE  IInv'
  <1> USE EventTypes DEF Change, loop, rebuild
  <1> DEFINE e == [org |-> o, uid |-> u, ver |-> db[o][u] + 1]
  <1>1. /\ db' \in [Orgs -> [Uids -> Nat]] /\ db[o][u] \in Nat /\ db'[o][u] = db[o][u] + 1
        /\ \A p \in Orgs, w \in Uids : db[p][w] \in Nat /\ db[p][w] <= db'[p][w]
    BY DEF IInv, TypeOK
  <1>2. e \in Event
    BY <1>1 DEF Event
  <1>3. /\ events' \in Seq(Event) /\ Len(events) <= Len(events') /\ Len(events') \in Nat
        /\ \A i \in 1..Len(events) : events'[i] = events[i]
        /\ \A i \in 1..Len(events') : i > Len(events) => events'[i] = e
    <2>1. events \in Seq(Event)
      BY DEF IInv, TypeOK
    <2>2. CASE events' = Append(events, e)
      <3> HIDE DEF e
      <3> QED
        BY <1>2, <2>1, <2>2
    <2>3. CASE UNCHANGED events
      BY <2>1, <2>3
    <2> QED
      BY <2>2, <2>3
  <1>4. TypeOK'
    BY <1>1, <1>3 DEF IInv, TypeOK
  <1>5. Running'
    BY <1>3 DEF IInv, TypeOK, Running, Active
  <1>6. Stored'
    BY <1>1, <1>3 DEF IInv, Stored
  <1>7. LoadedInTime'
    <2>1. loaded # {} => last + 1 \in 1..Len(events) /\ last \in Nat
      BY PositionTypes DEF IInv, LoadedInTime
    <2>2. loaded # {} => \A i \in 1..(last + 1) : events'[i] = events[i]
      BY <1>3, <2>1
    <2>3. loaded # {} => last + 1 \in 1..(last + 1)
      BY <2>1
    <2> QED
      BY <2>2, <2>3 DEF IInv, LoadedInTime
  <1>8. SnapshotInTime'
    <2>1. \A j \in Jobs : job[j].from \in Nat /\ job[j].from <= Len(events)
      BY JobTypes DEF IInv, Running
    <2> QED
      BY <1>3, <2>1 DEF IInv, SnapshotInTime
  <1>9. ReindexAhead'
    BY DEF IInv, ReindexAhead, InFlight
  <1>10. ASSUME ~overlapped PROVE (OneInFlight /\ EventsKept)'
    <2>1. \A i \in 1..last : events'[i] = events[i]
      BY <1>3, PositionTypes DEF IInv
    <2> QED
      BY <1>10, <2>1 DEF IInv, OneInFlight, Active, EventsKept
  <1> QED
    BY <1>4, <1>5, <1>6, <1>7, <1>8, <1>9, <1>10 DEF IInv

LEMMA StartStep ==
  ASSUME IInv, Start
  PROVE  IInv'
  <1> USE EventTypes DEF Start, table, rebuild
  <1>1. built = {} /\ loaded = {} /\ \A j \in Jobs : ~Active(j)
    BY DEF IInv, Running, LoadedInTime, TypeOK
  <1>2. TypeOK'
    BY DEF IInv, TypeOK
  <1>3. Running' /\ Stored' /\ LoadedInTime' /\ SnapshotInTime'
    BY <1>1 DEF IInv, Running, Active, Stored, LoadedInTime, SnapshotInTime
  <1>4. ReindexAhead'
    BY DEF IInv, ReindexAhead, InFlight
  <1>5. (OneInFlight /\ EventsKept)'
    BY <1>1 DEF IInv, Running, OneInFlight, Active, EventsKept
  <1> QED
    BY <1>2, <1>3, <1>4, <1>5 DEF IInv

LEMMA BuildInitialStep ==
  ASSUME IInv, NEW o \in Initial \ built, BuildInitial(o)
  PROVE  IInv'
  <1> USE EventTypes DEF table, loop, rebuild
  <1>0. /\ o \in Orgs /\ started /\ built' = built \cup {o}
        /\ asOf' = [asOf EXCEPT ![o] = db[o]]
        /\ UNCHANGED <<table, loop, rebuild, failures>>
    BY SearchIndexAssumption DEF BuildInitial
  <1>1. TypeOK'
    <2>1. docs' = [p \in Orgs |-> IF p \in built' THEN {Root} ELSE {}]
      BY <1>0, RootDocs DEF BuildInitial, IInv
    <2> QED
      BY <1>0, <2>1 DEF IInv, TypeOK
  <1>2. Running' /\ Stored' /\ SnapshotInTime' /\ LoadedInTime'
    BY <1>0 DEF IInv, Running, Active, Stored, SnapshotInTime, LoadedInTime
  <1>3. ReindexAhead'
    BY <1>0 DEF IInv, ReindexAhead, InFlight
  <1>4. ASSUME ~overlapped PROVE OneInFlight'
    BY <1>0, <1>4 DEF IInv, OneInFlight, Active
  <1>5. ASSUME ~overlapped PROVE EventsKept'
    <2>1. \A i \in 1..last : i \in 1..Len(events)
      BY <1>0, PositionTypes DEF IInv
    <2>2. /\ o \in Orgs /\ asOf'[o] = db[o]
          /\ \A p \in Orgs : p # o => asOf'[p] = asOf[p]
      BY <1>0 DEF IInv, TypeOK
    <2> QED
      BY <1>0, <1>5, <2>1, <2>2 DEF IInv, Stored, EventsKept
  <1> QED
    BY <1>0, <1>1, <1>2, <1>3, <1>4, <1>5 DEF IInv

-----------------------------------------------------------------------------
LEMMA UpdateStep ==
  ASSUME IInv, Update
  PROVE  IInv'
  <1> USE EventTypes DEF Update, table, rebuild
  <1>1. /\ upTo' \in Nat /\ last <= upTo' /\ upTo' <= Len(events)
        /\ UNCHANGED <<db, events, asOf, docs, built, started, last, loaded, timer, job, done, overlapped, failures>>
    BY DEF IInv, TypeOK
  <1>2. loaded = {} /\ started
    BY DEF IInv, TypeOK, LoadedInTime, AtSelect, Running
  <1> HIDE DEF Update
  <1>3. TypeOK'
    BY <1>1 DEF IInv, TypeOK
  <1>4. Running' /\ Stored' /\ SnapshotInTime' /\ LoadedInTime'
    BY <1>1, <1>2 DEF IInv, Running, Active, Stored, SnapshotInTime, LoadedInTime
  <1>5. ReindexAhead'
    BY <1>1 DEF IInv, ReindexAhead, InFlight
  <1>6. ASSUME ~overlapped PROVE (OneInFlight /\ EventsKept)'
    BY <1>1, <1>6 DEF IInv, OneInFlight, Active, EventsKept
  <1> QED
    BY <1>1, <1>3, <1>4, <1>5, <1>6 DEF IInv

LEMMA StoreFailsStep ==
  ASSUME IInv, StoreFails
  PROVE  IInv'
  <1> USE EventTypes DEF table, rebuild
  <1>1. /\ upTo' = last /\ loaded' = {} /\ last < upTo /\ failures' \in 0..MaxFailures
        /\ UNCHANGED <<db, events, asOf, docs, built, started, last, timer, job, done, overlapped>>
    BY SearchIndexAssumption DEF StoreFails, Fail, IInv, TypeOK
  <1>2. TypeOK'
    BY <1>1 DEF IInv, TypeOK
  <1>3. Running' /\ Stored' /\ SnapshotInTime' /\ LoadedInTime'
    BY <1>1 DEF IInv, Running, Active, Stored, SnapshotInTime, LoadedInTime
  <1>4. ReindexAhead'
    BY <1>1 DEF IInv, ReindexAhead, InFlight
  <1>5. ASSUME ~overlapped PROVE (OneInFlight /\ EventsKept)'
    BY <1>1, <1>5 DEF IInv, OneInFlight, Active, EventsKept
  <1> QED
    BY <1>1, <1>2, <1>3, <1>4, <1>5 DEF IInv

LEMMA SkipStep ==
  ASSUME IInv, Skip
  PROVE  IInv'
  <1> USE EventTypes DEF Skip, table, rebuild
  <1>1. loaded = {} /\ last \in Nat /\ last + 1 <= Len(events)
    BY DEF IInv, TypeOK, LoadedInTime
  <1>2. TypeOK'
    BY DEF IInv, TypeOK
  <1>3. Running' /\ Stored' /\ SnapshotInTime' /\ LoadedInTime'
    BY <1>1 DEF IInv, TypeOK, Running, Active, Stored, SnapshotInTime, LoadedInTime
  <1>4. ReindexAhead'
    BY DEF IInv, ReindexAhead, InFlight
  <1>5. ASSUME ~overlapped PROVE OneInFlight'
    <2>1. \A j \in Jobs : job[j].from \in Nat
      BY JobTypes DEF IInv
    <2> QED
      BY <1>1, <1>5, <2>1, PositionTypes DEF IInv, OneInFlight, Active
  <1>6. ASSUME ~overlapped PROVE EventsKept'
    <2>1. \A i \in 1..(last + 1) : i \in 1..last \/ i = last + 1
      BY <1>1
    <2> QED
      BY <1>6, <2>1 DEF IInv, EventsKept
  <1> QED
    BY <1>2, <1>3, <1>4, <1>5, <1>6 DEF IInv

LEMMA LoadStep ==
  ASSUME IInv, Load
  PROVE  IInv'
  <1> USE EventTypes DEF Load, table, rebuild
  <1>1. last \in Nat /\ last + 1 \in 1..Len(events)
    BY DEF IInv, TypeOK
  <1>2. TypeOK'
    BY <1>1 DEF IInv, TypeOK
  <1>3. Running' /\ Stored' /\ SnapshotInTime'
    BY DEF IInv, Running, Active, Stored, SnapshotInTime
  <1>4. LoadedInTime'
    <2>1. \A i \in 1..(last + 1) : i \in 1..Len(events)
      BY <1>1
    <2> QED
      BY <2>1 DEF IInv, Stored, LoadedInTime
  <1>5. ReindexAhead'
    BY DEF IInv, ReindexAhead, InFlight
  <1>6. ASSUME ~overlapped PROVE (OneInFlight /\ EventsKept)'
    BY <1>6 DEF IInv, OneInFlight, Active, EventsKept
  <1> QED
    BY <1>2, <1>3, <1>4, <1>5, <1>6 DEF IInv

LEMMA StoreStep ==
  ASSUME IInv, Store
  PROVE  IInv'
  <1> USE EventTypes DEF table, rebuild
  <1> DEFINE e == events[last + 1]
  <1>1. PICK v \in loaded : asOf' = [asOf EXCEPT ![e.org][e.uid] = v]
    BY DEF Store
  <1>2. /\ last < upTo /\ last' = last + 1 /\ loaded' = {}
        /\ UNCHANGED <<db, events, started, upTo, built, timer, job, done, overlapped, failures>>
    BY DEF Store
  <1>3. /\ last \in Nat /\ upTo \in Nat /\ last + 1 \in 1..Len(events) /\ v \in Nat
        /\ e.org \in Orgs /\ e.uid \in Uids
    BY <1>2 DEF IInv, TypeOK
  <1>4. /\ asOf' \in [Orgs -> [Uids -> Nat]]
        /\ asOf'[e.org][e.uid] = v
        /\ \A o \in Orgs, u \in Uids : o # e.org \/ u # e.uid => asOf'[o][u] = asOf[o][u]
    BY <1>1, <1>3 DEF IInv, TypeOK
  <1>5. TypeOK'
    <2>1. LoadDashboards(e.uid) = {} /\ e.uid # Root
      BY <1>3, RootAssumption DEF LoadDashboards, Root
    <2>2. docs' = [docs EXCEPT ![e.org] = @ \ {e.uid}]
      BY <2>1 DEF Store
    <2> HIDE DEF e
    <2>3. docs' = docs
      BY <1>3, <2>1, <2>2 DEF IInv, TypeOK
    <2> QED
      BY <1>2, <1>3, <1>4, <2>3 DEF IInv, TypeOK
  <1>6. Running' /\ Stored' /\ SnapshotInTime' /\ LoadedInTime'
    BY <1>2, <1>3 DEF IInv, TypeOK, Running, Active, Stored, SnapshotInTime, LoadedInTime
  <1>7. ReindexAhead'
    BY <1>2 DEF IInv, ReindexAhead, InFlight
  <1>8. ASSUME ~overlapped PROVE OneInFlight'
    BY <1>2, <1>3, <1>8, JobTypes DEF IInv, TypeOK, OneInFlight, Active
  <1>9. ASSUME ~overlapped PROVE EventsKept'
    <2> SUFFICES ASSUME NEW i \in 1..last', events[i].org \in built
                 PROVE  \/ events[i].ver <= asOf'[events[i].org][events[i].uid]
                        \/ \E id \in done : id < i
                        \/ \E j \in Jobs : job[j].pc # "idle" /\ job[j].from < i
      BY <1>2 DEF EventsKept
    <2>1. i \in 1..(last + 1) /\ i \in 1..Len(events)
      BY <1>2, <1>3
    <2>2. CASE events[i].org = e.org /\ events[i].uid = e.uid
      BY <1>4, <2>1, <2>2 DEF IInv, LoadedInTime
    <2>3. CASE ~(events[i].org = e.org /\ events[i].uid = e.uid)
      <3>1. i \in 1..last
        BY <1>3, <2>1, <2>3
      <3>2. asOf'[events[i].org][events[i].uid] = asOf[events[i].org][events[i].uid]
        BY <1>4, <2>1, <2>3 DEF IInv
      <3> QED
        BY <1>9, <3>1, <3>2 DEF IInv, EventsKept
    <2> QED
      BY <2>2, <2>3
  <1> QED
    BY <1>2, <1>5, <1>6, <1>7, <1>8, <1>9 DEF IInv

-----------------------------------------------------------------------------
JobRecord == [pc : {"idle", "wait", "build", "swap"}, todo : SUBSET Orgs,
              org : Orgs \cup {NoOrg}, snap : [Uids -> Nat], from : Nat]

LEMMA GoStep ==
  ASSUME IInv, AtSelect, NEW j \in Jobs, NEW todo \in SUBSET Orgs, Go(j, todo),
         timer' \subseteq timer
  PROVE  IInv'
  <1> USE EventTypes DEF table, loop
  <1> DEFINE r == [Idle EXCEPT !.pc = "wait", !.todo = todo, !.from = last]
  <1>1. /\ job[j].pc = "idle" /\ job' = [job EXCEPT ![j] = r]
        /\ overlapped' = (overlapped \/ InFlight)
        /\ UNCHANGED <<db, events, started, last, upTo, loaded, asOf, docs, built, done, failures>>
    BY DEF Go
  <1>2. r.pc = "wait" /\ r.from = last
    BY DEF Idle
  <1>3. r \in JobRecord
    BY PositionTypes DEF IInv, JobRecord, Idle
  <1> HIDE DEF r
  <1>4. job' \in [Jobs -> JobRecord] /\ job'[j] = r /\ \A i \in Jobs \ {j} : job'[i] = job[i]
    BY <1>1, <1>3 DEF IInv, TypeOK, JobRecord
  <1>5. overlapped' \in BOOLEAN
    BY <1>1
  <1>6. TypeOK'
    BY <1>1, <1>4, <1>5 DEF IInv, TypeOK, JobRecord
  <1>7. Running' /\ SnapshotInTime'
    BY <1>1, <1>2, <1>4, PositionTypes DEF IInv, AtSelect, Running, Active, SnapshotInTime
  <1>8. Stored' /\ LoadedInTime'
    BY <1>1 DEF IInv, Stored, LoadedInTime
  <1>9. ReindexAhead'
    BY <1>2, <1>4 DEF ReindexAhead, InFlight
  <1>10. ASSUME ~overlapped' PROVE (OneInFlight /\ EventsKept)'
    <2>1. ~overlapped /\ done = {} /\ \A i \in Jobs : ~Active(i)
      BY <1>1, <1>10 DEF InFlight, Active
    <2>2. OneInFlight'
      BY <1>1, <1>2, <1>4, <2>1, PositionTypes DEF IInv, OneInFlight, Active
    <2>3. EventsKept'
      BY <1>1, <2>1 DEF IInv, EventsKept, Active
    <2> QED
      BY <2>2, <2>3
  <1> QED
    BY <1>6, <1>7, <1>8, <1>9, <1>10 DEF IInv

LEMMA BuildSignalStep ==
  ASSUME IInv, NEW j \in Jobs, NEW o \in Orgs, BuildSignal(j, o)
  PROVE  IInv'
  BY GoStep DEF BuildSignal

LEMMA FullTickStep ==
  ASSUME IInv, NEW j \in Jobs, FullTick(j)
  PROVE  IInv'
  BY GoStep DEF FullTick

LEMMA TimerStep ==
  ASSUME IInv, TimerFires \/ ReIndexSignal
  PROVE  IInv'
  <1>1. /\ timer' # {} /\ timer' \subseteq {"armed", "fired"}
        /\ UNCHANGED <<table, loop, asOf, docs, built, job, done, overlapped, failures>>
    BY DEF IInv, TypeOK, TimerFires, ReIndexSignal
  <1> USE <1>1 DEF table, loop
  <1>2. TypeOK'
    BY DEF IInv, TypeOK
  <1>3. Running' /\ Stored' /\ LoadedInTime' /\ SnapshotInTime' /\ ReindexAhead'
    BY DEF IInv, Running, Active, Stored, LoadedInTime, SnapshotInTime, ReindexAhead
  <1>4. ASSUME ~overlapped PROVE (OneInFlight /\ EventsKept)'
    BY <1>4 DEF IInv, OneInFlight, Active, EventsKept
  <1> QED
    BY <1>2, <1>3, <1>4 DEF IInv

LEMMA ReIndexDoneStep ==
  ASSUME IInv, ReIndexDone
  PROVE  IInv'
  <1> USE EventTypes DEF table
  <1>1. PICK id \in done : last' = id /\ upTo' = id
    BY DEF ReIndexDone
  <1>2. /\ AtSelect /\ done' = {} /\ timer' = timer \cup {"armed"}
        /\ UNCHANGED <<db, events, started, loaded, asOf, docs, built, job, overlapped, failures>>
    BY DEF ReIndexDone
  <1>3. loaded = {} /\ id \in Nat /\ id <= Len(events) /\ started
    BY <1>2, PositionTypes DEF IInv, LoadedInTime, AtSelect, Running
  <1>4. TypeOK'
    BY <1>1, <1>2, <1>3 DEF IInv, TypeOK
  <1>5. Running' /\ Stored' /\ LoadedInTime' /\ SnapshotInTime' /\ ReindexAhead'
    BY <1>1, <1>2, <1>3 DEF IInv, Running, Active, Stored, LoadedInTime, SnapshotInTime,
                            ReindexAhead
  <1>6. ASSUME ~overlapped PROVE (OneInFlight /\ EventsKept)'
    <2>1. id <= last /\ (\A id2 \in done : id2 = id) /\ \A j \in Jobs : ~Active(j)
      BY <1>6 DEF IInv, OneInFlight
    <2>2. \A i \in 1..id : i \in 1..last /\ ~(id < i)
      BY <1>3, <2>1, PositionTypes DEF IInv
    <2>3. EventsKept'
      BY <1>1, <1>2, <1>6, <2>1, <2>2 DEF IInv, EventsKept, Active
    <2>4. OneInFlight'
      BY <1>2, <2>1 DEF OneInFlight, Active
    <2> QED
      BY <2>3, <2>4
  <1> QED
    BY <1>2, <1>4, <1>5, <1>6 DEF IInv

-----------------------------------------------------------------------------
LEMMA AcquireStep ==
  ASSUME IInv, NEW j \in Jobs, Acquire(j)
  PROVE  IInv'
  <1> USE EventTypes DEF table, loop
  <1> DEFINE r == [job[j] EXCEPT !.pc = "build", !.todo = IF @ = {} THEN built ELSE @]
  <1>1. /\ job[j].pc = "wait" /\ job' = [job EXCEPT ![j] = r]
        /\ UNCHANGED <<table, loop, asOf, docs, built, timer, done, overlapped, failures>>
    BY DEF Acquire, IInv, TypeOK
  <1>2. r \in JobRecord /\ r.pc = "build" /\ r.from = job[j].from
    BY DEF IInv, TypeOK, JobRecord
  <1> HIDE DEF r
  <1>3. job' \in [Jobs -> JobRecord] /\ job'[j] = r /\ \A i \in Jobs \ {j} : job'[i] = job[i]
    BY <1>1, <1>2 DEF IInv, TypeOK, JobRecord
  <1>4. TypeOK'
    BY <1>1, <1>3 DEF IInv, TypeOK, JobRecord
  <1>5. Running' /\ SnapshotInTime'
    BY <1>1, <1>2, <1>3 DEF IInv, Running, Active, SnapshotInTime
  <1>6. Stored' /\ LoadedInTime'
    BY <1>1 DEF IInv, Stored, LoadedInTime
  <1>7. ReindexAhead'
    BY <1>1, <1>2, <1>3 DEF ReindexAhead, InFlight
  <1>8. ASSUME ~overlapped PROVE (OneInFlight /\ EventsKept)'
    BY <1>1, <1>2, <1>3, <1>8 DEF IInv, OneInFlight, Active, EventsKept
  <1> QED
    BY <1>1, <1>4, <1>5, <1>6, <1>7, <1>8 DEF IInv

LEMMA LoadAllStep ==
  ASSUME IInv, NEW j \in Jobs, NEW o \in Orgs, LoadAll(j, o)
  PROVE  IInv'
  <1> USE EventTypes DEF table, loop
  <1> DEFINE Loads == [job[j] EXCEPT !.pc = "swap", !.org = o, !.snap = db[o]]
             Fails == [job[j] EXCEPT !.todo = @ \ {o}]
  <1>1. PICK r \in {Loads, Fails} : job' = [job EXCEPT ![j] = r]
    BY DEF LoadAll, IInv, TypeOK
  <1>2. /\ job[j].pc = "build" /\ failures' \in 0..MaxFailures
        /\ UNCHANGED <<table, loop, asOf, docs, built, timer, done, overlapped>>
    BY SearchIndexAssumption DEF LoadAll, Fail, IInv, TypeOK
  <1>3. /\ r \in JobRecord /\ r.pc # "idle" /\ r.from = job[j].from
        /\ r.pc = "swap" => r.org = o /\ r.snap = db[o]
    BY <1>2 DEF IInv, TypeOK, JobRecord
  <1> HIDE DEF Loads, Fails
  <1>4. job' \in [Jobs -> JobRecord] /\ job'[j] = r /\ \A i \in Jobs \ {j} : job'[i] = job[i]
    BY <1>1, <1>3 DEF IInv, TypeOK, JobRecord
  <1>5. TypeOK'
    BY <1>2, <1>4 DEF IInv, TypeOK, JobRecord
  <1>6. Running'
    BY <1>2, <1>3, <1>4 DEF IInv, Running, Active
  <1>7. SnapshotInTime'
    <2>1. \A i \in 1..job[j].from : i \in 1..Len(events)
      BY JobTypes DEF IInv, Running
    <2> QED
      BY <1>2, <1>3, <1>4, <2>1 DEF IInv, Stored, SnapshotInTime
  <1>8. Stored' /\ LoadedInTime'
    BY <1>2 DEF IInv, Stored, LoadedInTime
  <1>9. ReindexAhead'
    BY <1>2, <1>3, <1>4 DEF ReindexAhead, InFlight
  <1>10. ASSUME ~overlapped PROVE (OneInFlight /\ EventsKept)'
    BY <1>2, <1>3, <1>4, <1>10 DEF IInv, OneInFlight, Active, EventsKept
  <1> QED
    BY <1>2, <1>5, <1>6, <1>7, <1>8, <1>9, <1>10 DEF IInv

LEMMA SwapStep ==
  ASSUME IInv, NEW j \in Jobs, Swap(j)
  PROVE  IInv'
  <1> USE EventTypes DEF table, loop
  <1> DEFINE r == [job[j] EXCEPT !.pc = "build", !.todo = @ \ {job[j].org}]
             o == job[j].org
  <1>1. /\ job[j].pc = "swap" /\ job' = [job EXCEPT ![j] = r]
        /\ asOf' = [asOf EXCEPT ![o] = job[j].snap] /\ built' = built \cup {o}
        /\ docs' = [docs EXCEPT ![o] = LoadDashboards("")]
        /\ UNCHANGED <<table, loop, timer, done, overlapped, failures>>
    BY DEF Swap, IInv, TypeOK
  <1>2. o \in Orgs /\ job[j].snap \in [Uids -> Nat] /\ started
    BY <1>1, JobTypes DEF IInv, Running, Active
  <1>3. r \in JobRecord /\ r.pc = "build" /\ r.from = job[j].from
    BY DEF IInv, TypeOK, JobRecord
  <1> HIDE DEF r, o
  <1>4. job' \in [Jobs -> JobRecord] /\ job'[j] = r /\ \A i \in Jobs \ {j} : job'[i] = job[i]
    BY <1>1, <1>3 DEF IInv, TypeOK, JobRecord
  <1>5. /\ asOf' \in [Orgs -> [Uids -> Nat]] /\ asOf'[o] = job[j].snap
        /\ \A p \in Orgs : p # o => asOf'[p] = asOf[p]
    BY <1>1, <1>2 DEF IInv, TypeOK
  <1>6. TypeOK'
    <2>1. docs' = [p \in Orgs |-> IF p \in built' THEN {Root} ELSE {}]
      BY <1>1, <1>2, RootDocs DEF IInv
    <2> QED
      BY <1>1, <1>2, <1>4, <1>5, <2>1 DEF IInv, TypeOK, JobRecord
  <1>7. Running' /\ SnapshotInTime'
    BY <1>1, <1>2, <1>3, <1>4 DEF IInv, Running, Active, SnapshotInTime
  <1>8. Stored' /\ LoadedInTime'
    BY <1>1 DEF IInv, Stored, LoadedInTime
  <1>9. ReindexAhead'
    BY <1>3, <1>4 DEF ReindexAhead, InFlight
  <1>10. ASSUME ~overlapped PROVE OneInFlight'
    BY <1>1, <1>3, <1>4, <1>10 DEF IInv, OneInFlight, Active
  <1>11. ASSUME ~overlapped PROVE EventsKept'
    <2>1. ASSUME NEW i \in 1..last, events[i].org = o
          PROVE  events[i].ver <= asOf'[o][events[i].uid] \/ job[j].from < i
      <3>1. i \in 1..job[j].from \/ job[j].from < i
        BY JobTypes DEF IInv
      <3> QED
        BY <1>1, <1>5, <2>1, <3>1 DEF IInv, SnapshotInTime, o
    <2>2. \A i \in 1..last : i \in 1..Len(events)
      BY PositionTypes DEF IInv
    <2> QED
      BY <1>1, <1>3, <1>4, <1>5, <1>11, <2>1, <2>2 DEF IInv, EventsKept
  <1> QED
    BY <1>1, <1>6, <1>7, <1>8, <1>9, <1>10, <1>11 DEF IInv

LEMMA FinishStep ==
  ASSUME IInv, NEW j \in Jobs, Finish(j)
  PROVE  IInv'
  <1> USE EventTypes DEF table, loop
  <1>1. /\ job[j].pc = "build" /\ job' = [job EXCEPT ![j] = Idle]
        /\ done = {} /\ done' = {job[j].from}
        /\ UNCHANGED <<table, loop, asOf, docs, built, timer, overlapped, failures>>
    BY DEF Finish
  <1>2. Idle \in JobRecord /\ Idle.pc = "idle" /\ Idle.from = 0
    BY DEF Idle, JobRecord
  <1>3. job' \in [Jobs -> JobRecord] /\ job'[j] = Idle /\ \A i \in Jobs \ {j} : job'[i] = job[i]
    BY <1>1, <1>2 DEF IInv, TypeOK, JobRecord
  <1>4. job[j].from \in Nat /\ job[j].from <= Len(events) /\ started
    BY <1>1, JobTypes DEF IInv, Running, Active
  <1>5. TypeOK'
    BY <1>1, <1>3, <1>4 DEF IInv, TypeOK, JobRecord
  <1>6. Running' /\ SnapshotInTime'
    BY <1>1, <1>2, <1>3, <1>4 DEF IInv, Running, Active, SnapshotInTime
  <1>7. Stored' /\ LoadedInTime'
    BY <1>1 DEF IInv, Stored, LoadedInTime
  <1>8. ReindexAhead'
    BY <1>1 DEF ReindexAhead, InFlight
  <1>9. ASSUME ~overlapped PROVE (OneInFlight /\ EventsKept)'
    <2>1. job[j].from <= last /\ \A i \in Jobs : i # j => ~Active(i)
      BY <1>1, <1>9 DEF IInv, OneInFlight, Active
    <2>2. OneInFlight'
      BY <1>1, <1>2, <1>3, <2>1 DEF OneInFlight, Active
    <2>3. EventsKept'
      BY <1>1, <1>3, <1>9, <2>1 DEF IInv, EventsKept, Active
    <2> QED
      BY <2>2, <2>3
  <1> QED
    BY <1>1, <1>5, <1>6, <1>7, <1>8, <1>9 DEF IInv

-----------------------------------------------------------------------------
LEMMA NextIInv == IInv /\ [Next]_vars => IInv'
  <1> SUFFICES ASSUME IInv, [Next]_vars PROVE IInv'
    OBVIOUS
  <1>1. CASE UNCHANGED vars
    BY <1>1 DEF vars, table, loop, rebuild, IInv, TypeOK, Running, Active, Stored, LoadedInTime,
                SnapshotInTime, ReindexAhead, InFlight, OneInFlight, EventsKept
  <1>2. CASE LoopStep
    BY <1>2, StartStep, BuildInitialStep, SkipStep, LoadStep, StoreStep DEF LoopStep
  <1>3. ASSUME NEW j \in Jobs, JobStep(j) PROVE IInv'
    BY <1>3, AcquireStep, LoadAllStep, SwapStep, FinishStep DEF JobStep
  <1> QED
    BY <1>1, <1>2, <1>3, ChangeStep, UpdateStep, StoreFailsStep, FullTickStep, BuildSignalStep, TimerStep,
       ReIndexDoneStep DEF Next

LEMMA SpecIInv == Spec => []IInv
  BY InitIInv, NextIInv, PTL DEF Spec

-----------------------------------------------------------------------------
(* The variables keep their types: the loop is never past the last event,  *)
(* and with the repository's loader no index holds a dashboard.            *)
THEOREM SearchIndexTypes == Spec => []TypeOK
  BY SpecIInv, PTL DEF IInv

(* What an index has of the dashboard of an event up to lastEventID was    *)
(* asked for after the event, or a rebuild in flight goes back before it,  *)
(* as long as rebuilds follow one another.                                 *)
THEOREM AppliedEventsKept == Spec => []EventsKeptApart
  <1>1. IInv => EventsKeptApart
    BY DEF IInv, EventsKeptApart
  <1> QED
    BY <1>1, SpecIInv, PTL

(* The timer of the full rebuild is on, or a rebuild runs that will set it *)
(* again.                                                                  *)
THEOREM ReindexIsAhead == Spec => []ReindexAhead
  BY SpecIInv, PTL DEF IInv
=============================================================================
