-------------------------- MODULE AuthTokenProofs --------------------------
(***************************************************************************)
(* For any number of requests, of any duration: until a write stalls no    *)
(* token is restored, and until a slow request changes the token the       *)
(* browser's cookie is accepted.                                           *)
(*                                                                         *)
(* Until a write stalls, a request has read the token that the row has, or *)
(* an older one before the last rotation or shortly after its time stamp:  *)
(* so the row is too new for the older one to be written back.             *)
(*                                                                         *)
(* A token is on its way to the browser in the response of the one request *)
(* that made it.  As long as it is, and the request is not slow, it is     *)
(* unseen and too young for another rotation.  Once the browser has it,    *)
(* requests with the token before are either slow or too early for the     *)
(* urgent rotation, and those that come with it mark it seen before they   *)
(* rotate.                                                                 *)
(***************************************************************************)
EXTENDS AuthToken, TLAPS

Looking(q) == pc[q] \in {"lookup", "prevseen", "seen", "rotate", "update"}
HasRead(q) == pc[q] \in {"prevseen", "seen", "rotate", "update"}
Carries(q) == pc[q] = "respond" /\ cookie[q] # 0

(* The times and tokens of requests.                                       *)
InTime ==
  /\ newest > 0
  /\ stalled => late
  /\ \A q \in Requests :
       /\ model[q].prev <= model[q].auth /\ model[q].auth <= newest /\ model[q].rotated <= now
       /\ pc[q] = "seen" => cookie[q] = model[q].auth
       /\ pc[q] = "prevseen" => cookie[q] # model[q].auth /\ model[q].seen
       /\ pc[q] = "update" => model[q].rotated + UrgentRotateTime < at[q]
       /\ pc[q] \in {"prevseen", "update"} /\ ~Slow(q) => now <= at[q] + age[q]

(* What a request has read, and what has become of it.                     *)
Same(q) ==
  model[q].auth = row.auth /\ model[q].prev = row.prev /\ model[q].rotated = row.rotated

Older(q) ==
  model[q].auth < row.auth /\ (pc[q] = "prevseen" => at[q] <= row.rotated + Short)

ReadInv ==
  row.auth = newest /\ \A q \in Requests : HasRead(q) => Same(q) \/ Older(q)

(* The marks it has read, and when it was sent.                            *)
Fresh(q) ==
  /\ model[q].seen => row.seen
  /\ pc[q] \in {"rotate", "update"} /\ cookie[q] = row.auth => model[q].seen

SentBefore(q) == Slow(q) \/ now <= row.rotated + Short + age[q]

ReadBefore ==
  \A q \in Requests : HasRead(q) =>
    /\ model[q].auth = row.auth => Fresh(q)
    /\ model[q].auth < row.auth => SentBefore(q)

(* The newest token is carried by one response, unseen.                    *)
CarriedOnce ==
  \A q \in Requests : Carries(q) =>
    /\ ~Slow(q) => cookie[q] = row.auth /\ now <= row.rotated + age[q]
    /\ cookie[q] = row.auth =>
         /\ ~row.seen /\ jar # row.auth
         /\ \A p \in Requests : Carries(p) /\ cookie[p] = row.auth => p = q
         /\ \A p \in Requests : Looking(p) => cookie[p] # row.auth

(* The newest token has been in the browser.                               *)
Reached ==
  \/ row.seen
  \/ jar = row.auth
  \/ \E q \in Requests : Looking(q) /\ cookie[q] = row.auth

AfterReached ==
  Reached => /\ jar \in {0, row.auth}
             /\ \A q \in Requests : Looking(q) => cookie[q] = row.auth \/ SentBefore(q)

SessionInv ==
  /\ row.prev > 0 /\ jar \in {0, row.prev, row.auth}
  /\ ReadBefore
  /\ CarriedOnce
  /\ AfterReached

IInv ==
  /\ TypeOK
  /\ InTime
  /\ row # NoRow /\ ~stalled => ReadInv
  /\ row # NoRow /\ ~late => SessionInv
-----------------------------------------------------------------------------
LEMMA Constants ==
  /\ Grace \in Nat /\ UrgentRotateTime \in Nat /\ Interval \in Nat /\ Short \in Nat
  /\ Start \in Nat /\ MaxTime \in Nat /\ MaxSends \in Nat
  /\ Start <= MaxTime
  /\ 2 * Short <= Grace /\ Grace <= UrgentRotateTime /\ UrgentRotateTime <= Interval
  /\ NoRow \notin Row
  BY AuthTokenAssumption

LEMMA Types ==
  ASSUME TypeOK
  PROVE  /\ now \in Nat /\ newest \in Nat /\ jar \in 0..newest /\ late \in BOOLEAN /\ stalled \in BOOLEAN
         /\ row # NoRow => /\ row \in Row /\ row.auth \in Nat /\ row.prev \in Nat
                           /\ row.seen \in BOOLEAN /\ row.rotated \in Nat
                           /\ row.prev <= row.auth /\ row.auth <= newest /\ row.rotated <= now
         /\ \A q \in Requests :
              /\ model[q] \in Row /\ model[q].auth \in Nat /\ model[q].prev \in Nat
              /\ model[q].seen \in BOOLEAN /\ model[q].rotated \in Nat
              /\ cookie[q] \in 0..newest /\ age[q] \in 0..(Short + 1) /\ at[q] \in 0..now
              /\ age[q] \in Nat /\ at[q] \in Nat
  BY Constants DEF TypeOK, Row, Token

LEMMA NewRow == New \in Row /\ New.auth = 1 /\ New.prev = 1 /\ New.rotated = 0 /\ New # NoRow
  <1>1. New \in Row /\ New.auth = 1 /\ New.prev = 1 /\ New.rotated = 0
    BY DEF New, Row, Token
  <1> QED
    BY <1>1, Constants

LEMMA InitIInv == Init => IInv
  <1> SUFFICES ASSUME Init PROVE IInv
    OBVIOUS
  <1>1. New \in Row /\ New.auth = 1 /\ New.prev = 1 /\ New.rotated = 0 /\ New # NoRow
    BY NewRow
  <1>2. row = New /\ now = Start /\ jar = 1 /\ newest = 1 /\ stalled = FALSE /\ late = FALSE
    BY DEF Init
  <1>3. TypeOK
    <2>1. now \in 0..MaxTime
      BY Constants, AuthTokenAssumption DEF Init
    <2>2. /\ pc \in [Requests -> {"idle", "lookup", "prevseen", "seen", "rotate", "update", "respond"}]
          /\ cookie \in [Requests -> 0..newest] /\ model \in [Requests -> Row]
          /\ age \in [Requests -> 0..(Short + 1)] /\ at \in [Requests -> 0..now]
      BY <1>1, Constants DEF Init
    <2>3. sends \in 0..MaxSends
      BY Constants DEF Init
    <2>4. row.prev <= row.auth /\ row.auth <= newest /\ row.rotated <= now /\ jar \in 0..newest
      BY <1>1, <1>2, Constants
    <2> QED
      BY <1>1, <1>2, <2>1, <2>2, <2>3, <2>4 DEF TypeOK
  <1>4. \A q \in Requests : pc[q] = "idle" /\ model[q] = New
    BY DEF Init
  <1>5. InTime
    BY <1>1, <1>2, <1>4, Constants DEF InTime
  <1>6. ReadInv
    BY <1>1, <1>2, <1>4 DEF ReadInv, HasRead
  <1>7. SessionInv
    BY <1>1, <1>2, <1>4 DEF SessionInv, ReadBefore, HasRead, CarriedOnce, Carries, AfterReached,
                           Looking
  <1> QED
    BY <1>3, <1>5, <1>6, <1>7 DEF IInv

LEMMA Recorded ==
  ASSUME TypeOK, NEW q \in Requests, Record(q)
  PROVE  /\ late' \in BOOLEAN /\ stalled' \in BOOLEAN /\ sends' = sends
         /\ ~late' => ~late /\ ~Slow(q)
         /\ ~stalled' => ~stalled /\ ~Stalls(q)
         /\ stalled' => stalled \/ Stalls(q)
         /\ late \/ Slow(q) => late'
  BY DEF TypeOK, Record

LEMMA WiderRange ==
  ASSUME NEW n \in Nat, NEW f \in [Requests -> 0..n]
  PROVE  f \in [Requests -> 0..(n + 1)]
  <1>1. \A q \in Requests : f[q] \in 0..(n + 1)
    OBVIOUS
  <1> QED
    BY <1>1

LEMMA TickStep ==
  ASSUME IInv, Tick
  PROVE  IInv'
  <1> USE Constants DEF Tick, history
  <1>1. TypeOK /\ now' = now + 1 /\ now \in Nat
    BY Types DEF IInv
  <1>2. \A q \in Requests :
          /\ age[q] \in 0..(Short + 1) /\ at[q] \in Nat
          /\ age'[q] \in 0..(Short + 1)
          /\ pc[q] # "idle" /\ ~Slow(q) => age'[q] = age[q] + 1
          /\ Slow(q) => Slow(q)'
    BY <1>1, Types DEF TypeOK, Slow
  <1>3. TypeOK'
    <2>1. at' \in [Requests -> 0..now'] /\ now' \in 0..MaxTime
      BY <1>1, WiderRange DEF TypeOK
    <2>2. age' \in [Requests -> 0..(Short + 1)]
      BY <1>2
    <2>3. row # NoRow => row.rotated <= now'
      BY <1>1, Types
    <2> QED
      BY <1>1, <2>1, <2>2, <2>3 DEF TypeOK
  <1>4. InTime'
    BY <1>1, <1>2, Types DEF IInv, InTime
  <1>5. ASSUME row # NoRow, ~stalled PROVE ReadInv'
    BY <1>5 DEF IInv, ReadInv, HasRead, Same, Older
  <1>6. ASSUME row # NoRow, ~late PROVE SessionInv'
    <2>1. row.rotated \in Nat
      BY <1>1, <1>6, Types
    <2>2. \A q \in Requests : pc[q] # "idle" /\ SentBefore(q) => SentBefore(q)'
      BY <1>1, <1>2, <2>1 DEF SentBefore
    <2>3. ReadBefore'
      BY <1>6, <2>2 DEF IInv, SessionInv, ReadBefore, HasRead, Fresh
    <2>4. CarriedOnce'
      BY <1>1, <1>2, <1>6, <2>1 DEF IInv, SessionInv, CarriedOnce, Carries, Looking
    <2>5. AfterReached'
      BY <1>6, <2>2 DEF IInv, SessionInv, AfterReached, Reached, Looking
    <2> QED
      BY <1>6, <2>3, <2>4, <2>5 DEF IInv, SessionInv
  <1> QED
    BY <1>3, <1>4, <1>5, <1>6 DEF IInv

LEMMA DeleteStep ==
  ASSUME IInv, Delete
  PROVE  IInv'
  <1> USE DEF Delete, request, history
  <1>1. TypeOK'
    BY DEF IInv, TypeOK
  <1>2. InTime'
    BY DEF IInv, InTime, Slow
  <1> QED
    BY <1>1, <1>2 DEF IInv

LEMMA SendStep ==
  ASSUME IInv, NEW q \in Requests, Send(q)
  PROVE  IInv'
  <1> USE DEF Send, Goto
  <1>1. TypeOK'
    BY Constants DEF IInv, TypeOK
  <1>2. /\ pc'[q] = "lookup" /\ cookie'[q] = jar /\ jar # 0 /\ pc[q] = "idle"
        /\ \A p \in Requests : p # q => pc'[p] = pc[p] /\ cookie'[p] = cookie[p]
    BY DEF IInv, TypeOK
  <1>3. InTime'
    BY <1>2 DEF IInv, InTime, Slow
  <1>4. ASSUME row # NoRow, ~stalled PROVE ReadInv'
    BY <1>2, <1>4 DEF IInv, ReadInv, HasRead, Same, Older
  <1>5. ASSUME row # NoRow, ~late PROVE SessionInv'
    <2>1. ReadBefore'
      BY <1>2, <1>5 DEF IInv, SessionInv, ReadBefore, HasRead, Fresh, SentBefore, Slow
    <2>2. CarriedOnce'
      BY <1>2, <1>5 DEF IInv, SessionInv, CarriedOnce, Carries, Looking, Slow
    <2>3. Reached' => Reached
      BY <1>2 DEF Reached, Looking
    <2>4. AfterReached'
      BY <1>2, <1>5, <2>3 DEF IInv, SessionInv, AfterReached, Looking, SentBefore, Slow
    <2> QED
      BY <1>5, <2>1, <2>2, <2>4 DEF IInv, SessionInv
  <1> QED
    BY <1>1, <1>3, <1>4, <1>5 DEF IInv

-----------------------------------------------------------------------------
LEMMA NotFoundStep ==
  ASSUME IInv, NEW q \in Requests, NotFound(q)
  PROVE  IInv'
  <1> USE DEF NotFound, Goto, history
  <1>1. TypeOK'
    <2>1. newest \in Nat
      BY DEF IInv, TypeOK
    <2> QED
      BY <2>1 DEF IInv, TypeOK
  <1>2. /\ pc'[q] = "respond" /\ cookie'[q] = 0 /\ pc[q] = "lookup"
        /\ \A p \in Requests : p # q => pc'[p] = pc[p] /\ cookie'[p] = cookie[p]
    BY DEF IInv, TypeOK
  <1>3. InTime'
    BY <1>2 DEF IInv, InTime, Slow
  <1>4. ASSUME row # NoRow, ~stalled PROVE ReadInv'
    BY <1>2, <1>4 DEF IInv, ReadInv, HasRead, Same, Older
  <1>5. ASSUME row # NoRow, ~late PROVE SessionInv'
    <2>1. ReadBefore'
      BY <1>2, <1>5 DEF IInv, SessionInv, ReadBefore, HasRead, Fresh, SentBefore, Slow
    <2>2. CarriedOnce'
      BY <1>2, <1>5 DEF IInv, SessionInv, CarriedOnce, Carries, Looking, Slow
    <2>3. AfterReached'
      BY <1>2, <1>5 DEF IInv, SessionInv, AfterReached, Reached, Looking, SentBefore, Slow
    <2> QED
      BY <1>5, <2>1, <2>2, <2>3 DEF IInv, SessionInv
  <1> QED
    BY <1>1, <1>3, <1>4, <1>5 DEF IInv

LEMMA FoundStep ==
  ASSUME IInv, NEW q \in Requests, Found(q)
  PROVE  IInv'
  <1> USE DEF Found, Goto, history
  <1>1. TypeOK /\ row \in Row /\ row # NoRow
    BY DEF IInv, TypeOK, Accepts
  <1>2. /\ pc'[q] \in {"prevseen", "seen", "rotate"} /\ pc[q] = "lookup"
        /\ pc'[q] = "prevseen" => cookie[q] # row.auth /\ row.seen /\ at'[q] = now
        /\ pc'[q] = "seen" => cookie[q] = row.auth
        /\ pc'[q] = "rotate" /\ cookie[q] = row.auth => row.seen
        /\ model'[q] = row
        /\ \A p \in Requests : p # q => pc'[p] = pc[p] /\ model'[p] = model[p] /\ at'[p] = at[p]
    BY <1>1 DEF TypeOK
  <1>3. TypeOK'
    <2>1. at' \in [Requests -> 0..now] /\ model' \in [Requests -> Row]
      BY <1>1, Types DEF TypeOK
    <2>2. pc' \in [Requests -> {"idle", "lookup", "prevseen", "seen", "rotate", "update", "respond"}]
      BY <1>1 DEF TypeOK
    <2> QED
      BY <1>1, <2>1, <2>2 DEF TypeOK
  <1>4. InTime'
    BY <1>1, <1>2, Types DEF IInv, InTime, Slow
  <1>5. ASSUME ~stalled PROVE ReadInv'
    BY <1>1, <1>2, <1>5 DEF IInv, ReadInv, HasRead, Same, Older
  <1>6. ASSUME ~late PROVE SessionInv'
    <2>1. ReadBefore'
      BY <1>1, <1>2, <1>6, Types DEF IInv, SessionInv, ReadBefore, HasRead, Fresh, SentBefore, Slow
    <2>2. CarriedOnce'
      BY <1>1, <1>2, <1>6 DEF IInv, SessionInv, CarriedOnce, Carries, Looking, Slow
    <2>3. AfterReached'
      BY <1>1, <1>2, <1>6 DEF IInv, SessionInv, AfterReached, Reached, Looking, SentBefore, Slow
    <2> QED
      BY <1>1, <1>6, <2>1, <2>2, <2>3 DEF IInv, SessionInv
  <1> QED
    BY <1>1, <1>3, <1>4, <1>5, <1>6 DEF IInv

-----------------------------------------------------------------------------
(* What is written back of the previous token is the row as it is, unless  *)
(* the write has stalled; and by the time it may be written the request is *)
(* slow.                                                                   *)
LEMMA PrevSeenWrites ==
  ASSUME IInv, NEW q \in Requests, PrevSeen(q), row # NoRow, Before(row.rotated, UrgentRotateTime)
  PROVE  /\ ~stalled /\ ~Stalls(q) => Same(q)
         /\ late \/ Slow(q)
  <1> USE DEF PrevSeen, Goto
  <1>1. /\ TypeOK /\ row \in Row /\ now \in Nat /\ at[q] \in Nat /\ row.rotated \in Nat
        /\ age[q] \in Nat
    BY Types DEF IInv
  <1>2. row.rotated + 2 * Short < now /\ Short \in Nat
    BY <1>1, Constants DEF Before
  <1>3. ASSUME ~stalled, ~Stalls(q) PROVE Same(q)
    <2>1. ~Older(q)
      BY <1>1, <1>2, <1>3 DEF Older, Stalls, Before
    <2> QED
      BY <1>3, <2>1 DEF IInv, ReadInv, HasRead
  <1>4. ASSUME ~late, ~Slow(q) PROVE FALSE
    <2>1. ~SentBefore(q)
      BY <1>1, <1>2, <1>4 DEF SentBefore, Slow
    <2>2. ReadInv /\ SessionInv /\ model[q].seen /\ cookie[q] # model[q].auth
      BY <1>4 DEF IInv, InTime
    <2>3. CASE Same(q)
      BY <2>1, <2>2, <2>3
         DEF Same, SessionInv, ReadBefore, HasRead, Fresh, AfterReached, Reached, Looking
    <2>4. CASE Older(q)
      BY <2>1, <2>2, <2>4 DEF Older, SessionInv, ReadBefore, HasRead
    <2> QED
      BY <2>2, <2>3, <2>4 DEF ReadInv, HasRead
  <1> QED
    BY <1>3, <1>4

LEMMA PrevSeenStep ==
  ASSUME IInv, NEW q \in Requests, PrevSeen(q)
  PROVE  IInv'
  <1> USE DEF PrevSeen, Goto
  <1>1. /\ TypeOK /\ pc[q] = "prevseen" /\ pc'[q] = "rotate" /\ at'[q] = 0
        /\ \A p \in Requests : p # q => pc'[p] = pc[p] /\ at'[p] = at[p]
    BY DEF IInv, TypeOK
  <1>2. /\ pc' \in [Requests -> {"idle", "lookup", "prevseen", "seen", "rotate", "update", "respond"}]
        /\ at' \in [Requests -> 0..now]
    BY <1>1, Types DEF TypeOK
  <1>3. CASE row # NoRow /\ row.prev = model[q].prev /\ Before(row.rotated, UrgentRotateTime)
    <2>1. /\ row' = [model[q] EXCEPT !.seen = FALSE]
          /\ Record(q)
      BY <1>3
    <2>2. model[q] \in Row /\ row' \in Row /\ row' # NoRow
      <3>1. model[q] \in Row
        BY <1>1, Types
      <3>2. row' \in Row
        BY <2>1, <3>1 DEF Row
      <3> QED
        BY <3>1, <3>2, Constants
    <2>3. row'.auth = model[q].auth /\ row'.prev = model[q].prev /\ row'.rotated = model[q].rotated
      BY <2>1, <2>2 DEF Row
    <2> HIDE DEF PrevSeen
    <2>4. UNCHANGED <<now, jar, newest, cookie, model, age, sends>>
      BY <2>1 DEF PrevSeen, Record
    <2>5. TypeOK'
      BY <1>1, <1>2, <2>1, <2>2, <2>3, <2>4, Recorded DEF IInv, InTime, TypeOK
    <2>6. stalled' => late'
      <3>1. Stalls(q) => Slow(q)
        BY <1>1, Types, Constants DEF IInv, InTime, Stalls, Before, Slow
      <3> QED
        BY <1>1, <2>1, <3>1, Recorded DEF IInv, InTime
    <2>7. InTime'
      BY <1>1, <2>4, <2>6 DEF IInv, InTime, Slow
    <2>8. ASSUME ~stalled' PROVE ReadInv'
      <3>1. ~stalled /\ Same(q)
        BY <1>1, <1>3, <2>1, <2>8, Recorded, PrevSeenWrites
      <3> QED
        BY <1>1, <1>3, <2>3, <2>4, <3>1 DEF IInv, ReadInv, HasRead, Same, Older
    <2>9. late'
      BY <1>1, <1>3, <2>1, Recorded, PrevSeenWrites
    <2> QED
      BY <2>5, <2>7, <2>8, <2>9 DEF IInv
  <1>4. CASE ~(row # NoRow /\ row.prev = model[q].prev /\ Before(row.rotated, UrgentRotateTime))
    <2>1. UNCHANGED <<now, row, jar, newest, cookie, model, age, history>>
      BY <1>4
    <2> HIDE DEF PrevSeen
    <2> USE DEF history
    <2>2. TypeOK'
      BY <1>1, <1>2, <2>1 DEF TypeOK
    <2>3. InTime'
      BY <1>1, <2>1 DEF IInv, InTime, Slow
    <2>4. ASSUME row # NoRow, ~stalled PROVE ReadInv'
      BY <1>1, <2>1, <2>4 DEF IInv, ReadInv, HasRead, Same, Older
    <2>5. ASSUME row # NoRow, ~late PROVE SessionInv'
      <3>1. ReadBefore'
        BY <1>1, <2>1, <2>5
           DEF IInv, InTime, SessionInv, ReadBefore, HasRead, Fresh, SentBefore, Slow
      <3>2. CarriedOnce'
        BY <1>1, <2>1, <2>5 DEF IInv, SessionInv, CarriedOnce, Carries, Looking, Slow
      <3>3. AfterReached'
        BY <1>1, <2>1, <2>5 DEF IInv, SessionInv, AfterReached, Reached, Looking, SentBefore, Slow
      <3> QED
        BY <2>1, <2>5, <3>1, <3>2, <3>3 DEF IInv, SessionInv
    <2> QED
      BY <2>1, <2>2, <2>3, <2>4, <2>5 DEF IInv
  <1> QED
    BY <1>3, <1>4

(* What is written back of the current token is the row with the token     *)
(* seen.                                                                   *)
LEMMA SeenWrites ==
  ASSUME IInv, NEW q \in Requests, Seen(q), row # NoRow, row.auth = model[q].auth
  PROVE  /\ row' \in Row /\ row' # NoRow /\ row'.seen
         /\ row'.auth = model[q].auth /\ row'.prev = model[q].prev /\ row'.rotated = model[q].rotated
         /\ ~stalled => Same(q)
  <1>1. model[q] \in Row /\ row.auth \in Nat
    BY Types DEF IInv
  <1>2. row' = [model[q] EXCEPT !.seen = TRUE]
    BY DEF Seen
  <1>3. row' \in Row
    BY <1>1, <1>2 DEF Row
  <1>4. ~stalled => Same(q)
    BY <1>1 DEF Seen, Goto, IInv, ReadInv, HasRead, Older
  <1> QED
    BY <1>1, <1>2, <1>3, <1>4, Constants DEF Row

LEMMA SeenStep ==
  ASSUME IInv, NEW q \in Requests, Seen(q)
  PROVE  IInv'
  <1>1. /\ TypeOK /\ pc[q] = "seen" /\ pc'[q] = "rotate" /\ cookie[q] = model[q].auth
        /\ \A p \in Requests : p # q => pc'[p] = pc[p]
        /\ pc' \in [Requests -> {"idle", "lookup", "prevseen", "seen", "rotate", "update", "respond"}]
        /\ UNCHANGED <<now, jar, newest, cookie, age, at, history>>
    BY DEF IInv, TypeOK, InTime, Seen, Goto
  <1> USE DEF history
  <1>2. CASE row # NoRow /\ row.auth = model[q].auth
    <2>1. /\ row' \in Row /\ row' # NoRow /\ row'.seen
          /\ row'.auth = model[q].auth /\ row'.prev = model[q].prev /\ row'.rotated = model[q].rotated
          /\ ~stalled => Same(q)
      BY <1>2, SeenWrites
    <2>2. /\ model' = [model EXCEPT ![q] = [model[q] EXCEPT !.seen = TRUE]]
          /\ model \in [Requests -> Row] /\ [model[q] EXCEPT !.seen = TRUE] \in Row
      BY <1>1, <1>2 DEF Seen, TypeOK, Row
    <2>3. model' \in [Requests -> Row]
      BY <2>2
    <2>4. \A p \in Requests :
            /\ model'[p].auth = model[p].auth /\ model'[p].prev = model[p].prev
            /\ model'[p].rotated = model[p].rotated
            /\ p # q => model'[p] = model[p]
      BY <2>2 DEF Row
    <2>5. model'[q].seen
      BY <2>2 DEF Row
    <2>6. TypeOK'
      BY <1>1, <2>1, <2>3 DEF IInv, InTime, TypeOK
    <2>7. InTime'
      BY <1>1, <2>4 DEF IInv, InTime, Slow
    <2>8. ASSUME ~stalled PROVE ReadInv'
      BY <1>1, <1>2, <2>1, <2>4, <2>8 DEF IInv, ReadInv, HasRead, Same, Older
    <2>9. ASSUME ~late PROVE SessionInv'
      <3>1. /\ ~stalled /\ SessionInv
            /\ row'.auth = row.auth /\ row'.prev = row.prev /\ row'.rotated = row.rotated
        BY <1>2, <2>1, <2>9 DEF IInv, InTime, Same
      <3>2. ReadBefore'
        BY <1>1, <1>2, <2>1, <2>4, <2>5, <3>1
           DEF SessionInv, ReadBefore, HasRead, Fresh, SentBefore, Slow
      <3>3. CarriedOnce'
        BY <1>1, <1>2, <3>1 DEF SessionInv, CarriedOnce, Carries, Looking, Slow
      <3>4. AfterReached'
        <4>1. Reached
          BY <1>1, <1>2 DEF Reached, Looking
        <4> QED
          BY <1>1, <3>1, <4>1 DEF SessionInv, AfterReached, Looking, SentBefore, Slow
      <3> QED
        BY <1>1, <3>1, <3>2, <3>3, <3>4 DEF SessionInv
    <2> QED
      BY <1>1, <2>6, <2>7, <2>8, <2>9 DEF IInv
  <1>3. CASE ~(row # NoRow /\ row.auth = model[q].auth)
    <2>1. UNCHANGED <<row, model>>
      BY <1>3 DEF Seen
    <2>2. TypeOK'
      BY <1>1, <2>1 DEF TypeOK
    <2>3. InTime'
      BY <1>1, <2>1 DEF IInv, InTime, Slow
    <2>4. ASSUME row # NoRow, ~stalled PROVE ReadInv'
      BY <1>1, <2>1, <2>4 DEF IInv, ReadInv, HasRead, Same, Older
    <2>5. ASSUME row # NoRow, ~late PROVE SessionInv'
      <3>1. ReadBefore'
        BY <1>1, <1>3, <2>1, <2>5 DEF IInv, SessionInv, ReadBefore, HasRead, Fresh, SentBefore, Slow
      <3>2. CarriedOnce'
        BY <1>1, <2>1, <2>5 DEF IInv, SessionInv, CarriedOnce, Carries, Looking, Slow
      <3>3. AfterReached'
        BY <1>1, <2>1, <2>5 DEF IInv, SessionInv, AfterReached, Reached, Looking, SentBefore, Slow
      <3> QED
        BY <1>1, <2>1, <2>5, <3>1, <3>2, <3>3 DEF IInv, SessionInv
    <2> QED
      BY <1>1, <2>1, <2>2, <2>3, <2>4, <2>5 DEF IInv
  <1> QED
    BY <1>2, <1>3

-----------------------------------------------------------------------------
LEMMA TryRotateTokenStep ==
  ASSUME IInv, NEW q \in Requests, TryRotateToken(q)
  PROVE  IInv'
  <1>1. /\ TypeOK /\ pc[q] = "rotate" /\ pc'[q] = "update" /\ at'[q] = now
        /\ \A p \in Requests : p # q => pc'[p] = pc[p] /\ at'[p] = at[p]
        /\ pc' \in [Requests -> {"idle", "lookup", "prevseen", "seen", "rotate", "update", "respond"}]
        /\ at' \in [Requests -> 0..now]
        /\ UNCHANGED <<now, row, jar, newest, cookie, model, age, history>>
    BY Types DEF IInv, TypeOK, TryRotateToken, Goto
  <1> USE DEF history
  <1>2. model[q].rotated + UrgentRotateTime < now
    BY <1>1, Types, Constants DEF TryRotateToken, NeedsRotation, Before
  <1>3. TypeOK'
    BY <1>1 DEF TypeOK
  <1>4. InTime'
    BY <1>1, <1>2, Types DEF IInv, InTime, Slow
  <1>5. ASSUME row # NoRow, ~stalled PROVE ReadInv'
    BY <1>1, <1>5 DEF IInv, ReadInv, HasRead, Same, Older
  <1>6. ASSUME row # NoRow, ~late PROVE SessionInv'
    <2>1. ReadBefore'
      BY <1>1, <1>6 DEF IInv, SessionInv, ReadBefore, HasRead, Fresh, SentBefore, Slow
    <2>2. CarriedOnce'
      BY <1>1, <1>6 DEF IInv, SessionInv, CarriedOnce, Carries, Looking, Slow
    <2>3. AfterReached'
      BY <1>1, <1>6 DEF IInv, SessionInv, AfterReached, Reached, Looking, SentBefore, Slow
    <2> QED
      BY <1>1, <1>6, <2>1, <2>2, <2>3 DEF IInv, SessionInv
  <1> QED
    BY <1>1, <1>3, <1>4, <1>5, <1>6 DEF IInv

(* A token that is rotated unseen by a request that is not slow is not in  *)
(* the browser, nor on its way.                                            *)
LEMMA UnseenIsLost ==
  ASSUME IInv, ~late, NEW q \in Requests, Rotate(q), ~Slow(q), ~row.seen
  PROVE  /\ jar = row.auth => jar = row.prev
         /\ \A p \in Requests : Carries(p) => Slow(p)
  <1>1. /\ row # NoRow /\ pc[q] = "update" /\ row.rotated + Grace < at[q]
        /\ TypeOK /\ ~stalled /\ ReadInv /\ SessionInv
    BY DEF Rotate, Rotated, Goto, IInv, InTime
  <1>2. /\ row \in Row /\ now \in Nat /\ row.rotated \in Nat /\ at[q] \in 0..now
        /\ \A p \in Requests : age[p] \in Nat
    BY <1>1, Types
  <1>3. row.rotated + 2 * Short < now
    BY <1>1, <1>2, Constants
  <1>4. \A p \in Requests : ~Slow(p) => ~SentBefore(p) /\ now > row.rotated + age[p]
    BY <1>2, <1>3, Constants DEF SentBefore, Slow
  <1>5. Same(q)
    BY <1>1, <1>4 DEF ReadInv, HasRead, Older, SessionInv, ReadBefore
  <1>6. ~model[q].seen /\ cookie[q] # row.auth
    BY <1>1, <1>5 DEF Same, HasRead, SessionInv, ReadBefore, Fresh
  <1>7. ~Reached
    BY <1>1, <1>4, <1>6 DEF SessionInv, AfterReached, Looking
  <1>8. \A p \in Requests : Carries(p) => Slow(p)
    BY <1>1, <1>2, <1>4 DEF SessionInv, CarriedOnce
  <1> QED
    BY <1>7, <1>8 DEF Reached

LEMMA RotateStep ==
  ASSUME IInv, NEW q \in Requests, Rotate(q)
  PROVE  IInv'
  <1> DEFINE P == IF row.seen THEN row.auth ELSE row.prev
  <1>1. /\ TypeOK /\ row # NoRow /\ row \in Row /\ newest \in Nat /\ now \in Nat /\ P \in Nat
        /\ at[q] \in 0..now /\ P <= newest /\ row.rotated \in Nat /\ row.auth <= newest
    BY Types DEF IInv, Rotate, Rotated
  <1>2. /\ pc[q] = "update" /\ (row.seen \/ row.rotated + Grace < at[q])
        /\ newest' = newest + 1 /\ Record(q)
        /\ row' = [auth |-> newest + 1, prev |-> P, seen |-> FALSE, rotated |-> at[q]]
        /\ cookie' = [cookie EXCEPT ![q] = newest + 1]
        /\ pc' = [pc EXCEPT ![q] = "respond"] /\ at' = [at EXCEPT ![q] = 0]
        /\ UNCHANGED <<now, jar, model, age>>
    BY DEF Rotate, Rotated, Goto
  <1>3. /\ row'.auth = newest + 1 /\ row'.prev = P /\ ~row'.seen /\ row'.rotated = at[q]
        /\ row' \in Row
    <2> HIDE DEF P
    <2> QED
      BY <1>1, <1>2 DEF Row, Token
  <1> HIDE DEF P
  <1>4. row' # NoRow
    BY <1>3, Constants
  <1>5. /\ pc'[q] = "respond" /\ cookie'[q] = newest + 1
        /\ \A p \in Requests : p # q => pc'[p] = pc[p] /\ at'[p] = at[p] /\ cookie'[p] = cookie[p]
        /\ \A p \in Requests : cookie[p] \in 0..newest /\ age[p] \in Nat
    BY <1>1, <1>2, Types DEF TypeOK
  <1>6. TypeOK'
    <2>1. cookie' \in [Requests -> 0..newest']
      <3>1. cookie \in [Requests -> 0..(newest + 1)]
        BY <1>1, WiderRange DEF TypeOK
      <3> QED
        BY <1>1, <1>2, <3>1
    <2>2. /\ pc' \in [Requests -> {"idle", "lookup", "prevseen", "seen", "rotate", "update", "respond"}]
          /\ at' \in [Requests -> 0..now]
      BY <1>1, <1>2 DEF TypeOK
    <2>3. jar \in 0..newest' /\ newest' \in Nat
      BY <1>1, <1>2, Types
    <2>4. row'.prev <= row'.auth /\ row'.auth <= newest' /\ row'.rotated <= now
      BY <1>1, <1>2, <1>3
    <2> QED
      BY <1>1, <1>2, <1>3, <2>1, <2>2, <2>3, <2>4, Recorded DEF TypeOK
  <1>7. stalled' => late'
    <2>1. Stalls(q) => Slow(q)
      BY <1>1, <1>2, Types, Constants DEF IInv, InTime, Stalls, Before, Slow
    <2> QED
      BY <1>1, <1>2, <2>1, Recorded DEF IInv, InTime
  <1>8. InTime'
    BY <1>1, <1>2, <1>5, <1>7, Types DEF IInv, InTime, Slow
  <1>9. ASSUME ~stalled' PROVE ReadInv'
    <2>1. now <= at[q] + Short
      BY <1>1, <1>2, <1>9, Recorded, Constants DEF Stalls, Before
    <2> QED
      BY <1>1, <1>2, <1>3, <1>5, <2>1, Types, Constants DEF IInv, InTime, ReadInv, HasRead, Older
  <1>10. ASSUME ~late' PROVE SessionInv'
    <2>1. ~late /\ ~Slow(q) /\ ~stalled /\ SessionInv
      BY <1>1, <1>2, <1>10, Recorded DEF IInv, InTime
    <2>2. now <= at[q] + age[q] /\ age[q] <= Short
      BY <1>1, <1>2, <1>5, <2>1, Constants DEF IInv, InTime, Slow
    <2>3. /\ P > 0 /\ jar \in {0, P}
          /\ \A p \in Requests : Carries(p) => Slow(p)
      <3>1. CASE row.seen
        <4>1. P = row.auth /\ row.auth > 0
          BY <1>1, <2>1, <3>1, Types DEF P, SessionInv
        <4>2. jar \in {0, row.auth}
          BY <2>1, <3>1 DEF SessionInv, AfterReached, Reached
        <4>3. \A p \in Requests : Carries(p) => Slow(p)
          BY <2>1, <3>1 DEF SessionInv, CarriedOnce
        <4> QED
          BY <4>1, <4>2, <4>3
      <3>2. CASE ~row.seen
        BY <1>1, <2>1, <3>2, UnseenIsLost DEF P, SessionInv
      <3> QED
        BY <3>1, <3>2
    <2>4. \A p \in Requests : p # q => SentBefore(p)'
      BY <1>1, <1>2, <1>3, <1>5, <2>2, Constants DEF SentBefore, Slow
    <2>5. ReadBefore'
      <3>1. \A p \in Requests : model[p].auth # newest + 1
        BY <1>1, Types DEF IInv, InTime
      <3> QED
        BY <1>2, <1>3, <1>5, <2>4, <3>1 DEF ReadBefore, HasRead
    <2>6. CarriedOnce'
      <3>1. \A p \in Requests : p # q => cookie'[p] # row'.auth
        BY <1>1, <1>3, <1>5
      <3>2. jar # row'.auth
        BY <1>1, <1>3, Types
      <3>3. \A p \in Requests : p # q /\ Carries(p)' => Slow(p)'
        BY <1>2, <1>5, <2>3 DEF Carries, Slow
      <3> QED
        BY <1>2, <1>3, <1>5, <2>2, <3>1, <3>2, <3>3 DEF CarriedOnce, Carries, Looking
    <2>7. AfterReached'
      <3>1. ~Reached'
        <4>1. jar # row'.auth
          BY <1>1, <1>3, Types
        <4> QED
          BY <1>1, <1>2, <1>3, <1>5, <4>1 DEF Reached, Looking
      <3> QED
        BY <3>1 DEF AfterReached
    <2> QED
      BY <1>2, <1>3, <2>3, <2>5, <2>6, <2>7 DEF SessionInv
  <1> QED
    BY <1>4, <1>6, <1>8, <1>9, <1>10 DEF IInv

-----------------------------------------------------------------------------
LEMMA FinishKeepsTypes ==
  ASSUME IInv, NEW q \in Requests, Finish(q), jar' \in 0..newest, late' \in BOOLEAN, late => late'
  PROVE  /\ TypeOK' /\ InTime' /\ (row # NoRow /\ ~stalled => ReadInv)'
         /\ pc'[q] = "idle"
         /\ \A p \in Requests : p # q => /\ pc'[p] = pc[p] /\ cookie'[p] = cookie[p]
                                         /\ model'[p] = model[p] /\ age'[p] = age[p]
                                         /\ at'[p] = at[p]
  <1> USE DEF Finish
  <1>1. TypeOK /\ newest \in Nat /\ now \in Nat
    BY Types DEF IInv
  <1>2. TypeOK'
    BY <1>1, NewRow, Constants DEF TypeOK
  <1>3. /\ pc'[q] = "idle" /\ model'[q] = New
        /\ \A p \in Requests : p # q => /\ pc'[p] = pc[p] /\ cookie'[p] = cookie[p]
                                        /\ model'[p] = model[p] /\ age'[p] = age[p]
                                        /\ at'[p] = at[p]
    BY <1>1 DEF TypeOK
  <1>4. InTime'
    BY <1>1, <1>3, NewRow DEF IInv, InTime, Slow
  <1>5. ASSUME row # NoRow, ~stalled PROVE ReadInv'
    BY <1>3, <1>5 DEF IInv, ReadInv, HasRead, Same, Older
  <1> QED
    BY <1>2, <1>3, <1>4, <1>5

LEMMA RespondStep ==
  ASSUME IInv, NEW q \in Requests, Respond(q)
  PROVE  IInv'
  <1>1. /\ TypeOK /\ pc[q] = "respond" /\ jar' = cookie[q] /\ cookie[q] \in 0..newest
        /\ UNCHANGED <<now, row, newest, stalled>>
        /\ late' \in BOOLEAN /\ (late => late')
        /\ ~late' => ~late /\ (cookie[q] # 0 => ~Slow(q))
    BY Types DEF IInv, TypeOK, Respond, Finish
  <1>2. /\ TypeOK' /\ InTime' /\ (row # NoRow /\ ~stalled => ReadInv)'
        /\ pc'[q] = "idle"
        /\ \A p \in Requests : p # q => /\ pc'[p] = pc[p] /\ cookie'[p] = cookie[p]
                                        /\ model'[p] = model[p] /\ age'[p] = age[p]
                                        /\ at'[p] = at[p]
    BY <1>1, FinishKeepsTypes DEF Respond
  <1>3. ASSUME row # NoRow, ~late' PROVE SessionInv'
    <2>1. ~late /\ SessionInv /\ (cookie[q] # 0 => ~Slow(q))
      BY <1>1, <1>3 DEF IInv
    <2>2. ReadBefore'
      BY <1>1, <1>2, <2>1 DEF SessionInv, ReadBefore, HasRead, Fresh, SentBefore, Slow
    <2>3. CASE cookie[q] = 0
      <3>1. CarriedOnce'
        <4>1. row'.auth # 0
          BY <1>1, <1>3, <2>1, Types DEF SessionInv
        <4> QED
          BY <1>1, <1>2, <2>1, <2>3, <4>1 DEF SessionInv, CarriedOnce, Carries, Looking, Slow
      <3>2. AfterReached'
        BY <1>1, <1>2, <1>3, <2>1, <2>3, Types
           DEF SessionInv, AfterReached, Reached, Looking, SentBefore, Slow
      <3> QED
        BY <1>1, <2>1, <2>2, <2>3, <3>1, <3>2 DEF SessionInv
    <2>4. CASE cookie[q] # 0
      <3>1. cookie[q] = row.auth /\ now <= row.rotated + age[q] /\ age[q] <= Short
        BY <1>1, <2>1, <2>4, Types, Constants DEF SessionInv, CarriedOnce, Carries, Slow
      <3>2. CarriedOnce'
        BY <1>1, <1>2, <2>1, <2>4, <3>1 DEF SessionInv, CarriedOnce, Carries, Looking, Slow
      <3>3. \A p \in Requests : Looking(p)' => SentBefore(p)'
        <4>1. row.rotated \in Nat /\ \A p \in Requests : age[p] \in Nat
          BY <1>1, <1>3, Types
        <4> QED
          BY <1>1, <1>2, <3>1, <4>1, Types, Constants DEF Looking, SentBefore
      <3> QED
        BY <1>1, <2>1, <2>2, <3>1, <3>2, <3>3 DEF SessionInv, AfterReached
    <2> QED
      BY <2>3, <2>4
  <1> QED
    BY <1>1, <1>2, <1>3 DEF IInv

LEMMA EndStep ==
  ASSUME IInv, NEW q \in Requests, End(q)
  PROVE  IInv'
  <1>1. /\ TypeOK /\ jar \in 0..newest /\ UNCHANGED <<now, row, jar, newest, late, stalled>>
    BY DEF IInv, TypeOK, End, Finish
  <1>2. /\ TypeOK' /\ InTime' /\ (row # NoRow /\ ~stalled => ReadInv)'
        /\ pc'[q] = "idle"
        /\ \A p \in Requests : p # q => /\ pc'[p] = pc[p] /\ cookie'[p] = cookie[p]
                                        /\ model'[p] = model[p] /\ age'[p] = age[p]
                                        /\ at'[p] = at[p]
    BY <1>1, FinishKeepsTypes DEF End, TypeOK
  <1>3. ASSUME row # NoRow, ~late PROVE SessionInv'
    <2>1. SessionInv
      BY <1>3 DEF IInv
    <2>2. ReadBefore'
      BY <1>1, <1>2, <2>1 DEF SessionInv, ReadBefore, HasRead, Fresh, SentBefore, Slow
    <2>3. CarriedOnce'
      BY <1>1, <1>2, <2>1 DEF SessionInv, CarriedOnce, Carries, Looking, Slow
    <2>4. AfterReached'
      BY <1>1, <1>2, <2>1 DEF SessionInv, AfterReached, Reached, Looking, SentBefore, Slow
    <2> QED
      BY <1>1, <2>1, <2>2, <2>3, <2>4 DEF SessionInv
  <1> QED
    BY <1>1, <1>2, <1>3 DEF IInv

LEMMA NextIInv ==
  ASSUME IInv, [Next]_vars
  PROVE  IInv'
  <1>1. CASE UNCHANGED vars
    BY <1>1 DEF vars, request, history, IInv, TypeOK, InTime, ReadInv, Same, Older, SessionInv,
                ReadBefore, HasRead, Fresh, SentBefore, Slow, CarriedOnce, Carries, AfterReached,
                Reached, Looking
  <1> QED
    BY <1>1, TickStep, DeleteStep, SendStep, NotFoundStep, FoundStep, PrevSeenStep, SeenStep,
       TryRotateTokenStep, RotateStep, RespondStep, EndStep DEF Next

LEMMA SpecIInv == Spec => []IInv
  <1>1. IInv /\ [Next]_vars => IInv'
    BY NextIInv
  <1> QED
    BY <1>1, InitIInv, PTL DEF Spec

-----------------------------------------------------------------------------
(* TypeOK: no token is newer than the newest, the previous one is never    *)
(* newer than the current one, and no row is rotated in the future,        *)
(* however long requests take.                                             *)
THEOREM AuthTokenTypes == Spec => []TypeOK
  BY SpecIInv, PTL DEF IInv

(* However many requests overlap and however many responses are lost, the  *)
(* browser's cookie, and every token that a rotation has made and that is  *)
(* brought to the browser in time, is accepted; until a request that takes *)
(* more than 15 seconds rotates the token, marks it unseen or sets the     *)
(* cookie.                                                                 *)
THEOREM CookiesAccepted == Spec => []CookieAccepted
  <1>1. IInv => CookieAccepted
    BY DEF IInv, SessionInv, CarriedOnce, Carries, CookieAccepted, Accepts
  <1> QED
    BY <1>1, SpecIInv, PTL

(* Neither LookupToken's writes of an older copy nor a rotation takes the  *)
(* session back to an older token, however long requests take, until one   *)
(* of these writes comes more than 15 seconds after what it rests on; and  *)
(* a deleted session is not made again.                                    *)
THEOREM TokensNeverRestored == Spec => NeverRestored
  <1> DEFINE Later == row' # NoRow => row # NoRow /\ (~stalled' => row.auth <= row'.auth)
  <1>1. ASSUME IInv, Next PROVE Later \/ UNCHANGED row
    <2>1. TypeOK /\ newest \in Nat /\ (row # NoRow => row.auth \in Nat /\ row.auth <= newest)
      BY <1>1, Types DEF IInv
    <2>2. ASSUME NEW q \in Requests, PrevSeen(q) PROVE Later \/ UNCHANGED row
      <3>1. CASE row # NoRow /\ row.prev = model[q].prev /\ Before(row.rotated, UrgentRotateTime)
        <4>1. row' = [model[q] EXCEPT !.seen = FALSE] /\ Record(q)
          BY <2>2, <3>1 DEF PrevSeen
        <4>2. row'.auth = model[q].auth
          BY <2>1, <4>1, Types DEF Row
        <4>3. ~stalled' => model[q].auth = row.auth
          BY <1>1, <2>1, <2>2, <3>1, <4>1, Recorded, PrevSeenWrites DEF Same
        <4> QED
          BY <2>1, <3>1, <4>2, <4>3
      <3>2. CASE ~(row # NoRow /\ row.prev = model[q].prev /\ Before(row.rotated, UrgentRotateTime))
        BY <2>2, <3>2 DEF PrevSeen
      <3> QED
        BY <3>1, <3>2
    <2>3. ASSUME NEW q \in Requests, Seen(q) PROVE Later \/ UNCHANGED row
      <3>1. CASE row # NoRow /\ row.auth = model[q].auth
        BY <1>1, <2>1, <2>3, <3>1, SeenWrites
      <3>2. CASE ~(row # NoRow /\ row.auth = model[q].auth)
        BY <2>3, <3>2 DEF Seen
      <3> QED
        BY <3>1, <3>2
    <2>4. ASSUME NEW q \in Requests, Rotate(q) PROVE Later
      <3>1. row # NoRow /\ row'.auth = newest + 1
        BY <2>4 DEF Rotate, Rotated
      <3> QED
        BY <2>1, <3>1
    <2>5. ASSUME Tick \/ \E q \in Requests : \/ Send(q) \/ NotFound(q) \/ Found(q)
                                             \/ TryRotateToken(q) \/ Respond(q) \/ End(q)
          PROVE  UNCHANGED row
      BY <2>5 DEF Tick, Send, NotFound, Found, TryRotateToken, Respond, End, Finish
    <2>6. ASSUME Delete PROVE Later
      BY <2>6 DEF Delete
    <2> QED
      BY <1>1, <2>2, <2>3, <2>4, <2>5, <2>6 DEF Next
  <1>2. IInv /\ [Next]_vars => [Later]_row
    BY <1>1 DEF vars
  <1> QED
    BY <1>2, SpecIInv, PTL DEF Spec, NeverRestored
=============================================================================
