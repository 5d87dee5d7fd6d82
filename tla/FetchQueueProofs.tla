-------------------------- MODULE FetchQueueProofs --------------------------
(***************************************************************************)
(* The queue never comes to rest with an open request that waits or is     *)
(* forgotten, and sends sparingly, for any number of requests and any      *)
(* re-entrance of their consumers.  What is said of the call stack is said *)
(* of any sequence of frames, because PublishUpdate speaks of what is left *)
(* to do when it returns.                                                  *)
(***************************************************************************)
EXTENDS FetchQueue, SequenceTheorems, FiniteSetTheorems, TLAPS

FrameSet == [kind : Kinds, ids : Seq(Ids)]

(* A call that is for one request has it.                                  *)
Single(frame) == frame.kind \in {"subscribe", "start", "finish"} => Len(frame.ids) = 1

(* concatMap has one inner observable, and a request that is started comes *)
(* from it.                                                                *)
OneBatch(frames) ==
  \A j, k \in DOMAIN frames : frames[j].kind = "batch" /\ frames[k].kind = "batch" => j = k

StartsInBatch(frames) ==
  \A k \in DOMAIN frames : frames[k].kind = "start" =>
    k + 1 \in DOMAIN frames /\ frames[k + 1].kind = "batch"

Shape(frames) ==
  /\ frames \in Seq(FrameSet)
  /\ \A frame \in Range(frames) : Single(frame)
  /\ OneBatch(frames) /\ StartsInBatch(frames)

(* What waits is in the batch, or an update is that comes after it.        *)
Waiting(frames, waiting, buffered) ==
  /\ waiting # <<>> => Active(frames)
  /\ \A frame \in Range(frames) : frame.kind = "batch" =>
       buffered # <<>> \/ Range(waiting) \subseteq Range(frame.ids)

(* A request that was not fetched is nowhere.                              *)
Fresh(frames, id) ==
  sub[id] = "new" =>
    /\ sent[id] = 0 /\ id \notin Range(pending) /\ id \notin inProgress
    /\ id \notin Range(streams)
    /\ \A frame \in Range(frames) : id \notin Range(frame.ids)

(* An open request waits, is being started, is read or is being ended.     *)
Alive(frames, id) ==
  sub[id] = "open" =>
    \/ id \in Range(streams) \/ id \in Range(pending)
    \/ OnStack("start", id, frames) \/ OnStack("finish", id, frames)

Once(s, id) == id \in Range(s)
Twice(s, id) == \E j, k \in DOMAIN s : j < k /\ s[j] = id /\ s[k] = id
Thrice(s, id) ==
  \E j, k, l \in DOMAIN s : j < k /\ k < l /\ s[j] = id /\ s[k] = id /\ s[l] = id

Budget(id) == IF id \in queries THEN 2 ELSE 1

Used(frames, id) == IF OnStack("start", id, frames) THEN sent[id] + 1 ELSE sent[id]

(* What was sent, is being started and is left in the batch is within the  *)
(* budget, and nothing is used of a request that waits.                    *)
Sparing(frames, id) ==
  /\ Used(frames, id) <= Budget(id)
  /\ id \in Range(pending) => Used(frames, id) = 0
  /\ \A frame \in Range(frames) : frame.kind = "batch" =>
       /\ Once(frame.ids, id) => Used(frames, id) + 1 <= Budget(id)
       /\ Twice(frame.ids, id) => Used(frames, id) + 2 <= Budget(id)
       /\ ~Thrice(frame.ids, id)

Typed ==
  /\ requestId \in [Ids -> RequestIds \cup {NoRequest}]
  /\ queries \subseteq Ids
  /\ pending \in Seq(Ids) /\ IsInjective(pending)
  /\ inProgress \subseteq Ids \ Range(pending)
  /\ streams \in Seq(Ids)
  /\ sub \in [Ids -> {"new", "open", "closed"}]
  /\ sent \in [Ids -> Nat]

Sound(frames) ==
  /\ Typed
  /\ Shape(frames)
  /\ \A id \in Ids : Fresh(frames, id) /\ Alive(frames, id) /\ Sparing(frames, id)

Counts == 0..Cardinality(Ids)

IInv ==
  /\ Sound(stack)
  /\ updates \in Seq(Counts)
  /\ Waiting(stack, pending, updates)

-----------------------------------------------------------------------------
(* Induction over the naturals as a fact about sets: the provers do not    *)
(* instantiate a theorem about all predicates.                             *)
LEMMA LeastNat ==
  ASSUME NEW T \in SUBSET Nat, T # {}
  PROVE  \E m \in T : \A n \in T : m <= n
  <1>1. IsWellFoundedOn(OpToRel(<, Nat), Nat)
    BY NatLessThanWellFounded
  <1>2. PICK m \in T : \A n \in T : ~(<<n, m>> \in OpToRel(<, Nat))
    BY <1>1, WFMin
  <1>3. ASSUME NEW n \in T PROVE m <= n
    <2>1. <<n, m>> \in Nat \X Nat /\ <<n, m>>[1] = n /\ <<n, m>>[2] = m
      OBVIOUS
    <2>2. ~(<<n, m>>[1] < <<n, m>>[2])
      BY <1>2, <2>1, Zenon DEF OpToRel
    <2> QED
      BY <2>1, <2>2
  <1> QED
    BY <1>3

LEMMA NatSetInduction ==
  ASSUME NEW T, 0 \in T, \A n \in Nat : n \in T => n + 1 \in T
  PROVE  Nat \subseteq T
  <1> SUFFICES ASSUME Nat \ T # {} PROVE FALSE
    OBVIOUS
  <1>1. PICK m \in Nat \ T : \A n \in Nat \ T : m <= n
    BY LeastNat
  <1>2. m # 0 /\ m - 1 \in Nat /\ m - 1 \notin T
    BY <1>1
  <1> QED
    BY <1>1, <1>2

Increasing(at) == \A a, b \in DOMAIN at : a < b => at[a] < at[b]

(* The positions of a sequence can be enumerated in their order.           *)
LEMMA Enumeration ==
  ASSUME NEW n \in Nat, NEW P \in SUBSET (1..n)
  PROVE  \E at \in [1..Cardinality(P) -> P] : Increasing(at)
  <1> DEFINE T == {k \in Nat : \A Q \in SUBSET (1..k) :
                     \E at \in [1..Cardinality(Q) -> Q] : Increasing(at)}
  <1>1. 0 \in T
    <2> SUFFICES ASSUME NEW Q \in SUBSET (1..0)
                 PROVE  \E at \in [1..Cardinality(Q) -> Q] : Increasing(at)
      OBVIOUS
    <2>0. 1..0 = {}
      OBVIOUS
    <2>1. Q = {} /\ Cardinality(Q) = 0 /\ 1..0 = {}
      <3>1. Q = {}
        BY <2>0
      <3> QED
        BY <2>0, <3>1, FS_EmptySet, Zenon
    <2> DEFINE none == [a \in {} |-> 0]
    <2>2. none \in [{} -> {}] /\ Increasing(none)
      BY DEF Increasing
    <2>3. none \in [1..Cardinality(Q) -> Q]
      BY <2>1, <2>2
    <2> QED
      BY <2>2, <2>3
  <1>2. ASSUME NEW k \in Nat, k \in T PROVE k + 1 \in T
    <2> SUFFICES ASSUME NEW Q \in SUBSET (1..k + 1)
                 PROVE  \E at \in [1..Cardinality(Q) -> Q] : Increasing(at)
      OBVIOUS
    <2> DEFINE R == Q \ {k + 1}
    <2>1. R \in SUBSET (1..k)
      OBVIOUS
    <2>2. PICK at \in [1..Cardinality(R) -> R] : Increasing(at)
      BY <1>2, <2>1
    <2>3. CASE k + 1 \notin Q
      <3>1. R = Q
        BY <2>3
      <3> QED
        BY <2>2, <3>1
    <2>4. CASE k + 1 \in Q
      <3> DEFINE c == Cardinality(R)
                 further == [a \in 1..c + 1 |-> IF a = c + 1 THEN k + 1 ELSE at[a]]
      <3>1. c \in Nat /\ Cardinality(Q) = c + 1
        <4>1. IsFiniteSet(Q) /\ IsFiniteSet(R)
          <5>1. IsFiniteSet(1..k + 1)
            BY FS_Interval
          <5> QED
            BY <5>1, FS_Subset
        <4>2. Cardinality(Q) \in Nat /\ c \in Nat
          BY <4>1, FS_CardinalityType
        <4>3. c = Cardinality(Q) - 1
          BY <2>4, <4>1, FS_RemoveElement
        <4> QED
          BY <4>2, <4>3
      <3> HIDE DEF c
      <3>2. at \in [1..c -> R]
        BY <2>2 DEF c
      <3>3. \A a \in 1..c + 1 : a = c + 1 \/ (a \in 1..c /\ a # c + 1)
        BY <3>1
      <3>4. \A a \in 1..c : at[a] \in Q /\ at[a] \in Nat /\ at[a] < k + 1
        <4>1. \A q \in R : q \in Q /\ q \in Nat /\ q < k + 1
          BY <2>1
        <4> HIDE DEF R
        <4> QED
          BY <3>2, <4>1
      <3>5. /\ further \in [1..c + 1 -> Q] /\ DOMAIN further = 1..c + 1
            /\ further[c + 1] = k + 1 /\ \A a \in 1..c : further[a] = at[a]
        <4>1. \A a \in 1..c + 1 : further[a] \in Q
          BY <2>4, <3>3, <3>4
        <4>2. c + 1 \in 1..c + 1 /\ \A a \in 1..c : a \in 1..c + 1 /\ a # c + 1
          BY <3>1
        <4> QED
          BY <4>1, <4>2
      <3> HIDE DEF further
      <3>6. ASSUME NEW a \in 1..c + 1, NEW b \in 1..c + 1, a < b
            PROVE  further[a] < further[b]
        <4>1. a \in 1..c
          BY <3>1, <3>6
        <4>2. CASE b = c + 1
          BY <3>4, <3>5, <4>1, <4>2
        <4>3. CASE b \in 1..c
          BY <2>2, <3>2, <3>5, <3>6, <4>1, <4>3 DEF Increasing
        <4> QED
          BY <3>3, <4>2, <4>3
      <3> QED
        BY <3>1, <3>5, <3>6 DEF Increasing
    <2> QED
      BY <2>3, <2>4
  <1>3. Nat \subseteq T
    <2> HIDE DEF T
    <2> QED
      BY <1>1, <1>2, NatSetInduction
  <1> QED
    BY <1>3

(* filter keeps the elements that are in T, and no duplicates appear.      *)
LEMMA FilterFacts ==
  ASSUME NEW S, NEW s \in Seq(S), NEW T
  PROVE  /\ Filter(s, T) \in Seq(S)
         /\ Range(Filter(s, T)) = Range(s) \cap T
         /\ IsInjective(s) => IsInjective(Filter(s, T))
  <1> DEFINE P == {k \in DOMAIN s : s[k] \in T}
             c == Cardinality(P)
             at == CHOOSE at \in [1..c -> P] : \A a, b \in DOMAIN at : a < b => at[a] < at[b]
             t == [n \in 1..c |-> s[at[n]]]
  <1>1. Len(s) \in Nat /\ DOMAIN s = 1..Len(s) /\ P \in SUBSET (1..Len(s))
    BY LenProperties
  <1>2. c \in Nat /\ IsFiniteSet(P)
    <2>1. IsFiniteSet(1..Len(s))
      BY <1>1, FS_Interval
    <2> QED
      BY <1>1, <2>1, FS_Subset, FS_CardinalityType
  <1>3. \E f \in [1..c -> P] : Increasing(f)
    BY <1>1, Enumeration
  <1>4. at \in [1..c -> P] /\ Increasing(at)
    <2> HIDE DEF P, c
    <2>1. \E f \in [1..c -> P] : \A a, b \in DOMAIN f : a < b => f[a] < f[b]
      BY <1>3 DEF Increasing
    <2> QED
      BY <2>1 DEF Increasing
  <1>5. Filter(s, T) = t
    BY DEF Filter
  <1> HIDE DEF c, at
  <1>6. ASSUME NEW a \in 1..c, NEW b \in 1..c, at[a] = at[b]
        PROVE  a = b
    <2>1. at[a] \in Nat /\ at[b] \in Nat
      BY <1>1, <1>4
    <2>2. ~(a < b) /\ ~(b < a)
      BY <1>4, <1>6, <2>1 DEF Increasing
    <2> QED
      BY <1>2, <2>2
  <1>7. at \in Surjection(1..c, P)
    <2>1. at \in Injection(1..c, P)
      BY <1>4, <1>6 DEF Injection, IsInjective
    <2>2. Cardinality(1..c) = c /\ c = Cardinality(P)
      BY <1>2, FS_Interval DEF c
    <2> QED
      BY <1>2, <2>1, <2>2, FS_Injection
  <1>8. /\ t \in Seq(S) /\ DOMAIN t = 1..c
        /\ \A a \in 1..c : at[a] \in P /\ t[a] = s[at[a]]
    <2>1. \A a \in 1..c : at[a] \in P
      BY <1>4
    <2>2. \A k \in P : s[k] \in S
      BY <1>1, ElementOfSeq
    <2> HIDE DEF P
    <2> QED
      BY <1>2, <2>1, <2>2, IsASeq
  <1> HIDE DEF t
  <1>9. Range(t) = Range(s) \cap T
    <2>1. \A k \in P : \E a \in 1..c : at[a] = k
      BY <1>7 DEF Surjection
    <2> QED
      BY <1>8, <2>1 DEF Range
  <1>10. IsInjective(s) => IsInjective(t)
    BY <1>6, <1>8 DEF IsInjective
  <1> QED
    BY <1>5, <1>8, <1>9, <1>10

-----------------------------------------------------------------------------
(* Pushing and popping a frame.                                            *)
LEMMA PushFacts ==
  ASSUME NEW S, NEW f \in S, NEW s \in Seq(S)
  PROVE  /\ Push(f, s) \in Seq(S) /\ Push(f, s) # <<>>
         /\ DOMAIN Push(f, s) = 1..Len(s) + 1 /\ Push(f, s)[1] = f
         /\ DOMAIN s = 1..Len(s) /\ \A k \in DOMAIN s : Push(f, s)[k + 1] = s[k]
         /\ Head(Push(f, s)) = f /\ Tail(Push(f, s)) = s
         /\ Range(Push(f, s)) = {f} \cup Range(s)
  <1> DEFINE t == Push(f, s)
  <1>1. <<f>> \in Seq(S) /\ Len(<<f>>) = 1 /\ <<f>>[1] = f
    OBVIOUS
  <1>2. Len(s) \in Nat /\ DOMAIN s = 1..Len(s)
    BY LenProperties
  <1>3. /\ t \in Seq(S) /\ Len(t) = Len(s) + 1
        /\ \A k \in 1..Len(t) : t[k] = IF k <= 1 THEN <<f>>[k] ELSE s[k - 1]
    BY <1>1, <1>2, ConcatProperties DEF Push
  <1>4. DOMAIN t = 1..Len(s) + 1
    BY <1>3, LenProperties
  <1>5. t[1] = f /\ \A k \in DOMAIN s : t[k + 1] = s[k]
    BY <1>1, <1>2, <1>3
  <1>6. t # <<>>
    BY <1>2, <1>3, EmptySeq
  <1>7. Head(t) = f /\ Tail(t) = s
    <2>1. /\ Tail(t) \in Seq(S) /\ Len(Tail(t)) = Len(t) - 1
          /\ \A k \in 1..Len(Tail(t)) : Tail(t)[k] = t[k + 1]
          /\ Head(t) = t[1]
      BY <1>3, <1>6, HeadTailProperties
    <2>2. Len(Tail(t)) = Len(s)
      BY <1>2, <1>3, <2>1
    <2>3. \A k \in 1..Len(s) : Tail(t)[k] = s[k]
      BY <1>2, <1>5, <2>1, <2>2
    <2> QED
      BY <1>5, <2>1, <2>2, <2>3, SeqEqual
  <1>8. Range(t) = {f} \cup Range(s)
    <2>1. \A k \in DOMAIN t : k = 1 \/ \E j \in DOMAIN s : k = j + 1
      <3> SUFFICES ASSUME NEW k \in 1..Len(s) + 1, k # 1
                   PROVE  k - 1 \in 1..Len(s) /\ k = (k - 1) + 1
        BY <1>2, <1>4
      <3> QED
        BY <1>2
    <2>2. 1 \in DOMAIN t /\ \A j \in DOMAIN s : j + 1 \in DOMAIN t
      BY <1>2, <1>4
    <2> HIDE DEF t
    <2> QED
      BY <1>5, <2>1, <2>2 DEF Range
  <1> QED
    BY <1>2, <1>3, <1>4, <1>5, <1>6, <1>7, <1>8

LEMMA PopFacts ==
  ASSUME NEW S, NEW s \in Seq(S), s # <<>>
  PROVE  /\ Head(s) \in S /\ Tail(s) \in Seq(S)
         /\ s = Push(Head(s), Tail(s))
         /\ Range(s) = {Head(s)} \cup Range(Tail(s))
  <1>1. /\ Head(s) = s[1] /\ Head(s) \in S /\ Tail(s) \in Seq(S)
        /\ Len(Tail(s)) = Len(s) - 1
        /\ \A k \in 1..Len(Tail(s)) : Tail(s)[k] = s[k + 1]
    BY HeadTailProperties, ElementOfSeq, EmptySeq, LenProperties
  <1>2. Len(s) \in Nat
    BY LenProperties
  <1>0. PICK h \in S, t \in Seq(S) : h = Head(s) /\ t = Tail(s)
    BY <1>1
  <1> DEFINE p == Push(h, t)
  <1>3. /\ p \in Seq(S) /\ DOMAIN p = 1..Len(t) + 1 /\ p[1] = h
        /\ DOMAIN t = 1..Len(t) /\ \A k \in DOMAIN t : p[k + 1] = t[k]
        /\ Range(p) = {h} \cup Range(t)
    <2>1. p \in Seq(S) /\ DOMAIN p = 1..Len(t) + 1 /\ p[1] = h /\ DOMAIN t = 1..Len(t)
      BY PushFacts
    <2>2. \A k \in DOMAIN t : p[k + 1] = t[k]
      BY PushFacts
    <2>3. Range(p) = {h} \cup Range(t)
      BY PushFacts
    <2> QED
      BY <2>1, <2>2, <2>3
  <1>4. Len(p) = Len(s)
    BY <1>0, <1>1, <1>2, <1>3, LenProperties
  <1>5. ASSUME NEW k \in 1..Len(s) PROVE p[k] = s[k]
    <2>1. CASE k = 1
      BY <1>0, <1>1, <1>3, <2>1
    <2>2. CASE k # 1
      <3>1. PICK j \in 1..Len(t) : k = j + 1
        <4>1. k - 1 \in 1..Len(t) /\ k = (k - 1) + 1
          BY <1>0, <1>1, <1>2, <2>2
        <4> QED
          BY <4>1
      <3> QED
        BY <1>0, <1>1, <1>3, <3>1
    <2> QED
      BY <2>1, <2>2
  <1>6. p = s
    BY <1>3, <1>4, <1>5, SeqEqual
  <1> QED
    BY <1>0, <1>1, <1>3, <1>6

LEMMA EmptyFacts ==
  /\ \A S : <<>> \in Seq(S)
  /\ Range(<<>>) = {}
  BY DEF Range

LEMMA OneFacts ==
  ASSUME NEW S, NEW x \in S
  PROVE  <<x>> \in Seq(S) /\ Len(<<x>>) = 1 /\ <<x>>[1] = x /\ Range(<<x>>) = {x}
  <1>1. <<x>> \in Seq(S) /\ Len(<<x>>) = 1 /\ <<x>>[1] = x /\ DOMAIN <<x>> = {1}
    OBVIOUS
  <1> QED
    BY <1>1 DEF Range

LEMMA AppendFacts ==
  ASSUME NEW S, NEW s \in Seq(S), NEW x \in S
  PROVE  /\ Append(s, x) \in Seq(S) /\ Append(s, x) # <<>>
         /\ Range(Append(s, x)) = Range(s) \cup {x}
         /\ IsInjective(s) /\ x \notin Range(s) => IsInjective(Append(s, x))
  <1> DEFINE t == Append(s, x)
  <1>1. Len(s) \in Nat /\ DOMAIN s = 1..Len(s)
    BY LenProperties
  <1>2. /\ t \in Seq(S) /\ Len(t) = Len(s) + 1 /\ t[Len(s) + 1] = x
        /\ \A k \in 1..Len(s) : t[k] = s[k]
    BY AppendProperties
  <1>3. DOMAIN t = 1..Len(s) + 1 /\ t # <<>>
    BY <1>1, <1>2, LenProperties, EmptySeq
  <1>4. DOMAIN t = DOMAIN s \cup {Len(s) + 1}
    BY <1>1, <1>3
  <1> HIDE DEF t
  <1>5. Range(t) = Range(s) \cup {x}
    BY <1>1, <1>2, <1>4 DEF Range
  <1>6. ASSUME IsInjective(s), x \notin Range(s) PROVE IsInjective(t)
    BY <1>1, <1>2, <1>4, <1>6 DEF IsInjective, Range
  <1> QED
    BY <1>2, <1>3, <1>5, <1>6 DEF t

(* The second part of a batch repeats what is in the first, at most once.  *)
LEMMA RepeatFacts ==
  ASSUME NEW S, NEW s \in Seq(S), NEW u \in Seq(S),
         IsInjective(s), IsInjective(u), Range(u) \subseteq Range(s)
  PROVE  /\ Range(s \o u) = Range(s)
         /\ \A x : Twice(s \o u, x) => x \in Range(u)
         /\ \A x : ~Thrice(s \o u, x)
  <1> DEFINE w == s \o u
  <1>1. /\ Len(s) \in Nat /\ DOMAIN s = 1..Len(s)
        /\ Len(u) \in Nat /\ DOMAIN u = 1..Len(u)
    BY LenProperties
  <1>2. /\ w \in Seq(S) /\ Len(w) = Len(s) + Len(u)
        /\ \A k \in 1..Len(w) : w[k] = IF k <= Len(s) THEN s[k] ELSE u[k - Len(s)]
    BY ConcatProperties
  <1>3. DOMAIN w = 1..Len(s) + Len(u)
    BY <1>2, LenProperties
  <1>4. ASSUME NEW k \in DOMAIN w
        PROVE  \/ k \in DOMAIN s /\ w[k] = s[k]
               \/ k > Len(s) /\ k - Len(s) \in DOMAIN u /\ w[k] = u[k - Len(s)]
    <2>1. CASE k <= Len(s)
      BY <1>1, <1>2, <1>3, <2>1
    <2>2. CASE ~(k <= Len(s))
      <3>1. k > Len(s) /\ k - Len(s) \in 1..Len(u)
        BY <1>1, <1>3, <2>2
      <3> QED
        BY <1>1, <1>2, <1>3, <2>2, <3>1
    <2> QED
      BY <2>1, <2>2
  <1>5. \A k \in DOMAIN s : k \in DOMAIN w /\ w[k] = s[k]
    BY <1>1, <1>2, <1>3
  <1> HIDE DEF w
  <1>6. Range(w) = Range(s)
    BY <1>4, <1>5 DEF Range
  <1>7. ASSUME NEW j \in DOMAIN w, NEW k \in DOMAIN w, j < k, w[j] = w[k]
        PROVE  k > Len(s) /\ k - Len(s) \in DOMAIN u /\ w[k] = u[k - Len(s)]
    <2> SUFFICES ASSUME k \in DOMAIN s, w[k] = s[k] PROVE FALSE
      BY <1>4
    <2>1. j \in DOMAIN s
      BY <1>1, <1>3, <1>7
    <2>2. s[j] = s[k] /\ j # k
      BY <1>1, <1>5, <1>7, <2>1
    <2> QED
      BY <2>1, <2>2 DEF IsInjective
  <1>8. \A x : Twice(w, x) => x \in Range(u)
    BY <1>7 DEF Twice, Range
  <1>9. ASSUME NEW x, Thrice(w, x) PROVE FALSE
    <2>1. PICK j, k, l \in DOMAIN w : j < k /\ k < l /\ w[j] = x /\ w[k] = x /\ w[l] = x
      BY <1>9 DEF Thrice
    <2>2. /\ k - Len(s) \in DOMAIN u /\ u[k - Len(s)] = x
          /\ l - Len(s) \in DOMAIN u /\ u[l - Len(s)] = x
      BY <1>7, <2>1
    <2>3. k - Len(s) = l - Len(s)
      BY <2>2 DEF IsInjective
    <2> QED
      BY <1>1, <1>3, <2>1, <2>3
  <1> QED
    BY <1>6, <1>8, <1>9 DEF w

(* A batch is of all that waits, and repeats only data queries.            *)
LEMMA ToFetchFacts ==
  ASSUME NEW n \in Nat, NEW s \in Seq(Ids), IsInjective(s)
  PROVE  /\ ToFetch(n, s) \in Seq(Ids)
         /\ Range(ToFetch(n, s)) = Range(s)
         /\ \A x : Twice(ToFetch(n, s), x) => x \in queries
         /\ \A x : ~Thrice(ToFetch(n, s), x)
  <1> DEFINE allowed == IF n + Len(s) < MaxParallel THEN MaxParallel - (n + Len(s)) ELSE 0
             t == Filter(s, queries)
             u == Slice(t, allowed)
  <1>1. allowed \in Nat
    BY LenProperties, FetchQueueAssumption
  <1>2. t \in Seq(Ids) /\ Range(t) \subseteq Range(s) /\ Range(t) \subseteq queries /\ IsInjective(t)
    BY FilterFacts
  <1>3. ToFetch(n, s) = s \o u
    BY DEF ToFetch
  <1> HIDE DEF allowed, t
  <1>4. PICK m \in Nat : m <= Len(t) /\ u = SubSeq(t, 1, m)
    <2>1. Len(t) \in Nat
      BY <1>2, LenProperties
    <2> QED
      BY <1>1, <2>1 DEF Slice
  <1> HIDE DEF u
  <1>5. Len(t) \in Nat /\ DOMAIN t = 1..Len(t) /\ \A k \in 1..m : t[k] \in Ids
    <2>1. Len(t) \in Nat /\ DOMAIN t = 1..Len(t) /\ t \in [1..Len(t) -> Ids]
      BY <1>2, LenProperties
    <2>2. \A k \in 1..m : k \in 1..Len(t)
      BY <1>4, <2>1
    <2> QED
      BY <2>1, <2>2
  <1>6. u \in Seq(Ids) /\ Len(u) = m /\ \A k \in 1..m : u[k] = t[k]
    <2>1. /\ SubSeq(t, 1, m) \in Seq(Ids)
          /\ Len(SubSeq(t, 1, m)) = IF 1 <= m THEN m - 1 + 1 ELSE 0
          /\ \A k \in 1..m - 1 + 1 : SubSeq(t, 1, m)[k] = t[1 + k - 1]
      BY <1>5, SubSeqProperties
    <2>2. m - 1 + 1 = m /\ \A k \in 1..m : 1 + k - 1 = k
      OBVIOUS
    <2>3. m = IF 1 <= m THEN m ELSE 0
      OBVIOUS
    <2> QED
      BY <1>4, <2>1, <2>2, <2>3
  <1>7. DOMAIN u = 1..m /\ \A k \in 1..m : k \in DOMAIN t
    BY <1>4, <1>5, <1>6, LenProperties
  <1>8. Range(u) \subseteq Range(t) /\ IsInjective(u)
    BY <1>2, <1>6, <1>7 DEF Range, IsInjective
  <1>9. s \o u \in Seq(Ids)
    BY <1>6, ConcatProperties
  <1> QED
    BY <1>2, <1>3, <1>6, <1>8, <1>9, RepeatFacts

-----------------------------------------------------------------------------
(* What is on the stack does not depend on the order.                      *)
LEMMA ActiveFacts ==
  ASSUME NEW frames
  PROVE  Active(frames) <=> \E frame \in Range(frames) : frame.kind = "batch"
  BY DEF Active, Range

LEMMA OnStackFacts ==
  ASSUME NEW kind, NEW id, NEW frames
  PROVE  OnStack(kind, id, frames) <=>
           \E frame \in Range(frames) : frame.kind = kind /\ id \in Range(frame.ids)
  BY DEF OnStack, Range

LEMMA OnStackTop ==
  ASSUME NEW kind, NEW id, NEW f, NEW s, NEW t, Range(t) = {f} \cup Range(s)
  PROVE  OnStack(kind, id, t) <=> (f.kind = kind /\ id \in Range(f.ids)) \/ OnStack(kind, id, s)
  <1>1. OnStack(kind, id, t) <=>
          \E frame \in Range(t) : frame.kind = kind /\ id \in Range(frame.ids)
    BY OnStackFacts
  <1>2. OnStack(kind, id, s) <=>
          \E frame \in Range(s) : frame.kind = kind /\ id \in Range(frame.ids)
    BY OnStackFacts
  <1> QED
    BY <1>1, <1>2

LEMMA FrameFacts ==
  ASSUME NEW kind \in Kinds, NEW ids \in Seq(Ids)
  PROVE  /\ Frame(kind, ids) \in FrameSet
         /\ Frame(kind, ids).kind = kind /\ Frame(kind, ids).ids = ids
  BY DEF Frame, FrameSet

LEMMA SingleFrame ==
  ASSUME NEW kind \in Kinds, NEW id \in Ids
  PROVE  /\ Frame(kind, <<id>>) \in FrameSet /\ Frame(kind, <<id>>).kind = kind
         /\ Range(Frame(kind, <<id>>).ids) = {id} /\ Single(Frame(kind, <<id>>))
  <1>1. <<id>> \in Seq(Ids) /\ Len(<<id>>) = 1 /\ Range(<<id>>) = {id}
    BY OneFacts
  <1>2. /\ Frame(kind, <<id>>) \in FrameSet
        /\ Frame(kind, <<id>>).kind = kind /\ Frame(kind, <<id>>).ids = <<id>>
    BY <1>1, FrameFacts
  <1> QED
    BY <1>1, <1>2 DEF Single

LEMMA ShapePush ==
  ASSUME NEW f \in FrameSet, NEW s, Shape(s), Single(f),
         f.kind = "batch" => ~Active(s),
         f.kind = "start" => s # <<>> /\ Head(s).kind = "batch"
  PROVE  Shape(Push(f, s)) /\ Range(Push(f, s)) = {f} \cup Range(s)
  <1> DEFINE t == Push(f, s)
  <1>0. s \in Seq(FrameSet)
    BY DEF Shape
  <1>1. t \in Seq(FrameSet) /\ DOMAIN t = 1..Len(s) + 1 /\ DOMAIN s = 1..Len(s) /\ t[1] = f
    BY <1>0, PushFacts
  <1>2. \A k \in DOMAIN s : t[k + 1] = s[k]
    BY <1>0, PushFacts
  <1>3. Range(t) = {f} \cup Range(s)
    BY <1>0, PushFacts
  <1>4. Len(s) \in Nat
    BY <1>0, LenProperties
  <1> HIDE DEF t
  <1>5. ASSUME NEW k \in DOMAIN t, k # 1
        PROVE  k - 1 \in DOMAIN s /\ t[k] = s[k - 1]
    <2>1. k - 1 \in DOMAIN s /\ (k - 1) + 1 = k
      BY <1>1, <1>4, <1>5
    <2>2. t[(k - 1) + 1] = s[k - 1]
      BY <1>2, <2>1
    <2> QED
      BY <2>1, <2>2
  <1>6. \A frame \in Range(t) : Single(frame)
    BY <1>3 DEF Shape
  <1>7. OneBatch(t)
    <2> SUFFICES ASSUME NEW j \in DOMAIN t, NEW k \in DOMAIN t,
                        t[j].kind = "batch", t[k].kind = "batch"
                 PROVE  j = k
      BY DEF OneBatch
    <2>1. CASE j = 1
      <3>1. ~(k # 1)
        BY <1>1, <1>5, <2>1 DEF Active
      <3> QED
        BY <2>1, <3>1
    <2>2. CASE k = 1
      <3>1. ~(j # 1)
        BY <1>1, <1>5, <2>2 DEF Active
      <3> QED
        BY <2>2, <3>1
    <2>3. CASE j # 1 /\ k # 1
      <3>1. j - 1 = k - 1
        BY <1>5, <2>3 DEF Shape, OneBatch
      <3> QED
        BY <1>1, <1>4, <3>1
    <2> QED
      BY <2>1, <2>2, <2>3
  <1>8. StartsInBatch(t)
    <2> SUFFICES ASSUME NEW k \in DOMAIN t, t[k].kind = "start"
                 PROVE  k + 1 \in DOMAIN t /\ t[k + 1].kind = "batch"
      BY DEF StartsInBatch
    <2>1. CASE k = 1
      <3>1. s # <<>> /\ Head(s).kind = "batch"
        BY <1>1, <2>1
      <3>2. Len(s) # 0 /\ Head(s) = s[1]
        BY <1>0, <3>1, EmptySeq
      <3>3. 1 \in DOMAIN s /\ k + 1 \in DOMAIN t
        BY <1>1, <1>4, <2>1, <3>2
      <3> QED
        BY <1>2, <2>1, <3>1, <3>2, <3>3
    <2>2. CASE k # 1
      <3>1. (k - 1) + 1 \in DOMAIN s /\ s[(k - 1) + 1].kind = "batch"
        BY <1>5, <2>2 DEF Shape, StartsInBatch
      <3>2. (k - 1) + 1 = k /\ k + 1 \in DOMAIN t
        BY <1>1, <1>4, <3>1
      <3> QED
        BY <1>2, <3>1, <3>2
    <2> QED
      BY <2>1, <2>2
  <1>9. Shape(t)
    BY <1>1, <1>6, <1>7, <1>8 DEF Shape
  <1> QED
    BY <1>3, <1>9 DEF t

(* Under the frame on top: no other batch under a batch, and no request    *)
(* that is started under a batch or a start.                               *)
LEMMA ShapePop ==
  ASSUME NEW s, Shape(s), s # <<>>
  PROVE  /\ Head(s) \in FrameSet /\ Single(Head(s))
         /\ Shape(Tail(s)) /\ Range(s) = {Head(s)} \cup Range(Tail(s))
         /\ Head(s).kind = "batch" => ~Active(Tail(s))
         /\ Head(s).kind \in {"batch", "start"} =>
              \A frame \in Range(Tail(s)) : frame.kind # "start"
  <1>0. s \in Seq(FrameSet)
    BY DEF Shape
  <1>1. PICK h \in FrameSet, t \in Seq(FrameSet) :
          /\ h = Head(s) /\ t = Tail(s) /\ s = Push(h, t)
          /\ Range(s) = {h} \cup Range(t)
    <2>1. Head(s) \in FrameSet /\ Tail(s) \in Seq(FrameSet) /\ s = Push(Head(s), Tail(s))
      BY <1>0, PopFacts
    <2>2. Range(s) = {Head(s)} \cup Range(Tail(s))
      BY <1>0, PopFacts
    <2> QED
      BY <2>1, <2>2, Zenon
  <1>2. DOMAIN s = 1..Len(t) + 1 /\ DOMAIN t = 1..Len(t) /\ s[1] = h
    BY <1>1, PushFacts
  <1>3. \A k \in DOMAIN t : s[k + 1] = t[k]
    BY <1>1, PushFacts
  <1>4. Range(s) = {h} \cup Range(t)
    BY <1>1
  <1>5. Len(t) \in Nat
    BY LenProperties
  <1>6. \A k \in DOMAIN t : k \in Nat /\ k + 1 \in DOMAIN s /\ k + 1 # 1
    BY <1>2, <1>5
  <1>7. 1 \in DOMAIN s
    BY <1>2, <1>5
  <1>8. Single(h) /\ \A frame \in Range(t) : Single(frame)
    BY <1>4 DEF Shape
  <1>9. OneBatch(t)
    <2> SUFFICES ASSUME NEW j \in DOMAIN t, NEW k \in DOMAIN t,
                        t[j].kind = "batch", t[k].kind = "batch"
                 PROVE  j = k
      BY DEF OneBatch
    <2>1. j + 1 = k + 1
      BY <1>3, <1>6 DEF Shape, OneBatch
    <2> QED
      BY <1>6, <2>1
  <1>10. ASSUME NEW k \in DOMAIN t, t[k].kind = "start"
         PROVE  k + 1 \in DOMAIN t /\ t[k + 1].kind = "batch"
    <2>1. (k + 1) + 1 \in DOMAIN s /\ s[(k + 1) + 1].kind = "batch"
      BY <1>3, <1>6, <1>10 DEF Shape, StartsInBatch
    <2>2. k + 1 \in DOMAIN t
      BY <1>2, <1>5, <1>6, <2>1
    <2> QED
      BY <1>3, <2>1, <2>2
  <1>11. Shape(t)
    BY <1>8, <1>9, <1>10 DEF Shape, StartsInBatch
  <1>12. h.kind = "batch" => ~Active(t)
    <2> SUFFICES ASSUME h.kind = "batch", NEW k \in DOMAIN t, t[k].kind = "batch" PROVE FALSE
      BY DEF Active
    <2>1. s[1].kind = "batch" /\ s[k + 1].kind = "batch" /\ k + 1 \in DOMAIN s /\ k + 1 # 1
      BY <1>2, <1>3, <1>6
    <2> QED
      BY <1>7, <2>1 DEF Shape, OneBatch
  <1>13. ASSUME h.kind \in {"batch", "start"}, NEW frame \in Range(t), frame.kind = "start"
         PROVE  FALSE
    <2>1. PICK k \in DOMAIN t : t[k].kind = "start"
      BY <1>13 DEF Range
    <2>2. k + 1 \in DOMAIN t /\ t[k + 1].kind = "batch"
      BY <1>10, <2>1
    <2>3. (k + 1) + 1 \in DOMAIN s /\ s[(k + 1) + 1].kind = "batch"
      BY <1>3, <1>6, <2>2
    <2>4. h.kind = "start"
      BY <1>12, <1>13, <2>2 DEF Active
    <2>5. 2 \in DOMAIN s /\ s[2].kind = "batch"
      <3>1. 1 + 1 \in DOMAIN s /\ s[1 + 1].kind = "batch"
        BY <1>2, <1>7, <2>4 DEF Shape, StartsInBatch
      <3> QED
        BY <3>1
    <2>6. (k + 1) + 1 = 2
      BY <2>3, <2>5 DEF Shape, OneBatch
    <2> QED
      BY <1>2, <1>5, <2>6
  <1> QED
    BY <1>1, <1>4, <1>8, <1>11, <1>12, <1>13

LEMMA CountFacts ==
  ASSUME NEW T \in SUBSET Ids
  PROVE  Cardinality(T) \in Counts /\ Counts \subseteq Nat
  <1>1. /\ IsFiniteSet(Ids) /\ IsFiniteSet(T) /\ Cardinality(T) <= Cardinality(Ids)
        /\ Cardinality(T) \in Nat /\ Cardinality(Ids) \in Nat
    BY FetchQueueAssumption, FS_Subset, FS_CardinalityType
  <1> QED
    BY <1>1 DEF Counts

-----------------------------------------------------------------------------
(* An update makes the invariant true of what is left to do.               *)
LEMMA PublishIInv ==
  ASSUME NEW frames, Sound(frames)', UNCHANGED queries, updates \in Seq(Counts),
         PublishUpdate(frames)
  PROVE  IInv'
  <1>1. CASE pending' = <<>> /\ stack' = frames /\ UNCHANGED updates
    <2>1. Waiting(stack', pending', updates')
      BY <1>1, EmptyFacts DEF Waiting
    <2> QED
      BY <1>1, <2>1 DEF IInv
  <1>2. CASE /\ pending' # <<>> /\ Active(frames) /\ stack' = frames
             /\ updates' = Append(updates, Cardinality(inProgress'))
    <2>1. Cardinality(inProgress') \in Counts
      BY CountFacts DEF Sound, Typed
    <2>2. updates' \in Seq(Counts) /\ updates' # <<>>
      BY <1>2, <2>1, AppendFacts
    <2>3. Waiting(stack', pending', updates')
      BY <1>2, <2>2 DEF Waiting
    <2> QED
      BY <1>2, <2>2, <2>3 DEF IInv
  <1>3. CASE /\ pending' # <<>> /\ ~Active(frames) /\ UNCHANGED updates
             /\ stack' = Push(Frame("batch", ToFetch(Cardinality(inProgress'), pending')), frames)
    <2>0. PICK batch : batch = ToFetch(Cardinality(inProgress'), pending')
      OBVIOUS
    <2>1. Cardinality(inProgress') \in Nat
      BY CountFacts DEF Sound, Typed
    <2>2. /\ batch \in Seq(Ids)
          /\ Range(batch) = Range(pending')
          /\ \A x : Twice(batch, x) => x \in queries'
          /\ \A x : ~Thrice(batch, x)
      BY <2>0, <2>1, ToFetchFacts DEF Sound, Typed
    <2>3. PICK f \in FrameSet : f = Frame("batch", batch) /\ f.kind = "batch" /\ f.ids = batch
      BY <2>2, FrameFacts DEF Kinds
    <2>4. Shape(frames) /\ Single(f)
      BY <2>3 DEF Sound, Single
    <2>5. Shape(stack') /\ Range(stack') = {f} \cup Range(frames)
      <3>1. stack' = Push(f, frames)
        BY <1>3, <2>0, <2>3
      <3> QED
        BY <1>3, <2>3, <2>4, <3>1, ShapePush
    <2>6. Waiting(stack', pending', updates')
      BY <1>3, <2>2, <2>3, <2>5, ActiveFacts DEF Waiting
    <2>7. ASSUME NEW id \in Ids
          PROVE  Fresh(stack, id)' /\ Alive(stack, id)' /\ Sparing(stack, id)'
      <3>1. Fresh(frames, id)' /\ Alive(frames, id)' /\ Sparing(frames, id)'
        BY DEF Sound
      <3>2. \A kind : kind # "batch" => (OnStack(kind, id, stack') <=> OnStack(kind, id, frames))
        <4> SUFFICES ASSUME NEW kind, kind # "batch"
                     PROVE  OnStack(kind, id, stack') <=> OnStack(kind, id, frames)
          OBVIOUS
        <4>1. OnStack(kind, id, stack') <=>
                \E frame \in Range(stack') : frame.kind = kind /\ id \in Range(frame.ids)
          BY OnStackFacts
        <4>2. OnStack(kind, id, frames) <=>
                \E frame \in Range(frames) : frame.kind = kind /\ id \in Range(frame.ids)
          BY OnStackFacts
        <4> QED
          BY <2>3, <2>5, <4>1, <4>2
      <3>3. Fresh(stack, id)'
        BY <2>2, <2>3, <2>5, <3>1 DEF Fresh
      <3>4. Alive(stack, id)'
        BY <3>1, <3>2 DEF Alive
      <3>5. Used(stack, id)' = Used(frames, id)'
        BY <3>2 DEF Used
      <3>6. Sparing(stack, id)'
        <4>1. Once(f.ids, id) => Used(frames, id)' = 0
          BY <2>2, <2>3, <3>1 DEF Sparing, Once
        <4>2. Budget(id)' \in {1, 2} /\ (Twice(f.ids, id) => Budget(id)' = 2 /\ Once(f.ids, id))
          BY <2>2, <2>3 DEF Budget, Once, Twice, Range
        <4>3. ~Thrice(f.ids, id)
          BY <2>2, <2>3
        <4>4. /\ Once(f.ids, id) => Used(frames, id)' + 1 <= Budget(id)'
              /\ Twice(f.ids, id) => Used(frames, id)' + 2 <= Budget(id)'
          BY <4>1, <4>2
        <4> QED
          BY <2>5, <3>1, <3>5, <4>3, <4>4 DEF Sparing
      <3> QED
        BY <3>3, <3>4, <3>6
    <2>8. Sound(stack)'
      BY <2>5, <2>7 DEF Sound
    <2> QED
      BY <1>3, <2>6, <2>8 DEF IInv
  <1> QED
    BY <1>1, <1>2, <1>3 DEF PublishUpdate

LEMMA FetchIInv ==
  ASSUME IInv, NEW id \in Ids, Fetch(id)
  PROVE  IInv'
  <1>1. /\ sub[id] = "new" /\ sub' = [sub EXCEPT ![id] = "open"]
        /\ pending' = Append(pending, id)
        /\ requestId' = requestId /\ queries' = queries /\ inProgress' = inProgress
        /\ streams' = streams /\ sent' = sent
    BY DEF Fetch, options
  <1>2. Typed /\ Shape(stack)
    BY DEF IInv, Sound
  <1>3. Fresh(stack, id)
    BY DEF IInv, Sound
  <1>4. /\ Range(pending') = Range(pending) \cup {id}
        /\ pending' \in Seq(Ids) /\ IsInjective(pending')
    BY <1>1, <1>2, <1>3, AppendFacts DEF Typed, Fresh
  <1>5. Typed'
    BY <1>1, <1>2, <1>3, <1>4 DEF Typed, Fresh
  <1>6. PICK f \in FrameSet : f = Frame("subscribe", <<id>>)
    BY SingleFrame DEF Kinds
  <1>7. f.kind = "subscribe" /\ Range(f.ids) = {id} /\ Single(f)
    BY <1>6, SingleFrame DEF Kinds
  <1>8. PICK frames : frames = Push(f, stack)
    OBVIOUS
  <1>9. Shape(frames) /\ Range(frames) = {f} \cup Range(stack)
    BY <1>2, <1>7, <1>8, ShapePush
  <1>10. ASSUME NEW j \in Ids
         PROVE  Fresh(frames, j)' /\ Alive(frames, j)' /\ Sparing(frames, j)'
    <2>1. Fresh(stack, j) /\ Alive(stack, j) /\ Sparing(stack, j)
      BY DEF IInv, Sound
    <2>2. /\ OnStack("start", j, frames) <=> OnStack("start", j, stack)
          /\ OnStack("finish", j, frames) <=> OnStack("finish", j, stack)
      BY <1>7, <1>9, OnStackTop
    <2>3. Fresh(frames, j)'
      BY <1>1, <1>2, <1>4, <1>7, <1>9, <2>1 DEF Fresh, Typed
    <2>4. Alive(frames, j)'
      BY <1>1, <1>2, <1>4, <2>1, <2>2 DEF Alive, Typed
    <2>5. Used(frames, j)' = Used(stack, j)
      BY <1>1, <2>2 DEF Used
    <2>6. Used(stack, id) = 0
      BY <1>1, <1>3, OnStackFacts DEF Used, Fresh
    <2>7. Sparing(frames, j)'
      BY <1>1, <1>4, <1>7, <1>9, <2>1, <2>5, <2>6 DEF Sparing, Budget
    <2> QED
      BY <2>3, <2>4, <2>7
  <1>11. Sound(frames)'
    BY <1>5, <1>9, <1>10 DEF Sound
  <1>12. PublishUpdate(frames)
    BY <1>6, <1>8 DEF Fetch
  <1> QED
    BY <1>1, <1>11, <1>12, PublishIInv DEF IInv

-----------------------------------------------------------------------------
LEMMA SingleFacts ==
  ASSUME NEW f \in FrameSet, Single(f), f.kind \in {"subscribe", "start", "finish"}
  PROVE  f.ids[1] \in Ids /\ Range(f.ids) = {f.ids[1]}
  <1>1. f.ids \in Seq(Ids) /\ Len(f.ids) = 1
    BY DEF FrameSet, Single
  <1>2. DOMAIN f.ids = 1..1 /\ f.ids \in [1..1 -> Ids]
    BY <1>1, LenProperties
  <1>3. 1..1 = {1}
    OBVIOUS
  <1> QED
    BY <1>2, <1>3 DEF Range

LEMMA WaitingTop ==
  ASSUME NEW f, NEW s, NEW t, Range(t) = {f} \cup Range(s), f.kind # "batch",
         NEW waiting, NEW buffered
  PROVE  Waiting(t, waiting, buffered) <=> Waiting(s, waiting, buffered)
  BY ActiveFacts DEF Waiting

(* A request that is closed leaves the queue and the streams.              *)
LEMMA ClosedSound ==
  ASSUME NEW frames, NEW id \in Ids, Typed, Shape(frames),
         \A j \in Ids : Fresh(frames, j) /\ Sparing(frames, j),
         \A j \in Ids : j # id => Alive(frames, j),
         sub' \in [Ids -> {"new", "open", "closed"}], sub'[id] = "closed",
         \A j \in Ids : j # id => sub'[j] = sub[j],
         streams' \in Seq(Ids),
         Range(streams') \subseteq Range(streams), Range(streams) \ {id} \subseteq Range(streams'),
         pending' \in Seq(Ids), IsInjective(pending'),
         Range(pending') \subseteq Range(pending), Range(pending) \ {id} \subseteq Range(pending'),
         inProgress' \subseteq inProgress,
         requestId' = requestId, queries' = queries, sent' = sent
  PROVE  Sound(frames)'
  <1>1. Typed'
    BY DEF Typed
  <1>2. ASSUME NEW j \in Ids
        PROVE  Fresh(frames, j)' /\ Alive(frames, j)' /\ Sparing(frames, j)'
    <2>0. /\ Fresh(frames, j)
          /\ Sparing(frames, j)
          /\ j # id => Alive(frames, j)
          /\ j # id => sub'[j] = sub[j]
          /\ j \in Range(pending') => j \in Range(pending)
          /\ j # id /\ j \in Range(pending) => j \in Range(pending')
          /\ j \in Range(streams') => j \in Range(streams)
          /\ j # id /\ j \in Range(streams) => j \in Range(streams')
          /\ j \in inProgress' => j \in inProgress
      OBVIOUS
    <2>1. Fresh(frames, j)'
      BY <2>0 DEF Fresh
    <2>2. Alive(frames, j)'
      BY <2>0 DEF Alive
    <2>3. Used(frames, j)' = Used(frames, j)
      BY DEF Used
    <2>4. Sparing(frames, j)'
      BY <2>0, <2>3 DEF Sparing, Budget
    <2> QED
      BY <2>1, <2>2, <2>4
  <1> QED
    BY <1>1, <1>2 DEF Sound

LEMMA WithoutFacts ==
  ASSUME NEW s \in Seq(Ids), NEW id
  PROVE  /\ Without(s, id) \in Seq(Ids) /\ Range(Without(s, id)) = Range(s) \ {id}
         /\ IsInjective(s) => IsInjective(Without(s, id))
  <1>1. Range(s) \subseteq Ids
    BY LenProperties DEF Range
  <1>2. /\ Filter(s, Ids \ {id}) \in Seq(Ids)
        /\ Range(Filter(s, Ids \ {id})) = Range(s) \cap (Ids \ {id})
        /\ IsInjective(s) => IsInjective(Filter(s, Ids \ {id}))
    BY FilterFacts
  <1> QED
    BY <1>1, <1>2 DEF Without

LEMMA SubscribedIInv ==
  ASSUME IInv, Subscribed
  PROVE  IInv'
  <1> DEFINE id == Head(stack).ids[1]
  <1>1. PICK top, rest : top = Head(stack) /\ rest = Tail(stack)
    OBVIOUS
  <1>2. stack # <<>> /\ top.kind = "subscribe" /\ Shape(stack) /\ Typed /\ updates \in Seq(Counts)
    BY <1>1 DEF Subscribed, Top, IInv, Sound
  <1>3. /\ top \in FrameSet /\ Single(top) /\ Shape(rest)
        /\ Range(stack) = {top} \cup Range(rest)
    BY <1>1, <1>2, ShapePop
  <1>4. id \in Ids /\ Range(top.ids) = {id}
    BY <1>1, <1>2, <1>3, SingleFacts
  <1>5. ASSUME NEW j \in Ids
        PROVE  Fresh(rest, j) /\ Alive(rest, j) /\ Sparing(rest, j)
    <2>1. Fresh(stack, j) /\ Alive(stack, j) /\ Sparing(stack, j)
      BY DEF IInv, Sound
    <2>2. /\ OnStack("start", j, rest) <=> OnStack("start", j, stack)
          /\ OnStack("finish", j, rest) <=> OnStack("finish", j, stack)
      BY <1>2, <1>3, OnStackTop
    <2>3. Used(rest, j) = Used(stack, j)
      BY <2>2 DEF Used
    <2> QED
      BY <1>3, <2>1, <2>2, <2>3 DEF Fresh, Alive, Sparing
  <1>6. UNCHANGED <<requestId, queries, streams, sub, sent>>
    BY DEF Subscribed, options
  <1>7. CASE sub[id] = "closed" /\ SetDone(id, Tail(stack))
    <2>1. /\ pending' = Without(pending, id) /\ inProgress' = inProgress \ {id}
          /\ PublishUpdate(rest)
      BY <1>1, <1>7 DEF SetDone
    <2>2. /\ pending' \in Seq(Ids) /\ Range(pending') = Range(pending) \ {id}
          /\ IsInjective(pending')
      BY <1>2, <2>1, WithoutFacts DEF Typed
    <2>3. streams \in Seq(Ids) /\ sub \in [Ids -> {"new", "open", "closed"}]
      BY <1>2 DEF Typed
    <2>4. Sound(rest)'
      <3> HIDE DEF id
      <3> QED
        BY <1>2, <1>3, <1>4, <1>5, <1>6, <1>7, <2>1, <2>2, <2>3, ClosedSound
    <2> QED
      BY <1>2, <1>6, <2>1, <2>4, PublishIInv
  <1>8. CASE stack' = Tail(stack) /\ UNCHANGED <<pending, inProgress, updates>>
    <2>1. stack' = rest
      BY <1>1, <1>8
    <2>2. Waiting(rest, pending, updates)
      BY <1>2, <1>3, WaitingTop DEF IInv
    <2>3. Sound(rest)'
      BY <1>2, <1>3, <1>5, <1>6, <1>8
         DEF Sound, Typed, Fresh, Alive, Sparing, Used, Budget
    <2> QED
      BY <1>2, <1>8, <2>1, <2>2, <2>3 DEF IInv
  <1> QED
    BY <1>7, <1>8 DEF Subscribed

LEMMA CloseIInv ==
  ASSUME NEW frames, NEW id \in Ids, Typed, Shape(frames), updates \in Seq(Counts),
         Waiting(frames, pending, updates),
         \A j \in Ids : Fresh(frames, j) /\ Sparing(frames, j),
         \A j \in Ids : j # id => Alive(frames, j),
         Close(id, frames), UNCHANGED <<requestId, queries, sent>>
  PROVE  IInv'
  <1>1. sub' = [sub EXCEPT ![id] = "closed"] /\ streams' = Without(streams, id)
    BY DEF Close
  <1>2. /\ sub' \in [Ids -> {"new", "open", "closed"}] /\ sub'[id] = "closed"
        /\ \A j \in Ids : j # id => sub'[j] = sub[j]
    BY <1>1 DEF Typed
  <1>3. streams' \in Seq(Ids) /\ Range(streams') = Range(streams) \ {id}
    BY <1>1, WithoutFacts DEF Typed
  <1>4. CASE SetDone(id, frames)
    <2>1. /\ pending' = Without(pending, id) /\ inProgress' = inProgress \ {id}
          /\ PublishUpdate(frames)
      BY <1>4 DEF SetDone
    <2>2. /\ pending' \in Seq(Ids) /\ Range(pending') = Range(pending) \ {id}
          /\ IsInjective(pending')
      BY <2>1, WithoutFacts DEF Typed
    <2>3. Sound(frames)'
      BY <1>2, <1>3, <2>1, <2>2, ClosedSound
    <2> QED
      BY <2>1, <2>3, PublishIInv
  <1>5. CASE stack' = frames /\ UNCHANGED <<pending, inProgress, updates>>
    <2>1. pending' \in Seq(Ids) /\ Range(pending') = Range(pending) /\ IsInjective(pending')
      BY <1>5 DEF Typed
    <2>2. Sound(frames)'
      BY <1>2, <1>3, <1>5, <2>1, ClosedSound
    <2> QED
      BY <1>5, <2>2 DEF IInv
  <1> QED
    BY <1>4, <1>5 DEF Close

LEMMA UnsubscribeIInv ==
  ASSUME IInv, NEW id \in Ids, Unsubscribe(id)
  PROVE  IInv'
  <1>1. Close(id, stack) /\ UNCHANGED <<requestId, queries, sent>>
    BY DEF Unsubscribe, options
  <1> QED
    BY <1>1, CloseIInv DEF IInv, Sound

LEMMA FinishIInv ==
  ASSUME IInv, Finish
  PROVE  IInv'
  <1> DEFINE id == Head(stack).ids[1]
  <1>1. PICK top, rest : top = Head(stack) /\ rest = Tail(stack)
    OBVIOUS
  <1>2. stack # <<>> /\ top.kind = "finish" /\ Shape(stack) /\ Typed /\ updates \in Seq(Counts)
    BY <1>1 DEF Finish, Top, IInv, Sound
  <1>3. /\ top \in FrameSet /\ Single(top) /\ Shape(rest)
        /\ Range(stack) = {top} \cup Range(rest)
    BY <1>1, <1>2, ShapePop
  <1>4. id \in Ids /\ Range(top.ids) = {id}
    BY <1>1, <1>2, <1>3, SingleFacts
  <1>5. ASSUME NEW j \in Ids
        PROVE  /\ Fresh(rest, j) /\ Sparing(rest, j)
               /\ j # id \/ sub[j] # "open" => Alive(rest, j)
    <2>1. Fresh(stack, j) /\ Alive(stack, j) /\ Sparing(stack, j)
      BY DEF IInv, Sound
    <2>2. /\ OnStack("start", j, rest) <=> OnStack("start", j, stack)
          /\ j # id => (OnStack("finish", j, rest) <=> OnStack("finish", j, stack))
      BY <1>2, <1>3, <1>4, OnStackTop
    <2>3. Used(rest, j) = Used(stack, j)
      BY <2>2 DEF Used
    <2>4. Fresh(rest, j) /\ Sparing(rest, j)
      BY <1>3, <2>1, <2>3 DEF Fresh, Sparing
    <2>5. j # id \/ sub[j] # "open" => Alive(rest, j)
      BY <2>1, <2>2 DEF Alive
    <2> QED
      BY <2>4, <2>5
  <1>6. UNCHANGED <<requestId, queries, sent>>
    BY DEF Finish, options
  <1>7. Waiting(rest, pending, updates)
    BY <1>2, <1>3, WaitingTop DEF IInv
  <1>8. CASE Close(id, Tail(stack))
    <2>1. Close(id, rest)
      BY <1>1, <1>8
    <2> HIDE DEF id
    <2> QED
      BY <1>2, <1>3, <1>4, <1>5, <1>6, <1>7, <2>1, CloseIInv
  <1>9. CASE /\ sub[id] # "open" /\ stack' = Tail(stack)
             /\ UNCHANGED <<pending, inProgress, updates, streams, sub>>
    <2>1. stack' = rest
      BY <1>1, <1>9
    <2>2. Sound(rest)
      BY <1>2, <1>3, <1>5, <1>9 DEF Sound
    <2>3. Sound(rest)'
      BY <1>6, <1>9, <2>2 DEF Sound, Typed, Fresh, Alive, Sparing, Used, Budget
    <2> QED
      BY <1>2, <1>7, <1>9, <2>1, <2>3 DEF IInv
  <1> QED
    BY <1>8, <1>9 DEF Finish

-----------------------------------------------------------------------------
(* The result of a request is subscribed to.                               *)
LEMMA StartIInv ==
  ASSUME IInv, Start
  PROVE  IInv'
  <1> DEFINE id == Head(stack).ids[1]
  <1>1. PICK top, rest : top = Head(stack) /\ rest = Tail(stack)
    OBVIOUS
  <1>2. stack # <<>> /\ top.kind = "start" /\ Shape(stack) /\ Typed /\ updates \in Seq(Counts)
    BY <1>1 DEF Start, Top, IInv, Sound
  <1>3. /\ top \in FrameSet /\ Single(top) /\ Shape(rest)
        /\ Range(stack) = {top} \cup Range(rest)
        /\ \A frame \in Range(rest) : frame.kind # "start"
    BY <1>1, <1>2, ShapePop
  <1>4. id \in Ids /\ Range(top.ids) = {id}
    BY <1>1, <1>2, <1>3, SingleFacts
  <1>5. /\ stack' = rest
        /\ UNCHANGED <<requestId, queries, pending, inProgress, updates, sub>>
    BY <1>1 DEF Start, options
  <1>6. Waiting(stack', pending', updates')
    BY <1>2, <1>3, <1>5, WaitingTop DEF IInv
  <1>7. \/ /\ sub[id] = "open"
           /\ streams' = Append(streams, id)
           /\ sent' = [sent EXCEPT ![id] = @ + 1]
        \/ sub[id] # "open" /\ UNCHANGED <<streams, sent>>
    BY DEF Start
  <1> HIDE DEF id
  <1>8. /\ streams' \in Seq(Ids)
        /\ Range(streams') = IF sub[id] = "open" THEN Range(streams) \cup {id} ELSE Range(streams)
    <2>1. CASE sub[id] = "open"
      <3>1. streams \in Seq(Ids) /\ streams' = Append(streams, id)
        BY <1>2, <1>7, <2>1 DEF Typed
      <3> QED
        BY <1>4, <2>1, <3>1, AppendFacts
    <2>2. CASE sub[id] # "open"
      BY <1>2, <1>7, <2>2 DEF Typed
    <2> QED
      BY <2>1, <2>2
  <1>9. /\ sent' \in [Ids -> Nat] /\ sent'[id] <= sent[id] + 1
        /\ sub[id] # "open" => sent'[id] = sent[id]
        /\ \A j \in Ids : j # id => sent'[j] = sent[j]
    <2>1. sent \in [Ids -> Nat]
      BY <1>2 DEF Typed
    <2>2. CASE sub[id] = "open"
      <3>1. sent' = [sent EXCEPT ![id] = sent[id] + 1]
        BY <1>7, <2>2
      <3> QED
        BY <1>4, <2>1, <2>2, <3>1
    <2>3. CASE sub[id] # "open"
      BY <1>4, <1>7, <2>1, <2>3
    <2> QED
      BY <2>2, <2>3
  <1>10. Typed'
    BY <1>2, <1>5, <1>8, <1>9 DEF Typed
  <1>11. ASSUME NEW j \in Ids
         PROVE  Fresh(rest, j)' /\ Alive(rest, j)' /\ Sparing(rest, j)'
    <2>1. Fresh(stack, j) /\ Alive(stack, j) /\ Sparing(stack, j)
      BY DEF IInv, Sound
    <2>2. /\ OnStack("start", j, stack) <=> j = id
          /\ OnStack("finish", j, rest) <=> OnStack("finish", j, stack)
          /\ ~OnStack("start", j, rest)
      <3>1. ~OnStack("start", j, rest)
        BY <1>3, OnStackFacts
      <3>2. OnStack("start", j, stack) <=> j = id \/ OnStack("start", j, rest)
        BY <1>2, <1>3, <1>4, OnStackTop
      <3>3. OnStack("finish", j, rest) <=> OnStack("finish", j, stack)
        BY <1>2, <1>3, OnStackTop
      <3> QED
        BY <3>1, <3>2, <3>3
    <2>3. Fresh(rest, j)'
      <3>1. sub[j] = "new" => j # id
        BY <1>3, <1>4, <2>1 DEF Fresh
      <3> QED
        BY <1>3, <1>5, <1>8, <1>9, <2>1, <3>1 DEF Fresh
    <2>4. Alive(rest, j)'
      BY <1>5, <1>8, <2>1, <2>2 DEF Alive
    <2>5. /\ Used(rest, j)' \in Nat /\ Used(stack, j) \in Nat
          /\ Used(rest, j)' <= Used(stack, j)
      <3>1. Used(rest, j)' = sent'[j]
        BY <2>2 DEF Used
      <3>2. Used(stack, j) = IF j = id THEN sent[j] + 1 ELSE sent[j]
        BY <2>2 DEF Used
      <3>3. sent[j] \in Nat /\ sent'[j] \in Nat
        BY <1>2, <1>9 DEF Typed
      <3> QED
        BY <1>9, <3>1, <3>2, <3>3
    <2>6. Budget(j)' = Budget(j) /\ Budget(j) \in {1, 2}
      BY <1>5 DEF Budget
    <2>7. Sparing(rest, j)'
      <3>1. Used(rest, j)' <= Budget(j)'
        BY <2>1, <2>5, <2>6 DEF Sparing
      <3>2. j \in Range(pending') => Used(rest, j)' = 0
        BY <1>5, <2>1, <2>5 DEF Sparing
      <3>3. ASSUME NEW frame \in Range(rest), frame.kind = "batch"
            PROVE  /\ Once(frame.ids, j) => Used(rest, j)' + 1 <= Budget(j)'
                   /\ Twice(frame.ids, j) => Used(rest, j)' + 2 <= Budget(j)'
                   /\ ~Thrice(frame.ids, j)
        <4>1. /\ Once(frame.ids, j) => Used(stack, j) + 1 <= Budget(j)
              /\ Twice(frame.ids, j) => Used(stack, j) + 2 <= Budget(j)
              /\ ~Thrice(frame.ids, j)
          BY <1>3, <2>1, <3>3 DEF Sparing
        <4> QED
          BY <2>5, <2>6, <4>1
      <3> QED
        BY <3>1, <3>2, <3>3 DEF Sparing
    <2> QED
      BY <2>3, <2>4, <2>7
  <1> QED
    BY <1>2, <1>3, <1>5, <1>6, <1>10, <1>11 DEF IInv, Sound

-----------------------------------------------------------------------------
(* A step that leaves the queue alone: no request is started or forgotten, *)
(* and a new batch is of what waits.                                       *)
Known(frames, x) ==
  \/ x \in Range(streams) \/ x \in Range(pending)
  \/ \E frame \in Range(frames) : x \in Range(frame.ids)

BatchOf(ids, waiting) ==
  /\ Range(ids) = Range(waiting)
  /\ \A x : Twice(ids, x) => x \in queries
  /\ \A x : ~Thrice(ids, x)

LEMMA QuietSound ==
  ASSUME NEW frames, NEW after, Sound(frames), Shape(after),
         UNCHANGED <<requestId, queries, pending, inProgress, sub, sent>>,
         streams' \in Seq(Ids), Range(streams') \subseteq Range(streams),
         \A frame \in Range(after) : \A x \in Range(frame.ids) : Known(frames, x),
         \A frame \in Range(after) : frame.kind = "batch" =>
           frame \in Range(frames) \/ BatchOf(frame.ids, pending),
         \A j \in Ids : OnStack("start", j, after) <=> OnStack("start", j, frames),
         \A j \in Ids : OnStack("finish", j, frames) => OnStack("finish", j, after),
         \A j \in Range(streams) \ Range(streams') : OnStack("finish", j, after)
  PROVE  Sound(after)'
  <1>1. Typed'
    BY DEF Sound, Typed
  <1>2. ASSUME NEW j \in Ids
        PROVE  Fresh(after, j)' /\ Alive(after, j)' /\ Sparing(after, j)'
    <2>1. Fresh(frames, j) /\ Alive(frames, j) /\ Sparing(frames, j)
      BY DEF Sound
    <2>2. Fresh(after, j)'
      <3>1. sub[j] = "new" => ~Known(frames, j)
        BY <2>1 DEF Fresh, Known
      <3> QED
        BY <2>1, <3>1 DEF Fresh
    <2>3. Alive(after, j)'
      <3>1. /\ OnStack("start", j, frames) => OnStack("start", j, after)
            /\ OnStack("finish", j, frames) => OnStack("finish", j, after)
            /\ j \in Range(streams) => j \in Range(streams') \/ OnStack("finish", j, after)
        OBVIOUS
      <3> QED
        BY <2>1, <3>1 DEF Alive
    <2>4. Used(after, j)' = Used(frames, j)
      BY DEF Used
    <2>5. Budget(j)' = Budget(j) /\ Budget(j) \in {1, 2} /\ (j \in queries => Budget(j) = 2)
      BY DEF Budget
    <2>6. ASSUME NEW frame \in Range(after), frame.kind = "batch"
          PROVE  /\ Once(frame.ids, j) => Used(frames, j) + 1 <= Budget(j)
                 /\ Twice(frame.ids, j) => Used(frames, j) + 2 <= Budget(j)
                 /\ ~Thrice(frame.ids, j)
      <3>1. CASE frame \in Range(frames)
        BY <2>1, <2>6, <3>1 DEF Sparing
      <3>2. CASE BatchOf(frame.ids, pending)
        <4>1. Once(frame.ids, j) => Used(frames, j) = 0
          BY <2>1, <3>2 DEF Sparing, Once, BatchOf
        <4>2. Twice(frame.ids, j) => Once(frame.ids, j) /\ j \in queries
          BY <3>2 DEF BatchOf, Once, Twice, Range
        <4>3. ~Thrice(frame.ids, j)
          BY <3>2 DEF BatchOf
        <4> QED
          BY <2>5, <4>1, <4>2, <4>3
      <3> QED
        BY <2>6, <3>1, <3>2
    <2>7. Sparing(after, j)'
      BY <2>1, <2>4, <2>5, <2>6 DEF Sparing
    <2> QED
      BY <2>2, <2>3, <2>7
  <1> QED
    BY <1>1, <1>2 DEF Sound

LEMMA ReturnIInv ==
  ASSUME IInv, Return
  PROVE  IInv'
  <1>1. PICK top, rest : top = Head(stack) /\ rest = Tail(stack)
    OBVIOUS
  <1>2. stack # <<>> /\ top.kind = "callback" /\ Shape(stack) /\ Typed
    BY <1>1 DEF Return, Top, IInv, Sound
  <1>3. Shape(rest) /\ Range(stack) = {top} \cup Range(rest)
    BY <1>1, <1>2, ShapePop
  <1>4. /\ stack' = rest
        /\ UNCHANGED <<requestId, queries, pending, inProgress, updates, streams, sub, sent>>
    BY <1>1 DEF Return, options
  <1>5. \A j \in Ids : /\ OnStack("start", j, rest) <=> OnStack("start", j, stack)
                       /\ OnStack("finish", j, rest) <=> OnStack("finish", j, stack)
    BY <1>2, <1>3, OnStackTop
  <1>6. streams' \in Seq(Ids)
    BY <1>2, <1>4 DEF Typed
  <1>7. Sound(rest)'
    BY <1>3, <1>4, <1>5, <1>6, QuietSound DEF IInv, Known
  <1>8. Waiting(rest, pending, updates)
    BY <1>2, <1>3, WaitingTop DEF IInv
  <1> QED
    BY <1>4, <1>7, <1>8 DEF IInv

LEMMA CallbackFrame ==
  /\ Frame("callback", <<>>) \in FrameSet /\ Frame("callback", <<>>).kind = "callback"
  /\ Range(Frame("callback", <<>>).ids) = {} /\ Single(Frame("callback", <<>>))
  BY EmptyFacts, FrameFacts DEF Kinds, Single

LEMMA RespondIInv ==
  ASSUME IInv, NEW id \in Ids, Respond(id)
  PROVE  IInv'
  <1>1. Typed /\ Shape(stack)
    BY DEF IInv, Sound
  <1>2. PICK call, end \in FrameSet :
          call = Frame("callback", <<>>) /\ end = Frame("finish", <<id>>)
    BY CallbackFrame, SingleFrame DEF Kinds
  <1>3. /\ call.kind = "callback" /\ Range(call.ids) = {} /\ Single(call)
        /\ end.kind = "finish" /\ Range(end.ids) = {id} /\ Single(end)
    BY <1>2, CallbackFrame, SingleFrame DEF Kinds
  <1>4. PICK ending, after : ending = Push(end, stack) /\ after = Push(call, ending)
    OBVIOUS
  <1>5. Shape(ending) /\ Range(ending) = {end} \cup Range(stack)
    BY <1>1, <1>3, <1>4, ShapePush
  <1>6. Shape(after) /\ Range(after) = {call} \cup Range(ending)
    BY <1>3, <1>4, <1>5, ShapePush
  <1>7. /\ stack' = after /\ id \in Range(streams) /\ streams' = Without(streams, id)
        /\ UNCHANGED <<requestId, queries, pending, inProgress, updates, sub, sent>>
    BY <1>2, <1>4 DEF Respond, options
  <1>8. streams' \in Seq(Ids) /\ Range(streams') = Range(streams) \ {id}
    BY <1>1, <1>7, WithoutFacts DEF Typed
  <1>9. ASSUME NEW j \in Ids
        PROVE  /\ OnStack("start", j, after) <=> OnStack("start", j, stack)
               /\ OnStack("finish", j, stack) => OnStack("finish", j, after)
               /\ j \in Range(streams) \ Range(streams') => OnStack("finish", j, after)
    <2>1. /\ OnStack("start", j, ending) <=> OnStack("start", j, stack)
          /\ OnStack("finish", j, ending) <=> j = id \/ OnStack("finish", j, stack)
      BY <1>3, <1>5, OnStackTop
    <2>2. /\ OnStack("start", j, after) <=> OnStack("start", j, ending)
          /\ OnStack("finish", j, after) <=> OnStack("finish", j, ending)
      BY <1>3, <1>6, OnStackTop
    <2> QED
      BY <1>8, <2>1, <2>2
  <1>10. \A frame \in Range(after) : \A x \in Range(frame.ids) : Known(stack, x)
    BY <1>3, <1>5, <1>6, <1>7 DEF Known
  <1>11. \A frame \in Range(after) : frame.kind = "batch" => frame \in Range(stack)
    BY <1>3, <1>5, <1>6
  <1>12. Range(streams) \subseteq Ids
    BY <1>1, LenProperties DEF Typed, Range
  <1>13. Sound(after)'
    BY <1>6, <1>7, <1>8, <1>9, <1>10, <1>11, <1>12, QuietSound DEF IInv
  <1>14. Waiting(after, pending, updates)
    BY <1>3, <1>5, <1>6, WaitingTop DEF IInv
  <1> QED
    BY <1>7, <1>13, <1>14 DEF IInv

LEMMA AbortFrame ==
  ASSUME NEW ids \in Seq(Ids)
  PROVE  /\ Frame("abort", ids) \in FrameSet /\ Frame("abort", ids).kind = "abort"
         /\ Frame("abort", ids).ids = ids /\ Single(Frame("abort", ids))
  BY FrameFacts DEF Kinds, Single

LEMMA AbortFacts ==
  ASSUME NEW r, streams \in Seq(Ids)
  PROVE  /\ Abort(r) \in FrameSet /\ Abort(r).kind = "abort" /\ Single(Abort(r))
         /\ Range(Abort(r).ids) \subseteq Range(streams)
  <1> DEFINE ids == Filter(streams, {i \in Ids : requestId[i] = r})
  <1>1. ids \in Seq(Ids) /\ Range(ids) \subseteq Range(streams)
    BY FilterFacts
  <1> HIDE DEF ids
  <1>2. /\ Frame("abort", ids) \in FrameSet /\ Frame("abort", ids).kind = "abort"
        /\ Frame("abort", ids).ids = ids /\ Single(Frame("abort", ids))
    BY <1>1, AbortFrame
  <1> QED
    BY <1>1, <1>2 DEF Abort, ids

LEMMA CancelIInv ==
  ASSUME IInv, Cancel
  PROVE  IInv'
  <1>1. Typed /\ Shape(stack)
    BY DEF IInv, Sound
  <1>2. PICK frame \in {Abort(r) : r \in RequestIds} \cup {Frame("abort", streams)} :
          stack' = Push(frame, stack)
    BY DEF Cancel
  <1>3. UNCHANGED <<requestId, queries, pending, inProgress, updates, streams, sub, sent>>
    BY DEF Cancel, options
  <1>4. /\ frame \in FrameSet /\ frame.kind = "abort" /\ Single(frame)
        /\ Range(frame.ids) \subseteq Range(streams)
    <2>1. streams \in Seq(Ids)
      BY <1>1 DEF Typed
    <2>2. CASE \E r \in RequestIds : frame = Abort(r)
      BY <2>1, <2>2, AbortFacts
    <2>3. CASE frame = Frame("abort", streams)
      BY <2>1, <2>3, AbortFrame
    <2> QED
      BY <1>2, <2>2, <2>3
  <1>5. PICK after : after = Push(frame, stack)
    OBVIOUS
  <1>6. Shape(after) /\ Range(after) = {frame} \cup Range(stack)
    BY <1>1, <1>4, <1>5, ShapePush
  <1>7. \A j \in Ids : /\ OnStack("start", j, after) <=> OnStack("start", j, stack)
                       /\ OnStack("finish", j, after) <=> OnStack("finish", j, stack)
    BY <1>4, <1>6, OnStackTop
  <1>8. \A f \in Range(after) : \A x \in Range(f.ids) : Known(stack, x)
    BY <1>4, <1>6 DEF Known
  <1>9. streams' \in Seq(Ids) /\ streams' = streams
    BY <1>1, <1>3 DEF Typed
  <1>10. \A f \in Range(after) : f.kind = "batch" => f \in Range(stack)
    BY <1>4, <1>6
  <1>11. Sound(after)'
    BY <1>3, <1>6, <1>7, <1>8, <1>9, <1>10, QuietSound DEF IInv
  <1>12. Waiting(after, pending, updates)
    BY <1>4, <1>6, WaitingTop DEF IInv
  <1> QED
    BY <1>2, <1>3, <1>5, <1>11, <1>12 DEF IInv

LEMMA AbortNextIInv ==
  ASSUME IInv, AbortNext
  PROVE  IInv'
  <1>1. PICK top, rest : top = Head(stack) /\ rest = Tail(stack)
    OBVIOUS
  <1>2. stack # <<>> /\ top.kind = "abort" /\ Shape(stack) /\ Typed
    BY <1>1 DEF AbortNext, Top, IInv, Sound
  <1>3. top \in FrameSet /\ Shape(rest) /\ Range(stack) = {top} \cup Range(rest)
    BY <1>1, <1>2, ShapePop
  <1>4. UNCHANGED <<requestId, queries, pending, inProgress, updates, sub, sent>>
    BY DEF AbortNext, options
  <1>5. ASSUME NEW j \in Ids
        PROVE  /\ OnStack("start", j, stack) <=> OnStack("start", j, rest)
               /\ OnStack("finish", j, stack) <=> OnStack("finish", j, rest)
    BY <1>2, <1>3, OnStackTop
  <1>6. streams \in Seq(Ids) /\ top.ids \in Seq(Ids)
    BY <1>2, <1>3 DEF Typed, FrameSet
  <1>7. Waiting(rest, pending, updates)
    BY <1>2, <1>3, WaitingTop DEF IInv
  <1>8. CASE top.ids = <<>> /\ stack' = rest /\ streams' = streams
    <2>1. \A f \in Range(rest) : \A x \in Range(f.ids) : Known(stack, x)
      BY <1>3 DEF Known
    <2>2. Sound(rest)'
      BY <1>3, <1>4, <1>5, <1>6, <1>8, <2>1, QuietSound DEF IInv
    <2> QED
      BY <1>4, <1>7, <1>8, <2>2 DEF IInv
  <1>9. CASE top.ids # <<>>
    <2>1. PICK id \in Ids, ids \in Seq(Ids) : id = Head(top.ids) /\ ids = Tail(top.ids)
      BY <1>6, <1>9, PopFacts
    <2>2. Range(top.ids) = {id} \cup Range(ids)
      BY <1>6, <1>9, <2>1, PopFacts
    <2>3. PICK more \in FrameSet : more = Frame("abort", ids)
      BY AbortFrame
    <2>4. more.kind = "abort" /\ more.ids = ids /\ Single(more)
      BY <2>3, AbortFrame
    <2>5. PICK aborting : aborting = Push(more, rest)
      OBVIOUS
    <2>6. Shape(aborting) /\ Range(aborting) = {more} \cup Range(rest)
      BY <1>3, <2>4, <2>5, ShapePush
    <2>7. ASSUME NEW j \in Ids
          PROVE  /\ OnStack("start", j, aborting) <=> OnStack("start", j, stack)
                 /\ OnStack("finish", j, aborting) <=> OnStack("finish", j, stack)
      <3>1. /\ OnStack("start", j, aborting) <=> OnStack("start", j, rest)
            /\ OnStack("finish", j, aborting) <=> OnStack("finish", j, rest)
        BY <2>4, <2>6, OnStackTop
      <3> QED
        BY <1>5, <3>1
    <2>8. \A f \in Range(aborting) : \A x \in Range(f.ids) : Known(stack, x)
      BY <1>3, <2>2, <2>4, <2>6 DEF Known
    <2>9. \A f \in Range(aborting) : f.kind = "batch" => f \in Range(stack)
      BY <1>3, <2>4, <2>6
    <2>10. Waiting(aborting, pending, updates)
      BY <1>7, <2>4, <2>6, WaitingTop
    <2>11. CASE stack' = aborting /\ streams' = streams
      <3>1. Sound(aborting)'
        BY <1>4, <1>6, <2>6, <2>7, <2>8, <2>9, <2>11, QuietSound DEF IInv
      <3> QED
        BY <1>4, <2>10, <2>11, <3>1 DEF IInv
    <2>12. CASE /\ id \in Range(streams) /\ streams' = Without(streams, id)
                /\ stack' = Push(Frame("callback", <<>>), Push(Frame("finish", <<id>>), aborting))
      <3>1. PICK call, end \in FrameSet :
              call = Frame("callback", <<>>) /\ end = Frame("finish", <<id>>)
        BY CallbackFrame, SingleFrame DEF Kinds
      <3>2. /\ call.kind = "callback" /\ Range(call.ids) = {} /\ Single(call)
            /\ end.kind = "finish" /\ Range(end.ids) = {id} /\ Single(end)
        BY <3>1, CallbackFrame, SingleFrame DEF Kinds
      <3>3. PICK ending, after : ending = Push(end, aborting) /\ after = Push(call, ending)
        OBVIOUS
      <3>4. Shape(ending) /\ Range(ending) = {end} \cup Range(aborting)
        BY <2>6, <3>2, <3>3, ShapePush
      <3>5. Shape(after) /\ Range(after) = {call} \cup Range(ending)
        BY <3>2, <3>3, <3>4, ShapePush
      <3>6. streams' \in Seq(Ids) /\ Range(streams') = Range(streams) \ {id}
        BY <1>6, <2>12, WithoutFacts
      <3>7. ASSUME NEW j \in Ids
            PROVE  /\ OnStack("start", j, after) <=> OnStack("start", j, stack)
                   /\ OnStack("finish", j, stack) => OnStack("finish", j, after)
                   /\ j = id => OnStack("finish", j, after)
        <4>1. /\ OnStack("start", j, ending) <=> OnStack("start", j, aborting)
              /\ OnStack("finish", j, ending) <=> j = id \/ OnStack("finish", j, aborting)
          BY <3>2, <3>4, OnStackTop
        <4>2. /\ OnStack("start", j, after) <=> OnStack("start", j, ending)
              /\ OnStack("finish", j, after) <=> OnStack("finish", j, ending)
          BY <3>2, <3>5, OnStackTop
        <4> QED
          BY <2>7, <4>1, <4>2
      <3>8. \A f \in Range(after) : \A x \in Range(f.ids) : Known(stack, x)
        BY <2>8, <2>12, <3>2, <3>4, <3>5 DEF Known
      <3>9. \A f \in Range(after) : f.kind = "batch" => f \in Range(stack)
        BY <2>9, <3>2, <3>4, <3>5
      <3>10. \A j \in Range(streams) \ Range(streams') : OnStack("finish", j, after)
        BY <3>6, <3>7
      <3>11. Sound(after)'
        BY <1>4, <3>5, <3>6, <3>7, <3>8, <3>9, <3>10, QuietSound DEF IInv
      <3>12. Waiting(after, pending, updates)
        BY <2>10, <3>2, <3>4, <3>5, WaitingTop
      <3>13. stack' = after
        BY <2>12, <3>1, <3>3
      <3> QED
        BY <1>4, <3>11, <3>12, <3>13 DEF IInv
    <2> QED
      BY <1>1, <1>9, <2>1, <2>3, <2>5, <2>11, <2>12 DEF AbortNext
  <1> QED
    BY <1>1, <1>8, <1>9 DEF AbortNext

(* When the batch is through, nothing waits that no update is for.         *)
LEMMA BatchDoneIInv ==
  ASSUME IInv, BatchDone
  PROVE  IInv'
  <1>1. PICK top, rest : top = Head(stack) /\ rest = Tail(stack)
    OBVIOUS
  <1>2. /\ stack # <<>> /\ top.kind = "batch" /\ top.ids = <<>>
        /\ Shape(stack) /\ Typed /\ updates \in Seq(Counts)
    BY <1>1 DEF BatchDone, Top, IInv, Sound
  <1>3. /\ top \in FrameSet /\ Shape(rest) /\ Range(stack) = {top} \cup Range(rest)
        /\ ~Active(rest)
    BY <1>1, <1>2, ShapePop
  <1>4. UNCHANGED <<requestId, queries, pending, inProgress, streams, sub, sent>>
    BY DEF BatchDone, options
  <1>5. ASSUME NEW j \in Ids
        PROVE  /\ OnStack("start", j, stack) <=> OnStack("start", j, rest)
               /\ OnStack("finish", j, stack) <=> OnStack("finish", j, rest)
    BY <1>2, <1>3, OnStackTop
  <1>6. streams' \in Seq(Ids) /\ streams' = streams
    BY <1>2, <1>4 DEF Typed
  <1>7. CASE updates = <<>> /\ stack' = rest /\ UNCHANGED updates
    <2>1. Range(pending) \subseteq {}
      BY <1>2, <1>3, <1>7, EmptyFacts DEF IInv, Waiting
    <2>2. pending = <<>>
      <3>1. pending \in Seq(Ids)
        BY <1>2 DEF Typed
      <3>2. pending # <<>> => Range(pending) = {Head(pending)} \cup Range(Tail(pending))
        BY <3>1, PopFacts
      <3> QED
        BY <2>1, <3>2
    <2>3. Waiting(rest, pending, updates)
      BY <2>2, EmptyFacts DEF Waiting
    <2>4. \A f \in Range(rest) : \A x \in Range(f.ids) : Known(stack, x)
      BY <1>3 DEF Known
    <2>5. Sound(rest)'
      BY <1>3, <1>4, <1>5, <1>6, <2>4, QuietSound DEF IInv
    <2> QED
      BY <1>2, <1>4, <1>7, <2>3, <2>5 DEF IInv
  <1>8. CASE /\ updates # <<>> /\ updates' = Tail(updates)
             /\ stack' = Push(Frame("batch", ToFetch(Head(updates), pending)), rest)
    <2>1. Head(updates) \in Nat /\ updates' \in Seq(Counts)
      <3>1. Head(updates) \in Counts /\ Tail(updates) \in Seq(Counts)
        BY <1>2, <1>8, PopFacts
      <3>2. Counts \subseteq Nat
        BY CountFacts
      <3> QED
        BY <1>8, <3>1, <3>2
    <2>2. PICK batch : batch = ToFetch(Head(updates), pending)
      OBVIOUS
    <2>3. batch \in Seq(Ids) /\ Range(batch) = Range(pending) /\ BatchOf(batch, pending)
      <3>1. pending \in Seq(Ids) /\ IsInjective(pending)
        BY <1>2 DEF Typed
      <3>2. /\ batch \in Seq(Ids) /\ Range(batch) = Range(pending)
            /\ \A x : Twice(batch, x) => x \in queries
            /\ \A x : ~Thrice(batch, x)
        BY <2>1, <2>2, <3>1, ToFetchFacts
      <3> QED
        BY <3>2 DEF BatchOf
    <2>4. PICK f \in FrameSet : f = Frame("batch", batch) /\ f.kind = "batch" /\ f.ids = batch
      BY <2>3, FrameFacts DEF Kinds
    <2>5. Single(f)
      BY <2>4 DEF Single
    <2>6. PICK after : after = Push(f, rest)
      OBVIOUS
    <2>7. Shape(after) /\ Range(after) = {f} \cup Range(rest)
      BY <1>3, <2>4, <2>5, <2>6, ShapePush
    <2>8. ASSUME NEW j \in Ids
          PROVE  /\ OnStack("start", j, after) <=> OnStack("start", j, stack)
                 /\ OnStack("finish", j, after) <=> OnStack("finish", j, stack)
      <3>1. /\ OnStack("start", j, after) <=> OnStack("start", j, rest)
            /\ OnStack("finish", j, after) <=> OnStack("finish", j, rest)
        BY <2>4, <2>7, OnStackTop
      <3> QED
        BY <1>5, <3>1
    <2>9. \A g \in Range(after) : \A x \in Range(g.ids) : Known(stack, x)
      BY <1>3, <2>3, <2>4, <2>7 DEF Known
    <2>10. \A g \in Range(after) : g.kind = "batch" => g \in Range(stack) \/ BatchOf(g.ids, pending)
      BY <1>3, <2>3, <2>4, <2>7
    <2>11. Sound(after)'
      BY <1>4, <1>6, <2>7, <2>8, <2>9, <2>10, QuietSound DEF IInv
    <2>12. Waiting(after, pending, updates')
      BY <1>3, <2>3, <2>4, <2>7, ActiveFacts DEF Waiting
    <2>13. stack' = after
      BY <1>8, <2>2, <2>4, <2>6
    <2> QED
      BY <1>4, <2>1, <2>11, <2>12, <2>13 DEF IInv
  <1> QED
    BY <1>1, <1>7, <1>8 DEF BatchDone

(* What is left of a batch repeats less.                                   *)
LEMMA TailRepeats ==
  ASSUME NEW S, NEW s \in Seq(S), NEW y \in S, NEW x
  PROVE  /\ Once(s, x) => Once(Push(y, s), x)
         /\ Twice(s, x) => Twice(Push(y, s), x)
         /\ Thrice(s, x) => Thrice(Push(y, s), x)
         /\ Once(Push(y, s), y)
         /\ Once(s, y) => Twice(Push(y, s), y)
         /\ Twice(s, y) => Thrice(Push(y, s), y)
  <1> DEFINE t == Push(y, s)
  <1>1. DOMAIN t = 1..Len(s) + 1 /\ DOMAIN s = 1..Len(s) /\ t[1] = y
    BY PushFacts
  <1>2. \A k \in DOMAIN s : t[k + 1] = s[k]
    BY PushFacts
  <1>3. Range(t) = {y} \cup Range(s)
    BY PushFacts
  <1> HIDE DEF t
  <1>4. Len(s) \in Nat
    BY LenProperties
  <1>5. \A k \in DOMAIN s : k \in Nat /\ k + 1 \in DOMAIN t /\ 1 < k + 1
    BY <1>1, <1>4
  <1>6. 1 \in DOMAIN t /\ \A j, k \in DOMAIN s : j < k => j + 1 < k + 1
    BY <1>1, <1>4
  <1>7. Once(t, y) /\ (Once(s, x) => Once(t, x))
    BY <1>3 DEF Once
  <1>8. ASSUME Twice(s, x) PROVE Twice(t, x)
    <2>1. PICK j, k \in DOMAIN s : j < k /\ s[j] = x /\ s[k] = x
      BY <1>8 DEF Twice
    <2>2. /\ j + 1 \in DOMAIN t /\ k + 1 \in DOMAIN t /\ j + 1 < k + 1
          /\ t[j + 1] = x /\ t[k + 1] = x
      BY <1>2, <1>5, <1>6, <2>1
    <2> QED
      BY <2>2 DEF Twice
  <1>9. ASSUME Thrice(s, x) PROVE Thrice(t, x)
    <2>1. PICK j, k, l \in DOMAIN s : j < k /\ k < l /\ s[j] = x /\ s[k] = x /\ s[l] = x
      BY <1>9 DEF Thrice
    <2>2. /\ j + 1 \in DOMAIN t /\ k + 1 \in DOMAIN t /\ l + 1 \in DOMAIN t
          /\ j + 1 < k + 1 /\ k + 1 < l + 1
          /\ t[j + 1] = x /\ t[k + 1] = x /\ t[l + 1] = x
      BY <1>2, <1>5, <1>6, <2>1
    <2> QED
      BY <2>2 DEF Thrice
  <1>10. ASSUME Once(s, y) PROVE Twice(t, y)
    <2>1. PICK k \in DOMAIN s : s[k] = y
      BY <1>10 DEF Once, Range
    <2>2. k + 1 \in DOMAIN t /\ 1 < k + 1 /\ t[1] = y /\ t[k + 1] = y
      BY <1>1, <1>2, <1>5, <2>1
    <2> QED
      BY <1>6, <2>2 DEF Twice
  <1>11. ASSUME Twice(s, y) PROVE Thrice(t, y)
    <2>1. PICK j, k \in DOMAIN s : j < k /\ s[j] = y /\ s[k] = y
      BY <1>11 DEF Twice
    <2>2. /\ j + 1 \in DOMAIN t /\ k + 1 \in DOMAIN t /\ 1 < j + 1 /\ j + 1 < k + 1
          /\ t[1] = y /\ t[j + 1] = y /\ t[k + 1] = y
      BY <1>1, <1>2, <1>5, <1>6, <2>1
    <2> QED
      BY <1>6, <2>2 DEF Thrice
  <1> QED
    BY <1>7, <1>8, <1>9, <1>10, <1>11 DEF t

LEMMA EmitIInv ==
  ASSUME IInv, Emit
  PROVE  IInv'
  <1>1. PICK top, rest : top = Head(stack) /\ rest = Tail(stack)
    OBVIOUS
  <1>2. /\ stack # <<>> /\ top.kind = "batch" /\ top.ids # <<>>
        /\ Shape(stack) /\ Typed /\ updates \in Seq(Counts)
    BY <1>1 DEF Emit, Top, IInv, Sound
  <1>3. /\ top \in FrameSet /\ Shape(rest) /\ Range(stack) = {top} \cup Range(rest)
        /\ ~Active(rest)
        /\ \A frame \in Range(rest) : frame.kind # "start"
    BY <1>1, <1>2, ShapePop
  <1>4. top.ids \in Seq(Ids) /\ streams \in Seq(Ids)
    BY <1>2, <1>3 DEF Typed, FrameSet
  <1>5. PICK id \in Ids, ids \in Seq(Ids) :
          id = Head(top.ids) /\ ids = Tail(top.ids) /\ top.ids = Push(id, ids)
    BY <1>2, <1>4, PopFacts
  <1>6. Range(top.ids) = {id} \cup Range(ids)
    BY <1>2, <1>4, <1>5, PopFacts
  <1>7. UNCHANGED <<requestId, queries, streams, sub, sent>>
    BY DEF Emit, options
  <1>8. pending' = Without(pending, id) /\ inProgress' = inProgress \cup {id}
    BY <1>1, <1>5 DEF Emit, SetInProgress
  <1>9. /\ pending' \in Seq(Ids) /\ Range(pending') = Range(pending) \ {id}
        /\ IsInjective(pending')
    BY <1>2, <1>8, WithoutFacts DEF Typed
  <1>10. Typed'
    BY <1>2, <1>7, <1>8, <1>9 DEF Typed
  <1>11. PICK more \in FrameSet : more = Frame("batch", ids) /\ more.kind = "batch" /\ more.ids = ids
    BY FrameFacts DEF Kinds
  <1>12. PICK start \in FrameSet : start = Frame("start", <<id>>)
    BY SingleFrame DEF Kinds
  <1>13. /\ start.kind = "start" /\ Range(start.ids) = {id} /\ Single(start)
         /\ Single(more)
    BY <1>11, <1>12, SingleFrame DEF Kinds, Single
  <1>14. PICK batch, below : batch = Push(more, rest) /\ below = Push(start, batch)
    OBVIOUS
  <1>15. Shape(batch) /\ Range(batch) = {more} \cup Range(rest)
    BY <1>3, <1>11, <1>13, <1>14, ShapePush
  <1>16. batch # <<>> /\ Head(batch).kind = "batch"
    <2>1. rest \in Seq(FrameSet)
      BY <1>3 DEF Shape
    <2>2. batch # <<>> /\ Head(batch) = more
      BY <1>14, <2>1, PushFacts
    <2> QED
      BY <1>11, <2>2
  <1>17. Shape(below) /\ Range(below) = {start} \cup Range(batch)
    BY <1>13, <1>14, <1>15, <1>16, ShapePush
  <1>18. PICK todo :
           todo = IF requestId[id] = NoRequest THEN below ELSE Push(Abort(requestId[id]), below)
    OBVIOUS
  <1>19. /\ Shape(todo) /\ Range(below) \subseteq Range(todo)
         /\ \A f \in Range(todo) :
              f \in Range(below) \/ (f.kind = "abort" /\ Range(f.ids) \subseteq Range(streams))
    <2>1. CASE requestId[id] = NoRequest
      BY <1>17, <1>18, <2>1
    <2>2. CASE requestId[id] # NoRequest
      <3>1. PICK abort \in FrameSet : abort = Abort(requestId[id])
        BY <1>4, AbortFacts
      <3>2. abort.kind = "abort" /\ Single(abort) /\ Range(abort.ids) \subseteq Range(streams)
        BY <1>4, <3>1, AbortFacts
      <3>3. todo = Push(abort, below)
        BY <1>18, <2>2, <3>1
      <3>4. Shape(todo) /\ Range(todo) = {abort} \cup Range(below)
        BY <1>17, <3>2, <3>3, ShapePush
      <3> QED
        BY <3>2, <3>4
    <2> QED
      BY <2>1, <2>2
  <1>20. \A f \in Range(todo) :
           \/ f = start \/ f = more \/ f \in Range(rest)
           \/ f.kind = "abort" /\ Range(f.ids) \subseteq Range(streams)
    BY <1>15, <1>17, <1>19
  <1>21. start \in Range(todo) /\ more \in Range(todo) /\ Range(rest) \subseteq Range(todo)
    BY <1>15, <1>17, <1>19
  <1>22. ASSUME NEW j \in Ids
         PROVE  Fresh(todo, j)' /\ Alive(todo, j)' /\ Sparing(todo, j)'
    <2>1. Fresh(stack, j) /\ Alive(stack, j) /\ Sparing(stack, j)
      BY DEF IInv, Sound
    <2>2. ~OnStack("start", j, stack)
      BY <1>2, <1>3, OnStackFacts
    <2>3. OnStack("start", j, todo) <=> j = id
      BY <1>3, <1>11, <1>13, <1>20, <1>21, OnStackFacts
    <2>4. OnStack("finish", j, stack) => OnStack("finish", j, todo)
      BY <1>2, <1>3, <1>21, OnStackFacts
    <2>5. Fresh(todo, j)'
      <3>1. sub[j] = "new" => \A f \in Range(todo) : j \notin Range(f.ids)
        BY <1>3, <1>6, <1>11, <1>13, <1>20, <2>1 DEF Fresh
      <3>2. sub[j] = "new" => j # id
        BY <1>3, <1>6, <2>1 DEF Fresh
      <3> QED
        BY <1>7, <1>8, <1>9, <2>1, <3>1, <3>2 DEF Fresh
    <2>6. Alive(todo, j)'
      BY <1>7, <1>9, <2>1, <2>2, <2>3, <2>4 DEF Alive
    <2>7. sent[j] \in Nat /\ sent'[j] = sent[j] /\ Budget(j)' = Budget(j) /\ Budget(j) \in {1, 2}
      BY <1>2, <1>7 DEF Typed, Budget
    <2>8. /\ Used(stack, j) = sent[j]
          /\ Used(todo, j)' = IF j = id THEN sent[j] + 1 ELSE sent[j]
      BY <2>2, <2>3, <2>7 DEF Used
    <2>9. /\ sent[j] <= Budget(j)
          /\ j \in Range(pending) => sent[j] = 0
          /\ Once(top.ids, j) => sent[j] + 1 <= Budget(j)
          /\ Twice(top.ids, j) => sent[j] + 2 <= Budget(j)
          /\ ~Thrice(top.ids, j)
      BY <1>2, <1>3, <2>1, <2>8 DEF Sparing
    <2>10. /\ Once(ids, j) => Once(top.ids, j)
           /\ Twice(ids, j) => Twice(top.ids, j)
           /\ Thrice(ids, j) => Thrice(top.ids, j)
           /\ j = id => Once(top.ids, j)
           /\ j = id /\ Once(ids, j) => Twice(top.ids, j)
           /\ j = id /\ Twice(ids, j) => Thrice(top.ids, j)
      <3>1. /\ Once(ids, j) => Once(Push(id, ids), j)
            /\ Twice(ids, j) => Twice(Push(id, ids), j)
            /\ Thrice(ids, j) => Thrice(Push(id, ids), j)
            /\ Once(Push(id, ids), id)
            /\ Once(ids, id) => Twice(Push(id, ids), id)
            /\ Twice(ids, id) => Thrice(Push(id, ids), id)
        BY TailRepeats
      <3> QED
        BY <1>5, <3>1
    <2>11. Used(todo, j)' <= Budget(j)'
      BY <2>7, <2>8, <2>9, <2>10
    <2>12. j \in Range(pending') => Used(todo, j)' = 0
      BY <1>9, <2>8, <2>9
    <2>13. ASSUME NEW frame \in Range(todo), frame.kind = "batch"
           PROVE  /\ Once(frame.ids, j) => Used(todo, j)' + 1 <= Budget(j)'
                  /\ Twice(frame.ids, j) => Used(todo, j)' + 2 <= Budget(j)'
                  /\ ~Thrice(frame.ids, j)
      <3>1. frame = more /\ frame.ids = ids
        BY <1>3, <1>11, <1>13, <1>20, <2>13, ActiveFacts
      <3>2. CASE j = id
        BY <2>7, <2>8, <2>9, <2>10, <3>1, <3>2
      <3>3. CASE j # id
        BY <2>7, <2>8, <2>9, <2>10, <3>1, <3>3
      <3> QED
        BY <3>2, <3>3
    <2>14. Sparing(todo, j)'
      BY <2>11, <2>12, <2>13 DEF Sparing
    <2> QED
      BY <2>5, <2>6, <2>14
  <1>23. Sound(todo)'
    BY <1>10, <1>19, <1>22 DEF Sound
  <1>24. PublishUpdate(todo)
    BY <1>1, <1>5, <1>11, <1>12, <1>14, <1>18 DEF Emit
  <1> QED
    BY <1>2, <1>7, <1>23, <1>24, PublishIInv

-----------------------------------------------------------------------------
LEMMA InitIInv ==
  ASSUME Init
  PROVE  IInv
  <1>1. Shape(<<>>)
    BY EmptyFacts DEF Shape, OneBatch, StartsInBatch
  <1>2. Typed
    BY EmptyFacts DEF Init, Typed, IsInjective
  <1>3. ASSUME NEW id \in Ids
        PROVE  Fresh(stack, id) /\ Alive(stack, id) /\ Sparing(stack, id)
    <2>1. sub[id] = "new" /\ sent[id] = 0 /\ pending = <<>> /\ inProgress = {} /\ streams = <<>>
      BY DEF Init
    <2>2. stack = <<>> /\ ~OnStack("start", id, stack)
      BY DEF Init, OnStack
    <2>3. Fresh(stack, id)
      BY <2>1, <2>2, EmptyFacts DEF Fresh
    <2>4. Alive(stack, id)
      BY <2>1 DEF Alive
    <2>5. Used(stack, id) = 0
      BY <2>1, <2>2 DEF Used
    <2>6. Sparing(stack, id)
      BY <2>2, <2>5, EmptyFacts DEF Sparing, Budget
    <2> QED
      BY <2>3, <2>4, <2>6
  <1>4. updates \in Seq(Counts) /\ Waiting(stack, pending, updates)
    BY EmptyFacts DEF Init, Waiting
  <1> QED
    BY <1>1, <1>2, <1>3, <1>4 DEF Init, IInv, Sound

LEMMA NextIInv ==
  ASSUME IInv, [Next]_vars
  PROVE  IInv'
  <1>1. CASE UNCHANGED vars
    BY <1>1 DEF vars, options, IInv, Sound, Typed, Shape, OneBatch, StartsInBatch, Waiting, Active,
                Fresh, Alive, OnStack, Sparing, Used, Budget, Once, Twice, Thrice
  <1>2. CASE Next
    BY <1>2, FetchIInv, SubscribedIInv, EmitIInv, StartIInv, BatchDoneIInv, AbortNextIInv,
       ReturnIInv, FinishIInv, RespondIInv, CancelIInv, UnsubscribeIInv, Zenon DEF Next
  <1> QED
    BY <1>1, <1>2

LEMMA SpecIInv == Spec => []IInv
  <1>1. Init => IInv
    BY InitIInv
  <1>2. IInv /\ [Next]_vars => IInv'
    BY NextIInv
  <1> QED
    BY <1>1, <1>2, PTL DEF Spec

(* What the queue holds is what its code takes it to be: a request is in   *)
(* it once and is either Pending or InProgress.                            *)
THEOREM TypeCorrect == Spec => []TypeOK
  <1>1. IInv => TypeOK
    BY DEF IInv, Sound, Typed, Shape, FrameSet, Counts, TypeOK
  <1> QED
    BY <1>1, SpecIInv, PTL

(* The worker never comes to rest while a request of any number of them    *)
(* waits, whatever is fetched, cancelled or unsubscribed while a batch is  *)
(* emitted; nor is an open request forgotten.                              *)
THEOREM NothingIsLeft == Spec => []NothingWaits
  <1> SUFFICES ASSUME IInv PROVE NothingWaits
    BY SpecIInv, PTL
  <1>1. pending # <<>> => Active(stack)
    BY DEF IInv, Waiting
  <1>2. ASSUME stack = <<>>, NEW id \in Ids, sub[id] = "open"
        PROVE  id \in Range(streams)
    <2>1. ~Active(stack) /\ \A kind : ~OnStack(kind, id, stack)
      BY <1>2 DEF Active, OnStack
    <2>2. Range(pending) = {}
      BY <1>1, <2>1, EmptyFacts
    <2>3. Alive(stack, id)
      BY DEF IInv, Sound
    <2> QED
      BY <1>2, <2>1, <2>2, <2>3 DEF Alive
  <1> QED
    BY <1>1, <1>2 DEF NothingWaits

(* A request is sent once, a data query at most twice, however often the   *)
(* worker builds a batch and however many requests there are.              *)
THEOREM SendsSparingly == Spec => []SentSparingly
  <1> SUFFICES ASSUME IInv PROVE SentSparingly
    BY SpecIInv, PTL
  <1> SUFFICES ASSUME NEW id \in Ids PROVE sent[id] <= Budget(id)
    BY DEF SentSparingly, Budget
  <1>1. Used(stack, id) <= Budget(id) /\ sent[id] \in Nat /\ Budget(id) \in {1, 2}
    BY DEF IInv, Sound, Sparing, Typed, Budget
  <1>2. Used(stack, id) \in {sent[id], sent[id] + 1}
    BY DEF Used
  <1> QED
    BY <1>1, <1>2
=============================================================================
