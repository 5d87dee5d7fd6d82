----------------------- MODULE WorkflowRunnerProofs -----------------------
(***************************************************************************)
(* PanelWorkflowRunner.ts: the filter of a state's data (JqFilter) and the *)
(* run of a workflow (PanelWorkflow).                                      *)
(*                                                                         *)
(* What the filter keeps and when it throws, for filters and data of any   *)
(* length: keys are met greedily, so nothing longer than what was kept can *)
(* be found among them.                                                    *)
(*                                                                         *)
(* Workflows of any size: what a run can reach is stated without a path.   *)
(* A set of states that contains the start and is closed under transitions *)
(* contains every state a run gets to, so what holds of each state of such *)
(* a set holds of the run.                                                 *)
(***************************************************************************)
EXTENDS PanelWorkflow, JqFilter, SequenceTheorems, TLAPS

(* The first n elements of s are in the first k of t, in their order.      *)
Embeds(s, n, t, k) ==
  \E at \in [1..n -> 1..k] :
    /\ \A a, b \in 1..n : a < b => at[a] < at[b]
    /\ \A a \in 1..n : t[at[a]] = s[a]

TypeInv ==
  /\ filter \in Seq(Keys \cup {Operator})
  /\ tokens \in Seq(Keys \cup {Operator})
  /\ out \in Seq(Keys)
  /\ data \in Seq(Keys)
  /\ i \in 0..Len(data)
  /\ threw \in BOOLEAN

(* Among the keys met so far no longer part of the filter can be found     *)
(* than what was kept, and the run goes on only while the keys before the  *)
(* last one have not met the whole filter.                                 *)
Greedy ==
  /\ Len(out) <= i
  /\ Embeds(filter, Len(out), data, i)
  /\ \A n \in 0..Len(filter) : Embeds(filter, n, data, i) => n <= Len(out)
  /\ ~threw /\ i # 0 => ~Embeds(filter, Len(filter), data, i - 1)
  /\ threw => tokens = <<>> /\ i < Len(data)

IInv == TypeInv /\ KeptIsPrefix /\ Greedy

-----------------------------------------------------------------------------
LEMMA EmbedsNothing ==
  ASSUME NEW s, NEW t, NEW k \in Nat
  PROVE  Embeds(s, 0, t, k)
  <1>1. 1..0 = {}
    OBVIOUS
  <1>2. [a \in {} |-> 1] \in [{} -> 1..k]
    OBVIOUS
  <1> QED
    BY <1>1, <1>2 DEF Embeds

LEMMA EmbedsMore ==
  ASSUME NEW s, NEW n \in Nat, NEW t, NEW k \in Nat, Embeds(s, n, t, k)
  PROVE  Embeds(s, n, t, k + 1)
  <1>1. PICK at \in [1..n -> 1..k] : /\ \A a, b \in 1..n : a < b => at[a] < at[b]
                                     /\ \A a \in 1..n : t[at[a]] = s[a]
    BY DEF Embeds
  <1>2. at \in [1..n -> 1..k + 1]
    OBVIOUS
  <1> QED
    BY <1>1, <1>2 DEF Embeds

LEMMA EmbedsNext ==
  ASSUME NEW s, NEW n \in Nat, NEW t, NEW k \in Nat, Embeds(s, n, t, k), t[k + 1] = s[n + 1]
  PROVE  Embeds(s, n + 1, t, k + 1)
  <1>1. PICK at \in [1..n -> 1..k] : /\ \A a, b \in 1..n : a < b => at[a] < at[b]
                                     /\ \A a \in 1..n : t[at[a]] = s[a]
    BY DEF Embeds
  <1> DEFINE further == [a \in 1..n + 1 |-> IF a = n + 1 THEN k + 1 ELSE at[a]]
  <1>2. \A a \in 1..n + 1 : a = n + 1 \/ a \in 1..n
    OBVIOUS
  <1>3. /\ further \in [1..n + 1 -> 1..k + 1]
        /\ further[n + 1] = k + 1
        /\ \A a \in 1..n : further[a] = at[a] /\ further[a] \in 1..k
    BY <1>2
  <1> HIDE DEF further
  <1>4. ASSUME NEW a \in 1..n + 1, NEW b \in 1..n + 1, a < b
        PROVE  further[a] < further[b]
    <2>1. a \in 1..n
      BY <1>4
    <2>2. CASE b = n + 1
      BY <1>3, <2>1, <2>2
    <2>3. CASE b \in 1..n
      BY <1>1, <1>3, <1>4, <2>1, <2>3
    <2> QED
      BY <1>2, <2>2, <2>3
  <1>5. \A a \in 1..n + 1 : t[further[a]] = s[a]
    BY <1>1, <1>2, <1>3
  <1> QED
    BY <1>3, <1>4, <1>5 DEF Embeds

LEMMA EmbedsBefore ==
  ASSUME NEW s, NEW n \in Nat, NEW t, NEW k \in Nat, Embeds(s, n + 1, t, k + 1)
  PROVE  Embeds(s, n + 1, t, k) \/ (Embeds(s, n, t, k) /\ t[k + 1] = s[n + 1])
  <1>1. PICK at \in [1..n + 1 -> 1..k + 1] :
          /\ \A a, b \in 1..n + 1 : a < b => at[a] < at[b]
          /\ \A a \in 1..n + 1 : t[at[a]] = s[a]
    BY DEF Embeds
  <1>2. n + 1 \in 1..n + 1 /\ at[n + 1] \in 1..k + 1
    BY <1>1
  <1>3. \A a \in 1..n : a \in 1..n + 1 /\ a < n + 1 /\ at[a] \in 1..k + 1 /\ at[a] < at[n + 1]
    BY <1>1, <1>2
  <1>4. CASE at[n + 1] = k + 1
    <2> DEFINE before == [a \in 1..n |-> at[a]]
    <2>1. before \in [1..n -> 1..k]
      BY <1>3, <1>4
    <2>2. Embeds(s, n, t, k)
      BY <1>1, <1>3, <2>1 DEF Embeds
    <2> QED
      BY <1>1, <1>2, <1>4, <2>2
  <1>5. CASE at[n + 1] # k + 1
    <2>1. \A a \in 1..n + 1 : a = n + 1 \/ a \in 1..n
      OBVIOUS
    <2>2. \A a \in 1..n + 1 : at[a] \in 1..k
      BY <1>2, <1>3, <1>5, <2>1
    <2>3. at \in [1..n + 1 -> 1..k]
      BY <1>1, <2>2
    <2> QED
      BY <1>1, <2>3 DEF Embeds
  <1> QED
    BY <1>4, <1>5

-----------------------------------------------------------------------------
LEMMA InitIInv == FilterInit => IInv
  <1> SUFFICES ASSUME FilterInit PROVE IInv
    OBVIOUS
  <1>1. filter \in Seq(Keys \cup {Operator}) /\ data \in Seq(Keys)
    BY DEF FilterInit, SeqsUpTo
  <1>2. /\ out = <<>> /\ out \in Seq(Keys) /\ Len(out) = 0
        /\ i = 0 /\ i \in 0..Len(data) /\ tokens = filter
    BY <1>1, LenProperties DEF FilterInit
  <1>3. threw = FALSE
    BY Zenon DEF FilterInit
  <1>4. TypeInv
    BY <1>1, <1>2, <1>3 DEF TypeInv
  <1>5. KeptIsPrefix
    BY <1>1, <1>2, ConcatEmptySeq DEF KeptIsPrefix
  <1>6. Embeds(filter, Len(out), data, i)
    BY <1>2, EmbedsNothing
  <1>7. ASSUME NEW n \in 0..Len(filter), Embeds(filter, n, data, i)
        PROVE  n <= Len(out)
    <2>1. PICK at \in [1..n -> 1..0] : TRUE
      BY <1>2, <1>7 DEF Embeds
    <2>2. 1 \notin 1..n
      BY <2>1
    <2>3. Len(filter) \in Nat
      BY <1>1, LenProperties
    <2> QED
      BY <1>2, <2>2, <2>3
  <1> QED
    BY <1>2, <1>3, <1>4, <1>5, <1>6, <1>7 DEF IInv, Greedy

(* A token that is left is the filter's next after what was kept.          *)
LEMMA NextToken ==
  ASSUME TypeInv, KeptIsPrefix
  PROVE  /\ Len(out) \in Nat /\ Len(filter) \in Nat /\ Len(data) \in Nat
         /\ Len(out) <= Len(filter)
         /\ tokens = <<>> => out = filter
         /\ tokens # <<>> => Len(out) < Len(filter) /\ Head(tokens) = filter[Len(out) + 1]
         /\ \A a \in 1..Len(out) : out[a] = filter[a]
  <1> DEFINE T == Keys \cup {Operator}
  <1>1. out \in Seq(T) /\ tokens \in Seq(T) /\ out \o tokens = filter
    BY DEF TypeInv, KeptIsPrefix
  <1>2. Len(out) \in Nat /\ Len(tokens) \in Nat /\ Len(data) \in Nat
    BY <1>1, LenProperties DEF TypeInv
  <1>3. Len(filter) = Len(out) + Len(tokens)
    BY <1>1, ConcatProperties
  <1>4. \A a \in 1..Len(out) + Len(tokens) :
          filter[a] = IF a <= Len(out) THEN out[a] ELSE tokens[a - Len(out)]
    BY <1>1, ConcatProperties
  <1>5. tokens # <<>> => Len(tokens) >= 1 /\ Head(tokens) = tokens[1]
    BY <1>1, EmptySeq
  <1>6. tokens = <<>> => out = filter
    BY <1>1, ConcatEmptySeq
  <1>7. tokens # <<>> => Head(tokens) = filter[Len(out) + 1]
    BY <1>2, <1>4, <1>5
  <1>8. \A a \in 1..Len(out) : out[a] = filter[a]
    BY <1>2, <1>4
  <1> QED
    BY <1>2, <1>3, <1>5, <1>6, <1>7, <1>8

(* The next key throws: the whole filter was found.                        *)
LEMMA ThrowStep ==
  ASSUME IInv, Pick, tokens = <<>>
  PROVE  IInv'
  <1>1. /\ i < Len(data) /\ ~threw /\ threw' = TRUE
        /\ UNCHANGED <<filter, data, i, tokens, out>>
    BY DEF Pick
  <1>2. TypeInv' /\ KeptIsPrefix'
    BY <1>1 DEF IInv, TypeInv, KeptIsPrefix
  <1> QED
    BY <1>1, <1>2 DEF IInv, Greedy, Embeds

(* The next key is the next token, or is not: in either case nothing       *)
(* longer was found, and before it not the whole filter.                   *)
LEMMA MeetStep ==
  ASSUME IInv, Pick, tokens # <<>>
  PROVE  IInv'
  <1> DEFINE k == Len(out)
  <1>1. /\ i < Len(data) /\ ~threw /\ threw' = threw /\ i' = i + 1
        /\ UNCHANGED <<filter, data>>
    BY DEF Pick
  <1>2. /\ TypeInv /\ KeptIsPrefix /\ Greedy
        /\ i \in Nat /\ data[i + 1] \in Keys
    BY <1>1 DEF IInv, TypeInv
  <1>3. /\ k \in Nat /\ Len(filter) \in Nat /\ k < Len(filter)
        /\ Head(tokens) = filter[k + 1] /\ Len(data) \in Nat
    BY <1>2, NextToken
  <1>4. Embeds(filter, k, data, i)
    BY <1>2 DEF Greedy
  <1>5. ~Embeds(filter, Len(filter), data, i)
    BY <1>2, <1>3 DEF Greedy
  <1>6. ASSUME NEW n \in 0..Len(filter), Embeds(filter, n, data, i + 1)
        PROVE  n <= k \/ (n = k + 1 /\ data[i + 1] = filter[k + 1])
    <2>1. CASE n = 0
      BY <1>3, <2>1
    <2>2. CASE n # 0
      <3>1. PICK j \in 0..Len(filter) : n = j + 1
        BY <1>3, <2>2
      <3>2. Embeds(filter, n, data, i) \/ (Embeds(filter, j, data, i) /\ data[i + 1] = filter[n])
        <4>1. j \in Nat /\ Embeds(filter, j + 1, data, i + 1)
          BY <1>6, <3>1
        <4> QED
          BY <1>2, <3>1, <4>1, EmbedsBefore
      <3>3. n <= k \/ (j <= k /\ data[i + 1] = filter[n])
        BY <1>2, <3>2 DEF Greedy
      <3> QED
        BY <1>3, <3>1, <3>3
    <2> QED
      BY <2>1, <2>2
  <1>7. i' \in 0..Len(data') /\ threw' \in BOOLEAN
    BY <1>1, <1>2, <1>3 DEF TypeInv
  <1>8. CASE Head(tokens) = data[i + 1]
    <2>1. tokens' = Tail(tokens) /\ out' = Append(out, Head(tokens))
      BY <1>8 DEF Pick
    <2>2. TypeInv'
      BY <1>1, <1>2, <1>3, <1>8, <1>7, <2>1 DEF TypeInv
    <2>3. Append(out, Head(tokens)) \o Tail(tokens) = out \o tokens
      BY <1>2, <1>8 DEF TypeInv
    <2>4. KeptIsPrefix'
      BY <1>1, <1>2, <2>1, <2>3 DEF KeptIsPrefix
    <2>5. Len(out') = k + 1
      BY <1>2, <1>8, <2>1 DEF TypeInv
    <2>6. Embeds(filter, k + 1, data, i + 1)
      BY <1>2, <1>3, <1>4, <1>8, EmbedsNext
    <2>7. k + 1 <= i + 1
      BY <1>2, <1>3 DEF Greedy
    <2> QED
      BY <1>1, <1>2, <1>3, <1>5, <1>6, <2>2, <2>4, <2>5, <2>6, <2>7 DEF IInv, Greedy
  <1>9. CASE Head(tokens) # data[i + 1]
    <2>1. UNCHANGED <<tokens, out>>
      BY <1>9 DEF Pick
    <2>2. TypeInv' /\ KeptIsPrefix'
      BY <1>1, <1>2, <1>7, <2>1 DEF TypeInv, KeptIsPrefix
    <2>3. Embeds(filter, k, data, i + 1)
      BY <1>2, <1>3, <1>4, EmbedsMore
    <2>4. k <= i + 1
      BY <1>2, <1>3 DEF Greedy
    <2> QED
      BY <1>1, <1>2, <1>3, <1>5, <1>6, <1>9, <2>1, <2>2, <2>3, <2>4 DEF IInv, Greedy
  <1> QED
    BY <1>8, <1>9

LEMMA SpecIInv == FilterSpec => []IInv
  <1>1. IInv /\ UNCHANGED filterVars => IInv'
    <2> SUFFICES ASSUME IInv, UNCHANGED filterVars PROVE IInv'
      OBVIOUS
    <2>1. UNCHANGED <<filter, data, i, tokens, out, threw>>
      BY DEF filterVars
    <2>2. TypeInv' /\ KeptIsPrefix'
      BY <2>1 DEF IInv, TypeInv, KeptIsPrefix
    <2>3. Greedy'
      BY <2>1, Zenon DEF IInv, Greedy
    <2> QED
      BY <2>2, <2>3 DEF IInv
  <1>2. IInv /\ [FilterNext]_filterVars => IInv'
    BY <1>1, ThrowStep, MeetStep DEF FilterNext
  <1> QED
    BY InitIInv, <1>2, PTL DEF FilterSpec

-----------------------------------------------------------------------------
(* Keys are kept in the order of the filter, and none after one missing.   *)
THEOREM KeepsPrefix == FilterSpec => []KeptIsPrefix
  <1>1. IInv => KeptIsPrefix
    BY DEF IInv
  <1> QED
    BY <1>1, SpecIInv, PTL

(* A prefix of the filter is a subsequence of the data when the data       *)
(* embeds it.                                                              *)
LEMMA PrefixEmbeds ==
  ASSUME TypeInv, NEW n \in 0..Len(filter)
  PROVE  IsSubsequence(Prefix(filter, n), data) <=> Embeds(filter, n, data, Len(data))
  <1>1. DOMAIN Prefix(filter, n) = 1..n /\ \A a \in 1..n : Prefix(filter, n)[a] = filter[a]
    BY DEF Prefix
  <1>2. DOMAIN data = 1..Len(data)
    BY DEF TypeInv
  <1> QED
    BY <1>1, <1>2 DEF IsSubsequence, Embeds

(* So says a run that has met every key what it kept ...                   *)
LEMMA KeptIsLongest == IInv => KeepsLongest
  <1> SUFFICES ASSUME IInv, ~threw, i = Len(data)
               PROVE  /\ IsSubsequence(out, data)
                      /\ \A n \in Len(out) + 1 .. Len(filter) :
                           ~IsSubsequence(Prefix(filter, n), data)
    BY DEF KeepsLongest
  <1>1. TypeInv /\ KeptIsPrefix /\ Greedy
    BY DEF IInv
  <1>2. /\ Len(out) \in Nat /\ Len(filter) \in Nat
        /\ \A a \in 1..Len(out) : out[a] = filter[a]
    BY <1>1, NextToken
  <1>3. IsSubsequence(out, data)
    <2>1. Embeds(filter, Len(out), data, Len(data))
      BY <1>1 DEF Greedy
    <2>2. DOMAIN out = 1..Len(out) /\ DOMAIN data = 1..Len(data)
      BY <1>1 DEF TypeInv
    <2> QED
      BY <1>2, <2>1, <2>2 DEF Embeds, IsSubsequence
  <1>4. ASSUME NEW n \in Len(out) + 1 .. Len(filter)
        PROVE  ~IsSubsequence(Prefix(filter, n), data)
    <2>1. n \in 0..Len(filter) /\ ~(n <= Len(out))
      BY <1>2
    <2> QED
      BY <1>1, <2>1, PrefixEmbeds DEF Greedy
  <1> QED
    BY <1>3, <1>4

(* ... and a run that is over whether it threw.                            *)
LEMMA ThrowsIfFoundEarly == IInv => ThrowsOnLaterKey
  <1> DEFINE found == IsSubsequence(filter, Prefix(data, Len(data) - 1))
  <1> SUFFICES ASSUME IInv PROVE ThrowsOnLaterKey
    OBVIOUS
  <1>1. TypeInv /\ KeptIsPrefix /\ Greedy
    BY DEF IInv
  <1>2. /\ Len(out) \in Nat /\ Len(filter) \in Nat /\ Len(data) \in Nat /\ i \in Nat
        /\ tokens = <<>> => out = filter
    BY <1>1, NextToken DEF TypeInv
  <1>3. found <=> Embeds(filter, Len(filter), data, Len(data) - 1)
    <2>1. /\ DOMAIN filter = 1..Len(filter)
          /\ DOMAIN Prefix(data, Len(data) - 1) = 1..Len(data) - 1
          /\ \A a \in 1..Len(data) - 1 : Prefix(data, Len(data) - 1)[a] = data[a]
      BY <1>1 DEF TypeInv, Prefix
    <2> QED
      BY <2>1 DEF IsSubsequence, Embeds
  <1>4. data # <<>> <=> Len(data) # 0
    BY <1>1, EmptySeq DEF TypeInv
  <1>5. CASE threw
    <2>1. out = filter /\ i < Len(data) /\ Embeds(filter, Len(filter), data, i)
      BY <1>1, <1>2, <1>5 DEF Greedy
    <2>2. Embeds(filter, Len(filter), data, Len(data) - 1)
      BY <1>2, <2>1 DEF Embeds
    <2>3. Len(filter) < Len(data)
      BY <1>1, <1>2, <2>1 DEF Greedy
    <2>4. data # <<>> /\ found
      BY <1>2, <1>3, <1>4, <2>1, <2>2
    <2> QED
      BY <1>5, <2>3, <2>4 DEF ThrowsOnLaterKey
  <1>6. CASE ~threw
    <2>1. i = Len(data) /\ data # <<>> => ~found
      BY <1>1, <1>3, <1>4, <1>6 DEF Greedy
    <2> QED
      BY <1>6, <2>1 DEF ThrowsOnLaterKey
  <1> QED
    BY <1>5, <1>6

(* The filter keeps the longest part of itself that the data has in order, *)
(* and throws when the data has a key after the last one it names.         *)
THEOREM FilterMeans == FilterSpec => []FilterMeaning
  <1>1. IInv => FilterMeaning
    BY KeptIsLongest, ThrowsIfFoundEarly DEF FilterMeaning
  <1> QED
    BY <1>1, SpecIInv, PTL

-----------------------------------------------------------------------------
(* A sound workflow keeps to its sound set until it has terminated.        *)
StaysSound ==
  \A R \in SUBSET Names :
    kinds \subseteq {"consumed"} /\ HasEnd /\ start \in R /\ Sound(R)
    => pc # "failed" /\ (pc = "running" /\ ~terminate => current \in R)

(* A run whose transitions never leave R never leaves it.                  *)
StaysTrapped ==
  \A R \in SUBSET DOMAIN defs :
    start \in R /\ (\A n \in R : Transition(defs[n]) \in R)
    => ~terminate /\ (pc = "running" => current \in R)

(* A state without a transition is the last one.                           *)
LastHasNone ==
  /\ terminate => current \in visited /\ defs[current].end \in {"plain", "terminate"}
  /\ \A n \in visited :
       Transition(defs[n]) = NoName => n = current /\ (terminate \/ pc = "failed")
  /\ pc = "done" => terminate
  /\ pc = "idle" => visited = {} /\ ~terminate

RunIInv == TypeOK /\ StaysSound /\ StaysTrapped /\ LastHasNone

-----------------------------------------------------------------------------
LEMMA InitRun ==
  ASSUME Init
  PROVE  RunIInv
  <1> USE PanelWorkflowAssumption DEF Init
  <1>1. TypeOK
    BY Zenon DEF TypeOK, Errors
  <1>2. StaysSound /\ StaysTrapped /\ LastHasNone
    BY DEF StaysSound, StaysTrapped, LastHasNone
  <1> QED
    BY <1>1, <1>2 DEF RunIInv

(* What no step changes: no step touches the workflow itself.             *)
LEMMA SoundFixed ==
  ASSUME UNCHANGED workflow
  PROVE  /\ HasEnd' <=> HasEnd
         /\ \A R : Sound(R)' <=> Sound(R)
  BY DEF workflow, HasEnd, Sound, Defect, Terminates, Transition, End

(* What the definition of an existing state looks like.                    *)
LEMMA DefsTyped ==
  ASSUME TypeOK, NEW n \in DOMAIN defs
  PROVE  n \in Names /\ defs[n] \in StateDef /\ Transition(defs[n]) \in Names \cup {NoName}
  BY PanelWorkflowAssumption DEF TypeOK, StateDef, Transition

LEMMA StartRun ==
  ASSUME RunIInv, Start
  PROVE  RunIInv'
  <1> USE DEF Start, Fail, workflow
  <1>1. TypeOK'
    BY DEF RunIInv, TypeOK, Errors
  <1>2. StaysSound'
    BY PanelWorkflowAssumption, SoundFixed DEF RunIInv, StaysSound
  <1>3. StaysTrapped'
    BY DEF RunIInv, StaysTrapped
  <1>4. LastHasNone'
    BY DEF RunIInv, LastHasNone, TypeOK
  <1> QED
    BY <1>1, <1>2, <1>3, <1>4 DEF RunIInv

LEMMA FailsRun ==
  ASSUME RunIInv, StateFails
  PROVE  RunIInv'
  <1> USE DEF StateFails, Fail, workflow
  <1>1. TypeOK'
    BY DEF RunIInv, TypeOK, Errors, Defect
  <1>2. StaysSound'
    BY SoundFixed DEF RunIInv, StaysSound, Sound
  <1>3. StaysTrapped'
    BY DEF RunIInv, StaysTrapped
  <1>4. LastHasNone'
    BY DEF RunIInv, LastHasNone, TypeOK
  <1> QED
    BY <1>1, <1>2, <1>3, <1>4 DEF RunIInv

LEMMA StateRun ==
  ASSUME RunIInv, StateRuns
  PROVE  RunIInv'
  <1> USE DEF StateRuns, Fail, workflow
  <1>1. current \in DOMAIN defs
    BY DEF Defect
  <1>2. Transition(defs[current]) \in Names \cup {NoName}
    BY <1>1, DefsTyped DEF RunIInv
  <1>3. TypeOK'
    BY <1>1, <1>2 DEF RunIInv, TypeOK, Errors, Terminates
  <1>4. StaysSound'
    BY PanelWorkflowAssumption, <1>1, SoundFixed
       DEF RunIInv, TypeOK, StaysSound, Sound, Terminates
  <1>5. StaysTrapped'
    BY PanelWorkflowAssumption, <1>1 DEF RunIInv, TypeOK, StaysTrapped, Terminates
  <1>6. LastHasNone'
    BY <1>1 DEF RunIInv, TypeOK, LastHasNone, Terminates, End
  <1> QED
    BY <1>3, <1>4, <1>5, <1>6 DEF RunIInv

LEMMA FinishRun ==
  ASSUME RunIInv, Finish
  PROVE  RunIInv'
  <1> USE DEF Finish, workflow
  <1>1. TypeOK'
    BY DEF RunIInv, TypeOK
  <1>2. StaysSound' /\ StaysTrapped' /\ LastHasNone'
    BY SoundFixed DEF RunIInv, StaysSound, StaysTrapped, LastHasNone, TypeOK
  <1> QED
    BY <1>1, <1>2 DEF RunIInv

LEMMA RunInvariance == Spec => []RunIInv
  <1>1. RunIInv /\ [Next]_vars => RunIInv'
    <2>1. RunIInv /\ UNCHANGED vars => RunIInv'
      <3> SUFFICES ASSUME RunIInv, UNCHANGED vars PROVE RunIInv'
        OBVIOUS
      <3>1. /\ UNCHANGED workflow
            /\ UNCHANGED <<defs, start, kinds, pc, error, current, terminate, visited, published>>
        BY DEF vars, workflow
      <3>2. TypeOK'
        BY <3>1 DEF RunIInv, TypeOK
      <3>3. StaysSound'
        BY <3>1, SoundFixed DEF RunIInv, StaysSound
      <3>4. StaysTrapped' /\ LastHasNone'
        BY <3>1 DEF RunIInv, StaysTrapped, LastHasNone, Transition
      <3> QED
        BY <3>2, <3>3, <3>4 DEF RunIInv
    <2> QED
      BY <2>1, StartRun, FailsRun, StateRun, FinishRun DEF Next
  <1>2. Init => RunIInv
    BY InitRun
  <1> QED
    BY <1>1, <1>2, PTL DEF Spec

-----------------------------------------------------------------------------
(* Type correctness; a run has failed exactly when it has an error.        *)
THEOREM RunTypeCorrect == Spec => []TypeOK
  <1>1. RunIInv => TypeOK
    BY DEF RunIInv
  <1> QED
    BY <1>1, RunInvariance, PTL

(* A workflow well defined as far as its transitions lead never fails.     *)
THEOREM SoundWorkflowsNeverFail == Spec => []SoundNeverFails
  <1>1. RunIInv => SoundNeverFails
    BY DEF RunIInv, StaysSound, SoundNeverFails
  <1> QED
    BY <1>1, RunInvariance, PTL

(* A run ends well only in a state that terminates the workflow.           *)
THEOREM RunsEndAtEnd == Spec => []DoneAtEnd
  <1>1. RunIInv => DoneAtEnd
    BY DEF RunIInv, TypeOK, LastHasNone, DoneAtEnd
  <1> QED
    BY <1>1, RunInvariance, PTL

(* A workflow whose transitions never lead to an end does not end well.    *)
THEOREM TrappedRunsNeverEnd == Spec => []EndMustBeReached
  <1>1. RunIInv => EndMustBeReached
    BY DEF RunIInv, LastHasNone, StaysTrapped, EndMustBeReached
  <1> QED
    BY <1>1, RunInvariance, PTL
=============================================================================
