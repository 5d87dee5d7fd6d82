------------------------------ MODULE JqFilter ------------------------------
(***************************************************************************)
(* JqFilter.run of PanelWorkflowRunner.ts: the filter of a state's data,   *)
(* one key of the data at a time, in the order pickBy meets them.  The     *)
(* tokens are those of tokenizer: the name of an identifier-index, or      *)
(* Operator for a token that has no value.  A key that equals the first    *)
(* token is kept and the token is shifted off; when no token is left the   *)
(* next key reads the value of undefined, which throws.                    *)
(***************************************************************************)
EXTENDS Naturals, Sequences

CONSTANTS Keys,      \* names of data
          Operator,  \* a token without a value: a dot, a pipe
          MaxTokens, MaxKeys

ASSUME JqFilterAssumption == Operator \notin Keys /\ MaxTokens \in Nat /\ MaxKeys \in Nat

VARIABLES filter,  \* the tokens of the filter
          data,    \* the keys of the object, each once
          i,       \* how many of them were met
          tokens,  \* this.tokens
          out,     \* the keys kept, in order
          threw

filterVars == <<filter, data, i, tokens, out, threw>>

SeqsUpTo(S, n) == UNION {[1..k -> S] : k \in 0..n}

FilterInit ==
  /\ filter \in SeqsUpTo(Keys \cup {Operator}, MaxTokens)
  /\ data \in {d \in SeqsUpTo(Keys, MaxKeys) :
                \A a, b \in DOMAIN d : a # b => d[a] # d[b]}
  /\ i = 0
  /\ tokens = filter
  /\ out = <<>>
  /\ threw = FALSE

(* Mutants: no token is shifted off; an empty list of tokens is guarded     *)
(* against.                                                                *)
PickKeepsToken ==
  /\ i < Len(data)
  /\ ~threw
  /\ i' = i + 1
  /\ threw' = (tokens = <<>>)
  /\ tokens' = tokens
  /\ out' = IF tokens # <<>> /\ Head(tokens) = data[i + 1] THEN Append(out, data[i + 1]) ELSE out
  /\ UNCHANGED <<filter, data>>

PickGuarded ==
  /\ i < Len(data)
  /\ ~threw
  /\ i' = i + 1
  /\ IF tokens # <<>> /\ Head(tokens) = data[i + 1]
     THEN tokens' = Tail(tokens) /\ out' = Append(out, data[i + 1])
     ELSE UNCHANGED <<tokens, out>>
  /\ UNCHANGED <<filter, data, threw>>

(* One call of the predicate of pickBy.                                    *)
Pick ==
  /\ i < Len(data)
  /\ ~threw
  /\ \/ tokens = <<>> /\ threw' = TRUE /\ UNCHANGED <<i, tokens, out>>
     \/ /\ tokens # <<>>
        /\ i' = i + 1
        /\ \/ /\ Head(tokens) = data[i + 1]
              /\ tokens' = Tail(tokens)
              /\ out' = Append(out, data[i + 1])
           \/ Head(tokens) # data[i + 1] /\ UNCHANGED <<tokens, out>>
        /\ UNCHANGED threw
  /\ UNCHANGED <<filter, data>>

FilterNext == Pick

FilterSpec == FilterInit /\ [][FilterNext]_filterVars

-----------------------------------------------------------------------------
(* The keys kept and the tokens left are the filter: keys are kept in the  *)
(* order of the filter, and none after the first that is missing.          *)
KeptIsPrefix == out \o tokens = filter

(* s is what remains of t when some elements are left out.                 *)
IsSubsequence(s, t) ==
  \E at \in [DOMAIN s -> DOMAIN t] :
    /\ \A a, b \in DOMAIN s : a < b => at[a] < at[b]
    /\ \A a \in DOMAIN s : t[at[a]] = s[a]

Prefix(s, n) == [k \in 1..n |-> s[k]]

(* A run that has met every key keeps the longest prefix of the filter     *)
(* whose keys the object has in that order.                                *)
KeepsLongest ==
  ~threw /\ i = Len(data) =>
    /\ IsSubsequence(out, data)
    /\ \A n \in Len(out) + 1 .. Len(filter) : ~IsSubsequence(Prefix(filter, n), data)

(* A run throws exactly when the object has a key after the last one the   *)
(* filter names: a filter that is satisfied early fails the workflow.      *)
ThrowsOnLaterKey ==
  /\ threw => Len(filter) < Len(data)
  /\ threw \/ i = Len(data) =>
       (threw <=> data # <<>> /\ IsSubsequence(filter, Prefix(data, Len(data) - 1)))

(* What the filter does with an object, against a definition by            *)
(* subsequences.                                                           *)
FilterMeaning == KeepsLongest /\ ThrowsOnLaterKey
=============================================================================
