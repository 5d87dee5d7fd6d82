--------------------------- MODULE DataKeysProofs ---------------------------
(***************************************************************************)
(* For any number of requests, keys and errors: secrets keep their key,    *)
(* and the mutex keeps the active keys of a server few.  Whoever makes a   *)
(* key is alone between its lookup and the insertion, and has either found *)
(* no active key or paid for it with an error.                             *)
(***************************************************************************)
EXTENDS DataKeys, FiniteSetTheorems, TLAPS

Inside(r) == pc[r] \in {"find", "create", "use", "disable", "flush"}

(* s.mtx                                                                   *)
OneInside == \A r, s \in Requests : Inside(r) /\ Inside(s) => r = s

(* Rows are never deleted, so a key in hand keeps its row.                 *)
EntryHasRow ==
  \A r \in Requests :
    /\ pc[r] \in {"use", "get", "add"} =>
         entry[r].id \in Keys /\ table[entry[r].id] # "none"
    /\ pc[r] \in {"use", "add"} => entry[r].flag # "none"

OwnActive == Active \cap Own

FewWhileCreating ==
  /\ IsFiniteSet(OwnActive)
  /\ Cardinality(OwnActive) <= 1 + failures
  /\ \A r \in Requests : pc[r] = "create" => Cardinality(OwnActive) <= failures

IInv ==
  /\ TypeOK
  /\ SecretsKeepTheirKey
  /\ OneInside
  /\ EntryHasRow
  /\ FewWhileCreating

-----------------------------------------------------------------------------
(* A step that activates no key of this server and lets nobody create.     *)
LEMMA StillFew ==
  ASSUME IInv, TypeOK', OwnActive' \subseteq OwnActive, failures <= failures',
         \A r \in Requests : pc'[r] = "create" => pc[r] = "create"
  PROVE  FewWhileCreating'
  <1>1. IsFiniteSet(OwnActive) /\ Cardinality(OwnActive) <= 1 + failures
    BY DEF IInv, FewWhileCreating
  <1>2. /\ IsFiniteSet(OwnActive')
        /\ Cardinality(OwnActive') <= Cardinality(OwnActive)
        /\ Cardinality(OwnActive) \in Nat /\ Cardinality(OwnActive') \in Nat
    BY <1>1, FS_Subset, FS_CardinalityType
  <1>3. failures \in Nat /\ failures' \in Nat
    BY DataKeysAssumption DEF IInv, TypeOK
  <1>4. Cardinality(OwnActive') <= 1 + failures'
    BY <1>1, <1>2, <1>3
  <1>5. ASSUME NEW r \in Requests, pc'[r] = "create"
        PROVE  Cardinality(OwnActive') <= failures'
    BY <1>2, <1>3, <1>5 DEF IInv, FewWhileCreating
  <1> QED
    BY <1>2, <1>4, <1>5 DEF FewWhileCreating

LEMMA InitIInv == Init => IInv
  <1> SUFFICES ASSUME Init PROVE IInv
    OBVIOUS
  <1>1. TypeOK
    BY DataKeysAssumption DEF Init, TypeOK, Flag, Entry, NoEntry, Keys
  <1>2. SecretsKeepTheirKey /\ OneInside /\ EntryHasRow
    BY DEF Init, SecretsKeepTheirKey, OneInside, Inside, EntryHasRow
  <1>3. OwnActive = {}
    BY DEF Init, OwnActive, Active
  <1>4. FewWhileCreating
    BY <1>3, FS_EmptySet DEF Init, FewWhileCreating
  <1> QED
    BY <1>1, <1>2, <1>4 DEF IInv

-----------------------------------------------------------------------------
LEMMA EncryptCachedStep ==
  ASSUME IInv, NEW r \in Requests, EncryptCached(r)
  PROVE  IInv'
  <1> USE DEF EncryptCached, cache, request
  <1>1. TypeOK'
    BY DEF IInv, TypeOK, Cached
  <1>2. SecretsKeepTheirKey'
    BY DEF IInv, TypeOK, SecretsKeepTheirKey, Cached
  <1>3. OneInside' /\ EntryHasRow'
    BY DEF IInv, OneInside, Inside, EntryHasRow
  <1>4. FewWhileCreating'
    BY DEF IInv, FewWhileCreating, OwnActive, Active
  <1> QED
    BY <1>1, <1>2, <1>3, <1>4 DEF IInv

LEMMA EncryptMissStep ==
  ASSUME IInv, NEW r \in Requests, EncryptMiss(r)
  PROVE  IInv'
  <1> USE DEF EncryptMiss, Goto, cache
  <1>1. TypeOK'
    BY DEF IInv, TypeOK, Entry, NoEntry, Flag
  <1>2. SecretsKeepTheirKey'
    BY DEF IInv, SecretsKeepTheirKey
  <1>3. OneInside' /\ EntryHasRow'
    BY DEF IInv, TypeOK, OneInside, Inside, EntryHasRow, Locked
  <1>4. FewWhileCreating'
    BY <1>1, StillFew DEF IInv, TypeOK, OwnActive, Active
  <1> QED
    BY <1>1, <1>2, <1>3, <1>4 DEF IInv

LEMMA GetCurrentDataKeyStep ==
  ASSUME IInv, NEW r \in Requests, GetCurrentDataKey(r)
  PROVE  IInv'
  <1>1. OwnActive' = OwnActive /\ UNCHANGED <<table, byId, byLabel, given>>
    BY DEF GetCurrentDataKey, cache, OwnActive, Active
  <1>2. SecretsKeepTheirKey'
    BY <1>1 DEF IInv, SecretsKeepTheirKey
  <1>3. failures \in Nat
    BY DataKeysAssumption DEF IInv, TypeOK
  <1>4. ASSUME NEW k \in Active, Goto(r, "find", "use", [id |-> k, flag |-> "active"]),
               UNCHANGED failures
        PROVE  IInv'
    <2> USE <1>1, <1>4 DEF Goto, Active
    <2>1. TypeOK'
      BY DEF IInv, TypeOK, Entry, Flag
    <2>2. OneInside' /\ EntryHasRow'
      BY DEF IInv, TypeOK, OneInside, Inside, EntryHasRow
    <2>3. FewWhileCreating'
      BY <1>3, <2>1, StillFew DEF IInv, TypeOK
    <2> QED
      BY <1>2, <2>1, <2>2, <2>3 DEF IInv
  <1>5. ASSUME Goto(r, "find", "create", NoEntry),
               IF Active = {} THEN UNCHANGED failures ELSE Fail
        PROVE  IInv'
    <2> USE <1>1, <1>5 DEF Goto
    <2>1. TypeOK'
      BY DataKeysAssumption DEF IInv, TypeOK, Entry, NoEntry, Flag, Fail
    <2>2. OneInside' /\ EntryHasRow'
      BY DEF IInv, TypeOK, OneInside, Inside, EntryHasRow
    <2>3. IsFiniteSet(OwnActive) /\ Cardinality(OwnActive) <= 1 + failures
      BY DEF IInv, FewWhileCreating
    <2>4. Cardinality(OwnActive) \in Nat
      BY <2>3, FS_CardinalityType
    <2>5. Cardinality(OwnActive) <= failures'
      <3>1. CASE Active = {}
        BY <1>3, <3>1, FS_EmptySet DEF OwnActive
      <3>2. CASE Active # {}
        BY <1>3, <2>3, <3>2 DEF Fail
      <3> QED
        BY <3>1, <3>2
    <2>6. failures' \in Nat
      BY <1>3 DEF Fail
    <2>7. FewWhileCreating'
      BY <2>3, <2>4, <2>5, <2>6 DEF FewWhileCreating
    <2> QED
      BY <1>2, <2>1, <2>2, <2>7 DEF IInv
  <1> QED
    BY <1>4, <1>5 DEF GetCurrentDataKey

LEMMA NewDataKeyStep ==
  ASSUME IInv, NEW r \in Requests, NewDataKey(r)
  PROVE  IInv'
  <1>1. PICK k \in Own :
          /\ table[k] = "none"
          /\ table' = [table EXCEPT ![k] = "active"]
          /\ pc[r] = "create"
          /\ pc' = [pc EXCEPT ![r] = "use"]
          /\ entry' = [entry EXCEPT ![r] = [id |-> k, flag |-> "active"]]
          /\ UNCHANGED <<byId, byLabel, given, failures>>
    BY DEF NewDataKey, Goto, cache
  <1>2. k \in Keys
    BY DEF Keys
  <1>3. TypeOK'
    BY <1>1, <1>2 DEF IInv, TypeOK, Entry, Flag
  <1>4. SecretsKeepTheirKey'
    BY <1>1, <1>2 DEF IInv, TypeOK, SecretsKeepTheirKey
  <1>5. OneInside'
    BY <1>1 DEF IInv, TypeOK, OneInside, Inside
  <1>6. EntryHasRow'
    BY <1>1, <1>2 DEF IInv, TypeOK, EntryHasRow
  <1>7. FewWhileCreating'
    <2>1. IsFiniteSet(OwnActive) /\ Cardinality(OwnActive) <= failures
      BY <1>1 DEF IInv, FewWhileCreating
    <2>2. OwnActive' = OwnActive \cup {k} /\ k \notin OwnActive
      BY <1>1, <1>2 DEF IInv, TypeOK, OwnActive, Active
    <2>3. /\ IsFiniteSet(OwnActive')
          /\ Cardinality(OwnActive') = Cardinality(OwnActive) + 1
          /\ Cardinality(OwnActive) \in Nat
      BY <2>1, <2>2, FS_AddElement, FS_CardinalityType
    <2>4. failures \in Nat /\ failures' = failures
      BY <1>1, DataKeysAssumption DEF IInv, TypeOK
    <2>5. \A s \in Requests : pc'[s] # "create"
      BY <1>1 DEF IInv, TypeOK, OneInside, Inside
    <2> QED
      BY <2>1, <2>3, <2>4, <2>5 DEF FewWhileCreating
  <1> QED
    BY <1>3, <1>4, <1>5, <1>6, <1>7 DEF IInv

LEMMA UseKeyStep ==
  ASSUME IInv, NEW r \in Requests, UseKey(r)
  PROVE  IInv'
  <1> USE DEF UseKey, Goto, Add
  <1>1. entry[r].id \in Keys /\ table[entry[r].id] # "none" /\ entry[r].flag \in Flag \ {"none"}
    BY DEF IInv, EntryHasRow, TypeOK, Entry
  <1>2. TypeOK'
    BY <1>1 DEF IInv, TypeOK, Entry, NoEntry, Flag
  <1>3. SecretsKeepTheirKey'
    BY <1>1 DEF IInv, TypeOK, SecretsKeepTheirKey
  <1>4. OneInside' /\ EntryHasRow'
    BY DEF IInv, TypeOK, OneInside, Inside, EntryHasRow
  <1>5. FewWhileCreating'
    BY <1>2, StillFew DEF IInv, TypeOK, OwnActive, Active
  <1> QED
    BY <1>2, <1>3, <1>4, <1>5 DEF IInv

-----------------------------------------------------------------------------
LEMMA DecryptMissStep ==
  ASSUME IInv, NEW r \in Requests, NEW k \in given, DecryptMiss(r, k)
  PROVE  IInv'
  <1> USE DEF DecryptMiss, Goto, cache
  <1>1. k \in Keys /\ table[k] # "none"
    BY DEF IInv, TypeOK, SecretsKeepTheirKey
  <1>2. TypeOK'
    BY <1>1 DEF IInv, TypeOK, Entry, Flag
  <1>3. SecretsKeepTheirKey'
    BY DEF IInv, SecretsKeepTheirKey
  <1>4. OneInside' /\ EntryHasRow'
    BY <1>1 DEF IInv, TypeOK, OneInside, Inside, EntryHasRow
  <1>5. FewWhileCreating'
    BY <1>2, StillFew DEF IInv, TypeOK, OwnActive, Active
  <1> QED
    BY <1>2, <1>3, <1>4, <1>5 DEF IInv

LEMMA GetDataKeyStep ==
  ASSUME IInv, NEW r \in Requests, GetDataKey(r)
  PROVE  IInv'
  <1> USE DEF GetDataKey, Goto, cache
  <1>1. entry[r] \in Entry /\ entry[r].id \in Keys /\ table[entry[r].id] \in Flag \ {"none"}
    BY DEF IInv, EntryHasRow, TypeOK
  <1>2. TypeOK'
    BY <1>1 DEF IInv, TypeOK, Entry, Flag
  <1>3. SecretsKeepTheirKey'
    BY DEF IInv, SecretsKeepTheirKey
  <1>4. OneInside' /\ EntryHasRow'
    BY <1>1 DEF IInv, TypeOK, Entry, OneInside, Inside, EntryHasRow
  <1>5. FewWhileCreating'
    BY <1>2, StillFew DEF IInv, TypeOK, OwnActive, Active
  <1> QED
    BY <1>2, <1>3, <1>4, <1>5 DEF IInv

LEMMA AddDataKeyStep ==
  ASSUME IInv, NEW r \in Requests, AddDataKey(r)
  PROVE  IInv'
  <1> USE DEF AddDataKey, Goto, Add
  <1>1. entry[r].id \in Keys /\ table[entry[r].id] # "none" /\ entry[r].flag \in Flag \ {"none"}
    BY DEF IInv, EntryHasRow, TypeOK, Entry
  <1>2. TypeOK'
    BY <1>1 DEF IInv, TypeOK, Entry, NoEntry, Flag
  <1>3. SecretsKeepTheirKey'
    BY <1>1 DEF IInv, TypeOK, SecretsKeepTheirKey
  <1>4. OneInside' /\ EntryHasRow'
    BY DEF IInv, TypeOK, OneInside, Inside, EntryHasRow
  <1>5. FewWhileCreating'
    BY <1>2, StillFew DEF IInv, TypeOK, OwnActive, Active
  <1> QED
    BY <1>2, <1>3, <1>4, <1>5 DEF IInv

-----------------------------------------------------------------------------
LEMMA RotateStep ==
  ASSUME IInv, NEW r \in Requests, Rotate(r)
  PROVE  IInv'
  <1> USE DEF Rotate, Goto, cache
  <1>1. TypeOK'
    BY DEF IInv, TypeOK, Entry, NoEntry, Flag
  <1>2. SecretsKeepTheirKey'
    BY DEF IInv, SecretsKeepTheirKey
  <1>3. OneInside' /\ EntryHasRow'
    BY DEF IInv, TypeOK, OneInside, Inside, EntryHasRow, Locked
  <1>4. FewWhileCreating'
    BY <1>1, StillFew DEF IInv, TypeOK, OwnActive, Active
  <1> QED
    BY <1>1, <1>2, <1>3, <1>4 DEF IInv

LEMMA DisableDataKeysStep ==
  ASSUME IInv, NEW r \in Requests, DisableDataKeys(r)
  PROVE  IInv'
  <1> USE DEF DisableDataKeys, DisableAll, Goto, cache
  <1>1. TypeOK'
    BY DEF IInv, TypeOK, Entry, NoEntry, Flag
  <1>2. SecretsKeepTheirKey'
    BY DEF IInv, SecretsKeepTheirKey
  <1>3. OneInside' /\ EntryHasRow'
    BY DEF IInv, TypeOK, OneInside, Inside, EntryHasRow
  <1>4. FewWhileCreating'
    BY <1>1, StillFew DEF IInv, TypeOK, OwnActive, Active
  <1> QED
    BY <1>1, <1>2, <1>3, <1>4 DEF IInv

LEMMA RotateFlushStep ==
  ASSUME IInv, NEW r \in Requests, RotateFlush(r)
  PROVE  IInv'
  <1> USE DEF RotateFlush, Flush, Goto
  <1>1. TypeOK'
    BY DEF IInv, TypeOK, Entry, NoEntry, Flag
  <1>2. SecretsKeepTheirKey'
    BY DEF IInv, SecretsKeepTheirKey
  <1>3. OneInside' /\ EntryHasRow'
    BY DEF IInv, TypeOK, OneInside, Inside, EntryHasRow
  <1>4. FewWhileCreating'
    BY <1>1, StillFew DEF IInv, TypeOK, OwnActive, Active
  <1> QED
    BY <1>1, <1>2, <1>3, <1>4 DEF IInv

LEMMA ErrorStep ==
  ASSUME IInv, NEW r \in Requests, Error(r)
  PROVE  IInv'
  <1> USE DEF Error, Fail, Goto, cache
  <1>1. TypeOK'
    BY DataKeysAssumption DEF IInv, TypeOK, Entry, NoEntry, Flag
  <1>2. SecretsKeepTheirKey'
    BY DEF IInv, SecretsKeepTheirKey
  <1>3. OneInside' /\ EntryHasRow'
    BY DEF IInv, TypeOK, OneInside, Inside, EntryHasRow
  <1>4. failures <= failures' /\ OwnActive' = OwnActive
    BY DataKeysAssumption DEF IInv, TypeOK, OwnActive, Active
  <1>5. FewWhileCreating'
    BY <1>1, <1>4, StillFew DEF IInv, TypeOK
  <1> QED
    BY <1>1, <1>2, <1>3, <1>5 DEF IInv

-----------------------------------------------------------------------------
(* The flush of a re-encryption, expiry, and the other servers.            *)
LEMMA OutsideStep ==
  ASSUME IInv,
         \/ ReEncrypted
         \/ \E k \in Keys : Expire(k)
         \/ \E k \in Others : OtherCreates(k)
         \/ OtherRotates
  PROVE  IInv'
  <1>1. CASE ReEncrypted
    <2> USE <1>1 DEF ReEncrypted, Flush, request
    <2>1. TypeOK'
      BY DEF IInv, TypeOK, Flag
    <2>2. SecretsKeepTheirKey' /\ OneInside' /\ EntryHasRow'
      BY DEF IInv, SecretsKeepTheirKey, OneInside, Inside, EntryHasRow
    <2>3. FewWhileCreating'
      BY DEF IInv, FewWhileCreating, OwnActive, Active
    <2> QED
      BY <2>1, <2>2, <2>3 DEF IInv
  <1>2. ASSUME NEW k \in Keys, Expire(k) PROVE IInv'
    <2> USE <1>2 DEF Expire, request
    <2>1. TypeOK'
      BY DEF IInv, TypeOK, Flag
    <2>2. SecretsKeepTheirKey' /\ OneInside' /\ EntryHasRow'
      BY DEF IInv, TypeOK, SecretsKeepTheirKey, OneInside, Inside, EntryHasRow
    <2>3. FewWhileCreating'
      BY DEF IInv, FewWhileCreating, OwnActive, Active
    <2> QED
      BY <2>1, <2>2, <2>3 DEF IInv
  <1>3. ASSUME NEW k \in Others, OtherCreates(k) PROVE IInv'
    <2> USE <1>3 DEF OtherCreates, cache, request, Keys
    <2>1. TypeOK'
      BY DEF IInv, TypeOK, Flag
    <2>2. SecretsKeepTheirKey' /\ OneInside' /\ EntryHasRow'
      BY DEF IInv, TypeOK, SecretsKeepTheirKey, OneInside, Inside, EntryHasRow
    <2>3. OwnActive' = OwnActive
      BY DataKeysAssumption DEF IInv, TypeOK, OwnActive, Active
    <2>4. FewWhileCreating'
      BY <2>3 DEF IInv, FewWhileCreating
    <2> QED
      BY <2>1, <2>2, <2>4 DEF IInv
  <1>4. CASE OtherRotates
    <2> USE <1>4 DEF OtherRotates, DisableAll, cache, request
    <2>1. TypeOK'
      BY DEF IInv, TypeOK, Flag
    <2>2. SecretsKeepTheirKey' /\ OneInside' /\ EntryHasRow'
      BY DEF IInv, SecretsKeepTheirKey, OneInside, Inside, EntryHasRow
    <2>3. FewWhileCreating'
      BY <2>1, StillFew DEF IInv, TypeOK, OwnActive, Active
    <2> QED
      BY <2>1, <2>2, <2>3 DEF IInv
  <1> QED
    BY <1>1, <1>2, <1>3, <1>4

LEMMA NextIInv == IInv /\ [Next]_vars => IInv'
  <1> SUFFICES ASSUME IInv, [Next]_vars PROVE IInv'
    OBVIOUS
  <1>1. CASE UNCHANGED vars
    BY <1>1 DEF vars, cache, request, IInv, TypeOK, SecretsKeepTheirKey, OneInside, Inside,
                EntryHasRow, FewWhileCreating, OwnActive, Active
  <1>2. ASSUME NEW r \in Requests,
               \/ EncryptCached(r) \/ EncryptMiss(r)
               \/ \E k \in given : DecryptMiss(r, k)
               \/ Rotate(r)
               \/ Step(r)
               \/ Error(r)
        PROVE  IInv'
    BY <1>2, EncryptCachedStep, EncryptMissStep, DecryptMissStep, RotateStep, ErrorStep,
       GetCurrentDataKeyStep, NewDataKeyStep, UseKeyStep, GetDataKeyStep, AddDataKeyStep,
       DisableDataKeysStep, RotateFlushStep DEF Step
  <1> QED
    BY <1>1, <1>2, OutsideStep DEF Next

LEMMA SpecIInv == Spec => []IInv
  BY InitIInv, NextIInv, PTL DEF Spec

-----------------------------------------------------------------------------
(* The variables keep their types; the key of the cached entry of the      *)
(* label always has an entry of its own.                                   *)
THEOREM DataKeysTypes == Spec => []TypeOK
  BY SpecIInv, PTL DEF IInv

(* A secret can be decrypted again: rows are inserted before their key is  *)
(* used or cached, and never deleted.                                      *)
THEOREM DataKeysKept == Spec => []SecretsKeepTheirKey
  BY SpecIInv, PTL DEF IInv

(* The mutex keeps a server from making a second active key, except for    *)
(* one more per error of the database that is taken for a missing key.     *)
THEOREM DataKeysFew == Spec => []FewActiveKeys
  <1>1. IInv => FewActiveKeys
    BY DEF IInv, FewWhileCreating, FewActiveKeys, OwnActive
  <1> QED
    BY <1>1, SpecIInv, PTL
=============================================================================
