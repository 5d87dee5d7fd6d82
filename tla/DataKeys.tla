------------------------------ MODULE DataKeys ------------------------------
(***************************************************************************)
(* The data keys of envelope encryption: SecretsService of                 *)
(* pkg/services/secrets/manager with its cache and the data_keys table, on *)
(* one of the servers that share the table.  Encrypt and RotateDataKeys    *)
(* take the mutex of the server, Decrypt does not; the other servers are   *)
(* what they do to the table.                                              *)
(*                                                                         *)
(* All keys have the same label; of a key only its id and its active flag  *)
(* are kept.  An entry of the cache has the flag the row had when it was   *)
(* read.                                                                   *)
(***************************************************************************)
EXTENDS Naturals, FiniteSets

CONSTANTS Requests,
          Own, Others, \* ids that this server and others can generate; bounds
          None,
          MaxFailures  \* bound on the errors of the database and the provider

Keys == Own \cup Others

ASSUME DataKeysAssumption ==
  Own \cap Others = {} /\ None \notin Keys /\ MaxFailures \in Nat

VARIABLES
  table,    \* key -> the active flag of its row, or "none"
  byId,     \* key -> the flag of its entry, or "none"
  byLabel,  \* the key of the entry that byLabel has; it is in byId too
  pc,       \* request -> see TypeOK
  entry,    \* request -> the key in hand, as it was read
  given,    \* keys that secrets have been encrypted with
  failures

cache == <<byId, byLabel>>
request == <<pc, entry>>
vars == <<table, cache, request, given, failures>>

Flag == {"none", "active", "disabled"}
Entry == [id : Keys \cup {None}, flag : Flag]
NoEntry == [id |-> None, flag |-> "none"]

Init ==
  /\ table = [k \in Keys |-> "none"]
  /\ byId = table /\ byLabel = None
  /\ pc = [r \in Requests |-> "idle"]
  /\ entry = [r \in Requests |-> NoEntry]
  /\ given = {}
  /\ failures = 0

Active == {k \in Keys : table[k] = "active"}

(* Mutant: the mutex is released before a key is made.                     *)
LockedBriefly == \E r \in Requests : pc[r] \in {"find", "use", "disable", "flush"}

(* s.mtx                                                                   *)
Locked == \E r \in Requests : pc[r] \in {"find", "create", "use", "disable", "flush"}

Goto(r, from, to, e) ==
  /\ pc[r] = from
  /\ pc' = [pc EXCEPT ![r] = to]
  /\ entry' = [entry EXCEPT ![r] = e]

Fail == failures < MaxFailures /\ failures' = failures + 1

(* dataKeyCache.add and flush                                              *)
Add(e) ==
  /\ byId' = [byId EXCEPT ![e.id] = e.flag]
  /\ byLabel' = e.id

Flush ==
  /\ byId' = [k \in Keys |-> "none"]
  /\ byLabel' = None

Cached == byLabel # None /\ byId[byLabel] = "active"

-----------------------------------------------------------------------------
(* Encrypt: the entry of the label, if its flag is active ...              *)
EncryptCached(r) ==
  /\ pc[r] = "idle" /\ ~Locked
  /\ Cached
  /\ given' = given \cup {byLabel}
  /\ UNCHANGED <<table, cache, request, failures>>

EncryptMiss(r) ==
  /\ ~Locked /\ ~Cached
  /\ Goto(r, "idle", "find", NoEntry)
  /\ UNCHANGED <<table, cache, given, failures>>

(* ... or an active row; GetCurrentDataKey reports an error of the         *)
(* database as a key that is not found.                                    *)
GetCurrentDataKey(r) ==
  /\ \/ /\ \E k \in Active : Goto(r, "find", "use", [id |-> k, flag |-> "active"])
        /\ UNCHANGED failures
     \/ /\ Goto(r, "find", "create", NoEntry)
        /\ IF Active = {} THEN UNCHANGED failures ELSE Fail
  /\ UNCHANGED <<table, cache, given>>

(* Mutant: an error of the insertion is ignored.                           *)
NewDataKeyUnchecked(r) ==
  /\ \E k \in Own :
       /\ table[k] = "none"
       /\ \/ table' = [table EXCEPT ![k] = "active"] /\ UNCHANGED failures
          \/ Fail /\ UNCHANGED table
       /\ Goto(r, "create", "use", [id |-> k, flag |-> "active"])
  /\ UNCHANGED <<cache, given>>

NewDataKey(r) ==
  /\ \E k \in Own :
       /\ table[k] = "none"
       /\ table' = [table EXCEPT ![k] = "active"]
       /\ Goto(r, "create", "use", [id |-> k, flag |-> "active"])
  /\ UNCHANGED <<cache, given, failures>>

(* The key is cached, and the secret encrypted with it.                    *)
UseKey(r) ==
  /\ Goto(r, "use", "idle", NoEntry)
  /\ Add(entry[r])
  /\ given' = given \cup {entry[r].id}
  /\ UNCHANGED <<table, failures>>

-----------------------------------------------------------------------------
(* Decrypt, of a secret that was encrypted with k and is not cached; it    *)
(* reads the row and caches it without the mutex.                          *)
DecryptMiss(r, k) ==
  /\ byId[k] = "none"
  /\ Goto(r, "idle", "get", [id |-> k, flag |-> "none"])
  /\ UNCHANGED <<table, cache, given, failures>>

(* Mutant: an entry is active whatever its row says.                       *)
GetDataKeyActive(r) ==
  /\ Goto(r, "get", "add", [entry[r] EXCEPT !.flag = "active"])
  /\ UNCHANGED <<table, cache, given, failures>>

GetDataKey(r) ==
  /\ Goto(r, "get", "add", [entry[r] EXCEPT !.flag = table[entry[r].id]])
  /\ UNCHANGED <<table, cache, given, failures>>

AddDataKey(r) ==
  /\ Goto(r, "add", "idle", NoEntry)
  /\ Add(entry[r])
  /\ UNCHANGED <<table, given, failures>>

-----------------------------------------------------------------------------
DisableAll ==
  table' = [k \in Keys |-> IF table[k] = "active" THEN "disabled" ELSE table[k]]

(* RotateDataKeys                                                          *)
Rotate(r) ==
  /\ ~Locked
  /\ Goto(r, "idle", "disable", NoEntry)
  /\ UNCHANGED <<table, cache, given, failures>>

DisableDataKeys(r) ==
  /\ Goto(r, "disable", "flush", NoEntry)
  /\ DisableAll
  /\ UNCHANGED <<cache, given, failures>>

RotateFlush(r) ==
  /\ Goto(r, "flush", "idle", NoEntry)
  /\ Flush
  /\ UNCHANGED <<table, given, failures>>

(* ReEncryptDataKeys changes what a row's key is encrypted with, not the   *)
(* key; then it flushes, without the mutex.                                *)
ReEncrypted ==
  /\ Flush
  /\ UNCHANGED <<table, request, given, failures>>

(* An error of the database or of the provider ends the call.              *)
Error(r) ==
  /\ pc[r] \in {"find", "create", "get", "add", "disable"}
  /\ Goto(r, pc[r], "idle", NoEntry)
  /\ Fail
  /\ UNCHANGED <<table, cache, given>>

(* Mutant: only the map of ids is looked through.                          *)
ExpireById(k) ==
  /\ byId[k] # "none"
  /\ byId' = [byId EXCEPT ![k] = "none"]
  /\ UNCHANGED <<table, byLabel, request, given, failures>>

(* cacheTTL after it was added; reads do not prolong it.                   *)
Expire(k) ==
  /\ byId[k] # "none"
  /\ byId' = [byId EXCEPT ![k] = "none"]
  /\ byLabel' = IF byLabel = k THEN None ELSE byLabel
  /\ UNCHANGED <<table, request, given, failures>>

-----------------------------------------------------------------------------
(* Another server creates a key and encrypts with it, or rotates.          *)
OtherCreates(k) ==
  /\ table[k] = "none"
  /\ table' = [table EXCEPT ![k] = "active"]
  /\ given' = given \cup {k}
  /\ UNCHANGED <<cache, request, failures>>

OtherRotates ==
  /\ DisableAll
  /\ UNCHANGED <<cache, request, given, failures>>

Step(r) ==
  \/ GetCurrentDataKey(r)
  \/ NewDataKey(r)
  \/ UseKey(r)
  \/ GetDataKey(r)
  \/ AddDataKey(r)
  \/ DisableDataKeys(r)
  \/ RotateFlush(r)

Next ==
  \/ \E r \in Requests :
       \/ EncryptCached(r) \/ EncryptMiss(r)
       \/ \E k \in given : DecryptMiss(r, k)
       \/ Rotate(r)
       \/ Step(r)
       \/ Error(r)
  \/ ReEncrypted
  \/ \E k \in Keys : Expire(k)
  \/ \E k \in Others : OtherCreates(k)
  \/ OtherRotates

Spec == Init /\ [][Next]_vars

(* Calls go on, and time passes.                                           *)
FairSpec ==
  /\ Spec
  /\ \A r \in Requests : WF_vars(Step(r))
  /\ \A k \in Keys : WF_vars(Expire(k))

-----------------------------------------------------------------------------
TypeOK ==
  /\ table \in [Keys -> Flag]
  /\ byId \in [Keys -> Flag]
  /\ byLabel \in {None} \cup {k \in Keys : byId[k] # "none"}
  /\ pc \in [Requests -> {"idle", "find", "create", "use", "get", "add", "disable", "flush"}]
  /\ entry \in [Requests -> Entry]
  /\ given \subseteq Keys
  /\ failures \in 0..MaxFailures

(* A secret can be decrypted again: the key it was encrypted with has a    *)
(* row, also when the call that made the key failed half-way, when keys    *)
(* were rotated meanwhile and when the cache expires.                      *)
SecretsKeepTheirKey ==
  \A k \in Keys : k \in given \/ byId[k] # "none" => table[k] # "none"

(* The mutex keeps a server from making a second active key, except for    *)
(* an error of the database that is taken for a missing key.               *)
FewActiveKeys == Cardinality(Active \cap Own) <= 1 + failures

(* A rotation on any server takes effect here, although this cache is only *)
(* flushed by its own rotations and a Decrypt may put back a key it read   *)
(* before.                                                                 *)
RotationTakesEffect ==
  \A k \in Keys : [](table[k] = "disabled" => <>[]~(Cached /\ byLabel = k))

(* A key is made when there is no active one: the comment on               *)
(* currentDataKey.                                                         *)
MadeWhenMissing == [][Active # {} => Active' \subseteq Active]_vars
=============================================================================
