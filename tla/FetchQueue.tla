----------------------------- MODULE FetchQueue -----------------------------
(***************************************************************************)
(* BackendSrv.fetch with its FetchQueue, FetchQueueWorker and              *)
(* ResponseQueue: public/app/core/services.  Requests are queued, picked   *)
(* by the worker and started; a request that is started aborts the ones    *)
(* with the same requestId; a request that ends leaves the queue.          *)
(*                                                                         *)
(* All of it runs on one thread and by synchronous calls of RxJS subjects, *)
(* so what looks concurrent is re-entrance: a consumer told that its       *)
(* request was aborted may fetch, cancel or unsubscribe while the worker   *)
(* is in the middle of a batch.  The call stack is a variable; a frame is  *)
(* a call that has not returned and what it has still to do.  New requests *)
(* and responses come when the stack is empty.                             *)
(***************************************************************************)
EXTENDS Naturals, Sequences, FiniteSets, Functions

CONSTANTS Ids,        \* the ids of fetch(), each used once
          RequestIds, \* the requestIds that callers may give
          NoRequest,  \* a request without requestId
          MaxParallel \* maxParallelRequests

ASSUME FetchQueueAssumption ==
  /\ IsFiniteSet(Ids)
  /\ NoRequest \notin RequestIds
  /\ MaxParallel \in Nat

VARIABLES
  requestId,  \* per id: options.requestId
  queries,    \* the ids whose url is a data query (isDataQuery)
  pending,    \* the keys of FetchQueue.state that are Pending, in insertion order
  inProgress, \* those that are InProgress, whose order nothing depends on
  updates,    \* noOfInProgress of the updates concatMap has buffered
  streams,    \* the ids whose result is subscribed to, oldest first
  sub,        \* per id, the observable of fetch(): "new", "open", "closed"
  sent,       \* per id: how many times its result was subscribed to
  stack

options == <<requestId, queries>>
vars == <<requestId, queries, pending, inProgress, updates, streams, sub, sent, stack>>

Init ==
  /\ requestId \in [Ids -> RequestIds \cup {NoRequest}]
  /\ queries \in SUBSET Ids
  /\ pending = <<>>
  /\ inProgress = {}
  /\ updates = <<>>
  /\ streams = <<>>
  /\ sub = [i \in Ids |-> "new"]
  /\ sent = [i \in Ids |-> 0]
  /\ stack = <<>>

(* Frames: "subscribe" the function of fetch()'s observable; "batch" the   *)
(* array that concatMap emits; "start" ResponseQueue at fetch(options);    *)
(* "abort" inFlightRequests.next; "finish" the end of an observable whose  *)
(* consumer is told; "callback" the consumer.                              *)
Frame(kind, ids) == [kind |-> kind, ids |-> ids]

Push(frame, frames) == <<frame>> \o frames

Top(kind) == stack # <<>> /\ Head(stack).kind = kind

OnStack(kind, id, frames) ==
  \E k \in DOMAIN frames : frames[k].kind = kind /\ id \in Range(frames[k].ids)

(* concatMap has an inner observable.                                      *)
Active(frames) == \E k \in DOMAIN frames : frames[k].kind = "batch"

(* The consumers' code runs: from the event loop or in a callback.         *)
InConsumer == stack = <<>> \/ Top("callback")

(* filter of an array: the elements of s that are in T, in their order.    *)
Filter(s, T) ==
  LET positions == {k \in DOMAIN s : s[k] \in T}
      at == CHOOSE at \in [1..Cardinality(positions) -> positions] :
              \A a, b \in DOMAIN at : a < b => at[a] < at[b]
  IN [n \in 1..Cardinality(positions) |-> s[at[n]]]

Without(s, id) == Filter(s, Ids \ {id})

-----------------------------------------------------------------------------
(* slice(0, n).                                                            *)
Slice(s, n) == SubSeq(s, 1, IF n < Len(s) THEN n ELSE Len(s))

(* The worker: all that is pending, and again the data queries that the    *)
(* limit allows.                                                           *)
ToFetch(noOfInProgress, apiRequests) ==
  LET used == noOfInProgress + Len(apiRequests)
      allowed == IF used < MaxParallel THEN MaxParallel - used ELSE 0
  IN apiRequests \o Slice(Filter(apiRequests, queries), allowed)

(* Mutant: an update that comes while a batch is emitted is dropped        *)
(* (exhaustMap).                                                           *)
PublishExhaust(frames) ==
  /\ UNCHANGED updates
  /\ stack' = IF pending' = <<>> \/ Active(frames) THEN frames
              ELSE Push(Frame("batch", ToFetch(Cardinality(inProgress'), pending')), frames)

(* publishUpdate and the filter and concatMap of the worker.  frames is    *)
(* what is left to do when the call returns.                               *)
PublishUpdate(frames) ==
  LET noOfInProgress == Cardinality(inProgress')
  IN \/ /\ pending' = <<>>
        /\ stack' = frames
        /\ UNCHANGED updates
     \/ /\ pending' # <<>> /\ Active(frames)
        /\ updates' = Append(updates, noOfInProgress)
        /\ stack' = frames
     \/ /\ pending' # <<>> /\ ~Active(frames)
        /\ stack' = Push(Frame("batch", ToFetch(noOfInProgress, pending')), frames)
        /\ UNCHANGED updates

SetDone(id, frames) ==
  /\ pending' = Without(pending, id)
  /\ inProgress' = inProgress \ {id}
  /\ PublishUpdate(frames)

(* The observable of fetch() closes.  Its teardown (setDone) runs at once, *)
(* or when the function that subscribes, still on the stack, returns it.   *)
Close(id, frames) ==
  /\ sub' = [sub EXCEPT ![id] = "closed"]
  /\ streams' = Without(streams, id)
  /\ \/ ~OnStack("subscribe", id, frames) /\ SetDone(id, frames)
     \/ /\ OnStack("subscribe", id, frames)
        /\ stack' = frames
        /\ UNCHANGED <<pending, inProgress, updates>>

-----------------------------------------------------------------------------
(* fetch(options) is called and subscribed to.                             *)
Fetch(id) ==
  /\ InConsumer
  /\ sub[id] = "new"
  /\ sub' = [sub EXCEPT ![id] = "open"]
  /\ pending' = Append(pending, id)
  /\ UNCHANGED <<options, inProgress, streams, sent>>
  /\ PublishUpdate(Push(Frame("subscribe", <<id>>), stack))

(* The function returns its teardown, which runs if the observable closed. *)
Subscribed ==
  /\ Top("subscribe")
  /\ LET id == Head(stack).ids[1] IN
       \/ /\ sub[id] = "closed"
          /\ SetDone(id, Tail(stack))
       \/ /\ sub[id] = "open"
          /\ stack' = Tail(stack)
          /\ UNCHANGED <<pending, inProgress, updates>>
  /\ UNCHANGED <<options, streams, sub, sent>>

(* inFlightRequests.next(requestId) reaches the streams with that id.      *)
Abort(r) == Frame("abort", Filter(streams, {i \in Ids : requestId[i] = r}))

(* Mutants: the entry is never marked; it counts as both.                  *)
SetInProgressNever(id) == UNCHANGED <<pending, inProgress>>
SetInProgressToo(id) == inProgress' = inProgress \cup {id} /\ UNCHANGED pending

(* setInProgress, which makes an entry where there is none.                *)
SetInProgress(id) ==
  /\ pending' = Without(pending, id)
  /\ inProgress' = inProgress \cup {id}

(* The worker hands a request to ResponseQueue, which sets it in progress  *)
(* and calls internalFetch, which aborts.                                  *)
Emit ==
  /\ Top("batch")
  /\ Head(stack).ids # <<>>
  /\ LET id    == Head(Head(stack).ids)
         below == Push(Frame("start", <<id>>), Push(Frame("batch", Tail(Head(stack).ids)), Tail(stack)))
     IN /\ SetInProgress(id)
        /\ PublishUpdate(IF requestId[id] = NoRequest THEN below
                         ELSE Push(Abort(requestId[id]), below))
  /\ UNCHANGED <<options, streams, sub, sent>>

(* responses.next: fetch() subscribes to the result, if it is still there. *)
Start ==
  /\ Top("start")
  /\ LET id == Head(stack).ids[1] IN
       \/ /\ sub[id] = "open"
          /\ streams' = Append(streams, id)
          /\ sent' = [sent EXCEPT ![id] = @ + 1]
       \/ sub[id] # "open" /\ UNCHANGED <<streams, sent>>
  /\ stack' = Tail(stack)
  /\ UNCHANGED <<options, pending, inProgress, updates, sub>>

(* The batch is through: concatMap goes on with the oldest update, whose   *)
(* state is the object as it is now and whose count is of the time it was  *)
(* published.                                                              *)
BatchDone ==
  /\ Top("batch")
  /\ Head(stack).ids = <<>>
  /\ \/ /\ updates = <<>>
        /\ stack' = Tail(stack)
        /\ UNCHANGED updates
     \/ /\ updates # <<>>
        /\ updates' = Tail(updates)
        /\ stack' = Push(Frame("batch", ToFetch(Head(updates), pending)), Tail(stack))
  /\ UNCHANGED <<options, pending, inProgress, streams, sub, sent>>

(* handleStreamCancellation: the next stream errors, unless it has gone.   *)
AbortNext ==
  /\ Top("abort")
  /\ LET ids == Head(stack).ids IN
       \/ /\ ids = <<>>
          /\ stack' = Tail(stack)
          /\ UNCHANGED streams
       \/ /\ ids # <<>> /\ Head(ids) \notin Range(streams)
          /\ stack' = Push(Frame("abort", Tail(ids)), Tail(stack))
          /\ UNCHANGED streams
       \/ /\ ids # <<>> /\ Head(ids) \in Range(streams)
          /\ streams' = Without(streams, Head(ids))
          /\ stack' = Push(Frame("callback", <<>>), Push(Frame("finish", <<Head(ids)>>),
                        Push(Frame("abort", Tail(ids)), Tail(stack))))
  /\ UNCHANGED <<options, pending, inProgress, updates, sub, sent>>

(* The consumer's callback returns.                                        *)
Return ==
  /\ Top("callback")
  /\ stack' = Tail(stack)
  /\ UNCHANGED <<options, pending, inProgress, updates, streams, sub, sent>>

Finish ==
  /\ Top("finish")
  /\ LET id == Head(stack).ids[1] IN
       \/ sub[id] = "open" /\ Close(id, Tail(stack))
       \/ /\ sub[id] # "open"
          /\ stack' = Tail(stack)
          /\ UNCHANGED <<pending, inProgress, updates, streams, sub>>
  /\ UNCHANGED <<options, sent>>

(* A response, or the error of one, comes for a stream.                    *)
Respond(id) ==
  /\ stack = <<>>
  /\ id \in Range(streams)
  /\ streams' = Without(streams, id)
  /\ stack' = Push(Frame("callback", <<>>), Push(Frame("finish", <<id>>), stack))
  /\ UNCHANGED <<options, pending, inProgress, updates, sub, sent>>

(* resolveCancelerIfExists and cancelAllInFlightRequests.                  *)
Cancel ==
  /\ InConsumer
  /\ \E frame \in {Abort(r) : r \in RequestIds} \cup {Frame("abort", streams)} :
       /\ frame.ids # <<>>
       /\ stack' = Push(frame, stack)
  /\ UNCHANGED <<options, pending, inProgress, updates, streams, sub, sent>>

Unsubscribe(id) ==
  /\ InConsumer
  /\ sub[id] = "open"
  /\ Close(id, stack)
  /\ UNCHANGED <<options, sent>>

Next ==
  \/ Subscribed \/ Emit \/ Start \/ BatchDone \/ AbortNext \/ Return \/ Finish \/ Cancel
  \/ \E id \in Ids : Fetch(id) \/ Respond(id) \/ Unsubscribe(id)

Spec == Init /\ [][Next]_vars

-----------------------------------------------------------------------------
Kinds == {"subscribe", "batch", "start", "abort", "finish", "callback"}

TypeOK ==
  /\ requestId \in [Ids -> RequestIds \cup {NoRequest}]
  /\ queries \subseteq Ids
  /\ pending \in Seq(Ids) /\ IsInjective(pending)
  /\ inProgress \subseteq Ids \ Range(pending)
  /\ updates \in Seq(0..Cardinality(Ids))
  /\ streams \in Seq(Ids)
  /\ sub \in [Ids -> {"new", "open", "closed"}]
  /\ sent \in [Ids -> Nat]
  /\ stack \in Seq([kind : Kinds, ids : Seq(Ids)])

(* The queue never comes to rest with an open request that waits or is     *)
(* forgotten, whatever consumers do while a batch is emitted.              *)
NothingWaits ==
  /\ pending # <<>> => Active(stack)
  /\ stack = <<>> => \A id \in Ids : sub[id] = "open" => id \in Range(streams)

(* What is no data query is sent once, a data query at most twice.         *)
SentSparingly == \A id \in Ids : sent[id] <= IF id \in queries THEN 2 ELSE 1
=============================================================================
