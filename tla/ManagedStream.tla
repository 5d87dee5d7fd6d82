--------------------------- MODULE ManagedStream ---------------------------
(***************************************************************************)
(* One channel of a managed stream: NamespaceStream and its frame cache    *)
(* (pkg/services/live/managedstream), the subscription of one browser, and *)
(* the frame it builds of what it receives (StreamingDataFrame).  A frame  *)
(* is pushed as a whole, but published with its schema only when that has  *)
(* changed; the browser reads data by the schema it saw last.              *)
(*                                                                         *)
(* The WebSocket library delivers in order what is published while the     *)
(* browser is in its hub, loses the rest, and puts the browser in the hub  *)
(* after OnSubscribe has read the cache.  A pushed frame is one row, the   *)
(* number of its push.                                                     *)
(***************************************************************************)
EXTENDS Naturals, Sequences

CONSTANTS Pushers,     \* calls of Push
          Schemas, Wider,  \* the wider ones have a field more
          None,
          MaxPushes, MaxDrops  \* bounds on the pushes and lost connections

ASSUME ManagedStreamAssumption ==
  /\ Wider \subseteq Schemas /\ None \notin Schemas
  /\ MaxPushes \in Nat /\ MaxDrops \in Nat

VARIABLES
  pushed,      \* the number of pushes
  cache,       \* the last frame, a whole one
  push,        \* pusher -> the message to publish, or NoMessage
  conn,        \* the subscription, see TypeOK
  reply,       \* what OnSubscribe has read
  wire,        \* messages on their way
  schema,      \* of the browser's frame
  rows,        \* of the browser's frame
  drops,
  overlapped,  \* history: two pushes were under way at once
  lost         \* history: messages that were not published to the browser

server == <<pushed, cache, push, overlapped>>
browser == <<schema, rows>>
vars == <<server, conn, reply, wire, browser, drops, lost>>

(* A message: its row, the schema it was pushed with, and the schema that  *)
(* is sent, if any.                                                        *)
Message == [n : Nat, of : Schemas, schema : Schemas \cup {None}]
NoMessage == [n |-> 0, of |-> None, schema |-> None]

(* A row of the browser's frame was read by a schema, or by none: then the *)
(* fields are guessed.                                                     *)
BrowserRow == [n : Nat, of : Schemas, as : Schemas \cup {None}]

Init ==
  /\ pushed = 0 /\ cache = NoMessage
  /\ push = [p \in Pushers |-> NoMessage]
  /\ conn = "down" /\ reply = NoMessage /\ wire = <<>>
  /\ schema = None /\ rows = <<>>
  /\ drops = 0
  /\ overlapped = FALSE /\ lost = {}

-----------------------------------------------------------------------------
Frame(s) == [n |-> pushed + 1, of |-> s, schema |-> s]

(* Mutants: the schema is published with the first frame only; the cache is *)
(* replaced only when the schema has changed.                              *)
UpdateFirstOnly(p, s) ==
  /\ push[p] = NoMessage /\ pushed < MaxPushes
  /\ pushed' = pushed + 1
  /\ cache' = Frame(s)
  /\ push' = [push EXCEPT ![p] = IF cache # NoMessage THEN [Frame(s) EXCEPT !.schema = None]
                                                      ELSE Frame(s)]
  /\ overlapped' = (overlapped \/ \E q \in Pushers : push[q] # NoMessage)
  /\ UNCHANGED <<conn, reply, wire, browser, drops, lost>>

UpdateSchemaOnly(p, s) ==
  /\ push[p] = NoMessage /\ pushed < MaxPushes
  /\ pushed' = pushed + 1
  /\ cache' = IF cache.schema = s THEN cache ELSE Frame(s)
  /\ push' = [push EXCEPT ![p] = IF cache.schema = s THEN [Frame(s) EXCEPT !.schema = None]
                                                     ELSE Frame(s)]
  /\ overlapped' = (overlapped \/ \E q \in Pushers : push[q] # NoMessage)
  /\ UNCHANGED <<conn, reply, wire, browser, drops, lost>>

(* Push, up to Update of the cache: the schema is to be published when it  *)
(* is not that of the last frame ...                                       *)
Update(p, s) ==
  /\ push[p] = NoMessage /\ pushed < MaxPushes
  /\ pushed' = pushed + 1
  /\ cache' = Frame(s)
  /\ push' = [push EXCEPT ![p] = IF cache.schema = s THEN [Frame(s) EXCEPT !.schema = None]
                                                     ELSE Frame(s)]
  /\ overlapped' = (overlapped \/ \E q \in Pushers : push[q] # NoMessage)
  /\ UNCHANGED <<conn, reply, wire, browser, drops, lost>>

(* Mutant: only what has a schema is published.                            *)
PublishSchemaOnly(p) ==
  /\ push[p] # NoMessage
  /\ push' = [push EXCEPT ![p] = NoMessage]
  /\ \/ /\ conn = "on"
        /\ wire' = IF push[p].schema = None THEN wire ELSE Append(wire, push[p])
        /\ UNCHANGED lost
     \/ UNCHANGED wire /\ lost' = lost \cup {push[p]}
  /\ UNCHANGED <<pushed, cache, overlapped, conn, reply, browser, drops>>

(* ... and the publication, in a step of its own, which may fail.          *)
Publish(p) ==
  /\ push[p] # NoMessage
  /\ push' = [push EXCEPT ![p] = NoMessage]
  /\ \/ conn = "on" /\ wire' = Append(wire, push[p]) /\ UNCHANGED lost
     \/ UNCHANGED wire /\ lost' = lost \cup {push[p]}
  /\ UNCHANGED <<pushed, cache, overlapped, conn, reply, browser, drops>>

-----------------------------------------------------------------------------
(* The browser subscribes, also after its connection was lost.             *)
Subscribe ==
  /\ conn = "down" /\ conn' = "asked"
  /\ UNCHANGED <<server, reply, wire, browser, drops, lost>>

(* handleOnSubscribe, OnSubscribe: the last frame is the answer.           *)
OnSubscribe ==
  /\ conn = "asked" /\ conn' = "read"
  /\ reply' = cache
  /\ UNCHANGED <<server, wire, browser, drops, lost>>

Subscribed ==
  /\ conn = "read" /\ conn' = "on"
  /\ wire' = IF reply = NoMessage THEN <<>> ELSE <<reply>>
  /\ UNCHANGED <<server, reply, browser, drops, lost>>

Drop ==
  /\ conn # "down" /\ drops < MaxDrops
  /\ conn' = "down" /\ wire' = <<>> /\ drops' = drops + 1
  /\ UNCHANGED <<server, reply, browser, lost>>

-----------------------------------------------------------------------------
SameWidth(s, t) == s \in Wider <=> t \in Wider

(* StreamingDataFrame.push: a schema replaces the one before, and the rows *)
(* stay; data with another number of fields than the frame is refused, and *)
(* data without a schema ever seen gets the fields it has.                 *)
Deliver ==
  /\ wire # <<>> /\ wire' = Tail(wire)
  /\ LET m == Head(wire)
         s == IF m.schema = None THEN schema ELSE m.schema
         fields == IF s # None THEN s ELSE IF rows = <<>> THEN m.of ELSE rows[1].of
     IN /\ schema' = s
        /\ rows' = IF SameWidth(m.of, fields)
                   THEN Append(rows, [n |-> m.n, of |-> m.of, as |-> s]) ELSE rows
  /\ UNCHANGED <<server, conn, reply, drops, lost>>

-----------------------------------------------------------------------------
Next ==
  \/ \E p \in Pushers : Publish(p) \/ \E s \in Schemas : Update(p, s)
  \/ Subscribe \/ OnSubscribe \/ Subscribed \/ Drop \/ Deliver

Spec == Init /\ [][Next]_vars

(* Calls that were begun go on, and the browser subscribes again.          *)
FairSpec ==
  /\ Spec
  /\ \A p \in Pushers : WF_vars(Publish(p))
  /\ WF_vars(Subscribe \/ OnSubscribe \/ Subscribed \/ Deliver)

-----------------------------------------------------------------------------
TypeOK ==
  /\ pushed \in 0..MaxPushes
  /\ cache \in Message \cup {NoMessage} /\ cache.n = pushed
  /\ push \in [Pushers -> Message \cup {NoMessage}]
  /\ conn \in {"down", "asked", "read", "on"}
  /\ reply \in Message \cup {NoMessage}
  /\ wire \in Seq(Message)
  /\ schema \in Schemas \cup {None} /\ rows \in Seq(BrowserRow)
  /\ drops \in 0..MaxDrops
  /\ overlapped \in BOOLEAN /\ lost \subseteq Message

(* What the browser missed and was not in the cache when it subscribed.    *)
Missed == {m \in lost : m.n > reply.n}
SchemaMissed == \E m \in Missed : m.schema # None

(* Data that comes without its schema was pushed with the schema that the  *)
(* browser has, whatever connections are lost and data is missed: as long  *)
(* as pushes come one after the other and no publication of a schema was   *)
(* missed.                                                                 *)
ReadAsPushed ==
  ~overlapped /\ ~SchemaMissed /\ wire # <<>> /\ Head(wire).schema = None =>
    Head(wire).of = schema

(* A row is never shown after a newer one; the last one may be shown again *)
(* when the browser subscribes again.                                      *)
InOrder ==
  ~overlapped => \A i, j \in DOMAIN rows : i < j => rows[i].n <= rows[j].n

(* The last frame reaches the browser in the end, unless its publication   *)
(* was missed, although most publications cannot be read alone.            *)
Arrives ==
  <>[](\/ overlapped \/ SchemaMissed \/ \E m \in Missed : m.n = pushed
       \/ pushed = 0 \/ \E i \in DOMAIN rows : rows[i].n = pushed)
=============================================================================
