------------------------ MODULE ManagedStreamProofs ------------------------
(***************************************************************************)
(* What the browser of a managed stream reads, for any number of pushers,  *)
(* schemas and lost connections.  While pushes do not overlap the cache,   *)
(* the wire, the reply to a subscription and the rows are one sequence of  *)
(* pushes that no message leaves its place in; and while no schema was     *)
(* missed, data that comes without its schema was pushed with the one of   *)
(* the message before it, wherever on its way that message is.             *)
(***************************************************************************)
EXTENDS ManagedStream, SequenceTheorems, TLAPS

(* A message is of a push, and has the schema of its data or none.         *)
Numbered(m) == m.n \in 1..pushed
Whole(m) == m.schema = m.of
Meaningful(m) == m.schema \in {None, m.of}

(* Messages everywhere are of pushes, and those that are kept are whole.   *)
MessagesArePushed ==
  /\ cache # NoMessage => Numbered(cache)
  /\ Whole(cache)
  /\ \A p \in Pushers : push[p] # NoMessage => Numbered(push[p]) /\ Meaningful(push[p])
  /\ reply # NoMessage => Numbered(reply)
  /\ Whole(reply)
  /\ \A k \in DOMAIN wire : Numbered(wire[k]) /\ Meaningful(wire[k])
  /\ \A m \in lost : Numbered(m)
  /\ \A k \in DOMAIN rows : rows[k].n <= pushed
  /\ pushed = 0 => schema = None
  /\ conn # "on" => wire = <<>>
  /\ conn = "read" /\ reply = NoMessage => schema = None

(* Pushes that do not overlap: the one under way is the last.              *)
OneAtATime ==
  \A p \in Pushers : push[p] # NoMessage =>
    /\ push[p].n = pushed /\ push[p].of = cache.of
    /\ \A q \in Pushers : push[q] # NoMessage => q = p

(* What is on its way is not older than what is before it or was shown.    *)
NothingComesLate ==
  /\ \A j, k \in DOMAIN wire : j < k => wire[j].n <= wire[k].n
  /\ \A j, k \in DOMAIN rows : j < k => rows[j].n <= rows[k].n
  /\ \A j \in DOMAIN rows, k \in DOMAIN wire : rows[j].n <= wire[k].n
  /\ conn = "read" => \A j \in DOMAIN rows : rows[j].n <= reply.n

(* The schema of the last message before the next push.                    *)
LastSchema ==
  IF conn = "read" THEN reply.of
  ELSE IF wire = <<>> THEN schema ELSE wire[Len(wire)].of

(* Data without its schema follows data of the same schema.                *)
SchemasFollow ==
  conn \in {"read", "on"} =>
    /\ wire # <<>> /\ wire[1].schema = None => wire[1].of = schema
    /\ \A k \in 2..Len(wire) : wire[k].schema = None => wire[k].of = wire[k - 1].of
    /\ \A p \in Pushers : push[p] # NoMessage /\ push[p].schema = None => push[p].of = LastSchema
    /\ (\A p \in Pushers : push[p] = NoMessage) \/ reply.n = pushed => cache.of = LastSchema

IInv ==
  /\ TypeOK
  /\ MessagesArePushed
  /\ ~overlapped => OneAtATime /\ NothingComesLate
  /\ ~overlapped /\ ~SchemaMissed => SchemasFollow

-----------------------------------------------------------------------------
LEMMA NoMessageIsNone == NoMessage \notin Message
  BY ManagedStreamAssumption DEF NoMessage, Message

LEMMA InitIInv == Init => IInv
  <1> SUFFICES ASSUME Init PROVE IInv
    OBVIOUS
  <1>1. TypeOK
    <2>1. wire \in Seq(Message) /\ rows \in Seq(BrowserRow)
      BY DEF Init
    <2>2. overlapped \in BOOLEAN
      BY DEF Init
    <2>3. pushed \in 0..MaxPushes /\ drops \in 0..MaxDrops
      BY ManagedStreamAssumption DEF Init
    <2>4. cache.n = pushed
      BY DEF Init, NoMessage
    <2> QED
      BY <2>1, <2>2, <2>3, <2>4 DEF Init, TypeOK
  <1>2. MessagesArePushed
    BY DEF Init, MessagesArePushed, NoMessage, Whole
  <1>3. OneAtATime /\ NothingComesLate /\ SchemasFollow
    BY DEF Init, OneAtATime, NothingComesLate, SchemasFollow
  <1> QED
    BY <1>1, <1>2, <1>3 DEF IInv

LEMMA UpdateStep ==
  ASSUME IInv, NEW p \in Pushers, NEW s \in Schemas, Update(p, s)
  PROVE  IInv'
  <1> USE ManagedStreamAssumption
  <1> DEFINE m == push'[p]
  <1>0. TypeOK /\ MessagesArePushed
    BY DEF IInv
  <1>1. /\ push[p] = NoMessage /\ pushed < MaxPushes
        /\ pushed' = pushed + 1 /\ pushed \in Nat
        /\ cache' = [n |-> pushed + 1, of |-> s, schema |-> s]
        /\ m = [n |-> pushed + 1, of |-> s, schema |-> IF cache.schema = s THEN None ELSE s]
        /\ \A q \in Pushers \ {p} : push'[q] = push[q]
        /\ push' \in [Pushers -> {m} \cup Message \cup {NoMessage}]
        /\ overlapped' = (overlapped \/ \E q \in Pushers : push[q] # NoMessage)
        /\ UNCHANGED <<conn, reply, wire, schema, rows, drops, lost>>
    BY <1>0 DEF Update, Frame, TypeOK, browser
  <1>2. m \in Message /\ m # NoMessage /\ cache' \in Message /\ cache' # NoMessage
    BY <1>1 DEF Message, NoMessage
  <1> HIDE DEF m
  <1>3. TypeOK'
    <2>1. overlapped' \in BOOLEAN
      BY <1>1, Zenon
    <2> QED
      BY <1>0, <1>1, <1>2, <2>1 DEF TypeOK
  <1>4. MessagesArePushed'
    <2>1. \A x : x.n \in 1..pushed => x.n \in 1..pushed'
      BY <1>1
    <2>2. cache'.n \in 1..pushed' /\ cache'.schema = cache'.of
      BY <1>1
    <2>3. m.n \in 1..pushed' /\ m.schema \in {None, m.of}
      BY <1>1
    <2>4. \A q \in Pushers : push'[q] # NoMessage =>
            push'[q].n \in 1..pushed' /\ push'[q].schema \in {None, push'[q].of}
      BY <1>0, <1>1, <2>1, <2>3 DEF MessagesArePushed, Numbered, Meaningful, m
    <2>5. \A k \in DOMAIN rows : rows[k].n <= pushed'
      <3> SUFFICES ASSUME NEW k \in DOMAIN rows PROVE rows[k].n <= pushed'
        OBVIOUS
      <3>1. rows[k] \in BrowserRow
        BY <1>0 DEF TypeOK
      <3>2. rows[k].n \in Nat /\ rows[k].n <= pushed
        BY <1>0, <3>1 DEF BrowserRow, MessagesArePushed
      <3> QED
        BY <1>1, <3>2
    <2>6. pushed' # 0
      BY <1>1
    <2> QED
      BY <1>0, <1>1, <2>1, <2>2, <2>4, <2>5, <2>6
         DEF MessagesArePushed, Numbered, Whole, Meaningful
  <1>5. ~overlapped' => ~overlapped /\ \A q \in Pushers : push[q] = NoMessage
    BY <1>1
  <1>6. ~overlapped' => OneAtATime'
    BY <1>1, <1>2, <1>5 DEF OneAtATime, m
  <1>7. ~overlapped' => NothingComesLate'
    BY <1>1, <1>5 DEF IInv, NothingComesLate
  <1>8. ~overlapped' /\ ~SchemaMissed' => SchemasFollow'
    <2> SUFFICES ASSUME ~overlapped', ~SchemaMissed', conn \in {"read", "on"}
                 PROVE  SchemasFollow'
      BY <1>1 DEF SchemasFollow
    <2>1. SchemasFollow /\ cache.of = LastSchema
      BY <1>1, <1>5 DEF IInv, SchemaMissed, Missed, SchemasFollow
    <2>2. LastSchema' = LastSchema
      BY <1>1 DEF LastSchema
    <2>3. cache.of = cache.schema
      BY <1>0 DEF MessagesArePushed, Whole
    <2>4. reply.n # pushed + 1
      BY <1>0, <1>1 DEF MessagesArePushed, Numbered, NoMessage
    <2> QED
      BY <1>1, <1>2, <1>5, <2>1, <2>2, <2>3, <2>4 DEF SchemasFollow, m
  <1> QED
    BY <1>3, <1>4, <1>6, <1>7, <1>8 DEF IInv

(* A message that is published is the last on the wire, or is lost.        *)
LEMMA PublishStep ==
  ASSUME IInv, NEW p \in Pushers, Publish(p)
  PROVE  IInv'
  <1> USE ManagedStreamAssumption
  <1> DEFINE m == push[p]
             last == Len(wire) + 1
             Published == /\ conn = "on" /\ wire' = Append(wire, m) /\ lost' = lost
             NotPublished == wire' = wire /\ lost' = lost \cup {m}
  <1>0. TypeOK /\ MessagesArePushed
    BY DEF IInv
  <1>1. /\ m # NoMessage
        /\ push' \in [Pushers -> Message \cup {NoMessage}]
        /\ push'[p] = NoMessage /\ \A q \in Pushers \ {p} : push'[q] = push[q]
        /\ UNCHANGED <<pushed, cache, overlapped, conn, reply, schema, rows, drops>>
    BY <1>0 DEF Publish, TypeOK, browser
  <1>2. Published \/ NotPublished
    BY DEF Publish
  <1>3. m \in Message /\ Numbered(m) /\ Meaningful(m)
    BY <1>0, <1>1 DEF TypeOK, MessagesArePushed
  <1> HIDE DEF m
  <1>4. /\ wire \in Seq(Message) /\ Len(wire) \in Nat /\ DOMAIN wire = 1..Len(wire)
        /\ rows \in Seq(BrowserRow)
    BY <1>0 DEF TypeOK
  <1>5. Published => /\ wire' \in Seq(Message) /\ wire' # <<>>
                     /\ Len(wire') = last /\ DOMAIN wire' = 1..last
                     /\ \A k \in 1..Len(wire) : wire'[k] = wire[k]
                     /\ wire'[last] = m
    BY <1>3, <1>4, AppendProperties, LenProperties
  <1> HIDE DEF last
  <1>6. Published => \A k \in DOMAIN wire' : k \in DOMAIN wire \/ k = last
    BY <1>4, <1>5 DEF last
  <1>7. TypeOK'
    BY <1>0, <1>1, <1>2, <1>3, <1>5 DEF TypeOK
  <1>8. MessagesArePushed'
    <2>1. CASE Published
      BY <1>0, <1>1, <1>3, <1>4, <1>5, <1>6, <2>1 DEF MessagesArePushed, Numbered, Whole, Meaningful
    <2>2. CASE NotPublished
      BY <1>0, <1>1, <1>3, <2>2 DEF MessagesArePushed, Numbered, Whole, Meaningful
    <2> QED
      BY <1>2, <2>1, <2>2
  <1>9. ~overlapped' => OneAtATime'
    BY <1>1 DEF IInv, OneAtATime
  <1>10. ~overlapped' => NothingComesLate'
    <2> SUFFICES ASSUME ~overlapped PROVE NothingComesLate'
      BY <1>1
    <2>1. NothingComesLate /\ m.n = pushed
      BY <1>1 DEF IInv, OneAtATime, m
    <2>2. CASE Published
      <3>1. \A k \in DOMAIN wire : wire[k].n \in Nat /\ wire[k].n <= m.n
        BY <1>0, <2>1 DEF MessagesArePushed, Numbered, TypeOK
      <3>2. \A k \in DOMAIN rows : rows[k].n <= m.n
        BY <1>0, <2>1 DEF MessagesArePushed
      <3>3. m.n \in Nat
        BY <2>1, <1>0 DEF TypeOK
      <3>4. \A j, k \in DOMAIN wire' : j < k => wire'[j].n <= wire'[k].n
        BY <1>4, <1>5, <2>1, <2>2, <3>1, <3>3 DEF NothingComesLate, last
      <3> QED
        BY <1>1, <1>4, <1>5, <1>6, <2>1, <2>2, <3>2, <3>4 DEF NothingComesLate
    <2>3. CASE NotPublished
      BY <1>1, <2>1, <2>3 DEF NothingComesLate
    <2> QED
      BY <1>2, <2>2, <2>3
  <1>11. ~overlapped' /\ ~SchemaMissed' => SchemasFollow'
    <2> SUFFICES ASSUME ~overlapped, ~SchemaMissed', conn \in {"read", "on"}
                 PROVE  SchemasFollow'
      BY <1>1 DEF SchemasFollow
    <2>1. ~SchemaMissed
      BY <1>1, <1>2 DEF SchemaMissed, Missed
    <2>2. OneAtATime /\ SchemasFollow
      BY <2>1 DEF IInv
    <2>3. /\ m.n = pushed /\ m.of = cache.of
          /\ \A q \in Pushers : push'[q] = NoMessage
          /\ m.schema = None => m.of = LastSchema
          /\ reply.n = pushed => cache.of = LastSchema
      BY <1>1, <2>2 DEF OneAtATime, SchemasFollow, m
    <2>4. CASE Published
      <3>1. LastSchema' = m.of
        BY <1>1, <1>5, <2>4 DEF LastSchema
      <3>2. wire'[1].schema = None => wire'[1].of = schema
        BY <1>4, <1>5, <2>2, <2>3, <2>4 DEF SchemasFollow, LastSchema, last
      <3>3. \A k \in 2..Len(wire') : wire'[k].schema = None => wire'[k].of = wire'[k - 1].of
        BY <1>4, <1>5, <2>2, <2>3, <2>4 DEF SchemasFollow, LastSchema, last
      <3> QED
        BY <1>1, <2>3, <3>1, <3>2, <3>3 DEF SchemasFollow
    <2>5. CASE NotPublished
      <3>1. LastSchema' = LastSchema
        BY <1>1, <2>5 DEF LastSchema
      <3>2. m.n > reply.n => m.schema = None
        BY <1>1, <2>5 DEF SchemaMissed, Missed
      <3>3. reply.n <= pushed /\ reply.n \in Nat /\ pushed \in Nat
        BY <1>0 DEF MessagesArePushed, Numbered, NoMessage, TypeOK
      <3>4. cache.of = LastSchema
        BY <2>3, <3>2, <3>3
      <3> QED
        BY <1>1, <2>2, <2>3, <2>5, <3>1, <3>4 DEF SchemasFollow
    <2> QED
      BY <1>2, <2>4, <2>5
  <1> QED
    BY <1>7, <1>8, <1>9, <1>10, <1>11 DEF IInv

LEMMA SubscribeStep ==
  ASSUME IInv, Subscribe
  PROVE  IInv'
  <1>1. /\ conn' = "asked" /\ conn = "down"
        /\ UNCHANGED <<pushed, cache, push, overlapped, reply, wire, schema, rows, drops, lost>>
    BY DEF Subscribe, server, browser
  <1>2. TypeOK'
    BY <1>1 DEF IInv, TypeOK
  <1>3. MessagesArePushed'
    BY <1>1 DEF IInv, MessagesArePushed, Numbered
  <1>4. ~overlapped' => OneAtATime' /\ NothingComesLate'
    BY <1>1 DEF IInv, OneAtATime, NothingComesLate
  <1>5. SchemasFollow'
    BY <1>1 DEF SchemasFollow
  <1> QED
    BY <1>2, <1>3, <1>4, <1>5 DEF IInv

(* The last frame is as new as any row, and has the schema of a message    *)
(* that is about to be published.                                          *)
LEMMA OnSubscribeStep ==
  ASSUME IInv, OnSubscribe
  PROVE  IInv'
  <1>1. /\ conn' = "read" /\ conn = "asked" /\ reply' = cache
        /\ UNCHANGED <<pushed, cache, push, overlapped, wire, schema, rows, drops, lost>>
    BY DEF OnSubscribe, server, browser
  <1>2. TypeOK /\ MessagesArePushed /\ wire = <<>>
    BY <1>1 DEF IInv, MessagesArePushed
  <1>3. cache.n = pushed
    BY <1>2 DEF TypeOK
  <1>4. TypeOK'
    BY <1>1, <1>2 DEF TypeOK
  <1>5. MessagesArePushed'
    <2>1. cache = NoMessage => schema = None
      BY <1>2, <1>3 DEF MessagesArePushed, NoMessage
    <2> QED
      BY <1>1, <1>2, <2>1 DEF MessagesArePushed, Numbered, Whole
  <1>6. ~overlapped' => OneAtATime'
    BY <1>1 DEF IInv, OneAtATime
  <1>7. ~overlapped' => NothingComesLate'
    BY <1>1, <1>2, <1>3 DEF IInv, NothingComesLate, MessagesArePushed
  <1>8. ~overlapped' => SchemasFollow'
    <2>1. LastSchema' = cache.of
      BY <1>1 DEF LastSchema
    <2>2. ~overlapped => \A p \in Pushers : push[p] # NoMessage => push[p].of = cache.of
      BY DEF IInv, OneAtATime
    <2> QED
      BY <1>1, <1>2, <2>1, <2>2 DEF SchemasFollow
  <1> QED
    BY <1>4, <1>5, <1>6, <1>7, <1>8 DEF IInv

LEMMA SubscribedStep ==
  ASSUME IInv, Subscribed
  PROVE  IInv'
  <1> USE ManagedStreamAssumption
  <1>1. /\ conn' = "on" /\ conn = "read"
        /\ wire' = IF reply = NoMessage THEN <<>> ELSE <<reply>>
        /\ UNCHANGED <<pushed, cache, push, overlapped, reply, schema, rows, drops, lost>>
    BY DEF Subscribed, server, browser
  <1>2. TypeOK /\ MessagesArePushed
    BY DEF IInv
  <1>3. \/ reply = NoMessage /\ wire' = <<>>
        \/ /\ reply \in Message /\ wire' = <<reply>> /\ wire' \in Seq(Message)
           /\ Len(wire') = 1 /\ DOMAIN wire' = {1} /\ wire'[1] = reply
    BY <1>1, <1>2 DEF TypeOK
  <1>4. TypeOK'
    BY <1>1, <1>2, <1>3 DEF TypeOK
  <1>5. MessagesArePushed'
    BY <1>1, <1>2, <1>3 DEF MessagesArePushed, Numbered, Whole, Meaningful
  <1>6. ~overlapped' => OneAtATime'
    BY <1>1 DEF IInv, OneAtATime
  <1>7. ~overlapped' => NothingComesLate'
    BY <1>1, <1>3 DEF IInv, NothingComesLate, Message
  <1>8. ~overlapped' /\ ~SchemaMissed' => SchemasFollow'
    <2> SUFFICES ASSUME ~overlapped, ~SchemaMissed PROVE SchemasFollow'
      BY <1>1 DEF SchemaMissed, Missed
    <2>1. SchemasFollow /\ LastSchema = reply.of
      BY <1>1 DEF IInv, LastSchema
    <2>2. reply = NoMessage => schema = None /\ reply.of = None
      BY <1>1, <1>2 DEF MessagesArePushed, NoMessage
    <2>3. LastSchema' = reply.of
      BY <1>1, <1>3, <2>2 DEF LastSchema
    <2>4. wire' # <<>> => wire'[1].schema # None
      BY <1>2, <1>3 DEF MessagesArePushed, Whole, Message
    <2> QED
      BY <1>1, <1>3, <2>1, <2>3, <2>4 DEF SchemasFollow
  <1> QED
    BY <1>4, <1>5, <1>6, <1>7, <1>8 DEF IInv

LEMMA DropStep ==
  ASSUME IInv, Drop
  PROVE  IInv'
  <1> USE ManagedStreamAssumption
  <1>1. /\ conn' = "down" /\ wire' = <<>> /\ drops' = drops + 1 /\ drops < MaxDrops
        /\ UNCHANGED <<pushed, cache, push, overlapped, reply, schema, rows, lost>>
    BY DEF Drop, server, browser
  <1>2. TypeOK'
    BY <1>1 DEF IInv, TypeOK
  <1>3. MessagesArePushed'
    BY <1>1 DEF IInv, MessagesArePushed, Numbered
  <1>4. ~overlapped' => OneAtATime' /\ NothingComesLate'
    BY <1>1 DEF IInv, OneAtATime, NothingComesLate
  <1>5. SchemasFollow'
    BY <1>1 DEF SchemasFollow
  <1> QED
    BY <1>2, <1>3, <1>4, <1>5 DEF IInv

(* The head of the wire becomes the last row, or none, and its schema the  *)
(* browser's.                                                              *)
LEMMA DeliverStep ==
  ASSUME IInv, Deliver
  PROVE  IInv'
  <1> USE ManagedStreamAssumption
  <1> DEFINE m == Head(wire)
             row == [n |-> m.n, of |-> m.of, as |-> schema']
             last == Len(rows) + 1
             Shown == rows' = Append(rows, row)
  <1>0. TypeOK /\ MessagesArePushed
    BY DEF IInv
  <1>1. /\ wire # <<>> /\ wire' = Tail(wire)
        /\ schema' = IF m.schema = None THEN schema ELSE m.schema
        /\ Shown \/ rows' = rows
        /\ UNCHANGED <<pushed, cache, push, overlapped, conn, reply, drops, lost>>
    BY DEF Deliver, server
  <1>2. /\ wire \in Seq(Message) /\ Len(wire) \in Nat \ {0}
        /\ DOMAIN wire = 1..Len(wire) /\ m = wire[1]
        /\ m \in Message /\ Numbered(m) /\ Meaningful(m)
    BY <1>0, <1>1, EmptySeq, HeadTailProperties DEF TypeOK, MessagesArePushed
  <1>3. /\ wire' \in Seq(Message) /\ Len(wire') = Len(wire) - 1
        /\ DOMAIN wire' = 1..Len(wire) - 1
        /\ \A k \in DOMAIN wire' : k + 1 \in DOMAIN wire /\ wire'[k] = wire[k + 1]
    BY <1>1, <1>2, HeadTailProperties, LenProperties
  <1>4. conn = "on"
    BY <1>0, <1>1 DEF MessagesArePushed
  <1>5. schema' \in Schemas \cup {None} /\ row \in BrowserRow
    BY <1>0, <1>1, <1>2 DEF TypeOK, Message, BrowserRow
  <1> HIDE DEF m
  <1>6. row.n = m.n
    OBVIOUS
  <1> HIDE DEF row
  <1>7. /\ rows \in Seq(BrowserRow) /\ Len(rows) \in Nat /\ DOMAIN rows = 1..Len(rows)
        /\ Shown => /\ rows' \in Seq(BrowserRow) /\ DOMAIN rows' = 1..last
                    /\ \A k \in 1..Len(rows) : rows'[k] = rows[k]
                    /\ rows'[last] = row
    <2>1. rows \in Seq(BrowserRow) /\ Len(rows) \in Nat /\ DOMAIN rows = 1..Len(rows)
      BY <1>0, LenProperties DEF TypeOK
    <2>2. ASSUME Shown
          PROVE  /\ rows' \in Seq(BrowserRow) /\ Len(rows') = last
                 /\ \A k \in 1..Len(rows) : rows'[k] = rows[k]
                 /\ rows'[last] = row
      BY <1>5, <2>1, <2>2, AppendProperties
    <2>3. Shown => DOMAIN rows' = 1..last
      BY <2>2, LenProperties
    <2> QED
      BY <2>1, <2>2, <2>3
  <1>8. Shown => \A k \in DOMAIN rows' : k = last \/ (k \in DOMAIN rows /\ k < last)
    <2>1. Len(rows) \in Nat
      BY <1>7
    <2>2. \A k \in 1..last : k = last \/ (k \in 1..Len(rows) /\ k < last)
      BY <2>1
    <2> QED
      BY <1>7, <2>2
  <1>9. TypeOK'
    BY <1>0, <1>1, <1>3, <1>5, <1>7 DEF TypeOK
  <1>10. MessagesArePushed'
    <2>1. m.n <= pushed /\ pushed # 0
      BY <1>2, <1>0 DEF Numbered, TypeOK
    <2>2. \A k \in DOMAIN rows' : rows'[k].n <= pushed
      BY <1>0, <1>1, <1>6, <1>7, <1>8, <2>1 DEF MessagesArePushed
    <2>3. \A k \in DOMAIN wire' : Numbered(wire'[k]) /\ Meaningful(wire'[k])
      BY <1>0, <1>3 DEF MessagesArePushed
    <2> QED
      BY <1>0, <1>1, <1>4, <2>1, <2>2, <2>3 DEF MessagesArePushed, Numbered, Meaningful
  <1>11. ~overlapped' => OneAtATime'
    BY <1>1 DEF IInv, OneAtATime
  <1>12. ~overlapped' => NothingComesLate'
    <2> SUFFICES ASSUME ~overlapped PROVE NothingComesLate'
      BY <1>1
    <2>1. NothingComesLate
      BY DEF IInv
    <2>2. \A j, k \in DOMAIN wire' : j < k => wire'[j].n <= wire'[k].n
      BY <1>2, <1>3, <2>1 DEF NothingComesLate
    <2>3. m.n \in Nat /\ \A k \in DOMAIN wire' : m.n <= wire'[k].n
      <3>1. 1 \in DOMAIN wire /\ \A k \in DOMAIN wire' : 1 < k + 1
        BY <1>2, <1>3
      <3>2. m.n \in Nat
        BY <1>2 DEF Message
      <3> QED
        BY <1>2, <1>3, <2>1, <3>1, <3>2 DEF NothingComesLate
    <2>4. \A j \in DOMAIN rows : rows[j].n <= m.n
      BY <1>2, <2>1 DEF NothingComesLate
    <2>5. \A j, k \in DOMAIN rows' : j < k => rows'[j].n <= rows'[k].n
      <3>1. ASSUME Shown, NEW j \in DOMAIN rows', NEW k \in DOMAIN rows', j < k
            PROVE  rows'[j].n <= rows'[k].n
        <4>1. j \in DOMAIN rows /\ rows'[j] = rows[j]
          BY <1>7, <1>8, <3>1
        <4>2. CASE k = last
          BY <1>6, <1>7, <2>4, <3>1, <4>1, <4>2
        <4>3. CASE k \in DOMAIN rows
          BY <1>7, <2>1, <3>1, <4>1, <4>3 DEF NothingComesLate
        <4> QED
          BY <1>8, <3>1, <4>2, <4>3
      <3> QED
        BY <1>1, <2>1, <3>1 DEF NothingComesLate
    <2>6. \A j \in DOMAIN rows', k \in DOMAIN wire' : rows'[j].n <= wire'[k].n
      BY <1>1, <1>3, <1>6, <1>7, <1>8, <2>1, <2>3 DEF NothingComesLate
    <2> QED
      BY <1>1, <1>4, <2>2, <2>5, <2>6 DEF NothingComesLate
  <1>13. ~overlapped' /\ ~SchemaMissed' => SchemasFollow'
    <2> SUFFICES ASSUME ~overlapped, ~SchemaMissed PROVE SchemasFollow'
      BY <1>1 DEF SchemaMissed, Missed
    <2>1. SchemasFollow
      BY DEF IInv
    <2>2. schema' = m.of
      BY <1>1, <1>2, <1>4, <2>1 DEF SchemasFollow, Meaningful
    <2>3. LastSchema' = LastSchema
      <3>1. CASE wire' = <<>>
        <4>1. Len(wire) = 1
          <5>1. Len(wire') = 0
            BY <3>1
          <5> QED
            BY <1>2, <1>3, <5>1
        <4> QED
          BY <1>1, <1>2, <1>4, <2>2, <3>1, <4>1 DEF LastSchema
      <3>2. CASE wire' # <<>>
        BY <1>1, <1>2, <1>3, <1>4, <3>2 DEF LastSchema
      <3> QED
        BY <3>1, <3>2
    <2>4. wire' # <<>> /\ wire'[1].schema = None => wire'[1].of = schema'
      BY <1>2, <1>3, <1>4, <2>1, <2>2, EmptySeq DEF SchemasFollow
    <2>5. \A k \in 2..Len(wire') : wire'[k].schema = None => wire'[k].of = wire'[k - 1].of
      BY <1>2, <1>3, <1>4, <2>1 DEF SchemasFollow
    <2> QED
      BY <1>1, <1>4, <2>1, <2>3, <2>4, <2>5 DEF SchemasFollow
  <1> QED
    BY <1>9, <1>10, <1>11, <1>12, <1>13 DEF IInv

LEMMA NextIInv == IInv /\ [Next]_vars => IInv'
  <1>1. IInv /\ UNCHANGED vars => IInv'
    BY DEF vars, server, browser, IInv, TypeOK, MessagesArePushed, Numbered, OneAtATime,
           NothingComesLate, SchemasFollow, SchemaMissed, Missed, LastSchema
  <1> QED
    BY <1>1, UpdateStep, PublishStep, SubscribeStep, OnSubscribeStep, SubscribedStep, DropStep,
       DeliverStep DEF Next

LEMMA SpecIInv == Spec => []IInv
  BY InitIInv, NextIInv, PTL DEF Spec

-----------------------------------------------------------------------------
(* Type correctness, the cache holding the last push included.             *)
THEOREM TypeCorrect == Spec => []TypeOK
  <1>1. IInv => TypeOK
    BY DEF IInv
  <1> QED
    BY <1>1, SpecIInv, PTL

(* Data without its schema was pushed with the schema the browser has,     *)
(* whatever is lost, for any number of pushers and lost connections.       *)
THEOREM DataReadAsPushed == Spec => []ReadAsPushed
  <1>1. IInv => ReadAsPushed
    <2> SUFFICES ASSUME IInv, ~overlapped, ~SchemaMissed, wire # <<>>, Head(wire).schema = None
                 PROVE  Head(wire).of = schema
      BY DEF ReadAsPushed
    <2>1. SchemasFollow /\ conn = "on"
      BY DEF IInv, MessagesArePushed
    <2>2. Head(wire) = wire[1]
      BY DEF IInv, TypeOK
    <2> QED
      BY <2>1, <2>2 DEF SchemasFollow
  <1> QED
    BY <1>1, SpecIInv, PTL

(* No row is shown after a newer one.                                      *)
THEOREM RowsInOrder == Spec => []InOrder
  <1>1. IInv => InOrder
    BY DEF IInv, NothingComesLate, InOrder
  <1> QED
    BY <1>1, SpecIInv, PTL
=============================================================================
