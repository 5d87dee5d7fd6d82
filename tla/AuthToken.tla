----------------------------- MODULE AuthToken -----------------------------
(***************************************************************************)
(* A session: the row of user_auth_token (UserAuthTokenService, pkg/       *)
(* services/auth/authimpl), the browser's cookie, and the requests in      *)
(* between.  A request looks its cookie up when it arrives and rotates the *)
(* token, on the row it read then, when its response is about to be        *)
(* written (ContextHandler).  The response may be lost.                    *)
(*                                                                         *)
(* Tokens are numbered as they are made, 0 is no cookie.  A request may    *)
(* take any time between its steps.  Servers share a clock and the         *)
(* database executes one statement at a time.                              *)
(***************************************************************************)
EXTENDS Naturals

CONSTANTS Requests,
          Grace,             \* 30 seconds: an unseen token younger than that stays
          UrgentRotateTime,  \* a minute
          Interval,          \* TokenRotationIntervalMinutes, at least 2
          Lifetime,          \* LoginMaxInactiveLifetime
          Short,             \* what a request takes that is not slow
          Start,             \* how long ago the session was created
          MaxTime,           \* bound on the clock
          MaxSends,          \* bound on the requests that are sent
          NoRow

Token == Nat
Row == [auth : Token, prev : Token, seen : BOOLEAN, rotated : Nat]

ASSUME AuthTokenAssumption ==
  /\ {Grace, UrgentRotateTime, Interval, Lifetime, Short, Start, MaxTime, MaxSends} \subseteq Nat
  /\ Start <= MaxTime
  /\ 2 * Short <= Grace /\ Grace <= UrgentRotateTime /\ UrgentRotateTime <= Interval
  /\ NoRow \notin Row

VARIABLES
  now,
  row,      \* of the session
  jar,      \* the cookie of the browser
  newest,   \* the number of the newest token
  pc,       \* request -> see TypeOK
  cookie,   \* request -> the cookie it came with, or brings back
  model,    \* request -> the row it has read
  age,      \* request -> how long ago it was sent, at most Short + 1
  at,       \* request -> when it looked at what its next write rests on:
            \* the row in "prevseen", the clock in "update"
  sends,    \* how many requests were sent
  late,     \* history: a slow request has changed the token
  stalled   \* history: a write has come long after what it rests on

request == <<pc, cookie, model, age, at>>
history == <<sends, late, stalled>>
vars == <<now, row, jar, newest, request, history>>

(* CreateToken                                                             *)
New == [auth |-> 1, prev |-> 1, seen |-> FALSE, rotated |-> 0]

(* The session was created Start ago, and has not been used yet.           *)
Init ==
  /\ now = Start
  /\ row = New
  /\ jar = 1 /\ newest = 1
  /\ pc = [q \in Requests |-> "idle"]
  /\ cookie = [q \in Requests |-> 0]
  /\ model = [q \in Requests |-> New]
  /\ age = [q \in Requests |-> 0]
  /\ at = [q \in Requests |-> 0]
  /\ sends = 0 /\ late = FALSE /\ stalled = FALSE

Tick ==
  /\ now < MaxTime
  /\ now' = now + 1
  /\ age' = [q \in Requests |-> IF pc[q] = "idle" \/ age[q] > Short THEN age[q] ELSE age[q] + 1]
  /\ UNCHANGED <<row, jar, newest, pc, cookie, model, at, history>>

Goto(q, from, to) ==
  /\ pc[q] = from
  /\ pc' = [pc EXCEPT ![q] = to]

(* A time in a row is before a moment n ago.                               *)
Before(t, n) == t + n < now
Expired(r) == r.rotated + Lifetime <= now

(* What the history tells apart, and what it records of a write.           *)
Slow(q) == age[q] > Short
Stalls(q) == Before(at[q], Short)

Record(q) ==
  /\ late' = (late \/ Slow(q))
  /\ stalled' = (stalled \/ Stalls(q))
  /\ UNCHANGED sends

Send(q) ==
  /\ jar # 0
  /\ sends < MaxSends
  /\ sends' = sends + 1
  /\ Goto(q, "idle", "lookup")
  /\ cookie' = [cookie EXCEPT ![q] = jar]
  /\ UNCHANGED <<now, row, jar, newest, model, age, at, late, stalled>>

-----------------------------------------------------------------------------
Accepts(r, c) == r # NoRow /\ c \in {r.auth, r.prev}

(* LookupToken: not found, and the response will delete the cookie ...     *)
NotFound(q) ==
  /\ ~Accepts(row, cookie[q])
  /\ Goto(q, "lookup", "respond")
  /\ cookie' = [cookie EXCEPT ![q] = 0]
  /\ UNCHANGED <<now, row, jar, newest, model, age, at, history>>

(* ... or found.                                                           *)
Found(q) ==
  /\ Accepts(row, cookie[q]) /\ ~Expired(row)
  /\ Goto(q, "lookup", IF cookie[q] = row.auth
                       THEN IF row.seen THEN "rotate" ELSE "seen"
                       ELSE IF row.seen THEN "prevseen" ELSE "rotate")
  /\ model' = [model EXCEPT ![q] = row]
  /\ at' = IF pc'[q] = "prevseen" THEN [at EXCEPT ![q] = now] ELSE at
  /\ UNCHANGED <<now, row, jar, newest, cookie, age, history>>

(* Mutant: the copy is written however new the row's token is.             *)
PrevSeenAtOnce(q) ==
  /\ Goto(q, "prevseen", "rotate")
  /\ IF row # NoRow /\ row.prev = model[q].prev
     THEN /\ row' = [model[q] EXCEPT !.seen = FALSE]
          /\ Record(q)
     ELSE UNCHANGED <<row, history>>
  /\ at' = [at EXCEPT ![q] = 0]
  /\ UNCHANGED <<now, jar, newest, cookie, model, age>>

(* The previous token is still in use: all columns of the copy are         *)
(* written, with the token unseen.                                         *)
PrevSeen(q) ==
  /\ Goto(q, "prevseen", "rotate")
  /\ IF row # NoRow /\ row.prev = model[q].prev /\ Before(row.rotated, UrgentRotateTime)
     THEN /\ row' = [model[q] EXCEPT !.seen = FALSE]
          /\ Record(q)
     ELSE UNCHANGED <<row, history>>
  /\ at' = [at EXCEPT ![q] = 0]
  /\ UNCHANGED <<now, jar, newest, cookie, model, age>>

(* Mutant: the copy is written whatever token the row has by now.          *)
SeenById(q) ==
  /\ Goto(q, "seen", "rotate")
  /\ IF row # NoRow
     THEN /\ row' = [model[q] EXCEPT !.seen = TRUE]
          /\ model' = [model EXCEPT ![q].seen = TRUE]
     ELSE UNCHANGED <<row, model>>
  /\ UNCHANGED <<now, jar, newest, cookie, age, at, history>>

(* The token is in use for the first time: all columns, with it seen.      *)
Seen(q) ==
  /\ Goto(q, "seen", "rotate")
  /\ IF row # NoRow /\ row.auth = model[q].auth
     THEN /\ row' = [model[q] EXCEPT !.seen = TRUE]
          /\ model' = [model EXCEPT ![q].seen = TRUE]
     ELSE UNCHANGED <<row, model>>
  /\ UNCHANGED <<now, jar, newest, cookie, age, at, history>>

-----------------------------------------------------------------------------
NeedsRotation(r) == Before(r.rotated, IF r.seen THEN Interval ELSE UrgentRotateTime)

(* TryRotateToken: the clock is read, and on it rests the rest.            *)
TryRotateToken(q) ==
  /\ NeedsRotation(model[q])
  /\ Goto(q, "rotate", "update")
  /\ at' = [at EXCEPT ![q] = now]
  /\ UNCHANGED <<now, row, jar, newest, cookie, model, age, history>>

(* Its UPDATE writes the row r: what else it takes.                        *)
Rotated(q, r) ==
  /\ row # NoRow /\ (row.seen \/ row.rotated + Grace < at[q])
  /\ Goto(q, "update", "respond")
  /\ newest' = newest + 1
  /\ row' = r
  /\ cookie' = [cookie EXCEPT ![q] = newest + 1]
  /\ at' = [at EXCEPT ![q] = 0]
  /\ Record(q)
  /\ UNCHANGED <<now, jar, model, age>>

(* Mutants: an unseen token becomes the previous one; RotatedAt is the     *)
(* time from which the token may be rotated again.                         *)
RotateUnseen(q) ==
  Rotated(q, [auth |-> newest + 1, prev |-> row.auth, seen |-> FALSE, rotated |-> at[q]])

RotateAhead(q) ==
  Rotated(q, [auth |-> newest + 1, prev |-> IF row.seen THEN row.auth ELSE row.prev,
              seen |-> FALSE, rotated |-> at[q] + UrgentRotateTime])

(* One UPDATE, on the row as it is now.                                    *)
Rotate(q) ==
  Rotated(q, [auth |-> newest + 1, prev |-> IF row.seen THEN row.auth ELSE row.prev,
              seen |-> FALSE, rotated |-> at[q]])

Finish(q) ==
  /\ pc' = [pc EXCEPT ![q] = "idle"]
  /\ cookie' = [cookie EXCEPT ![q] = 0]
  /\ model' = [model EXCEPT ![q] = New]
  /\ age' = [age EXCEPT ![q] = 0]
  /\ at' = [at EXCEPT ![q] = 0]
  /\ UNCHANGED <<now, row, newest, sends, stalled>>

(* The response sets the cookie or deletes it.                             *)
Respond(q) ==
  /\ pc[q] = "respond"
  /\ jar' = cookie[q]
  /\ late' = (late \/ (cookie[q] # 0 /\ Slow(q)))
  /\ Finish(q)

(* The response sets no cookie, because the token is expired, needs no     *)
(* rotation, another request has rotated it or the database failed; or it  *)
(* is lost.                                                                *)
End(q) ==
  /\ pc[q] # "idle"
  /\ Finish(q)
  /\ UNCHANGED <<jar, late>>

(* RevokeAllUserTokens, or deleteExpiredTokens.                            *)
Delete ==
  /\ row' = NoRow
  /\ UNCHANGED <<now, jar, newest, request, history>>

-----------------------------------------------------------------------------
Next ==
  \/ Tick
  \/ Delete
  \/ \E q \in Requests : \/ Send(q) \/ NotFound(q) \/ Found(q) \/ PrevSeen(q) \/ Seen(q)
                         \/ TryRotateToken(q) \/ Rotate(q) \/ Respond(q) \/ End(q)

Spec == Init /\ [][Next]_vars

-----------------------------------------------------------------------------
TypeOK ==
  /\ now \in 0..MaxTime
  /\ row \in Row \cup {NoRow}
  /\ row # NoRow => row.prev <= row.auth /\ row.auth <= newest /\ row.rotated <= now
  /\ jar \in 0..newest /\ newest \in Nat
  /\ pc \in [Requests -> {"idle", "lookup", "prevseen", "seen", "rotate", "update", "respond"}]
  /\ cookie \in [Requests -> 0..newest]
  /\ model \in [Requests -> Row]
  /\ age \in [Requests -> 0..(Short + 1)] /\ at \in [Requests -> 0..now]
  /\ sends \in 0..MaxSends /\ late \in BOOLEAN /\ stalled \in BOOLEAN

(* As long as there is a session, the cookie that the browser has and      *)
(* every token on its way to it are the token of the session or the one    *)
(* before, whatever responses are lost and however requests overlap; until *)
(* a request that takes longer than Short, 15 seconds, rotates the token,  *)
(* marks it unseen or brings it to the browser.  Such a request may rotate *)
(* again while the browser has a token that was not used yet, or bring it  *)
(* one that was rotated meanwhile.  A request on its way with an older     *)
(* cookie may still come too late, and then its response deletes the       *)
(* cookie.                                                                 *)
CookieAccepted ==
  row # NoRow /\ ~late =>
    /\ jar # 0 => Accepts(row, jar)
    /\ \A q \in Requests :
         pc[q] = "respond" /\ cookie[q] # 0 /\ ~Slow(q) => Accepts(row, cookie[q])

(* The columns that LookupToken writes back from an older copy never       *)
(* restore an older token, until a write comes more than 15 seconds after  *)
(* the read of the row or of the clock that it rests on; and a deleted     *)
(* session stays deleted.                                                  *)
NeverRestored ==
  [][row' # NoRow => row # NoRow /\ (~stalled' => row.auth <= row'.auth)]_row
=============================================================================
