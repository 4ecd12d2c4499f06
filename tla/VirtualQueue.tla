---------------------------- MODULE VirtualQueue ----------------------------
(***************************************************************************)
(* The virtual queue of one event.  Users join a sorted set in Redis; a    *)
(* release worker counts the passes in use, takes users from the head and  *)
(* stores a pass for each, which is also published to the users that watch *)
(* a stream; a user that polls and finds itself at the head is given a     *)
(* pass at once.  A pass lets its holder reserve; it is deleted after the  *)
(* reservation, in the background.                                         *)
(*                                                                         *)
(* Every Redis command is a step of its own, and may have been carried out *)
(* when its reply is lost.  Scores, which are times of joining, are        *)
(* numbered.  Of a pass the model keeps who signed it and who has it while *)
(* it is stored: a pass that is not stored any more opens nothing, so it   *)
(* is as good as none.  Waiting times and the configuration's cache are    *)
(* left out.                                                               *)
(***************************************************************************)
EXTENDS Integers, FiniteSets

CONSTANTS
  User,
  Releaser,     \* release workers; nothing keeps a second one from running
  Poll,         \* position requests and streams; a user may have several
  Request,      \* reservations in the booking handler
  Limit,        \* max_concurrent_bookings
  MaxQueue,     \* max_queue_size; 0 is unlimited
  MaxJoins,     \* bounds on how often each user joins
  MaxStops      \* bound on crashes of workers and on commands that fail

Client == "client"   \* the client of a user, beside the requests and the workers

ASSUME QueueAssumption ==
  /\ {Limit, MaxQueue, MaxStops} \subseteq Nat
  /\ MaxJoins \in [User -> Nat]
  /\ IsFiniteSet(User) /\ IsFiniteSet(Releaser)
  /\ Client \notin Releaser

VARIABLES
  line,      \* queue:{event}: the score of each user in it
  arrivals,  \* how many scores were given
  joins,     \* how often a user has joined
  pass,      \* queue:pass:{event}:{user}: who signed the pass
  has,       \* where that pass is: on its way, or the last its user's client was given
  poll,      \* what each position request is doing
  releaser,  \* what each release worker is doing
  request,   \* what each reservation is doing
  stops      \* crashes and failed commands so far

queueVars ==
  <<line, arrivals, joins, pass, has, poll, releaser, request, stops>>

NoScore == 0
NoPass == "none"
Idle == [at |-> "idle"]
Nobody == "nobody"

Waiting == {u \in User : line[u] # NoScore}
Asking == [at : {"head", "gone", "answer"}, user : User]
Releasing == [at : {"read", "take", "store", "publish"}, room : 0..Limit, batch : SUBSET (User \X Nat)]

QueueTypeOK ==
  /\ line \in [User -> 0..arrivals] /\ \A u, v \in Waiting : line[u] = line[v] => u = v
  /\ arrivals \in Nat
  /\ joins \in [User -> Nat] /\ \A u \in User : joins[u] <= MaxJoins[u]
  /\ pass \in [User -> {"service", "worker", NoPass}]
  /\ has \in [User -> SUBSET ({Client} \union Poll \union Releaser)]
  /\ \A u \in User : pass[u] = NoPass => has[u] = {}
  /\ poll \in [Poll -> Asking \union {Idle}]
  /\ releaser \in [Releaser -> Releasing \union {Idle}]
  /\ \A r \in Releaser : releaser[r] # Idle => Cardinality(releaser[r].batch) <= releaser[r].room
  /\ request \in [Request -> User \union {Nobody}]
  /\ stops \in 0..MaxStops

QueueInit ==
  /\ line = [u \in User |-> NoScore]
  /\ arrivals = 0
  /\ joins = [u \in User |-> 0]
  /\ pass = [u \in User |-> NoPass]
  /\ has = [u \in User |-> {}]
  /\ poll = [p \in Poll |-> Idle]
  /\ releaser = [r \in Releaser |-> Idle]
  /\ request = [q \in Request |-> Nobody]
  /\ stops = 0

\* A new pass is stored for a user, and those who signed it have it.
Store(u, by, who) == pass' = [pass EXCEPT ![u] = by] /\ has' = [has EXCEPT ![u] = who]
\* What somebody brings is the last pass the client was given, the stored one or not; or
\* it is lost on the way.
Deliver(u, by) ==
  \/ has' = [has EXCEPT ![u] = IF by \in @ THEN (@ \ {by}) \union {Client} ELSE @ \ {Client}]
  \/ has' = [has EXCEPT ![u] = @ \ {by}]

Active == {u \in User : pass[u] # NoPass}
Fails == stops < MaxStops /\ stops' = stops + 1

(***************************************************************************)
(* Joining is one script.  A user leaves while it waits; the entry with    *)
(* its token, which lives 30 minutes, is left out.                         *)
(***************************************************************************)
Join(u) ==
  /\ u \notin Waiting
  /\ MaxQueue > 0 => Cardinality(Waiting) < MaxQueue
  /\ joins[u] < MaxJoins[u]
  /\ arrivals' = arrivals + 1
  /\ line' = [line EXCEPT ![u] = arrivals + 1]
  /\ joins' = [joins EXCEPT ![u] = @ + 1]
  /\ UNCHANGED <<pass, has, poll, releaser, request, stops>>

Leave(u) ==
  /\ u \in Waiting
  /\ line' = [line EXCEPT ![u] = NoScore]
  /\ UNCHANGED <<arrivals, joins, pass, has, poll, releaser, request, stops>>

\* Those in front of a user; how many they are is the rank.
Ahead(u) == {v \in Waiting : line[v] < line[u]}
AtHead(u) == u \in Waiting /\ Ahead(u) = {}

(***************************************************************************)
(* GetPosition, which streams call as well.  Requests of one user, another *)
(* device or a retry, may run side by side.                                *)
(***************************************************************************)
\* Mutant: a rank counted from zero is compared as a position counted from one.
AskAsSecond(p, u) ==
  /\ poll[p] = Idle
  /\ joins[u] > 0
  /\ \/ /\ u \in Waiting /\ Cardinality(Ahead(u)) <= 1
        /\ poll' = [poll EXCEPT ![p] = [at |-> "head", user |-> u]]
     \/ u \notin Waiting /\ poll' = [poll EXCEPT ![p] = [at |-> "gone", user |-> u]]
  /\ UNCHANGED <<line, arrivals, joins, pass, has, releaser, request, stops>>

AskPosition(p, u) ==
  /\ poll[p] = Idle
  /\ joins[u] > 0
  /\ \/ AtHead(u) /\ poll' = [poll EXCEPT ![p] = [at |-> "head", user |-> u]]
     \/ u \notin Waiting /\ poll' = [poll EXCEPT ![p] = [at |-> "gone", user |-> u]]
  /\ UNCHANGED <<line, arrivals, joins, pass, has, releaser, request, stops>>

\* Who is not in the queue may have been released.
FetchPass(p) ==
  /\ poll[p].at = "gone"
  /\ \/ /\ pass[poll[p].user] # NoPass
        /\ has' = [has EXCEPT ![poll[p].user] = @ \union {p}]
        /\ poll' = [poll EXCEPT ![p].at = "answer"]
     \/ UNCHANGED has /\ poll' = [poll EXCEPT ![p] = Idle]
  /\ UNCHANGED <<line, arrivals, joins, pass, releaser, request, stops>>

\* The user at the head is given a pass, whatever the limit, and stays there.  When
\* the command fails, carried out or not, the answer comes without the pass.
StoreAtHead(p) ==
  /\ poll[p].at = "head"
  /\ \/ Store(poll[p].user, "service", {p}) /\ poll' = [poll EXCEPT ![p].at = "answer"]
     \/ Store(poll[p].user, "service", {}) /\ poll' = [poll EXCEPT ![p] = Idle]
     \/ UNCHANGED <<pass, has>> /\ poll' = [poll EXCEPT ![p] = Idle]
  /\ UNCHANGED <<line, arrivals, joins, releaser, request, stops>>

Answered(p) ==
  /\ poll[p].at = "answer"
  /\ Deliver(poll[p].user, p)
  /\ poll' = [poll EXCEPT ![p] = Idle]
  /\ UNCHANGED <<line, arrivals, joins, pass, releaser, request, stops>>

(***************************************************************************)
(* The release worker, once a second.                                      *)
(***************************************************************************)
\* Mutant: only the passes of users still in the queue are counted.
CountWaiting(r) ==
  /\ releaser[r] = Idle
  /\ Cardinality(Active \intersect Waiting) < Limit
  /\ releaser' = [releaser EXCEPT ![r] =
       [at |-> "read", room |-> Limit - Cardinality(Active \intersect Waiting), batch |-> {}]]
  /\ UNCHANGED <<line, arrivals, joins, pass, has, poll, request, stops>>

\* Mutant: one place is always kept free.
CountReserved(r) ==
  /\ releaser[r] = Idle
  /\ Cardinality(Active) + 1 < Limit
  /\ releaser' = [releaser EXCEPT ![r] =
       [at |-> "read", room |-> Limit - Cardinality(Active) - 1, batch |-> {}]]
  /\ UNCHANGED <<line, arrivals, joins, pass, has, poll, request, stops>>

Count(r) ==
  /\ releaser[r] = Idle
  /\ Cardinality(Active) < Limit
  /\ releaser' = [releaser EXCEPT ![r] =
       [at |-> "read", room |-> Limit - Cardinality(Active), batch |-> {}]]
  /\ UNCHANGED <<line, arrivals, joins, pass, has, poll, request, stops>>

\* Mutant: the last so many.
TailOfLine(n) ==
  {<<u, line[u]>> : u \in {v \in Waiting : Cardinality({w \in Waiting : line[w] > line[v]}) < n}}
\* Mutant: from the first to the last, both included.
HeadAndOneMore(n) == {<<u, line[u]>> : u \in {v \in Waiting : Cardinality(Ahead(v)) <= n}}

\* The first so many of the queue, with their scores.
HeadOfLine(n) == {<<u, line[u]>> : u \in {v \in Waiting : Cardinality(Ahead(v)) < n}}

ReadHead(r) ==
  /\ releaser[r].at = "read"
  /\ LET head == HeadOfLine(releaser[r].room)
     IN releaser' = [releaser EXCEPT ![r] =
          IF head = {} THEN Idle ELSE [@ EXCEPT !.at = "take", !.batch = head]]
  /\ UNCHANGED <<line, arrivals, joins, pass, has, poll, request, stops>>

BatchOf(r) == {b[1] : b \in releaser[r].batch}

TakenFromLine(r) ==
  /\ releaser[r].at = "take"
  /\ line' = [u \in User |-> IF u \in BatchOf(r) THEN NoScore ELSE line[u]]

TakeBatch(r) ==
  /\ TakenFromLine(r)
  /\ releaser' = [releaser EXCEPT ![r].at = "store"]
  /\ UNCHANGED <<arrivals, joins, pass, has, poll, request, stops>>

\* The batch is worked through in the order of the scores.
IsNext(b, batch) == b \in batch /\ \A c \in batch : b[2] <= c[2]

StorePass(r) ==
  /\ releaser[r].at = "store"
  /\ \E b \in releaser[r].batch : IsNext(b, releaser[r].batch) /\ Store(b[1], "worker", {r})
  /\ releaser' = [releaser EXCEPT ![r].at = "publish"]
  /\ UNCHANGED <<line, arrivals, joins, poll, request, stops>>

NextOfBatch(r, b) ==
  LET rest == releaser[r].batch \ {b}
  IN releaser' = [releaser EXCEPT ![r] =
       IF rest = {} THEN Idle ELSE [@ EXCEPT !.at = "store", !.batch = rest]]

\* Only a stream that has subscribed by now hears of it.
PublishPass(r) ==
  /\ releaser[r].at = "publish"
  /\ \E b \in releaser[r].batch :
       IsNext(b, releaser[r].batch) /\ Deliver(b[1], r) /\ NextOfBatch(r, b)
  /\ UNCHANGED <<line, arrivals, joins, pass, poll, request, stops>>

(***************************************************************************)
(* A command that fails may have been carried out.  Counting and taking    *)
(* are given up, with users who were taken or not; a user whose pass       *)
(* cannot be stored is passed over, with a pass that was stored or not.    *)
(***************************************************************************)
TakingFails(r) ==
  /\ releaser[r].at \in {"read", "take"}
  /\ Fails
  /\ UNCHANGED line \/ TakenFromLine(r)
  /\ releaser' = [releaser EXCEPT ![r] = Idle]
  /\ UNCHANGED <<arrivals, joins, pass, has, poll, request>>

StoringFails(r) ==
  /\ releaser[r].at = "store"
  /\ Fails
  /\ \E b \in releaser[r].batch :
       /\ IsNext(b, releaser[r].batch) /\ NextOfBatch(r, b)
       /\ UNCHANGED <<pass, has>> \/ Store(b[1], "worker", {})
  /\ UNCHANGED <<line, arrivals, joins, poll, request>>

WorkerStops(r) ==
  /\ releaser[r] # Idle
  /\ Fails
  /\ releaser' = [releaser EXCEPT ![r] = Idle]
  /\ has' = [u \in User |-> has[u] \ {r}]
  /\ UNCHANGED <<line, arrivals, joins, pass, poll, request>>

PassExpires(u) ==
  /\ pass[u] # NoPass
  /\ Store(u, NoPass, {})
  /\ UNCHANGED <<line, arrivals, joins, poll, releaser, request, stops>>

(***************************************************************************)
(* A reservation in the booking handler.                                   *)
(***************************************************************************)
\* The pass is compared with the stored one; then the seats are reserved or not.
Reserve(q, u) ==
  /\ request[q] = Nobody
  /\ Client \in has[u]
  /\ request' = [request EXCEPT ![q] = u]
  /\ UNCHANGED <<line, arrivals, joins, pass, has, poll, releaser, stops>>

\* The key is the user's: what it holds by now is deleted.  No reservation was
\* made, or the request's context is gone before the command is sent: it is not.
DeletePass(q) ==
  /\ request[q] # Nobody
  /\ Store(request[q], NoPass, {}) \/ UNCHANGED <<pass, has>>
  /\ request' = [request EXCEPT ![q] = Nobody]
  /\ UNCHANGED <<line, arrivals, joins, poll, releaser, stops>>

Releases(r) == ReadHead(r) \/ TakeBatch(r) \/ StorePass(r) \/ PublishPass(r)

QueueNext ==
  \/ \E u \in User : Join(u) \/ Leave(u) \/ PassExpires(u)
  \/ \E p \in Poll : FetchPass(p) \/ StoreAtHead(p) \/ Answered(p) \/ \E u \in User : AskPosition(p, u)
  \/ \E r \in Releaser : Count(r) \/ Releases(r) \/ TakingFails(r) \/ StoringFails(r) \/ WorkerStops(r)
  \/ \E q \in Request : DeletePass(q) \/ \E u \in User : Reserve(q, u)

\* A pass is stored again, with its whole lifetime, whenever its user asks at the head
\* of the line: while the user keeps asking it need never expire.
AsksAtHead(u) == \E p \in Poll : poll[p].at = "head" /\ poll[p].user = u
ExpiresUnasked(u) == ~AsksAtHead(u) /\ PassExpires(u)

\* The worker's ticker fires every second, Redis expires keys that are not stored
\* again, and what a worker began it finishes.  Nobody has to ask, join or leave.
QueueSpec ==
  /\ QueueInit /\ [][QueueNext]_queueVars
  /\ \A r \in Releaser : WF_queueVars(Count(r)) /\ WF_queueVars(Releases(r))
  /\ \A u \in User : WF_queueVars(ExpiresUnasked(u))

(***************************************************************************)
(* Properties                                                              *)
(***************************************************************************)
\* A user who is taken from the line for the place that was read leaves nobody
\* behind who stood in front, whoever joined, left or was taken meanwhile, and
\* whether or not the worker hears that it took them.
FirstComeFirstServed ==
  [][\A r \in Releaser : releaser[r].at = "take" /\ releaser'[r] # releaser[r] =>
       \A b \in releaser[r].batch :
         line[b[1]] = b[2] /\ b[1] \notin Waiting' => Ahead(b[1]) \intersect Waiting' = {}]_queueVars

\* Every worker counts before it takes, so however their steps interleave the
\* passes that workers have stored and have yet to store stay within the limit
\* once per worker.  What GetPosition gives the head of the line comes on top.
Stored == {u \in User : pass[u] = "worker"}
Yet(worker) ==
  IF worker = Idle THEN 0
  ELSE IF worker.at = "read" THEN worker.room
  ELSE Cardinality(worker.batch) - (IF worker.at = "publish" THEN 1 ELSE 0)
ToStore == UNION {{r} \X (1..Yet(releaser[r])) : r \in Releaser}
PassesBounded == Cardinality(Stored) + Cardinality(ToStore) <= Cardinality(Releaser) * Limit

\* A stored pass that its user was not given, because the answer or the message
\* was lost or a later pass took its place, is not out of reach: who asks again
\* is given it or, at the head, a new one.  The exception is a user who joined
\* again while being released and waits behind others with a pass it cannot have.
PassWithinReach ==
  \A u \in User : pass[u] # NoPass /\ Client \notin has[u] => u \notin Waiting \/ AtHead(u) \/ joins[u] > 1

\* Who waits is taken from the line in the end, if the users at its head stop asking:
\* as long as one asks, its pass fills a place, and with a limit of one the only place,
\* so that no worker releases anybody.
EveryoneServed ==
  <>[](\A u \in User : ~AsksAtHead(u)) => \A u \in User : u \in Waiting ~> u \notin Waiting
=============================================================================
