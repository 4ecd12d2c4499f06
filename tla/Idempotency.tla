----------------------------- MODULE Idempotency -----------------------------
(***************************************************************************)
(* Requests that carry one idempotency key, from the gateway's proxy       *)
(* through the idempotency middleware to the handler.  The client sends    *)
(* its request again when the gateway gave it up, and may use the key for  *)
(* another request.  The middleware keeps one record in Redis: that a      *)
(* request is being processed (60 seconds) or how it was answered (5       *)
(* minutes).  When Redis fails the request is let through.                 *)
(***************************************************************************)
EXTENDS Integers, FiniteSets

CONSTANTS
  Attempt,     \* requests sent with the key, first ones and repetitions
  Content,     \* what they ask for: method, path, user and body
  MaxMishaps   \* bound on records that expire and looks at them that fail

ASSUME MishapAssumption == MaxMishaps \in Nat

VARIABLES
  mark,      \* idempotency:{key}
  attempt,   \* where each request stands
  carried,   \* requests whose handler took effect
  expired,   \* how often the record has expired
  failed     \* how often Redis failed before the handler ran

idemVars == <<mark, attempt, carried, expired, failed>>

NoMark == [status |-> "none"]
Mark(status, a) == [status |-> status, content |-> attempt[a].content, of |-> a]
Unsent == [at |-> "unsent"]
\* "again" is the second look after the record could not be set; "answered" has
\* the request whose answer was given.
Stage == {"read", "set", "again", "run", "save", "answered", "refused"}
Sent == [at : Stage, content : Content, cut : BOOLEAN, marks : BOOLEAN, answer : Attempt]

IdemTypeOK ==
  /\ mark \in [status : {"processing", "completed"}, content : Content, of : Attempt] \union {NoMark}
  /\ attempt \in [Attempt -> Sent \union {Unsent}]
  /\ carried \subseteq Attempt
  /\ expired \in 0..MaxMishaps /\ failed \in 0..MaxMishaps

IdemInit ==
  /\ mark = NoMark
  /\ attempt = [a \in Attempt |-> Unsent]
  /\ carried = {}
  /\ expired = 0 /\ failed = 0

At(a, stage) == attempt[a].at = stage
Moves(a, stage) == attempt' = [attempt EXCEPT ![a].at = stage]
Answers(a, b) == attempt' = [attempt EXCEPT ![a].at = "answered", ![a].answer = b]

\* Commands fail when Redis does, and when the request's context has ended.
LookFails ==
  /\ expired + failed < MaxMishaps
  /\ failed' = failed + 1

(***************************************************************************)
(* The gateway                                                             *)
(***************************************************************************)
\* The proxy finds the service and forwards the request with a deadline.
Forward(a, c) ==
  /\ attempt[a] = Unsent
  /\ attempt' = [attempt EXCEPT ![a] = [at |-> "read", content |-> c, cut |-> FALSE, marks |-> FALSE, answer |-> a]]
  /\ UNCHANGED <<mark, carried, expired, failed>>

\* The deadline passes or the connection breaks: the client is told 504 or 502,
\* the request's context ends, and the service may go on.
CutOff(a) ==
  /\ attempt[a] # Unsent
  /\ attempt[a].at \notin {"answered", "refused"}
  /\ ~attempt[a].cut
  /\ attempt' = [attempt EXCEPT ![a].cut = TRUE]
  /\ UNCHANGED <<mark, carried, expired, failed>>

(***************************************************************************)
(* The middleware                                                          *)
(***************************************************************************)
ReadMark(a) ==
  /\ At(a, "read")
  /\ ~attempt[a].cut
  /\ \/ mark = NoMark /\ Moves(a, "set")
     \/ /\ mark # NoMark
        /\ mark.content # attempt[a].content \/ mark.status = "processing"
        /\ Moves(a, "refused")
     \/ /\ mark # NoMark
        /\ mark.content = attempt[a].content /\ mark.status = "completed"
        /\ Answers(a, mark.of)
  /\ UNCHANGED <<mark, carried, expired, failed>>

\* Redis failed: the request passes unmarked.
PassUnmarked(a) ==
  /\ At(a, "read")
  /\ LookFails
  /\ Moves(a, "run")
  /\ UNCHANGED <<mark, carried, expired>>

\* Mutant: the record is written whether there is one or not.
OverwriteMark(a) ==
  /\ At(a, "set")
  /\ ~attempt[a].cut
  /\ mark' = Mark("processing", a)
  /\ attempt' = [attempt EXCEPT ![a].at = "run", ![a].marks = TRUE]
  /\ UNCHANGED <<carried, expired, failed>>

SetMark(a) ==
  /\ At(a, "set")
  /\ ~attempt[a].cut
  /\ IF mark = NoMark
     THEN /\ mark' = Mark("processing", a)
          /\ attempt' = [attempt EXCEPT ![a].at = "run", ![a].marks = TRUE]
     ELSE Moves(a, "again") /\ UNCHANGED mark
  /\ UNCHANGED <<carried, expired, failed>>

SetFails(a) ==
  /\ At(a, "set")
  /\ LookFails
  /\ Moves(a, "again")
  /\ UNCHANGED <<mark, carried, expired>>

\* The second look does not compare the contents, and goes on when it finds no
\* record.
LookAgain(a) ==
  /\ At(a, "again")
  /\ ~attempt[a].cut
  /\ \/ mark = NoMark /\ attempt' = [attempt EXCEPT ![a].at = "run", ![a].marks = TRUE]
     \/ mark.status = "processing" /\ Moves(a, "refused")
     \/ mark.status = "completed" /\ Answers(a, mark.of)
  /\ UNCHANGED <<mark, carried, expired, failed>>

LookAgainFails(a) ==
  /\ At(a, "again")
  /\ LookFails
  /\ attempt' = [attempt EXCEPT ![a].at = "run", ![a].marks = TRUE]
  /\ UNCHANGED <<mark, carried, expired>>

\* The handler; one whose context has ended may be stopped before it takes effect.
Handle(a) ==
  /\ At(a, "run")
  /\ \/ carried' = carried \union {a}
     \/ attempt[a].cut /\ UNCHANGED carried
  /\ IF attempt[a].marks THEN Moves(a, "save") ELSE Answers(a, a)
  /\ UNCHANGED <<mark, expired, failed>>

\* What it answered, an error included, is kept, over whatever the key holds.
SaveAnswer(a) ==
  /\ At(a, "save")
  /\ ~attempt[a].cut
  /\ mark' = Mark("completed", a)
  /\ Answers(a, a)
  /\ UNCHANGED <<carried, expired, failed>>

\* A context that has ended keeps the answer from being saved.
SaveFails(a) ==
  /\ At(a, "save")
  /\ Answers(a, a)
  /\ UNCHANGED <<mark, carried, expired, failed>>

\* The service stops; the record stays as it is.
ServiceStops(a) ==
  /\ attempt[a] # Unsent
  /\ attempt[a].at \notin {"answered", "refused"}
  /\ Moves(a, "refused")
  /\ UNCHANGED <<mark, carried, expired, failed>>

MarkExpires ==
  /\ mark # NoMark
  /\ expired + failed < MaxMishaps
  /\ expired' = expired + 1
  /\ mark' = NoMark
  /\ UNCHANGED <<attempt, carried, failed>>

IdemNext ==
  \/ \E a \in Attempt :
       \/ \E c \in Content : Forward(a, c)
       \/ CutOff(a) \/ ReadMark(a) \/ PassUnmarked(a) \/ SetMark(a) \/ SetFails(a)
       \/ LookAgain(a) \/ LookAgainFails(a) \/ Handle(a) \/ SaveAnswer(a) \/ SaveFails(a)
       \/ ServiceStops(a)
  \/ MarkExpires

IdemSpec == IdemInit /\ [][IdemNext]_idemVars

(***************************************************************************)
(* Properties                                                              *)
(***************************************************************************)
\* However often the client repeats its request, the gateway gives it up, the
\* service stops or the answer cannot be saved, one request takes effect under a
\* key, unless its record expired or Redis failed before a handler ran; and only
\* the answer of a request that was carried out is given to another.
OneRunPerKey ==
  /\ expired + failed = 0 => Cardinality(carried) <= 1
  /\ \A a \in Attempt :
       attempt[a] # Unsent /\ At(a, "answered") =>
         attempt[a].answer = a \/ attempt[a].answer \in carried
=============================================================================
