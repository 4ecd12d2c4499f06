--------------------------- MODULE ServicesProofs ---------------------------
(***************************************************************************)
(* What is proved of the seven parts that MCServices puts into one run:    *)
(* the idempotency middleware, the rate limiter, the saga library, the     *)
(* sessions, the outbox, the event cache and the audit logger, each for    *)
(* every value of its constants, and at the end the run itself.            *)
(***************************************************************************)
EXTENDS MCServices, FiniteSetTheorems, SequenceTheorems, TLAPS

(***************************************************************************)
(* The idempotency middleware                                              *)
(***************************************************************************)
Ran(a) == a \in carried \/ At(a, "run") \/ At(a, "save")

\* Without a mishap the record names the one request that runs, and stays from the
\* time it is set; what it holds as an answer is that of a request carried out.
IdemInv ==
  /\ IdemTypeOK
  /\ expired + failed = 0 =>
       \A a \in Attempt : /\ Ran(a) => mark # NoMark /\ mark.of = a
                          /\ At(a, "again") => mark # NoMark
  /\ mark.status = "completed" => mark.of \in carried
  /\ \A a \in Attempt : At(a, "save") /\ ~attempt[a].cut => a \in carried
  /\ \A a \in Attempt : At(a, "answered") => attempt[a].answer \in carried \union {a}

\* The statuses of the record and of the lack of one differ.
LEMMA MarkKinds ==
  ASSUME IdemTypeOK
  PROVE  /\ mark # NoMark => /\ mark \in [status : {"processing", "completed"}, content : Content, of : Attempt]
                             /\ mark.of \in Attempt /\ mark.content \in Content
         /\ mark.status \in {"none", "processing", "completed"}
         /\ mark.status = "none" <=> mark = NoMark
BY DEF IdemTypeOK, NoMark

\* A request that was sent has its fields.
LEMMA SentKinds ==
  ASSUME IdemTypeOK, NEW a \in Attempt
  PROVE  /\ attempt[a].at \in Stage \union {"unsent"}
         /\ attempt[a].at = "unsent" <=> attempt[a] = Unsent
         /\ attempt[a].at # "unsent" => attempt[a] \in Sent
BY DEF IdemTypeOK, Unsent, Sent, Stage

\* A request that was sent goes to another stage, and the others stay.
Moved(a, stage) ==
  /\ attempt' \in [Attempt -> Sent \union {Unsent}]
  /\ attempt'[a].at = stage /\ attempt'[a].cut = attempt[a].cut
  /\ \A c \in Attempt \ {a} : attempt'[c] = attempt[c]

\* The ways in which the middleware's steps move a request.
LEMMA MovesOne ==
  ASSUME IdemTypeOK, NEW a \in Attempt, attempt[a].at # "unsent", NEW stage \in Stage, NEW b \in Attempt
  PROVE  /\ attempt' = [attempt EXCEPT ![a].at = stage] => Moved(a, stage)
         /\ attempt' = [attempt EXCEPT ![a].at = stage, ![a].marks = TRUE] => Moved(a, stage)
         /\ attempt' = [attempt EXCEPT ![a].at = stage, ![a].answer = b] => Moved(a, stage) /\ attempt'[a].answer = b
<1>1. attempt[a] \in Sent BY SentKinds
<1>2. DOMAIN attempt = Attempt BY DEF IdemTypeOK
<1> QED BY <1>1, <1>2 DEF IdemTypeOK, Sent, Stage, Unsent, Moved

\* The initial state satisfies the invariant.
LEMMA IdemInitInv == IdemInit => IdemInv
BY MishapAssumption DEF IdemInit, IdemInv, IdemTypeOK, Ran, At, Unsent, NoMark

\* Every step keeps the invariant.
LEMMA IdemStep == IdemInv /\ [IdemNext]_idemVars => IdemInv'
<1> SUFFICES ASSUME IdemInv, [IdemNext]_idemVars PROVE IdemInv'
  OBVIOUS
<1>t. IdemTypeOK BY DEF IdemInv
<1>n. expired \in Nat /\ failed \in Nat /\ MaxMishaps \in Nat
  BY <1>t, MishapAssumption DEF IdemTypeOK
<1> USE MishapAssumption
<1>1. ASSUME NEW a \in Attempt, NEW c \in Content, Forward(a, c) PROVE IdemInv'
  <2>1. attempt' \in [Attempt -> Sent \union {Unsent}]
    BY <1>1, <1>t DEF Forward, IdemTypeOK, Sent, Stage
  <2>2. \A b \in Attempt : attempt'[b].at \in {"run", "save", "again", "answered"} => attempt'[b] = attempt[b]
    BY <1>1, <1>t DEF Forward, IdemTypeOK
  <2> QED BY <1>1, <1>t, <2>1, <2>2 DEF Forward, IdemInv, IdemTypeOK, Ran, At
<1>2. ASSUME NEW a \in Attempt, CutOff(a) PROVE IdemInv'
  <2>0. attempt[a] \in Sent BY <1>2, <1>t, SentKinds DEF CutOff
  <2>1. attempt' \in [Attempt -> Sent \union {Unsent}]
    BY <1>2, <1>t, <2>0 DEF CutOff, IdemTypeOK, Sent, Stage
  <2>2. \A b \in Attempt : attempt'[b].at = attempt[b].at /\ (attempt'[b].cut \/ attempt'[b].cut = attempt[b].cut)
                           /\ (At(b, "answered") => attempt'[b] = attempt[b])
    BY <1>2, <1>t, <2>0 DEF CutOff, IdemTypeOK, Sent, At
  <2> QED BY <1>2, <1>t, <2>1, <2>2 DEF CutOff, IdemInv, IdemTypeOK, Ran, At
<1>3. ASSUME NEW a \in Attempt, ReadMark(a) PROVE IdemInv'
  <2>0. attempt[a].at = "read" /\ UNCHANGED <<mark, carried, expired, failed>> BY <1>3 DEF ReadMark, At
  <2>1. CASE mark = NoMark /\ Moves(a, "set")
    <3>1. Moved(a, "set") BY <1>t, <2>0, <2>1, MovesOne DEF Moves, Stage
    <3> QED BY <1>t, <2>0, <3>1 DEF IdemInv, IdemTypeOK, Moved, Ran, At
  <2>2. CASE Moves(a, "refused")
    <3>1. Moved(a, "refused") BY <1>t, <2>0, <2>2, MovesOne DEF Moves, Stage
    <3> QED BY <1>t, <2>0, <3>1 DEF IdemInv, IdemTypeOK, Moved, Ran, At
  <2>3. CASE mark # NoMark /\ mark.status = "completed" /\ Answers(a, mark.of)
    <3>1. Moved(a, "answered") /\ attempt'[a].answer = mark.of
      BY <1>t, <2>0, <2>3, MovesOne, MarkKinds DEF Answers, Stage
    <3> QED BY <1>t, <2>0, <2>3, <3>1 DEF IdemInv, IdemTypeOK, Moved, Ran, At
  <2> QED BY <1>3, <2>1, <2>2, <2>3 DEF ReadMark
<1>4. ASSUME NEW a \in Attempt, PassUnmarked(a) PROVE IdemInv'
  <2>0. attempt[a].at = "read" /\ UNCHANGED <<mark, carried, expired>> BY <1>4 DEF PassUnmarked, At
  <2>1. failed' \in 0..MaxMishaps /\ expired' + failed' # 0
    BY <1>4, <1>t, <1>n DEF PassUnmarked, LookFails, IdemTypeOK
  <2>2. Moved(a, "run") BY <1>4, <1>t, <2>0, MovesOne DEF PassUnmarked, Moves, Stage
  <2> QED BY <1>t, <2>0, <2>1, <2>2 DEF IdemInv, IdemTypeOK, Moved, Ran, At
<1>5. ASSUME NEW a \in Attempt, SetMark(a) PROVE IdemInv'
  <2>0. attempt[a].at = "set" /\ attempt[a] \in Sent /\ UNCHANGED <<carried, expired, failed>>
    BY <1>5, <1>t, SentKinds DEF SetMark, At
  <2>1. CASE mark = NoMark
    <3>1. mark' \in [status : {"processing"}, content : Content, of : {a}] /\ mark' # NoMark
      BY <1>5, <2>0, <2>1 DEF SetMark, Mark, Sent, NoMark
    <3>2. Moved(a, "run") BY <1>5, <1>t, <2>0, <2>1, MovesOne DEF SetMark, Stage
    <3> QED BY <1>t, <2>0, <2>1, <3>1, <3>2 DEF IdemInv, IdemTypeOK, Moved, Ran, At
  <2>2. CASE mark # NoMark
    <3>1. mark' = mark /\ Moved(a, "again") BY <1>5, <1>t, <2>0, <2>2, MovesOne DEF SetMark, Moves, Stage
    <3> QED BY <1>t, <2>0, <2>2, <3>1 DEF IdemInv, IdemTypeOK, Moved, Ran, At
  <2> QED BY <2>1, <2>2
<1>6. ASSUME NEW a \in Attempt, SetFails(a) PROVE IdemInv'
  <2>0. attempt[a].at = "set" /\ UNCHANGED <<mark, carried, expired>> BY <1>6 DEF SetFails, At
  <2>1. failed' \in 0..MaxMishaps /\ expired' + failed' # 0
    BY <1>6, <1>t, <1>n DEF SetFails, LookFails, IdemTypeOK
  <2>2. Moved(a, "again") BY <1>6, <1>t, <2>0, MovesOne DEF SetFails, Moves, Stage
  <2> QED BY <1>t, <2>0, <2>1, <2>2 DEF IdemInv, IdemTypeOK, Moved, Ran, At
<1>7. ASSUME NEW a \in Attempt, LookAgain(a) PROVE IdemInv'
  <2>0. attempt[a].at = "again" /\ UNCHANGED <<mark, carried, expired, failed>> BY <1>7 DEF LookAgain, At
  <2>1. CASE mark = NoMark /\ attempt' = [attempt EXCEPT ![a].at = "run", ![a].marks = TRUE]
    <3>1. Moved(a, "run") BY <1>t, <2>0, <2>1, MovesOne DEF Stage
    <3>2. expired + failed # 0 BY <2>0, <2>1 DEF IdemInv, At
    <3> QED BY <1>t, <2>0, <3>1, <3>2 DEF IdemInv, IdemTypeOK, Moved, Ran, At
  <2>2. CASE Moves(a, "refused")
    <3>1. Moved(a, "refused") BY <1>t, <2>0, <2>2, MovesOne DEF Moves, Stage
    <3> QED BY <1>t, <2>0, <3>1 DEF IdemInv, IdemTypeOK, Moved, Ran, At
  <2>3. CASE mark.status = "completed" /\ Answers(a, mark.of)
    <3>1. Moved(a, "answered") /\ attempt'[a].answer = mark.of
      BY <1>t, <2>0, <2>3, MovesOne, MarkKinds DEF Answers, Stage
    <3> QED BY <1>t, <2>0, <2>3, <3>1 DEF IdemInv, IdemTypeOK, Moved, Ran, At
  <2> QED BY <1>7, <2>1, <2>2, <2>3 DEF LookAgain
<1>8. ASSUME NEW a \in Attempt, LookAgainFails(a) PROVE IdemInv'
  <2>0. attempt[a].at = "again" /\ UNCHANGED <<mark, carried, expired>> BY <1>8 DEF LookAgainFails, At
  <2>1. failed' \in 0..MaxMishaps /\ expired' + failed' # 0
    BY <1>8, <1>t, <1>n DEF LookAgainFails, LookFails, IdemTypeOK
  <2>2. Moved(a, "run") BY <1>8, <1>t, <2>0, MovesOne DEF LookAgainFails, Stage
  <2> QED BY <1>t, <2>0, <2>1, <2>2 DEF IdemInv, IdemTypeOK, Moved, Ran, At
<1>9. ASSUME NEW a \in Attempt, Handle(a) PROVE IdemInv'
  <2>0. attempt[a].at = "run" /\ UNCHANGED <<mark, expired, failed>> BY <1>9 DEF Handle, At
  <2>1. carried' \subseteq Attempt /\ carried \subseteq carried' /\ carried' \subseteq carried \union {a}
        /\ (attempt[a].cut \/ a \in carried')
    BY <1>9, <1>t DEF Handle, IdemTypeOK
  <2>2. CASE attempt[a].marks
    <3>1. Moved(a, "save") BY <1>9, <1>t, <2>0, <2>2, MovesOne DEF Handle, Moves, Stage
    <3> QED BY <1>t, <2>0, <2>1, <3>1 DEF IdemInv, IdemTypeOK, Moved, Ran, At
  <2>3. CASE ~attempt[a].marks
    <3>1. Moved(a, "answered") /\ attempt'[a].answer = a
      BY <1>9, <1>t, <2>0, <2>3, MovesOne DEF Handle, Answers, Stage
    <3> QED BY <1>t, <2>0, <2>1, <3>1 DEF IdemInv, IdemTypeOK, Moved, Ran, At
  <2> QED BY <2>2, <2>3
<1>10. ASSUME NEW a \in Attempt, SaveAnswer(a) PROVE IdemInv'
  <2>0. attempt[a].at = "save" /\ attempt[a] \in Sent /\ UNCHANGED <<carried, expired, failed>>
    BY <1>10, <1>t, SentKinds DEF SaveAnswer, At
  <2>1. mark' \in [status : {"completed"}, content : Content, of : {a}] /\ mark' # NoMark
    BY <1>10, <2>0 DEF SaveAnswer, Mark, Sent, NoMark
  <2>2. Moved(a, "answered") /\ attempt'[a].answer = a
    BY <1>10, <1>t, <2>0, MovesOne DEF SaveAnswer, Answers, Stage
  <2>3. a \in carried BY <1>10 DEF SaveAnswer, IdemInv
  <2> QED BY <1>t, <2>0, <2>1, <2>2, <2>3 DEF IdemInv, IdemTypeOK, Moved, Ran, At
<1>11. ASSUME NEW a \in Attempt, SaveFails(a) PROVE IdemInv'
  <2>0. attempt[a].at = "save" /\ UNCHANGED <<mark, carried, expired, failed>> BY <1>11 DEF SaveFails, At
  <2>1. Moved(a, "answered") /\ attempt'[a].answer = a
    BY <1>11, <1>t, <2>0, MovesOne DEF SaveFails, Answers, Stage
  <2> QED BY <1>t, <2>0, <2>1 DEF IdemInv, IdemTypeOK, Moved, Ran, At
<1>12. ASSUME NEW a \in Attempt, ServiceStops(a) PROVE IdemInv'
  <2>0. attempt[a].at # "unsent" /\ UNCHANGED <<mark, carried, expired, failed>>
    BY <1>12, <1>t, SentKinds DEF ServiceStops
  <2>1. Moved(a, "refused") BY <1>12, <1>t, <2>0, MovesOne DEF ServiceStops, Moves, Stage
  <2> QED BY <1>t, <2>0, <2>1 DEF IdemInv, IdemTypeOK, Moved, Ran, At
<1>13. CASE MarkExpires
  <2>1. expired' \in 0..MaxMishaps /\ expired' + failed' # 0
    BY <1>13, <1>t, <1>n DEF MarkExpires, IdemTypeOK
  <2> QED BY <1>13, <1>t, <2>1 DEF MarkExpires, IdemInv, IdemTypeOK, Ran, At, NoMark
<1>14. CASE UNCHANGED idemVars
  BY <1>14 DEF idemVars, IdemInv, IdemTypeOK, Ran, At
<1> QED BY <1>1, <1>2, <1>3, <1>4, <1>5, <1>6, <1>7, <1>8, <1>9, <1>10, <1>11, <1>12, <1>13, <1>14 DEF IdemNext

\* Of the requests under one key one takes effect, and every answer given is that of
\* a request carried out.
LEMMA IdemMain == IdemInv => OneRunPerKey
<1> SUFFICES ASSUME IdemInv PROVE OneRunPerKey
  OBVIOUS
<1>1. ASSUME expired + failed = 0 PROVE Cardinality(carried) <= 1
  <2>1. \A a, b \in carried : a = b BY <1>1 DEF IdemInv, IdemTypeOK, Ran
  <2>2. carried = {} \/ \E a \in Attempt : carried = {a} BY <2>1 DEF IdemInv, IdemTypeOK
  <2>3. Cardinality({}) = 0 BY FS_EmptySet
  <2>4. \A a : Cardinality({a}) = 1 BY FS_Singleton
  <2> QED BY <2>2, <2>3, <2>4
<1> QED BY <1>1 DEF IdemInv, OneRunPerKey, At, Unsent

\* However a request is repeated, cut off, stopped or left unsaved, one takes effect
\* under a key unless the record expired or Redis failed.
THEOREM RunOnce == IdemSpec => []OneRunPerKey
<1>1. IdemSpec => []IdemInv BY IdemInitInv, IdemStep, PTL DEF IdemSpec
<1> QED BY <1>1, IdemMain, PTL

\* The record, the requests and the counters keep their types.
THEOREM IdemTyped == IdemSpec => []IdemTypeOK
<1>1. IdemSpec => []IdemInv BY IdemInitInv, IdemStep, PTL DEF IdemSpec
<1>2. IdemInv => IdemTypeOK BY DEF IdemInv
<1> QED BY <1>1, <1>2, PTL

(***************************************************************************)
(* The rate limiter                                                        *)
(***************************************************************************)
\* What the rate has allowed by a time, counted from the earliest one.
Worth(t) == Rate * (t + Skew)

\* The requests that have looked a bucket up, and those whose bucket is not this one.
Holding == {q \in Request : seeker[q] # Looking}
Elsewhere(b) == {q \in Holding : seeker[q].bucket # b}

\* A bucket, those that passed and those with another bucket, who may pass yet, are no
\* more than the burst and what the rate allows by the time the bucket was last filled;
\* without the bucket's tokens, by the time it was last used.
Accounts(b, granted) ==
  /\ granted + b.tokens <= Burst + Worth(b.last)
  /\ granted <= Burst + Worth(b.used)
  /\ b.last <= b.used /\ b.used <= b.last + Skew /\ b.used <= now

RedisInv ==
  /\ current \in {0, 1}
  /\ \A q \in Request : seeker[q] = Looking
  /\ current = 0 => passed = outages
  /\ current = 1 => Accounts(buckets[1], passed - outages)

\* With no bucket in the map there is room for the burst on top of all who hold one.
MapInv ==
  /\ outages = 0
  /\ \A q \in Holding : seeker[q].clock \in (now - Skew)..now
  /\ current = 0 => passed + Cardinality(Holding) <= Worth(now)
  /\ current # 0 => Accounts(buckets[current], passed + Cardinality(Elsewhere(current)))

RateInv == RateTypeOK /\ (IF shared THEN RedisInv ELSE MapInv)

\* What the rate allows grows with the time, in the time a bucket is kept by the burst
\* and one for each request.
LEMMA WorthGrows ==
  ASSUME NEW s \in Int, NEW t \in Int
  PROVE  /\ Worth(t) \in Int
         /\ (t - s) * Rate = Worth(t) - Worth(s)
         /\ s <= t => Worth(s) <= Worth(t)
         /\ t >= -Skew => Worth(t) >= 0
         /\ t - s >= Keep - Skew => Worth(t) >= Worth(s) + Burst + Cardinality(Request)
<1>1. Rate \in Nat /\ Rate >= 1 /\ Skew \in Nat /\ Keep \in Nat /\ Burst \in Nat BY LimitAssumption
<1>2. PICK r \in Nat, k \in Nat, e \in Nat, bu \in Nat : r = Rate /\ r >= 1 /\ k = Skew /\ e = Keep /\ bu = Burst BY <1>1
<1>3. Worth(t) = r * (t + k) /\ Worth(s) = r * (s + k) BY <1>2 DEF Worth
<1>4. (t - s) * r = r * (t + k) - r * (s + k) BY <1>2
<1>5. s <= t => r * (t - s) >= 0 BY <1>2
<1>6. t >= -k => r * (t + k) >= 0 BY <1>2
<1>7. Cardinality(Request) \in Nat BY LimitAssumption, FS_CardinalityType
<1>8. ASSUME t - s >= e - k
      PROVE  Worth(t) >= Worth(s) + bu + Cardinality(Request)
  <2>1. r * (e - k) >= bu + Cardinality(Request) BY <1>2, KeepAssumption
  <2>2. r * ((t - s) - (e - k)) >= 0
    <3>1. PICK d \in Nat : d = (t - s) - (e - k) BY <1>2, <1>8
    <3>2. r * d >= 0 BY <1>2
    <3> QED BY <3>1, <3>2
  <2>3. r * ((t - s) - (e - k)) = (t - s) * r - r * (e - k) BY <1>2
  <2>4. (t - s) * r \in Int /\ r * (e - k) \in Int /\ r * (t + k) \in Int /\ r * (s + k) \in Int BY <1>2
  <2> QED BY <1>2, <1>3, <1>4, <1>7, <2>1, <2>2, <2>3, <2>4
<1>9. r * (t + k) \in Int /\ r * (s + k) \in Int /\ (t - s) * r \in Int BY <1>2
<1>10. s <= t => Worth(s) <= Worth(t)
  <2>1. r * (t - s) = (t - s) * r BY <1>2
  <2> QED BY <1>3, <1>4, <1>5, <1>9, <2>1
<1> QED BY <1>2, <1>3, <1>4, <1>6, <1>8, <1>9, <1>10

\* A request takes a token if there is one: the accounts of the bucket hold afterwards
\* if they held before, whichever clock the bucket was filled by.
LEMMA SpendingAccounts ==
  ASSUME NEW b, b \in [tokens : Int, last : Int, used : Int], b.tokens <= Burst,
         NEW clock \in Int, now \in Nat, now - Skew <= clock, clock <= now,
         NEW granted \in Int, granted + b.tokens <= Burst + Worth(b.last), granted <= Burst + Worth(now),
         NEW new, new = Spent(b, clock),
         NEW one, one = IF Refilled(b, clock) >= 1 THEN 1 ELSE 0
  PROVE  /\ one \in {0, 1} /\ new.tokens \in Int /\ new.tokens <= Burst /\ new.last = clock /\ new.used = now
         /\ new = [tokens |-> new.tokens, last |-> clock, used |-> now]
         /\ Accounts(new, granted + one)
<1>1. /\ b.tokens \in Int /\ b.last \in Int
  OBVIOUS
<1>2. Burst \in Nat /\ Rate \in Nat /\ Skew \in Nat BY LimitAssumption
<1>3. PICK gain \in Int : gain = (clock - b.last) * Rate /\ gain = Worth(clock) - Worth(b.last)
  <2>1. (clock - b.last) * Rate \in Int BY <1>1, <1>2
  <2> QED BY <1>1, <2>1, WorthGrows
<1>4. Worth(clock) \in Int /\ Worth(b.last) \in Int /\ Worth(now) \in Int /\ Worth(clock) <= Worth(now)
  BY <1>1, WorthGrows
<1>5. PICK f \in Int : f = Refilled(b, clock) /\ f <= Burst /\ f <= b.tokens + gain
  BY <1>1, <1>2, <1>3 DEF Refilled, Lesser
<1>6. one = (IF f >= 1 THEN 1 ELSE 0) /\ new = [tokens |-> f - one, last |-> clock, used |-> now]
  BY <1>5 DEF Spent
<1>7. new.tokens = f - one /\ new.last = clock /\ new.used = now /\ one \in {0, 1} BY <1>6
<1>8. granted + one + (f - one) <= Burst + Worth(clock) BY <1>1, <1>2, <1>3, <1>4, <1>5, <1>7
<1>9. granted + one <= Burst + Worth(now)
  <2>1. CASE one = 0 BY <2>1
  <2>2. CASE one = 1
    <3>1. f >= 1 BY <1>6, <2>2
    <3> QED BY <1>2, <1>4, <1>5, <1>8, <2>2, <3>1
  <2> QED BY <1>7, <2>1, <2>2
<1>10. Accounts(new, granted + one)
  <2>1. new.last <= new.used /\ new.used <= new.last + Skew /\ new.used <= now BY <1>2, <1>7
  <2> QED BY <1>7, <1>8, <1>9, <2>1 DEF Accounts
<1> QED BY <1>2, <1>5, <1>6, <1>7, <1>10

\* Passing and spending are one step of the accounts.
LEMMA PassesOne ==
  ASSUME NEW b, NEW clock, Passes(b, clock), NEW one, one = IF Refilled(b, clock) >= 1 THEN 1 ELSE 0
  PROVE  passed' = passed + one
BY DEF Passes

\* Every gateway's clock is behind by the skew at most; a bucket that Redis dropped would
\* have been full.
LEMMA AskRedisKeeps ==
  ASSUME RateInv, AskRedis
  PROVE  RateInv'
<1>1. PICK clock \in (now - Skew)..now :
        LET b == IF current = 1 /\ now - buckets[1].used < Keep THEN buckets[1] ELSE Full(clock)
        IN buckets' = [buckets EXCEPT ![1] = Spent(b, clock)] /\ Passes(b, clock)
  BY DEF AskRedis
<1>2. PICK b : b = IF current = 1 /\ now - buckets[1].used < Keep THEN buckets[1] ELSE Full(clock) OBVIOUS
<1>3. PICK new : new = Spent(b, clock) OBVIOUS
<1>4. buckets' = [buckets EXCEPT ![1] = new] /\ Passes(b, clock) BY <1>1, <1>2, <1>3
<1>5. PICK one : one = IF Refilled(b, clock) >= 1 THEN 1 ELSE 0 OBVIOUS
<1>6. /\ shared /\ shared' = shared /\ now' = now /\ seeker' = seeker /\ outages' = outages /\ current' = 1
      /\ passed' = passed + one
  BY <1>4, <1>5, PassesOne DEF AskRedis
<1>7. RateTypeOK /\ RedisInv BY <1>6 DEF RateInv
<1>8. /\ Skew \in Nat /\ Burst \in Nat /\ now \in Nat /\ clock \in Int /\ now - Skew <= clock /\ clock <= now
      /\ clock \in -Skew..now /\ passed \in Nat /\ outages \in Nat /\ MaxBuckets \in Nat
  BY <1>7, LimitAssumption DEF RateTypeOK
<1>9. 1 \in 1..MaxBuckets => buckets[1] \in [tokens : Int, last : -Skew..now, used : -1..now] /\ buckets[1].tokens <= Burst
  BY <1>7 DEF RateTypeOK
<1>10. Full(clock) \in [tokens : Int, last : Int, used : Int] /\ Full(clock) = [tokens |-> Burst, last |-> clock, used |-> now]
  BY <1>8 DEF Full
<1>11. Worth(clock) \in Int /\ Worth(clock) >= 0 /\ Worth(now) \in Int /\ Worth(clock) <= Worth(now) BY <1>8, WorthGrows
<1>12. /\ b \in [tokens : Int, last : Int, used : Int] /\ b.tokens <= Burst
       /\ (passed - outages) + b.tokens <= Burst + Worth(b.last) /\ passed - outages <= Burst + Worth(now)
  <2>1. CASE current = 0
    <3>1. b = Full(clock) BY <1>2, <2>1
    <3>2. passed - outages = 0 BY <1>7, <1>8, <2>1 DEF RedisInv
    <3> QED BY <1>8, <1>10, <1>11, <3>1, <3>2
  <2>2. CASE current = 1
    <3>1. 1 \in 1..MaxBuckets BY <1>7, <1>8, <2>2 DEF RateTypeOK
    <3>2. Accounts(buckets[1], passed - outages) BY <1>7, <2>2 DEF RedisInv
    <3>3. /\ buckets[1] \in [tokens : Int, last : Int, used : Int] /\ buckets[1].tokens <= Burst
          /\ buckets[1].used \in Int /\ buckets[1].last \in Int
      BY <1>8, <1>9, <3>1
    <3>4. Worth(buckets[1].used) \in Int /\ Worth(buckets[1].used) <= Worth(now)
      <4>1. buckets[1].used <= now BY <3>2 DEF Accounts
      <4>2. PICK u \in Int : u = buckets[1].used BY <3>3
      <4>3. u <= now /\ now \in Int BY <1>8, <4>1, <4>2
      <4>4. Worth(u) \in Int /\ Worth(u) <= Worth(now) BY <4>3, WorthGrows
      <4> QED BY <4>2, <4>4
    <3>5. passed - outages <= Burst + Worth(now) BY <1>8, <1>11, <3>2, <3>4 DEF Accounts
    <3>6. CASE now - buckets[1].used < Keep
      <4>1. b = buckets[1] BY <1>2, <2>2, <3>6
      <4> QED BY <3>2, <3>3, <3>5, <4>1 DEF Accounts
    <3>7. CASE ~ (now - buckets[1].used < Keep)
      <4>1. b = Full(clock) BY <1>2, <3>7
      <4>2. clock - buckets[1].used >= Keep - Skew BY <1>8, <3>3, <3>7, LimitAssumption
      <4>3. Cardinality(Request) \in Nat BY LimitAssumption, FS_CardinalityType
      <4>4. Worth(clock) >= Worth(buckets[1].used) + Burst + Cardinality(Request) BY <1>8, <3>3, <4>2, WorthGrows
      <4>5. (passed - outages) + Burst <= Burst + Worth(clock)
        <5>1. passed - outages <= Burst + Worth(buckets[1].used) BY <3>2 DEF Accounts
        <5> QED BY <1>8, <1>11, <3>4, <4>3, <4>4, <5>1
      <4> QED BY <1>8, <1>10, <3>5, <4>1, <4>5
    <3> QED BY <3>6, <3>7
  <2> QED BY <1>7, <2>1, <2>2 DEF RedisInv
<1>13. /\ one \in {0, 1} /\ new.tokens \in Int /\ new.tokens <= Burst /\ new.last = clock /\ new.used = now
       /\ new = [tokens |-> new.tokens, last |-> clock, used |-> now]
       /\ Accounts(new, (passed - outages) + one)
  BY <1>3, <1>5, <1>8, <1>12, SpendingAccounts
<1>14. RateTypeOK'
  <2>1. new \in [tokens : Int, last : -Skew..now, used : -1..now] BY <1>8, <1>13
  <2>2. buckets \in [1..MaxBuckets -> [tokens : Int, last : -Skew..now, used : -1..now]] /\ \A i \in 1..MaxBuckets : buckets[i].tokens <= Burst
    BY <1>7 DEF RateTypeOK
  <2>3. /\ buckets' \in [1..MaxBuckets -> [tokens : Int, last : -Skew..now, used : -1..now]]
        /\ \A i \in 1..MaxBuckets : buckets'[i].tokens <= Burst
    BY <1>4, <1>13, <2>1, <2>2
  <2>4. passed' \in Nat BY <1>6, <1>8, <1>13
  <2>5. current' \in 0..MaxBuckets
    BY <1>6, <1>8, LimitAssumption
  <2> QED BY <1>6, <1>7, <2>3, <2>4, <2>5 DEF RateTypeOK
<1>15. RedisInv'
  <2>1. 1 \in 1..MaxBuckets BY <1>8, LimitAssumption
  <2>2. buckets'[1] = new BY <1>4, <1>7, <2>1 DEF RateTypeOK
  <2>3. passed' - outages' = (passed - outages) + one BY <1>6, <1>8, <1>13
  <2>4. Accounts(buckets[1], passed - outages)' BY <1>6, <1>13, <2>2, <2>3 DEF Accounts, Worth
  <2> QED BY <1>6, <1>7, <2>4 DEF RedisInv
<1> QED BY <1>6, <1>14, <1>15 DEF RateInv

\* The gateway lets requests pass when Redis fails.
LEMMA PassOpenKeeps ==
  ASSUME RateInv, PassOpen
  PROVE  RateInv'
<1>1. /\ shared /\ shared' = shared /\ outages < MaxOutages /\ outages' = outages + 1 /\ passed' = passed + 1
      /\ UNCHANGED <<now, buckets, current, seeker>>
  BY DEF PassOpen
<1>2. RateTypeOK /\ RedisInv BY <1>1 DEF RateInv
<1>3. passed \in Nat /\ outages \in Nat BY <1>2, LimitAssumption DEF RateTypeOK
<1>4. RateTypeOK' BY <1>1, <1>2, <1>3, LimitAssumption DEF RateTypeOK
<1>5. passed' - outages' = passed - outages BY <1>1, <1>3
<1>6. RedisInv' BY <1>1, <1>2, <1>3, <1>5 DEF RedisInv, Accounts, Worth
<1> QED BY <1>1, <1>4, <1>6 DEF RateInv

\* The requests that hold a bucket are a finite set.
LEMMA Holders ==
  ASSUME NEW b
  PROVE  /\ IsFiniteSet(Holding) /\ IsFiniteSet(Elsewhere(b))
         /\ Cardinality(Holding) \in Nat /\ Cardinality(Elsewhere(b)) \in Nat
         /\ Cardinality(Elsewhere(b)) <= Cardinality(Holding) /\ Cardinality(Holding) <= Cardinality(Request)
<1>1. Holding \in SUBSET Request BY DEF Holding
<1>2. Elsewhere(b) \in SUBSET Holding BY DEF Elsewhere
<1>3. IsFiniteSet(Request) BY LimitAssumption
<1>4. IsFiniteSet(Holding) /\ Cardinality(Holding) <= Cardinality(Request) BY <1>1, <1>3, FS_Subset
<1>5. IsFiniteSet(Elsewhere(b)) /\ Cardinality(Elsewhere(b)) <= Cardinality(Holding) BY <1>2, <1>4, FS_Subset
<1> QED BY <1>4, <1>5, FS_CardinalityType

\* The map has the bucket, or a new one is full.
LEMMA SeekKeeps ==
  ASSUME RateInv, NEW q \in Request, Seek(q)
  PROVE  RateInv'
<1>1. ~ shared /\ UNCHANGED <<shared, now, passed, outages>> /\ seeker[q] = Looking BY DEF Seek
<1>2. RateTypeOK /\ MapInv BY <1>1 DEF RateInv
<1>3. /\ Skew \in Nat /\ Burst \in Nat /\ now \in Nat /\ passed \in Nat /\ now \in 0..now /\ now \in -Skew..now
  BY <1>2, LimitAssumption DEF RateTypeOK
<1>4. /\ seeker \in [Request -> [bucket : 1..MaxBuckets, clock : 0..now] \union {Looking}]
      /\ buckets \in [1..MaxBuckets -> [tokens : Int, last : -Skew..now, used : -1..now]]
      /\ \A i \in 1..MaxBuckets : buckets[i].tokens <= Burst
      /\ current \in 0..MaxBuckets
  BY <1>2 DEF RateTypeOK
<1>5. PICK b \in 1..MaxBuckets :
        /\ current' = b /\ seeker' = [seeker EXCEPT ![q] = [bucket |-> b, clock |-> now]]
        /\ \/ current = b /\ buckets' = buckets
           \/ current = 0 /\ buckets' = [buckets EXCEPT ![b] = Full(now)]
  <2>1. CASE current # 0
    <3>1. current \in 1..MaxBuckets BY <1>4, <2>1, LimitAssumption
    <3> QED BY <2>1, <3>1 DEF Seek
  <2>2. CASE current = 0 BY <2>2 DEF Seek
  <2> QED BY <2>1, <2>2
<1>6. Full(now) \in [tokens : Int, last : -Skew..now, used : -1..now] /\ Full(now) = [tokens |-> Burst, last |-> now, used |-> now]
  BY <1>3 DEF Full
<1>7. /\ buckets' \in [1..MaxBuckets -> [tokens : Int, last : -Skew..now, used : -1..now]]
      /\ \A i \in 1..MaxBuckets : buckets'[i].tokens <= Burst
  <2>1. CASE buckets' = buckets BY <1>4, <2>1
  <2>2. CASE buckets' = [buckets EXCEPT ![b] = Full(now)] BY <1>3, <1>4, <1>6, <2>2
  <2> QED BY <1>5, <2>1, <2>2
<1>8. /\ seeker' \in [Request -> [bucket : 1..MaxBuckets, clock : 0..now] \union {Looking}]
      /\ seeker'[q] = [bucket |-> b, clock |-> now] /\ \A p \in Request \ {q} : seeker'[p] = seeker[p]
  <2>1. [bucket |-> b, clock |-> now] \in [bucket : 1..MaxBuckets, clock : 0..now] BY <1>3
  <2> QED BY <1>4, <1>5, <2>1
<1>9. RateTypeOK' BY <1>1, <1>2, <1>5, <1>7, <1>8 DEF RateTypeOK
<1>10. Elsewhere(b)' = Elsewhere(b)
  <2>1. q \notin Elsewhere(b) BY <1>1 DEF Elsewhere, Holding
  <2>2. q \notin Elsewhere(b)' BY <1>8 DEF Elsewhere, Holding
  <2>3. \A p \in Request \ {q} : p \in Elsewhere(b)' <=> p \in Elsewhere(b) BY <1>8 DEF Elsewhere, Holding
  <2>4. Elsewhere(b) \subseteq Request /\ Elsewhere(b)' \subseteq Request BY DEF Elsewhere, Holding
  <2> QED BY <2>1, <2>2, <2>3, <2>4
<1>11. PICK k \in Nat, o \in Nat : k = Cardinality(Holding) /\ o = Cardinality(Elsewhere(b)) /\ o <= k BY Holders
<1>12. Cardinality(Elsewhere(b))' = o BY <1>10, <1>11
<1>13. Accounts(buckets'[b], passed + o)
  <2>1. CASE current = b /\ buckets' = buckets
    <3>1. current # 0 BY <2>1, LimitAssumption
    <3> QED BY <1>2, <1>11, <2>1, <3>1 DEF MapInv
  <2>2. CASE current = 0 /\ buckets' = [buckets EXCEPT ![b] = Full(now)]
    <3>1. buckets'[b] = [tokens |-> Burst, last |-> now, used |-> now] BY <1>4, <1>6, <2>2
    <3>2. passed + k <= Worth(now) BY <1>2, <1>11, <2>2 DEF MapInv
    <3>3. Worth(now) \in Int BY <1>3, WorthGrows
    <3>4. (passed + o) + Burst <= Burst + Worth(now) /\ passed + o <= Burst + Worth(now)
      BY <1>3, <1>11, <3>2, <3>3
    <3> QED BY <1>3, <3>1, <3>4 DEF Accounts
  <2> QED BY <1>5, <2>1, <2>2
<1>14. MapInv'
  <2>1. ASSUME NEW p \in Holding' PROVE seeker'[p].clock \in (now - Skew)..now
    <3>1. p \in Request BY DEF Holding
    <3>2. CASE p = q BY <1>3, <1>8, <3>2
    <3>3. CASE p # q
      <4>1. p \in Holding /\ seeker'[p] = seeker[p] BY <1>8, <3>1, <3>3 DEF Holding
      <4> QED BY <1>2, <4>1 DEF MapInv
    <3> QED BY <3>2, <3>3
  <2>2. current' # 0 BY <1>5, LimitAssumption
  <2>3. Accounts(buckets[current], passed + Cardinality(Elsewhere(current)))'
    <3>1. Elsewhere(current)' = Elsewhere(b)' BY <1>5 DEF Elsewhere, Holding
    <3> QED BY <1>1, <1>5, <1>12, <1>13, <3>1 DEF Accounts, Worth
  <2> QED BY <1>1, <1>2, <2>1, <2>2, <2>3 DEF MapInv
<1> QED BY <1>1, <1>9, <1>14 DEF RateInv

\* A request spends from the bucket it holds, whether or not the map still has it.
LEMMA SpendKeeps ==
  ASSUME RateInv, NEW q \in Request, Spend(q)
  PROVE  RateInv'
<1>1. seeker[q] # Looking /\ UNCHANGED <<shared, now, current, outages>> BY DEF Spend
<1>2. ~ shared /\ RateTypeOK /\ MapInv BY <1>1 DEF RateInv, RedisInv
<1>3. /\ Skew \in Nat /\ Burst \in Nat /\ now \in Nat /\ passed \in Nat
      /\ seeker \in [Request -> [bucket : 1..MaxBuckets, clock : 0..now] \union {Looking}]
      /\ buckets \in [1..MaxBuckets -> [tokens : Int, last : -Skew..now, used : -1..now]]
      /\ \A i \in 1..MaxBuckets : buckets[i].tokens <= Burst
      /\ current \in 0..MaxBuckets
  BY <1>2, LimitAssumption DEF RateTypeOK
<1>4. PICK mine \in 1..MaxBuckets, clock \in 0..now :
        mine = seeker[q].bucket /\ clock = seeker[q].clock /\ clock \in (now - Skew)..now
  <2>1. seeker[q] \in [bucket : 1..MaxBuckets, clock : 0..now] BY <1>1, <1>3
  <2>2. q \in Holding BY <1>1 DEF Holding
  <2> QED BY <1>2, <2>1, <2>2 DEF MapInv
<1>5. PICK b : b = buckets[mine] OBVIOUS
<1>6. PICK new : new = Spent(b, clock) OBVIOUS
<1>7. PICK one : one = IF Refilled(b, clock) >= 1 THEN 1 ELSE 0 OBVIOUS
<1>8. /\ buckets' = [buckets EXCEPT ![mine] = new] /\ seeker' = [seeker EXCEPT ![q] = Looking]
      /\ passed' = passed + one
  BY <1>4, <1>5, <1>6, <1>7, PassesOne DEF Spend
<1>9. /\ b \in [tokens : Int, last : Int, used : Int] /\ b.tokens <= Burst /\ b.tokens \in Int /\ b.last \in Int
  <2>1. b \in [tokens : Int, last : -Skew..now, used : -1..now] BY <1>3, <1>5
  <2> QED BY <1>3, <1>5, <2>1
<1>10. clock \in Int /\ now - Skew <= clock /\ clock <= now /\ clock \in -Skew..now BY <1>3, <1>4
\* However large what was granted is counted, the bucket stays one.
<1>11. /\ one \in {0, 1} /\ new.tokens \in Int /\ new.tokens <= Burst /\ new.last = clock /\ new.used = now
       /\ new = [tokens |-> new.tokens, last |-> clock, used |-> now]
  <2>1. Worth(b.last) \in Int /\ Worth(now) \in Int
    <3>1. now \in Int /\ b.last \in Int BY <1>3, <1>9
    <3> QED BY <3>1, WorthGrows
  <2>2. PICK g \in Int : g + b.tokens <= Burst + Worth(b.last) /\ g <= Burst + Worth(now)
    <3>1. PICK d \in Int, e \in Int : d = Burst + Worth(b.last) - b.tokens /\ e = Burst + Worth(now)
      BY <1>3, <1>9, <2>1
    <3>2. \E g \in Int : g <= d /\ g <= e
      <4>1. CASE d <= e BY <4>1
      <4>2. CASE ~ (d <= e) BY <4>2
      <4> QED BY <4>1, <4>2
    <3> QED BY <1>3, <1>9, <2>1, <3>1, <3>2
  <2> QED BY <1>3, <1>6, <1>7, <1>9, <1>10, <2>2, SpendingAccounts, SMTT(30)
<1>12. RateTypeOK'
  <2>1. new \in [tokens : Int, last : -Skew..now, used : -1..now] BY <1>3, <1>10, <1>11
  <2>2. /\ buckets' \in [1..MaxBuckets -> [tokens : Int, last : -Skew..now, used : -1..now]]
        /\ \A i \in 1..MaxBuckets : buckets'[i].tokens <= Burst
    BY <1>3, <1>8, <1>11, <2>1
  <2>3. seeker' \in [Request -> [bucket : 1..MaxBuckets, clock : 0..now] \union {Looking}] BY <1>3, <1>8
  <2>4. passed' \in Nat BY <1>3, <1>8, <1>11
  <2> QED BY <1>1, <1>2, <2>2, <2>3, <2>4 DEF RateTypeOK
<1>13. /\ Holding' = Holding \ {q} /\ q \in Holding
       /\ \A i : Elsewhere(i)' = Elsewhere(i) \ {q}
       /\ \A p \in Holding' : seeker'[p] = seeker[p]
  <2>1. seeker'[q] = Looking /\ \A p \in Request \ {q} : seeker'[p] = seeker[p] BY <1>3, <1>8
  <2>2. Holding' = Holding \ {q} /\ q \in Holding BY <1>1, <2>1 DEF Holding
  <2>3. \A p \in Holding' : seeker'[p] = seeker[p] BY <2>1, <2>2 DEF Holding
  <2>4. ASSUME NEW i PROVE Elsewhere(i)' = Elsewhere(i) \ {q}
    BY <2>2, <2>3 DEF Elsewhere
  <2> QED BY <2>2, <2>3, <2>4
<1>15. PICK c : c = current /\ c = current'
  BY <1>1
<1>14. MapInv'
  <2>1. \A p \in Holding' : seeker'[p].clock \in (now - Skew)..now BY <1>2, <1>13 DEF MapInv
  <2>2. current = 0 => passed' + Cardinality(Holding') <= Worth(now)
    <3> SUFFICES ASSUME current = 0 PROVE passed' + Cardinality(Holding') <= Worth(now)
      OBVIOUS
    <3>1. PICK k \in Nat : k = Cardinality(Holding) /\ IsFiniteSet(Holding) BY Holders
    <3>2. Cardinality(Holding') = k - 1 BY <1>13, <3>1, FS_RemoveElement
    <3>3. passed + k <= Worth(now) BY <1>2, <3>1 DEF MapInv
    <3>4. Worth(now) \in Int BY <1>3, WorthGrows
    <3> QED BY <1>3, <1>8, <1>11, <3>2, <3>3, <3>4, SMTT(30)
  <2>3. ASSUME c # 0
        PROVE  Accounts(buckets'[c], passed' + Cardinality(Elsewhere(c)'))
    <3>1. PICK o \in Nat : o = Cardinality(Elsewhere(c)) /\ IsFiniteSet(Elsewhere(c)) BY Holders
    <3>2. Accounts(buckets[c], passed + o) /\ c \in 1..MaxBuckets
      BY <1>2, <1>3, <1>15, <2>3, <3>1, LimitAssumption DEF MapInv
    <3>3. PICK mid : mid = buckets[c] OBVIOUS
    <3>4. mid.used \in Int /\ mid.last \in Int /\ mid.tokens \in Int
      <4>1. mid \in [tokens : Int, last : -Skew..now, used : -1..now] BY <1>3, <3>2, <3>3
      <4> QED BY <1>3, <4>1
    <3>5. Worth(mid.used) \in Int /\ Worth(mid.last) \in Int /\ Worth(now) \in Int /\ (mid.used <= now => Worth(mid.used) <= Worth(now))
      <4>1. now \in Int BY <1>3
      <4> QED BY <3>4, <4>1, WorthGrows
    <3>6. passed + o <= Burst + Worth(now)
      BY <1>3, <3>2, <3>3, <3>5 DEF Accounts
    <3>7. CASE c = mine
      <4>1. q \notin Elsewhere(c) BY <1>4, <3>7 DEF Elsewhere
      <4>2. Cardinality(Elsewhere(c)') = o BY <1>13, <3>1, <4>1
      <4>3. buckets'[c] = new /\ b = mid BY <1>3, <1>5, <1>8, <3>3, <3>7
      <4>4. (passed + o) + b.tokens <= Burst + Worth(b.last) BY <3>2, <3>3, <4>3 DEF Accounts
      <4>5. passed + o \in Int BY <1>3
      <4>6. Accounts(new, (passed + o) + one)
        BY <1>3, <1>6, <1>7, <1>9, <1>10, <3>6, <4>4, <4>5, SpendingAccounts
      <4>7. passed' + o = (passed + o) + one BY <1>3, <1>8, <1>11
      <4> QED BY <4>2, <4>3, <4>6, <4>7
    <3>8. CASE c # mine
      <4>1. q \in Elsewhere(c) BY <1>4, <1>13, <3>8 DEF Elsewhere
      <4>2. Cardinality(Elsewhere(c)') = o - 1 BY <1>13, <3>1, <4>1, FS_RemoveElement
      <4>3. buckets'[c] = mid BY <1>3, <1>8, <3>2, <3>3, <3>8
      <4>4. PICK g \in Int : g = passed' + (o - 1) /\ g <= passed + o BY <1>3, <1>8, <1>11, SMTT(30)
      <4>5. g + mid.tokens <= Burst + Worth(mid.last) /\ g <= Burst + Worth(mid.used)
        <5>1. (passed + o) + mid.tokens <= Burst + Worth(mid.last) /\ passed + o <= Burst + Worth(mid.used)
          BY <3>2, <3>3 DEF Accounts
        <5>2. passed + o \in Int /\ Burst \in Int BY <1>3
        <5> QED BY <3>4, <3>5, <4>4, <5>1, <5>2
      <4> QED BY <3>2, <3>3, <4>2, <4>3, <4>4, <4>5 DEF Accounts
    <3> QED BY <3>7, <3>8
  <2>4. current # 0 => Accounts(buckets[current], passed + Cardinality(Elsewhere(current)))'
    <3>1. Elsewhere(current)' = Elsewhere(c)' BY <1>15 DEF Elsewhere, Holding
    <3> QED BY <1>1, <1>15, <2>3, <3>1 DEF Accounts, Worth
  <2> QED BY <1>1, <1>2, <2>1, <2>2, <2>4 DEF MapInv, Worth
<1> QED BY <1>1, <1>2, <1>12, <1>14 DEF RateInv

\* The map forgets a bucket that would be full for all who still hold one.
LEMMA CleanUpMapKeeps ==
  ASSUME RateInv, CleanUp
  PROVE  RateInv'
<1>1. ~ shared /\ current # 0 /\ buckets[current].last < now - Keep /\ current' = 0
      /\ UNCHANGED <<shared, now, buckets, seeker, passed, outages>>
  BY DEF CleanUp
<1>2. RateTypeOK /\ MapInv BY <1>1 DEF RateInv
<1>3. RateTypeOK' BY <1>1, <1>2, LimitAssumption, SMTT(30) DEF RateTypeOK
<1>4. PICK c \in 1..MaxBuckets : c = current BY <1>1, <1>2, LimitAssumption DEF RateTypeOK
<1>5. PICK old : old = buckets[c] OBVIOUS
<1>6. /\ now \in Nat /\ passed \in Nat /\ old \in [tokens : Int, last : -Skew..now, used : -1..now]
      /\ Skew \in Nat /\ Burst \in Nat /\ Keep \in Nat
  BY <1>2, <1>4, <1>5, LimitAssumption DEF RateTypeOK
<1>7. old.last \in Int /\ old.used \in Int /\ now \in Int BY <1>6
<1>8. PICK o \in Nat : o = Cardinality(Elsewhere(c)) BY Holders
<1>9. Accounts(old, passed + o) BY <1>1, <1>2, <1>4, <1>5, <1>8 DEF MapInv
<1>10. now - old.used >= Keep - Skew BY <1>1, <1>4, <1>5, <1>6, <1>7, <1>9 DEF Accounts
<1>11. PICK h \in Nat, r \in Nat : h = Cardinality(Holding) /\ r = Cardinality(Request) /\ h <= r
  <2>1. Cardinality(Request) \in Nat BY LimitAssumption, FS_CardinalityType
  <2> QED BY <2>1, Holders
<1>12. Worth(now) >= Worth(old.used) + Burst + r /\ Worth(old.used) \in Int /\ Worth(now) \in Int
  BY <1>7, <1>10, <1>11, WorthGrows
<1>13. passed + h <= Worth(now)
  <2>1. passed + o <= Burst + Worth(old.used) BY <1>9 DEF Accounts
  <2> QED BY <1>6, <1>8, <1>11, <1>12, <2>1
<1>14. Holding' = Holding BY <1>1 DEF Holding
<1>15. MapInv' BY <1>1, <1>2, <1>11, <1>13, <1>14 DEF MapInv, Worth
<1> QED BY <1>1, <1>3, <1>15 DEF RateInv

\* Time goes on while no request holds a clock that is too old.
LEMMA TickKeeps ==
  ASSUME RateInv, Tick
  PROVE  RateInv'
<1>1. /\ now < MaxTime /\ now' = now + 1 /\ UNCHANGED <<shared, buckets, current, seeker, passed, outages>>
      /\ \A q \in Request : seeker[q] # Looking => now - seeker[q].clock < Skew
  BY DEF Tick
<1>2. RateTypeOK BY DEF RateInv
<1>3. now \in Nat /\ MaxTime \in Nat /\ Skew \in Nat /\ now' \in 0..MaxTime BY <1>1, <1>2, LimitAssumption DEF RateTypeOK
<1>4. RateTypeOK'
  <2>1. \A i : (i \in 0..now => i \in 0..now') /\ (i \in -Skew..now => i \in -Skew..now') /\ (i \in -1..now => i \in -1..now')
    BY <1>1, <1>3
  <2>2. buckets' \in [1..MaxBuckets -> [tokens : Int, last : -Skew..now', used : -1..now']]
    <3>1. \A b \in 1..MaxBuckets : buckets[b] \in [tokens : Int, last : -Skew..now, used : -1..now] BY <1>2 DEF RateTypeOK
    <3>2. \A b \in 1..MaxBuckets : buckets[b] \in [tokens : Int, last : -Skew..now', used : -1..now'] BY <2>1, <3>1
    <3>3. buckets \in [1..MaxBuckets -> [tokens : Int, last : -Skew..now, used : -1..now]] BY <1>2 DEF RateTypeOK
    <3> QED BY <1>1, <3>2, <3>3
  <2>3. seeker' \in [Request -> [bucket : 1..MaxBuckets, clock : 0..now'] \union {Looking}]
    <3>1. \A r \in [bucket : 1..MaxBuckets, clock : 0..now] : r \in [bucket : 1..MaxBuckets, clock : 0..now'] BY <2>1
    <3> QED BY <1>1, <1>2, <3>1 DEF RateTypeOK
  <2> QED BY <1>1, <1>2, <1>3, <2>2, <2>3 DEF RateTypeOK
<1>5. CASE shared
  <2>1. RedisInv BY <1>5 DEF RateInv
  <2>2. current' = 1 => Accounts(buckets[1], passed - outages)'
    <3> SUFFICES ASSUME current = 1 PROVE Accounts(buckets[1], passed - outages)'
      BY <1>1
    <3>1. PICK b : b = buckets[1] OBVIOUS
    <3>2. Accounts(b, passed - outages) BY <2>1, <3>1 DEF RedisInv
    <3>3. b.used \in Int
      <4>1. b \in [tokens : Int, last : -Skew..now, used : -1..now] BY <1>2, <3>1, LimitAssumption DEF RateTypeOK
      <4> QED BY <1>3, <4>1
    <3> QED BY <1>1, <1>3, <3>1, <3>2, <3>3 DEF Accounts, Worth
  <2>3. RedisInv' BY <1>1, <2>1, <2>2 DEF RedisInv
  <2> QED BY <1>1, <1>4, <1>5, <2>3 DEF RateInv
<1>6. CASE ~ shared
  <2>1. MapInv BY <1>6 DEF RateInv
  <2>2. Holding' = Holding /\ \A i : Elsewhere(i)' = Elsewhere(i) BY <1>1 DEF Holding, Elsewhere
  <2>3. ASSUME NEW q \in Holding PROVE seeker[q].clock \in (now' - Skew)..now'
    <3>1. seeker[q].clock \in (now - Skew)..now BY <2>1 DEF MapInv
    <3>2. now - seeker[q].clock < Skew BY <1>1 DEF Holding
    <3> QED BY <1>1, <1>3, <3>1, <3>2
  <2>4. current = 0 => passed + Cardinality(Holding) <= Worth(now')
    <3>1. PICK h \in Nat : h = Cardinality(Holding) BY Holders
    <3>2. now \in Int /\ now' \in Int /\ now <= now' /\ passed \in Nat BY <1>1, <1>2, <1>3 DEF RateTypeOK
    <3>3. Worth(now) \in Int /\ Worth(now') \in Int /\ Worth(now) <= Worth(now') BY <3>2, WorthGrows
    <3>4. current = 0 => passed + h <= Worth(now) BY <2>1, <3>1 DEF MapInv
    <3> QED BY <3>1, <3>2, <3>3, <3>4
  <2>5. current # 0 => Accounts(buckets[current], passed + Cardinality(Elsewhere(current)))'
    <3> SUFFICES ASSUME current # 0 PROVE Accounts(buckets[current], passed + Cardinality(Elsewhere(current)))'
      BY <1>1
    <3>1. PICK c \in 1..MaxBuckets : c = current /\ c = current' BY <1>1, <1>2, LimitAssumption DEF RateTypeOK
    <3>2. PICK b : b = buckets[c] OBVIOUS
    <3>3. PICK g : g = passed + Cardinality(Elsewhere(c)) OBVIOUS
    <3>4. Accounts(b, g) BY <2>1, <3>1, <3>2, <3>3 DEF MapInv
    <3>5. b.used \in Int
      <4>1. b \in [tokens : Int, last : -Skew..now, used : -1..now] BY <1>2, <3>2 DEF RateTypeOK
      <4> QED BY <1>3, <4>1
    <3>6. (passed + Cardinality(Elsewhere(current)))' = g /\ (buckets[current])' = b
      <4>1. Elsewhere(current)' = Elsewhere(c)' BY <3>1 DEF Elsewhere, Holding
      <4> QED BY <1>1, <2>2, <3>1, <3>2, <3>3, <4>1
    <3> QED BY <1>1, <1>3, <3>4, <3>5, <3>6 DEF Accounts, Worth
  <2>6. MapInv' BY <1>1, <2>1, <2>2, <2>3, <2>4, <2>5 DEF MapInv, Worth
  <2> QED BY <1>1, <1>4, <1>6, <2>6 DEF RateInv
<1> QED BY <1>5, <1>6

\* Nothing has passed at first.
LEMMA RateInvInit ==
  ASSUME RateInit
  PROVE  RateInv
<1>1. Skew \in Nat /\ Burst \in Nat /\ MaxTime \in Nat /\ MaxOutages \in Nat BY LimitAssumption
<1>2. Unmade \in [tokens : Int, last : -Skew..0, used : -1..0] /\ Unmade.tokens <= Burst BY <1>1 DEF Unmade
<1>3. RateTypeOK BY <1>1, <1>2, LimitAssumption DEF RateTypeOK, RateInit
<1>4. Holding = {} BY DEF Holding, RateInit
<1>5. Cardinality(Holding) = 0 BY <1>4, FS_EmptySet
<1>6. Worth(0) >= 0 BY <1>1, WorthGrows
<1>7. RedisInv BY DEF RedisInv, RateInit
<1>8. MapInv BY <1>4, <1>5, <1>6 DEF MapInv, RateInit
<1> QED BY <1>3, <1>7, <1>8 DEF RateInv

\* The invariant holds after every step.
LEMMA RateStep ==
  ASSUME RateInv, [RateNext]_rateVars
  PROVE  RateInv'
<1>1. CASE UNCHANGED rateVars
  <2>1. Holding' = Holding /\ \A i : Elsewhere(i)' = Elsewhere(i) BY <1>1 DEF rateVars, Holding, Elsewhere
  <2>2. Elsewhere(current)' = Elsewhere(current) BY <1>1 DEF rateVars, Holding, Elsewhere
  <2> QED BY <1>1, <2>1, <2>2 DEF rateVars, RateInv, RateTypeOK, RedisInv, MapInv, Accounts, Worth
<1>2. CASE \E q \in Request : Seek(q) \/ Spend(q) BY <1>2, SeekKeeps, SpendKeeps
<1> QED BY <1>1, <1>2, AskRedisKeeps, PassOpenKeeps, CleanUpMapKeeps, TickKeeps DEF RateNext

\* The invariant holds throughout.
LEMMA RateMain == RateSpec => []RateInv
<1>1. RateInit => RateInv BY RateInvInit
<1>2. RateInv /\ [RateNext]_rateVars => RateInv' BY RateStep
<1> QED BY <1>1, <1>2, PTL DEF RateSpec

\* What the invariant says of the requests that passed.
LEMMA WithinRate ==
  ASSUME RateInv
  PROVE  PassesWithinRate
<1>1. /\ RateTypeOK /\ now \in Nat /\ passed \in Nat /\ outages \in Nat /\ Burst \in Nat /\ Skew \in Nat /\ now \in Int
  BY LimitAssumption DEF RateInv, RateTypeOK
<1>2. Worth(now) \in Int /\ Worth(now) >= 0 BY <1>1, WorthGrows
<1>3. ASSUME NEW g \in Int, NEW c \in 1..MaxBuckets, Accounts(buckets[c], g)
      PROVE  g <= Burst + Worth(now)
  <2>1. PICK b : b = buckets[c] OBVIOUS
  <2>2. b \in [tokens : Int, last : -Skew..now, used : -1..now] BY <1>1, <2>1 DEF RateTypeOK
  <2>3. b.used \in Int /\ b.used <= now BY <1>1, <2>2
  <2>4. Worth(b.used) \in Int /\ Worth(b.used) <= Worth(now) BY <1>1, <2>3, WorthGrows
  <2> QED BY <1>1, <1>2, <1>3, <2>1, <2>4 DEF Accounts
<1>4. passed <= Burst + Worth(now) + outages
  <2>1. CASE shared
    <3>1. RedisInv BY <2>1 DEF RateInv
    <3>2. CASE current = 0 BY <1>1, <1>2, <3>1, <3>2 DEF RedisInv
    <3>3. CASE current = 1
      <4>1. PICK g \in Int : g = passed - outages BY <1>1
      <4>2. Accounts(buckets[1], g) BY <3>1, <3>3, <4>1 DEF RedisInv
      <4>3. 1 \in 1..MaxBuckets BY LimitAssumption
      <4>4. g <= Burst + Worth(now) BY <1>3, <4>2, <4>3
      <4> QED BY <1>1, <1>2, <4>1, <4>4
    <3> QED BY <3>1, <3>2, <3>3 DEF RedisInv
  <2>2. CASE ~ shared
    <3>1. MapInv BY <2>2 DEF RateInv
    <3>2. CASE current = 0
      <4>1. PICK h \in Nat : h = Cardinality(Holding) BY Holders
      <4>2. passed + h <= Worth(now) BY <3>1, <3>2, <4>1 DEF MapInv
      <4> QED BY <1>1, <1>2, <4>2
    <3>3. CASE current # 0
      <4>1. PICK o \in Nat : o = Cardinality(Elsewhere(current)) BY Holders
      <4>2. PICK g \in Int : g = passed + o BY <1>1
      <4>3. PICK c \in 1..MaxBuckets : c = current BY <1>1, <3>3, LimitAssumption DEF RateTypeOK
      <4>4. Accounts(buckets[c], g) BY <3>1, <3>3, <4>1, <4>2, <4>3 DEF MapInv
      <4>5. g <= Burst + Worth(now) BY <1>3, <4>4
      <4> QED BY <1>1, <1>2, <4>2, <4>5
    <3> QED BY <3>2, <3>3
  <2> QED BY <2>1, <2>2
<1> QED BY <1>4 DEF PassesWithinRate, Worth

\* For any number of requests, any rate, burst and skew, and buckets that are kept until
\* they would be full: whatever clocks the gateways pass and whoever holds a bucket that
\* was dropped, the requests let through are the burst and what the rate allows.
THEOREM PassesStayWithinRate == RateSpec => []PassesWithinRate
<1>1. RateInv => PassesWithinRate BY WithinRate
<1> QED BY <1>1, RateMain, PTL

\* Buckets hold no more than the burst, and no bucket was filled or used in the future.
THEOREM RateTyped == RateSpec => []RateTypeOK
<1>1. RateInv => RateTypeOK BY DEF RateInv
<1> QED BY <1>1, RateMain, PTL

(***************************************************************************)
(* The saga library                                                        *)
(***************************************************************************)
Executing == runner.at \in {"start", "check", "try", "record"} \/ (runner.at = "finish" /\ runner.ok)
Undoing == runner.at = "undo" \/ (runner.at = "finish" /\ ~runner.ok)

\* A saga that has ended is not run; before that the store has heard of no
\* compensation, and of a saga that was not marked as compensating it says of no
\* step that it is completed unless it stands, if no update was lost.
StoredInv ==
  /\ stored.status \in {"completed", "compensated"} => runner = Resting
  /\ stored.status \in {"pending", "running", "compensating"} =>
       \A s \in LibStep : stored.results[s] # "compensated"
  /\ stored.status \in {"pending", "running"} =>
       /\ \A s \in LibStep : s < stored.current => stored.results[s] = "completed"
       /\ lost = 0 => \A s \in LibStep : stored.results[s] = "completed" => s \in takes

\* So it is for the instance that is executed, and of one that is undone the steps
\* that were passed are compensated, failed or without a compensation.
RunnerInv == runner # Resting =>
  /\ stored # NoInstance
  /\ runner.at = "compensate" \/ Executing => \A s \in LibStep : Inst.results[s] # "compensated"
  /\ Executing =>
       /\ \A s \in LibStep : s < Inst.current => Inst.results[s] = "completed"
       /\ lost = 0 => /\ stored.status \in {"pending", "running"}
                      /\ \A s \in LibStep : Inst.results[s] = "completed" => s \in takes
  /\ runner.at \in {"check", "try", "record"} => Inst.status = "running"
  /\ runner.at \in {"try", "record"} => Inst.current \in LibStep
  /\ runner.at = "record" /\ runner.ok => Inst.current \in takes
  /\ runner.at = "finish" => IF runner.ok THEN Inst.current > Length ELSE runner.undo = 0
  /\ Undoing =>
       /\ lost = 0 => stored.status = "compensating"
       /\ \A s \in LibStep :
            /\ Inst.results[s] = "compensated" => s > runner.undo /\ s \notin takes
            /\ Inst.results[s] = "completed" /\ s > runner.undo => s \notin Compensable

LibraryInv == LibraryTypeOK /\ StoredInv /\ RunnerInv /\ EndsAsStored

\* The initial state satisfies the invariant.
LEMMA LibraryInitInv == LibraryInit => LibraryInv
BY LibraryAssumption DEF LibraryInit, LibraryInv, LibraryTypeOK, StoredInv, RunnerInv, EndsAsStored, NoInstance, Resting

\* What a runner and a stored instance are.
LEMMA LibraryKinds ==
  ASSUME LibraryTypeOK
  PROVE  /\ runner # Resting => runner \in Running /\ Inst \in LibInstance
         /\ stored # NoInstance => stored \in LibInstance
         /\ stored.status = "none" <=> stored = NoInstance
         /\ lost \in Nat /\ MaxLost \in Nat /\ Length \in Nat /\ Compensable \subseteq LibStep /\ Retries \in Nat
BY LibraryAssumption DEF LibraryTypeOK, NoInstance, LibInstance, Running, Inst, LibStep

\* Every step keeps the invariant.
LEMMA LibraryStep == LibraryInv /\ [LibraryNext]_libVars => LibraryInv'
<1> SUFFICES ASSUME LibraryInv, [LibraryNext]_libVars PROVE LibraryInv'
  OBVIOUS
<1>t. LibraryTypeOK /\ StoredInv /\ RunnerInv /\ EndsAsStored BY DEF LibraryInv
<1>k. /\ runner # Resting => runner \in Running /\ Inst \in LibInstance
      /\ stored # NoInstance => stored \in LibInstance
      /\ lost \in Nat /\ MaxLost \in Nat /\ Length \in Nat /\ Compensable \subseteq LibStep /\ Retries \in Nat
  BY <1>t, LibraryKinds
<1> USE LibraryAssumption
<1>1. CASE Execute
  <2>1. NewInstance \in LibInstance BY DEF NewInstance, LibInstance, LibStep
  <2>2. runner' \in Running /\ runner' # Resting /\ runner'.at = "start" /\ runner'.instance = NewInstance
    BY <1>1, <1>k, <2>1 DEF Execute, Begins, Running, Resting
  <2>3. LibraryTypeOK' BY <1>1, <1>t, <2>1, <2>2 DEF Execute, LibraryTypeOK
  <2>4. StoredInv' BY <1>1, <1>k, <2>2 DEF Execute, StoredInv, NewInstance, LibStep
  <2>5. RunnerInv' BY <1>1, <1>k, <2>2 DEF Execute, RunnerInv, NewInstance, NoInstance, LibStep, Executing, Undoing, Inst
  <2>6. EndsAsStored' BY <1>1 DEF Execute, EndsAsStored, NewInstance
  <2> QED BY <2>3, <2>4, <2>5, <2>6 DEF LibraryInv
<1>2. CASE Resume
  <2>1. PICK at \in {"start", "compensate"} :
          /\ Begins(stored, at)
          /\ IF at = "start" THEN stored.status \in {"pending", "running"} ELSE stored.status = "compensating"
    BY <1>2 DEF Resume
  <2>2. runner' \in Running /\ runner' # Resting /\ runner'.at = at /\ runner'.instance = stored
    BY <1>2, <1>k, <2>1 DEF Resume, Begins, Running, Resting
  <2>3. UNCHANGED <<stored, takes, crashes, lost>> /\ stored # NoInstance BY <1>2 DEF Resume
  <2>4. LibraryTypeOK' BY <1>t, <2>2, <2>3 DEF LibraryTypeOK
  <2>5. StoredInv' BY <1>t, <2>1, <2>2, <2>3 DEF StoredInv
  <2>6. RunnerInv' BY <1>t, <2>1, <2>2, <2>3 DEF StoredInv, RunnerInv, Executing, Undoing, Inst
  <2>7. EndsAsStored' BY <1>t, <2>3 DEF EndsAsStored
  <2> QED BY <2>4, <2>5, <2>6, <2>7 DEF LibraryInv
<1>3. CASE StartSteps
  <2>0. runner # Resting /\ runner.at = "start" /\ UNCHANGED <<takes, crashes>> BY <1>3 DEF StartSteps
  <2>1. PICK inst \in LibInstance :
          /\ inst.status = "running" /\ inst.current = Inst.current /\ inst.results = Inst.results
          /\ Store(inst) /\ runner' = [runner EXCEPT !.at = "check", !.instance = inst]
    BY <1>3, <1>k DEF StartSteps, LibInstance
  <2>2. runner' \in Running /\ runner' # Resting /\ runner'.at = "check" /\ runner'.instance = inst
    BY <1>k, <2>0, <2>1 DEF Running, Resting
  <2>3. LibraryTypeOK' BY <1>t, <1>k, <2>0, <2>1, <2>2 DEF LibraryTypeOK, Store
  <2>4. StoredInv' BY <1>t, <1>k, <2>0, <2>1, <2>2 DEF StoredInv, RunnerInv, Store, Executing
  <2>5. RunnerInv' BY <1>t, <1>k, <2>0, <2>1, <2>2 DEF StoredInv, RunnerInv, Store, Executing, Undoing, Inst, NoInstance
  <2>6. EndsAsStored' BY <1>t, <1>k, <2>0, <2>1 DEF EndsAsStored, Store
  <2> QED BY <2>3, <2>4, <2>5, <2>6 DEF LibraryInv
<1>4. CASE CheckStep
  <2>0. runner # Resting /\ runner.at = "check" /\ UNCHANGED <<stored, takes, crashes, lost>> BY <1>4 DEF CheckStep
  <2>1. runner \in Running /\ Inst \in LibInstance BY <1>k, <2>0
  <2>5. runner' \in Running /\ runner' # Resting /\ RunnerInv'
    <3>1. CASE Inst.current > Length
      <4>1. runner' \in Running /\ runner' # Resting /\ runner'.at = "finish" /\ runner'.ok /\ runner'.instance = Inst
        BY <1>4, <1>k, <2>0, <2>1, <3>1 DEF CheckStep, Running, Resting, Inst
      <4> QED BY <1>t, <2>0, <3>1, <4>1 DEF RunnerInv, Executing, Undoing, Inst
    <3>2. CASE ~ (Inst.current > Length) /\ runner.late
      <4>1. runner' \in Running /\ runner' # Resting /\ runner'.at = "compensate" /\ runner'.instance = Inst
        BY <1>4, <1>k, <2>0, <2>1, <3>2 DEF CheckStep, Running, Resting, Inst
      <4> QED BY <1>t, <2>0, <4>1 DEF RunnerInv, Executing, Undoing, Inst
    <3>3. CASE ~ (Inst.current > Length) /\ ~runner.late /\ Inst.results[Inst.current] = "completed"
      <4>0. /\ Inst.current \in Nat
            /\ [Inst EXCEPT !.current = Inst.current + 1] \in LibInstance
            /\ [Inst EXCEPT !.current = Inst.current + 1].current = Inst.current + 1
            /\ [Inst EXCEPT !.current = Inst.current + 1].results = Inst.results
            /\ [Inst EXCEPT !.current = Inst.current + 1].status = Inst.status
        BY <1>k, <2>1, <3>3 DEF LibInstance
      <4>1. runner' = [runner EXCEPT !.instance = [Inst EXCEPT !.current = Inst.current + 1]]
        BY <1>4, <1>k, <2>0, <2>1, <3>3 DEF CheckStep, Running, Inst
      <4>2. /\ runner' \in Running /\ runner' # Resting /\ runner'.at = "check"
            /\ runner'.instance.current = Inst.current + 1 /\ runner'.instance.results = Inst.results
            /\ runner'.instance.status = Inst.status
        BY <2>0, <2>1, <4>0, <4>1 DEF Running, Resting
      <4>3. \A s \in LibStep : s < Inst.current + 1 => s < Inst.current \/ s = Inst.current
        BY <4>0 DEF LibStep
      <4> QED BY <1>t, <2>0, <3>3, <4>2, <4>3 DEF RunnerInv, Executing, Undoing, Inst
    <3>4. CASE ~ (Inst.current > Length) /\ ~runner.late /\ Inst.results[Inst.current] # "completed"
      <4>1. runner' \in Running /\ runner' # Resting /\ runner'.at = "try" /\ runner'.instance = Inst
        <5>1. runner' = [runner EXCEPT !.at = "try", !.tries = 0] BY <1>4, <3>4 DEF CheckStep
        <5>2. 0 \in 0..Retries BY <1>k
        <5>3. [runner EXCEPT !.at = "try", !.tries = 0] \in Running BY <2>1, <5>2 DEF Running
        <5> QED BY <2>1, <5>1, <5>3 DEF Running, Resting, Inst
      <4>2. Inst.current \in LibStep BY <1>k, <2>1, <3>4 DEF LibInstance, LibStep
      <4> QED BY <1>t, <2>0, <4>1, <4>2 DEF RunnerInv, Executing, Undoing, Inst
    <3> QED BY <3>1, <3>2, <3>3, <3>4
  <2>2. LibraryTypeOK' BY <1>t, <2>0, <2>5 DEF LibraryTypeOK
  <2>3. StoredInv' BY <1>t, <2>0, <2>5 DEF StoredInv
  <2>6. EndsAsStored' BY <1>t, <2>0 DEF EndsAsStored
  <2> QED BY <2>2, <2>3, <2>5, <2>6 DEF LibraryInv
<1>5. CASE TryStep
  <2>0. runner # Resting /\ runner.at = "try" /\ UNCHANGED <<stored, crashes, lost>> BY <1>5 DEF TryStep
  <2>1. runner \in Running /\ Inst \in LibInstance /\ Inst.current \in LibStep BY <1>t, <1>k, <2>0 DEF RunnerInv
  <2>2. takes' \in {takes, takes \union {Inst.current}} /\ takes' \subseteq LibStep
    BY <1>5, <1>t, <2>1 DEF TryStep, LibraryTypeOK
  <2>3. /\ runner' \in Running /\ runner' # Resting /\ runner'.instance = Inst
        /\ \/ runner'.at = "record" /\ runner'.ok /\ Inst.current \in takes'
           \/ runner'.at = "try"
           \/ runner'.at = "record" /\ ~runner'.ok
    <3>1. CASE takes' = takes \union {Inst.current} /\ runner' = [runner EXCEPT !.at = "record", !.ok = TRUE]
      BY <2>0, <2>1, <3>1 DEF Running, Resting, Inst
    <3>2. CASE runner.tries < Retries /\ runner' = [runner EXCEPT !.tries = runner.tries + 1]
      BY <1>k, <2>0, <2>1, <3>2 DEF Running, Resting, Inst
    <3>3. CASE runner' = [runner EXCEPT !.at = "record", !.ok = FALSE]
      BY <2>0, <2>1, <3>3 DEF Running, Resting, Inst
    <3> QED BY <1>5, <3>1, <3>2, <3>3 DEF TryStep
  <2>4. LibraryTypeOK' BY <1>t, <2>0, <2>2, <2>3 DEF LibraryTypeOK
  <2>5. StoredInv' BY <1>t, <2>0, <2>2, <2>3 DEF StoredInv
  <2>6. RunnerInv' BY <1>t, <2>0, <2>1, <2>2, <2>3 DEF RunnerInv, Executing, Undoing, Inst
  <2>7. EndsAsStored' BY <1>t, <1>k, <2>0 DEF EndsAsStored, StoredInv
  <2> QED BY <2>4, <2>5, <2>6, <2>7 DEF LibraryInv
<1>6. CASE RecordStep
  <2>0. runner # Resting /\ runner.at = "record" /\ UNCHANGED <<takes, crashes>> BY <1>6 DEF RecordStep
  <2>1. runner \in Running /\ Inst \in LibInstance /\ Inst.current \in LibStep BY <1>t, <1>k, <2>0 DEF RunnerInv
  <2>2. PICK inst \in LibInstance :
          /\ inst.status = Inst.status /\ inst.current = Inst.current
          /\ inst.results = [Inst.results EXCEPT ![Inst.current] = IF runner.ok THEN "completed" ELSE "failed"]
          /\ Store(inst)
          /\ runner' = IF runner.ok
             THEN [runner EXCEPT !.at = "check", !.instance = [inst EXCEPT !.data = @ \union {Inst.current}, !.current = Inst.current + 1]]
             ELSE [runner EXCEPT !.at = "compensate", !.instance = inst]
    <3> DEFINE new == [Inst EXCEPT !.results[Inst.current] = IF runner.ok THEN "completed" ELSE "failed"]
    <3>1. new \in LibInstance /\ new.status = Inst.status /\ new.current = Inst.current
          /\ new.results = [Inst.results EXCEPT ![Inst.current] = IF runner.ok THEN "completed" ELSE "failed"]
      BY <2>1 DEF LibInstance
    <3> QED BY <1>6, <3>1 DEF RecordStep
  <2>3. /\ inst.results[Inst.current] = IF runner.ok THEN "completed" ELSE "failed"
        /\ \A s \in LibStep \ {Inst.current} : inst.results[s] = Inst.results[s]
    BY <2>1, <2>2 DEF LibInstance
  <2>4. /\ runner' \in Running /\ runner' # Resting
        /\ runner'.instance.results = inst.results /\ runner'.instance.status = inst.status
        /\ runner.ok => runner'.at = "check" /\ runner'.instance.current = Inst.current + 1
        /\ ~runner.ok => runner'.at = "compensate"
    <3>1. CASE runner.ok
      <4>1. [inst EXCEPT !.data = @ \union {Inst.current}, !.current = Inst.current + 1] \in LibInstance
        <5>1. Inst.current + 1 \in 1..(Length + 1) BY <1>k, <2>1 DEF LibStep
        <5>2. inst.data \union {Inst.current} \in SUBSET LibStep BY <2>1, <2>2 DEF LibInstance
        <5> QED BY <2>2, <5>1, <5>2 DEF LibInstance
      <4>2. [inst EXCEPT !.data = @ \union {Inst.current}, !.current = Inst.current + 1].results = inst.results
            /\ [inst EXCEPT !.data = @ \union {Inst.current}, !.current = Inst.current + 1].current = Inst.current + 1
            /\ [inst EXCEPT !.data = @ \union {Inst.current}, !.current = Inst.current + 1].status = inst.status
        BY <2>2 DEF LibInstance
      <4> QED BY <2>1, <2>2, <3>1, <4>1, <4>2 DEF Running, Resting
    <3>2. CASE ~runner.ok BY <2>1, <2>2, <3>2 DEF Running, Resting
    <3> QED BY <3>1, <3>2
  <2>5. LibraryTypeOK' BY <1>t, <1>k, <2>0, <2>2, <2>4 DEF LibraryTypeOK, Store
  <2>6. \A s \in LibStep : s < Inst.current + 1 => s < Inst.current \/ s = Inst.current BY <2>1 DEF LibStep
  <2>a. /\ inst.status = "running" /\ inst.current = Inst.current
        /\ \A s \in LibStep : Inst.results[s] # "compensated"
        /\ \A s \in LibStep : s < Inst.current => Inst.results[s] = "completed"
        /\ lost = 0 => /\ stored.status \in {"pending", "running"}
                       /\ \A s \in LibStep : Inst.results[s] = "completed" => s \in takes
        /\ runner.ok => Inst.current \in takes
    BY <1>t, <2>0, <2>2 DEF RunnerInv, Executing
  <2>7. StoredInv'
    <3>1. CASE stored' = inst /\ UNCHANGED lost
      <4>1. \A s \in LibStep : s < Inst.current => s # Inst.current BY <2>1 DEF LibStep
      <4>2. \A s \in LibStep : inst.results[s] # "compensated" /\ (s < Inst.current => inst.results[s] = "completed")
        BY <2>3, <2>a, <4>1
      <4>3. lost = 0 => \A s \in LibStep : inst.results[s] = "completed" => s \in takes
        BY <2>3, <2>a
      <4> QED BY <2>0, <2>4, <2>a, <3>1, <4>2, <4>3 DEF StoredInv
    <3>2. CASE lost' = lost + 1 /\ UNCHANGED stored
      BY <1>t, <1>k, <2>0, <2>4, <3>2 DEF StoredInv
    <3> QED BY <2>2, <3>1, <3>2 DEF Store
  <2>8. RunnerInv'
    <3>1. stored' # NoInstance /\ (lost' = 0 => lost = 0 /\ stored' = inst)
      BY <1>t, <1>k, <2>0, <2>2 DEF Store, RunnerInv, NoInstance, LibInstance
    <3>2. \A s \in LibStep : inst.results[s] # "compensated" BY <2>3, <2>a
    <3>3. CASE runner.ok
      <4>1. \A s \in LibStep : s < Inst.current + 1 => inst.results[s] = "completed" BY <2>3, <2>6, <2>a, <3>3
      <4>2. lost = 0 => \A s \in LibStep : inst.results[s] = "completed" => s \in takes BY <2>3, <2>a
      <4> QED BY <2>0, <2>4, <2>a, <3>1, <3>2, <3>3, <4>1, <4>2 DEF RunnerInv, Executing, Undoing, Inst
    <3>4. CASE ~runner.ok
      BY <2>0, <2>4, <2>a, <3>1, <3>2, <3>4 DEF RunnerInv, Executing, Undoing, Inst
    <3> QED BY <3>3, <3>4
  <2>9. EndsAsStored' BY <1>t, <2>0, <2>2, <2>a DEF EndsAsStored, StoredInv, Store
  <2> QED BY <2>5, <2>7, <2>8, <2>9 DEF LibraryInv
<1>7. CASE ContextEnds
  <2>0. runner # Resting /\ runner' = [runner EXCEPT !.late = TRUE] /\ UNCHANGED <<stored, takes, crashes, lost>>
    BY <1>7 DEF ContextEnds
  <2>1. /\ runner' \in Running /\ runner' # Resting
        /\ runner'.at = runner.at /\ runner'.ok = runner.ok /\ runner'.undo = runner.undo /\ runner'.instance = Inst
    BY <1>k, <2>0 DEF Running, Resting, Inst
  <2> QED BY <1>t, <2>0, <2>1 DEF LibraryInv, LibraryTypeOK, StoredInv, RunnerInv, EndsAsStored, Executing, Undoing, Inst
<1>8. CASE MarkCompensating
  <2>0. runner # Resting /\ runner.at = "compensate" /\ UNCHANGED <<takes, crashes>> BY <1>8 DEF MarkCompensating
  <2>1. PICK inst \in LibInstance :
          /\ inst.status = "compensating" /\ inst.results = Inst.results
          /\ Store(inst) /\ runner' = [runner EXCEPT !.at = "undo", !.undo = Length, !.instance = inst]
    BY <1>8, <1>k, <2>0 DEF MarkCompensating, LibInstance
  <2>2. runner' \in Running /\ runner' # Resting /\ runner'.at = "undo" /\ runner'.undo = Length /\ runner'.instance = inst
    <3>1. runner \in Running /\ Length \in 0..Length BY <1>k, <2>0
    <3> QED BY <2>1, <3>1 DEF Running, Resting
  <2>3. LibraryTypeOK' BY <1>t, <1>k, <2>0, <2>1, <2>2 DEF LibraryTypeOK, Store
  <2>4. StoredInv' BY <1>t, <1>k, <2>0, <2>1, <2>2 DEF StoredInv, RunnerInv, Store
  <2>5. RunnerInv' BY <1>t, <1>k, <2>0, <2>1, <2>2 DEF RunnerInv, Store, Executing, Undoing, Inst, NoInstance, LibStep
  <2>6. EndsAsStored' BY <1>t, <1>k, <2>0, <2>1 DEF EndsAsStored, Store, StoredInv
  <2> QED BY <2>3, <2>4, <2>5, <2>6 DEF LibraryInv
<1>9. CASE UndoStep
  <2>0. runner # Resting /\ runner.at = "undo" /\ UNCHANGED <<stored, crashes, lost>> BY <1>9 DEF UndoStep
  <2>1. runner \in Running /\ Inst \in LibInstance /\ runner.undo \in 0..Length BY <1>k, <2>0 DEF Running
  <2> DEFINE Passed ==
        /\ takes' \subseteq takes /\ takes \ takes' \subseteq {runner.undo}
        /\ runner' \in Running /\ runner' # Resting
        /\ \/ /\ runner.undo = 0 /\ runner'.at = "finish" /\ ~runner'.ok
              /\ runner'.undo = 0 /\ runner'.instance = Inst
           \/ /\ runner.undo > 0 /\ runner'.at = "undo" /\ runner'.undo = runner.undo - 1
              /\ \A s \in LibStep \ {runner.undo} : runner'.instance.results[s] = Inst.results[s]
              /\ \/ /\ runner'.instance.results[runner.undo] = Inst.results[runner.undo]
                    /\ Inst.results[runner.undo] # "completed" \/ runner.undo \notin Compensable
                 \/ runner'.instance.results[runner.undo] = "compensated" /\ runner.undo \notin takes'
                 \/ runner'.instance.results[runner.undo] = "failed"
  <2>2. Passed
    <3>1. CASE runner.undo = 0
      BY <1>9, <2>0, <2>1, <3>1 DEF UndoStep, Running, Resting, Inst
    <3>2. CASE runner.undo # 0 /\ (Inst.results[runner.undo] # "completed" \/ runner.undo \notin Compensable)
      <4>1. UNCHANGED takes /\ runner' = [runner EXCEPT !.undo = runner.undo - 1]
        BY <1>9, <2>0, <2>1, <3>2 DEF UndoStep
      <4>2. runner.undo - 1 \in 0..Length BY <1>k, <2>1, <3>2
      <4> QED BY <1>k, <2>0, <2>1, <3>2, <4>1, <4>2 DEF Running, Resting, Inst
    <3>3. ASSUME runner.undo # 0, NEW result \in {"compensated", "failed"},
                 takes' \in {takes, takes \ {runner.undo}}, result = "compensated" => takes' = takes \ {runner.undo},
                 runner' = [runner EXCEPT !.undo = runner.undo - 1, !.instance.results[runner.undo] = result]
          PROVE  Passed
      <4> DEFINE new == [Inst EXCEPT !.results[runner.undo] = result]
      <4>1. runner.undo - 1 \in 0..Length /\ runner.undo \in LibStep BY <1>k, <2>1, <3>3 DEF LibStep
      <4>2. new \in LibInstance /\ new.results[runner.undo] = result
            /\ \A s \in LibStep \ {runner.undo} : new.results[s] = Inst.results[s]
        BY <2>1, <3>3, <4>1 DEF LibInstance
      <4>3. runner' = [runner EXCEPT !.undo = runner.undo - 1, !.instance = new] BY <2>1, <3>3 DEF Inst, Running
      <4> HIDE DEF new
      <4>4. runner' \in Running /\ runner' # Resting /\ runner'.at = "undo"
            /\ runner'.undo = runner.undo - 1 /\ runner'.instance = new
        BY <2>0, <2>1, <4>1, <4>2, <4>3 DEF Running, Resting
      <4>5. takes' \subseteq takes /\ takes \ takes' \subseteq {runner.undo}
            /\ (result = "compensated" => runner.undo \notin takes') /\ runner.undo > 0
        BY <1>k, <2>1, <3>3
      <4> QED BY <3>3, <4>2, <4>4, <4>5
    <3> QED BY <1>9, <2>0, <3>1, <3>2, <3>3 DEF UndoStep
  <2>3. LibraryTypeOK' BY <1>t, <2>0, <2>2 DEF LibraryTypeOK
  <2>4. StoredInv' BY <1>t, <2>0, <2>2 DEF StoredInv, RunnerInv, Undoing
  <2>5. \A s \in LibStep : s > runner.undo - 1 => s > runner.undo \/ s = runner.undo BY <2>1 DEF LibStep
  <2>a. /\ stored # NoInstance /\ (lost = 0 => stored.status = "compensating")
        /\ \A s \in LibStep :
             /\ Inst.results[s] = "compensated" => s > runner.undo /\ s \notin takes
             /\ Inst.results[s] = "completed" /\ s > runner.undo => s \notin Compensable
    BY <1>t, <2>0 DEF RunnerInv, Undoing
  <2>6. RunnerInv'
    <3>1. CASE runner.undo = 0 /\ runner'.at = "finish"
      BY <2>0, <2>1, <2>2, <2>a, <3>1 DEF RunnerInv, Executing, Undoing, Inst
    <3>2. CASE runner'.at = "undo"
      <4>1. \A s \in LibStep : s # runner.undo => runner'.instance.results[s] = Inst.results[s] BY <2>0, <2>2, <3>2
      <4>2. /\ runner'.undo = runner.undo - 1
            /\ runner'.instance.results[runner.undo] = "compensated" =>
                 runner.undo \notin takes' \/ Inst.results[runner.undo] = "compensated"
            /\ runner'.instance.results[runner.undo] = "completed" => runner.undo \notin Compensable
        BY <2>0, <2>2, <3>2
      <4>3. \A s \in LibStep : s > runner.undo => s > runner.undo - 1 BY <2>1 DEF LibStep
      <4>4. runner.undo > runner.undo - 1 BY <2>1
      <4>5. \A s \in LibStep :
             /\ runner'.instance.results[s] = "compensated" => s > runner'.undo /\ s \notin takes'
             /\ runner'.instance.results[s] = "completed" /\ s > runner'.undo => s \notin Compensable
        BY <2>2, <2>5, <2>a, <4>1, <4>2, <4>3, <4>4
      <4> QED BY <2>0, <2>a, <3>2, <4>5 DEF RunnerInv, Executing, Undoing, Inst
    <3> QED BY <2>2, <3>1, <3>2
  <2>7. EndsAsStored' BY <1>t, <2>0 DEF EndsAsStored, StoredInv
  <2> QED BY <2>3, <2>4, <2>6, <2>7 DEF LibraryInv
<1>10. CASE Finish
  <2>0. runner # Resting /\ runner.at = "finish" /\ runner' = Resting /\ UNCHANGED <<takes, crashes>> BY <1>10 DEF Finish
  <2>1. PICK inst \in LibInstance :
          /\ inst.status = IF runner.ok THEN "completed" ELSE "compensated"
          /\ inst.results = Inst.results
          /\ Store(inst)
    BY <1>10, <1>k, <2>0 DEF Finish, LibInstance
  <2>2. Inst \in LibInstance /\ runner \in Running BY <1>k, <2>0
  <2>3. LibraryTypeOK' BY <1>t, <1>k, <2>0, <2>1 DEF LibraryTypeOK, Store
  <2>4. StoredInv' BY <1>t, <1>k, <2>0, <2>1 DEF StoredInv, Store
  <2>5. RunnerInv' BY <2>0 DEF RunnerInv
  <2>6. EndsAsStored'
    <3>1. CASE UNCHANGED stored BY <1>t, <2>0, <3>1 DEF StoredInv, EndsAsStored
    <3>2. CASE stored' = inst /\ UNCHANGED lost /\ runner.ok
      <4>1. \A s \in LibStep : s < Inst.current BY <1>t, <1>k, <2>0, <2>2, <3>2 DEF RunnerInv, LibStep, LibInstance
      <4>2. lost = 0 => takes = LibStep
        BY <1>t, <2>0, <3>2, <4>1 DEF RunnerInv, Executing, LibraryTypeOK
      <4> QED BY <2>0, <2>1, <3>2, <4>2 DEF EndsAsStored
    <3>3. CASE stored' = inst /\ UNCHANGED lost /\ ~runner.ok
      <4>1. \A s \in LibStep : s > 0 BY DEF LibStep
      <4> QED BY <1>t, <2>0, <2>1, <3>3, <4>1 DEF RunnerInv, Undoing, EndsAsStored
    <3> QED BY <2>1, <3>1, <3>2, <3>3 DEF Store
  <2> QED BY <2>3, <2>4, <2>5, <2>6 DEF LibraryInv
<1>11. CASE Crash
  <2>1. LibraryTypeOK' BY <1>11, <1>t DEF Crash, LibraryTypeOK
  <2> QED BY <1>11, <1>t, <2>1 DEF Crash, LibraryInv, StoredInv, RunnerInv, EndsAsStored
<1>12. CASE UNCHANGED libVars
  BY <1>12, <1>t DEF libVars, LibraryInv, LibraryTypeOK, StoredInv, RunnerInv, EndsAsStored, Executing, Undoing, Inst
<1> QED BY <1>1, <1>2, <1>3, <1>4, <1>5, <1>6, <1>7, <1>8, <1>9, <1>10, <1>11, <1>12 DEF LibraryNext

\* What the store says of a saga that has ended is so, whatever crashes,
\* resumptions, retries and lost updates came before.
THEOREM SagaEndsAsStored == LibrarySpec => []EndsAsStored
<1>1. LibrarySpec => []LibraryInv BY LibraryInitInv, LibraryStep, PTL DEF LibrarySpec
<1>2. LibraryInv => EndsAsStored BY DEF LibraryInv
<1> QED BY <1>1, <1>2, PTL

\* The stored instance, the runner and the counters keep their types.
THEOREM LibraryTyped == LibrarySpec => []LibraryTypeOK
<1>1. LibrarySpec => []LibraryInv BY LibraryInitInv, LibraryStep, PTL DEF LibrarySpec
<1>2. LibraryInv => LibraryTypeOK BY DEF LibraryInv
<1> QED BY <1>1, <1>2, PTL

(***************************************************************************)
(* The sessions of the auth service                                        *)
(***************************************************************************)
Issued == 1..Len(issued)

\* Every token belongs to a login, and to its user.
LoginsInv ==
  /\ \A t \in Issued : LoginOf(t) \in Issued /\ issued[LoginOf(t)].user = issued[t].user
  /\ loggedOut \subseteq Issued
  /\ \A c \in Call : serving[c] # Free => serving[c].token \in Issued

Serves(c, t) == serving[c] # Free /\ LoginOf(serving[c].token) = LoginOf(t)

\* A call of an undisturbed login is alone and holds its session: stored, or between
\* the delete and the creation of the next one.
CallsInv ==
  \A c \in Call : serving[c] # Free /\ LoginOf(serving[c].token) \notin disturbed =>
    /\ LoginOf(serving[c].token) \notin loggedOut
    /\ \A d \in Call : Serves(d, serving[c].token) => c = d
    /\ IF serving[c].at = "create"
       THEN \A s \in sessions : LoginOf(s) # LoginOf(serving[c].token)
       ELSE serving[c].token \in sessions

SessionsInv == SessionsTypeOK /\ LoginsInv /\ CallsInv /\ OneSessionPerLogin

\* The initial state satisfies the invariant.
LEMMA SessionsInitInv == SessionsInit => SessionsInv
BY TokenAssumption DEF SessionsInit, SessionsInv, SessionsTypeOK, LoginsInv, CallsInv, OneSessionPerLogin, Issued, Free

\* A token that is issued comes after the others.
LEMMA IssueOne ==
  ASSUME SessionsTypeOK, LoginsInv, NEW u \in User, NEW login \in Issued \union {Fresh}, Issue(u, login),
         login # Fresh => issued[login].user = u, 
         \A c \in Call : serving'[c] \in {serving[c], Free}, loggedOut' = loggedOut
  PROVE  /\ issued' \in Seq([user : User, login : Token]) /\ Len(issued') <= MaxTokens
         /\ Len(issued') = Fresh /\ Issued' = Issued \union {Fresh} /\ Fresh \notin Issued /\ Fresh \in Token
         /\ \A t \in Issued : issued'[t] = issued[t]
         /\ issued'[Fresh] = [user |-> u, login |-> login]
         /\ LoginsInv'
<1>1. Len(issued) \in Nat /\ Fresh \in Token /\ Fresh \notin Issued /\ login \in Token
  BY TokenAssumption DEF SessionsTypeOK, Issue, Fresh, Token, Issued
<1>2. /\ issued' \in Seq([user : User, login : Token])
      /\ Len(issued') = Fresh /\ Issued' = Issued \union {Fresh}
      /\ \A t \in Issued : issued'[t] = issued[t]
      /\ issued'[Fresh] = [user |-> u, login |-> login]
  BY <1>1 DEF SessionsTypeOK, Issue, Fresh, Issued
<1>3. Len(issued') <= MaxTokens BY <1>1, <1>2, TokenAssumption DEF Issue, Fresh
<1>4. \A t \in Issued' : issued'[t].login \in Issued' /\ issued'[issued'[t].login].user = issued'[t].user
  <2> SUFFICES ASSUME NEW t \in Issued' PROVE issued'[t].login \in Issued' /\ issued'[issued'[t].login].user = issued'[t].user
    OBVIOUS
  <2>1. CASE t \in Issued BY <1>2, <2>1 DEF LoginsInv, LoginOf
  <2>2. CASE t = Fresh
    <3>1. issued'[t].login = login /\ issued'[t].user = u BY <1>2, <2>2
    <3> QED BY <1>2, <2>2, <3>1
  <2> QED BY <1>2, <2>1, <2>2
<1>5. \A c \in Call : serving'[c] # Free => serving'[c].token \in Issued' BY <1>2 DEF LoginsInv
<1>6. loggedOut' \subseteq Issued' BY <1>2 DEF LoginsInv
<1> QED BY <1>1, <1>2, <1>3, <1>4, <1>5, <1>6 DEF LoginsInv, LoginOf

\* A call that ends or goes on with its token.
LEMMA ServingTyped ==
  ASSUME SessionsTypeOK, NEW c \in Call
  PROVE  /\ serving[c] # Free => /\ serving[c].at \in {"delete", "create", "logout"}
                                 /\ serving[c].token \in Token
         /\ serving[c].at \in {"delete", "create", "logout"} <=> serving[c] # Free
BY DEF SessionsTypeOK, Busy, Free

\* Every step keeps the invariant.
LEMMA SessionsStep == SessionsInv /\ [SessionsNext]_sessionVars => SessionsInv'
<1> SUFFICES ASSUME SessionsInv, [SessionsNext]_sessionVars PROVE SessionsInv'
  OBVIOUS
<1>t. SessionsTypeOK /\ LoginsInv /\ CallsInv /\ OneSessionPerLogin BY DEF SessionsInv
<1>n. Len(issued) \in Nat /\ Issued \subseteq Token /\ Issued = 1..Len(issued)
  BY <1>t, TokenAssumption DEF SessionsTypeOK, Issued, Token
<1> USE TokenAssumption
<1>1. ASSUME NEW u \in User, Register(u) PROVE SessionsInv'
  <2>0. UNCHANGED <<sessions, overdue, serving, loggedOut, disturbed, lostDeletes>>
        /\ registered' \subseteq User /\ Issue(u, Fresh)
    BY <1>1, <1>t DEF Register, SessionsTypeOK
  <2>1. /\ issued' \in Seq([user : User, login : Token]) /\ Len(issued') <= MaxTokens
        /\ Issued' = Issued \union {Fresh}
        /\ \A t \in Issued : issued'[t] = issued[t]
        /\ LoginsInv'
    BY <1>t, <2>0, IssueOne
  <2>2. SessionsTypeOK' BY <1>t, <1>n, <2>0, <2>1 DEF SessionsTypeOK, Issued
  <2>3. sessions \subseteq Issued BY <1>t DEF SessionsTypeOK, Issued
  <2>4. CallsInv' BY <1>t, <2>0, <2>1, <2>3 DEF CallsInv, Serves, LoginOf, LoginsInv
  <2>5. OneSessionPerLogin' BY <1>t, <2>0, <2>1, <2>3 DEF OneSessionPerLogin, LoginOf
  <2> QED BY <2>1, <2>2, <2>4, <2>5 DEF SessionsInv
<1>2. ASSUME NEW u \in User, Login(u) PROVE SessionsInv'
  <2>0. UNCHANGED <<registered, overdue, serving, loggedOut, disturbed, lostDeletes>>
        /\ sessions' = sessions \union {Fresh} /\ Issue(u, Fresh)
    BY <1>2 DEF Login
  <2>1. /\ issued' \in Seq([user : User, login : Token]) /\ Len(issued') <= MaxTokens
        /\ Issued' = Issued \union {Fresh} /\ Fresh \notin Issued
        /\ \A t \in Issued : issued'[t] = issued[t]
        /\ issued'[Fresh] = [user |-> u, login |-> Fresh]
        /\ LoginsInv'
    BY <1>t, <2>0, IssueOne
  <2>2. SessionsTypeOK' BY <1>t, <1>n, <2>0, <2>1 DEF SessionsTypeOK, Issued
  <2>3. sessions \subseteq Issued BY <1>t DEF SessionsTypeOK, Issued
  <2>4. CallsInv' BY <1>t, <2>0, <2>1, <2>3, SMTT(30) DEF CallsInv, Serves, LoginOf, LoginsInv
  <2>5. OneSessionPerLogin' BY <1>t, <2>0, <2>1, <2>3 DEF OneSessionPerLogin, LoginOf, LoginsInv
  <2> QED BY <2>1, <2>2, <2>4, <2>5 DEF SessionsInv
<1>3. ASSUME NEW u \in User, LogoutAll(u) PROVE SessionsInv'
  <2>1. TokensOf(u) \subseteq Issued BY DEF TokensOf, Issued
  <2>2. SessionsTypeOK' BY <1>3, <1>t, <1>n, <2>1 DEF LogoutAll, Unstore, SessionsTypeOK, LoginsInv, Issued, LoginOf
  <2>3. LoginsInv' BY <1>3, <1>t, <2>1 DEF LogoutAll, LoginsInv, Issued, LoginOf
  <2>4. CallsInv' BY <1>3, <1>t, <2>1 DEF LogoutAll, Unstore, CallsInv, Serves, LoginOf, InFlight, LoginsInv
  <2>5. sessions \subseteq Issued BY <1>t DEF SessionsTypeOK, Issued
  <2>6. \A s, t \in Issued : LoginOf(s) = LoginOf(t) /\ t \in TokensOf(u) => s \in TokensOf(u)
    BY <1>t DEF LoginsInv, TokensOf, LoginOf, Issued
  <2>7. OneSessionPerLogin' BY <1>3, <1>t, <2>1, <2>5, <2>6 DEF LogoutAll, Unstore, OneSessionPerLogin, LoginOf
  <2> QED BY <2>2, <2>3, <2>4, <2>7 DEF SessionsInv
<1>4. ASSUME NEW c \in Call, NEW t \in Token, NEW next \in {"delete", "logout"}, Find(c, t, next) PROVE SessionsInv'
  <2>0. t \in Issued /\ t \in sessions /\ serving[c] = Free BY <1>4, <1>t DEF Find, SessionsTypeOK, Issued
  <2>1. serving' = [serving EXCEPT ![c] = [at |-> next, token |-> t]] /\ [at |-> next, token |-> t] \in Busy
        /\ serving'[c] = [at |-> next, token |-> t] /\ serving'[c] # Free
        /\ \A d \in Call \ {c} : serving'[d] = serving[d]
    BY <1>4, <1>t DEF Find, Busy, SessionsTypeOK, Free
  <2>2. SessionsTypeOK' BY <1>4, <1>t, <1>n, <2>0, <2>1 DEF Find, SessionsTypeOK, LoginsInv, Issued, LoginOf
  <2>3. LoginsInv' BY <1>4, <1>t, <2>0, <2>1 DEF Find, LoginsInv, Issued, LoginOf
  <2>4. CallsInv'
    <3>1. \A d \in Call : serving[d] # Free => LoginOf(serving[d].token) \in InFlight BY DEF InFlight
    <3>2. UNCHANGED <<issued, sessions, loggedOut>> /\ disturbed' = disturbed \union ({LoginOf(t)} \intersect InFlight)
      BY <1>4 DEF Find
    <3> QED BY <1>t, <2>0, <2>1, <3>1, <3>2 DEF CallsInv, Serves, LoginOf, OneSessionPerLogin
  <2>5. OneSessionPerLogin' BY <1>4, <1>t DEF Find, OneSessionPerLogin, LoginOf
  <2> QED BY <2>2, <2>3, <2>4, <2>5 DEF SessionsInv
<1>5. ASSUME NEW c \in Call, RefreshDelete(c) PROVE SessionsInv'
  <2>0. serving[c].at = "delete" /\ serving[c] # Free /\ serving[c] \in Busy /\ UNCHANGED <<registered, issued, loggedOut>>
    BY <1>5, <1>t DEF RefreshDelete, Free, SessionsTypeOK
  <2>1. serving' = [serving EXCEPT ![c].at = "create"] /\ serving'[c] \in Busy /\ serving'[c] # Free
        /\ serving'[c].at = "create" /\ serving'[c].token = serving[c].token
        /\ \A d \in Call \ {c} : serving'[d] = serving[d]
    BY <1>5, <1>t, <2>0 DEF RefreshDelete, Busy, SessionsTypeOK, Free
  <2>2. SessionsTypeOK' BY <1>5, <1>t, <1>n, <2>0, <2>1, SMTT(30) DEF RefreshDelete, Unstore, SessionsTypeOK, LoginsInv, Issued, LoginOf
  <2>3. LoginsInv' BY <1>t, <2>0, <2>1 DEF LoginsInv, Issued, LoginOf
  <2>4. CASE Unstore({serving[c].token}) /\ UNCHANGED <<disturbed, lostDeletes>>
    <3>1. CallsInv' BY <1>t, <2>0, <2>1, <2>4 DEF Unstore, CallsInv, Serves, LoginOf, OneSessionPerLogin
    <3>2. OneSessionPerLogin' BY <1>t, <2>0, <2>4 DEF Unstore, OneSessionPerLogin, LoginOf
    <3> QED BY <2>2, <2>3, <3>1, <3>2 DEF SessionsInv
  <2>5. CASE disturbed' = disturbed \union {LoginOf(serving[c].token)} /\ UNCHANGED sessions
    <3>1. CallsInv' BY <1>t, <2>0, <2>1, <2>5 DEF CallsInv, Serves, LoginOf
    <3>2. OneSessionPerLogin' BY <1>t, <2>0, <2>5 DEF OneSessionPerLogin, LoginOf
    <3> QED BY <2>2, <2>3, <3>1, <3>2 DEF SessionsInv
  <2> QED BY <1>5, <2>4, <2>5 DEF RefreshDelete
<1>6. ASSUME NEW c \in Call, RefreshCreate(c) PROVE SessionsInv'
  <2>0. serving[c].at = "create" /\ serving[c] # Free /\ serving[c].token \in Issued
        /\ UNCHANGED <<registered, overdue, loggedOut, disturbed, lostDeletes>>
        /\ sessions' = sessions \union {Fresh}
        /\ Issue(issued[serving[c].token].user, LoginOf(serving[c].token))
    BY <1>6, <1>t DEF RefreshCreate, Free, LoginsInv
  <2>1. serving' = [serving EXCEPT ![c] = Free] /\ serving'[c] = Free
        /\ \A d \in Call \ {c} : serving'[d] = serving[d]
    BY <1>6, <1>t DEF RefreshCreate, SessionsTypeOK
  <2>2. PICK u \in User, login \in Issued :
          /\ u = issued[serving[c].token].user /\ login = LoginOf(serving[c].token) /\ issued[login].user = u
    <3>1. issued[serving[c].token] \in [user : User, login : Token] BY <1>t, <2>0, ElementOfSeq DEF SessionsTypeOK, Issued
    <3> QED BY <1>t, <2>0, <3>1 DEF LoginsInv
  <2>3. /\ issued' \in Seq([user : User, login : Token]) /\ Len(issued') <= MaxTokens
        /\ Issued' = Issued \union {Fresh} /\ Fresh \notin Issued
        /\ \A t \in Issued : issued'[t] = issued[t]
        /\ issued'[Fresh] = [user |-> u, login |-> login]
        /\ LoginsInv'
    BY <1>t, <2>0, <2>1, <2>2, IssueOne
  <2>4. SessionsTypeOK' BY <1>t, <1>n, <2>0, <2>1, <2>3 DEF SessionsTypeOK, Issued
  <2>5. sessions \subseteq Issued BY <1>t DEF SessionsTypeOK, Issued
  <2>6. CallsInv' BY <1>t, <2>0, <2>1, <2>2, <2>3, <2>5, SMTT(30) DEF CallsInv, Serves, LoginOf, LoginsInv
  <2>7. OneSessionPerLogin' BY <1>t, <2>0, <2>2, <2>3, <2>5 DEF OneSessionPerLogin, CallsInv, LoginOf
  <2> QED BY <2>3, <2>4, <2>6, <2>7 DEF SessionsInv
<1>7. ASSUME NEW c \in Call, Logout(c) PROVE SessionsInv'
  <2>0. serving[c].at = "logout" /\ serving[c] # Free /\ serving[c].token \in Issued
        /\ UNCHANGED <<registered, issued, disturbed, lostDeletes>>
        /\ sessions' = sessions \ {serving[c].token} /\ overdue' = overdue \ {serving[c].token}
        /\ loggedOut' = loggedOut \union {LoginOf(serving[c].token)}
    BY <1>7, <1>t DEF Logout, Unstore, Free, LoginsInv
  <2>1. serving' = [serving EXCEPT ![c] = Free] /\ serving'[c] = Free
        /\ \A d \in Call \ {c} : serving'[d] = serving[d]
    BY <1>7, <1>t DEF Logout, SessionsTypeOK
  <2>2. SessionsTypeOK' BY <1>t, <1>n, <2>0, <2>1 DEF SessionsTypeOK, LoginsInv
  <2>3. LoginsInv' BY <1>t, <2>0, <2>1 DEF LoginsInv, Issued, LoginOf
  <2>4. CallsInv' BY <1>t, <2>0, <2>1 DEF CallsInv, Serves, LoginOf, OneSessionPerLogin
  <2>5. OneSessionPerLogin' BY <1>t, <2>0 DEF OneSessionPerLogin, CallsInv, LoginOf
  <2> QED BY <2>2, <2>3, <2>4, <2>5 DEF SessionsInv
<1>8. ASSUME NEW c \in Call, CallEnds(c) PROVE SessionsInv'
  <2>1. serving' = [serving EXCEPT ![c] = Free] /\ serving'[c] = Free
        /\ \A d \in Call \ {c} : serving'[d] = serving[d]
    BY <1>8, <1>t DEF CallEnds, SessionsTypeOK
  <2>2. SessionsTypeOK' BY <1>8, <1>t, <2>1 DEF CallEnds, SessionsTypeOK
  <2>3. LoginsInv' BY <1>8, <1>t, <2>1 DEF CallEnds, LoginsInv, Issued, LoginOf
  <2>4. CallsInv' BY <1>8, <1>t, <2>1 DEF CallEnds, CallsInv, Serves, LoginOf
  <2>5. OneSessionPerLogin' BY <1>8, <1>t DEF CallEnds, OneSessionPerLogin, LoginOf
  <2> QED BY <2>2, <2>3, <2>4, <2>5 DEF SessionsInv
<1>9. ASSUME NEW t \in Token, SessionExpires(t) PROVE SessionsInv'
  BY <1>9 DEF SessionExpires, SessionsInv, SessionsTypeOK, LoginsInv, CallsInv, Serves, OneSessionPerLogin, LoginOf, Issued
<1>10. CASE UNCHANGED sessionVars
  BY <1>10 DEF sessionVars, SessionsInv, SessionsTypeOK, LoginsInv, CallsInv, Serves, OneSessionPerLogin, LoginOf, Issued
<1> QED BY <1>1, <1>2, <1>3, <1>4, <1>5, <1>6, <1>7, <1>8, <1>9, <1>10 DEF SessionsNext

\* A login has one session at most and none after a logout, wherever its calls are
\* cut off, unless two of them overlapped or a delete failed.
THEOREM SessionsHold == SessionsSpec => []OneSessionPerLogin
<1>1. SessionsSpec => []SessionsInv BY SessionsInitInv, SessionsStep, PTL DEF SessionsSpec
<1>2. SessionsInv => OneSessionPerLogin BY DEF SessionsInv
<1> QED BY <1>1, <1>2, PTL

\* Tokens, sessions and calls keep their types.
THEOREM SessionsTyped == SessionsSpec => []SessionsTypeOK
<1>1. SessionsSpec => []SessionsInv BY SessionsInitInv, SessionsStep, PTL DEF SessionsSpec
<1>2. SessionsInv => SessionsTypeOK BY DEF SessionsInv
<1> QED BY <1>1, <1>2, PTL

(***************************************************************************)
(* Numbers                                                                 *)
(***************************************************************************)
\* A set of natural numbers has a least element.
LEMMA Least ==
  ASSUME NEW T \in SUBSET Nat, T # {}
  PROVE  \E a \in T : \A d \in T : a <= d
<1>1. PICK R : R = OpToRel(<, Nat)
  OBVIOUS
<1>2. IsWellFoundedOn(R, Nat)
  BY <1>1, NatLessThanWellFounded
<1>3. R = {ss \in Nat \X Nat : ss[1] < ss[2]}
  BY <1>1 DEF OpToRel
<1>4. PICK a \in T : \A d \in T : ~ (<<d, a>> \in R)
  BY <1>2, WFMin
<1>5. \A d \in T : ~ (d < a)
  BY <1>3, <1>4
<1> QED
  BY <1>4, <1>5

\* Min finds it.
LEMMA MinIsLeast ==
  ASSUME NEW T \in SUBSET Nat, T # {}
  PROVE  Min(T) \in T /\ \A d \in T : Min(T) <= d
BY Least DEF Min

\* A bounded set of natural numbers has a greatest element.
LEMMA Greatest ==
  ASSUME NEW n \in Nat, NEW T \in SUBSET (1..n), T # {}
  PROVE  \E a \in T : \A d \in T : d <= a
<1> DEFINE U == {u \in Nat : \A d \in T : d <= u}
<1>1. n \in U /\ U \in SUBSET Nat
  OBVIOUS
<1>2. PICK u \in U : \A v \in U : u <= v
  BY <1>1, Least
<1>3. CASE u \in T
  BY <1>2, <1>3
<1>4. CASE u \notin T
  <2>1. \A d \in T : d \in Nat /\ d < u
    BY <1>2, <1>4
  <2>2. u - 1 \in Nat
    <3>1. PICK d \in T : d \in Nat /\ d < u
      BY <2>1
    <3>2. u \in Nat
      BY <1>1
    <3> QED
      BY <3>1, <3>2
  <2>3. \A d \in T : d <= u - 1
    BY <1>2, <2>1
  <2>4. u - 1 \in U
    BY <2>2, <2>3
  <2> QED
    BY <1>2, <2>4
<1> QED
  BY <1>3, <1>4

\* The first so many of a bounded set are so many at most, and none is passed over.
LEMMA FirstFew ==
  ASSUME NEW n \in Nat, NEW D \in SUBSET (1..n), NEW size \in Nat \ {0},
         NEW F, F = {i \in D : Cardinality({j \in D : j < i}) < size}
  PROVE  /\ F \subseteq D /\ Cardinality(F) <= size
         /\ \A i \in F, k \in D : k < i => k \in F
<1>1. /\ IsFiniteSet(D)
      /\ \A i \in D : i \in Nat
  <2>1. IsFiniteSet(1..n) BY FS_Interval
  <2>2. IsFiniteSet(D) BY <2>1, FS_Subset
  <2>3. \A i \in D : i \in Nat OBVIOUS
  <2> QED BY <2>2, <2>3
<1> DEFINE Below(i) == {j \in D : j < i}
<1>2. \A i : Below(i) \in SUBSET D /\ \A j \in D : j \in Below(i) <=> j < i
  OBVIOUS
<1>3. F \subseteq D /\ \A i \in D : i \in F <=> Cardinality(Below(i)) < size
  OBVIOUS
<1> HIDE DEF Below
<1>4. \A i : IsFiniteSet(Below(i)) /\ Cardinality(Below(i)) \in Nat
  BY <1>1, <1>2, FS_Subset, FS_CardinalityType
<1>5. Cardinality(F) <= size
  <2>1. CASE F = {}
    <3>1. Cardinality(F) = 0 BY <2>1, FS_EmptySet
    <3> QED BY <3>1
  <2>2. CASE F # {}
    <3>1. PICK g \in F : \A d \in F : d <= g
      <4>1. F \in SUBSET (1..n) BY <1>3
      <4> QED BY <2>2, <4>1, Greatest
    <3>2. F \ {g} \subseteq Below(g)
      <4>1. \A d \in F \ {g} : d \in D /\ d <= g /\ d # g BY <1>3, <3>1
      <4>2. \A d \in F \ {g} : d < g BY <1>1, <1>3, <3>1, <4>1
      <4> QED BY <1>2, <4>1, <4>2
    <3>3. Cardinality(Below(g)) < size BY <1>3, <3>1
    <3>4. Cardinality(F \ {g}) <= Cardinality(Below(g)) /\ IsFiniteSet(F \ {g})
      BY <1>4, <3>2, FS_Subset
    <3>5. IsFiniteSet(F) BY <1>1, <1>3, FS_Subset
    <3>6. Cardinality(F \ {g}) = Cardinality(F) - 1 BY <3>5, FS_RemoveElement
    <3>7. Cardinality(F) \in Nat /\ Cardinality(Below(g)) \in Nat BY <1>4, <3>5, FS_CardinalityType
    <3> QED BY <3>3, <3>4, <3>6, <3>7
  <2> QED BY <2>1, <2>2
<1>6. ASSUME NEW i \in F, NEW k \in D, k < i PROVE k \in F
  <2>1. Below(k) \subseteq Below(i)
    <3>1. i \in Nat /\ k \in Nat BY <1>1, <1>3
    <3>2. \A j \in Below(k) : j \in D /\ j \in Nat /\ j < k BY <1>1, <1>2
    <3>3. \A j \in Below(k) : j < i BY <1>6, <3>1, <3>2
    <3> QED BY <1>2, <3>2, <3>3
  <2>2. Cardinality(Below(k)) <= Cardinality(Below(i)) BY <1>4, <2>1, FS_Subset
  <2>3. Cardinality(Below(i)) < size /\ Cardinality(Below(i)) \in Nat /\ Cardinality(Below(k)) \in Nat BY <1>3, <1>4
  <2>4. Cardinality(Below(k)) < size BY <2>2, <2>3
  <2> QED BY <1>3, <2>4
<1> QED BY <1>3, <1>5, <1>6


(***************************************************************************)
(* The outbox                                                              *)
(***************************************************************************)
Arrived(m) == m \in Range(topic)

\* The tables: a message is committed with the change it is about.
TablesInv ==
  /\ bookingRow \in [Booking -> {"none", "reserved"} \union Outcome]
  /\ committed \in Seq(Message)
  /\ outbox \in [Message -> [status : {"none", "pending", "published", "failed"}, tries : Nat]]
  /\ \A i \in 1..Len(committed) :
       /\ bookingRow[committed[i].booking] # "none"
       /\ committed[i].event \in {"created", bookingRow[committed[i].booking]}
  /\ \A i, j \in 1..Len(committed) :
       i < j => committed[i] # committed[j] /\ (committed[i].booking = committed[j].booking => committed[i].event = "created")
  /\ \A m \in Message \ Range(committed) : outbox[m] = NoMessage

\* What a goroutine holds, and what it knows of the first of it.
HeldInv ==
  /\ batch \in [Publisher -> SUBSET (1..Len(committed))]
  /\ sent \in [Publisher -> Sending]
  /\ \A w \in Publisher :
       /\ IsFiniteSet(batch[w]) /\ Cardinality(batch[w]) <= BatchSize
       /\ batch[w] = {} => sent[w] = "no"
       /\ sent[w] = "yes" => Arrived(Current(w))
       /\ sent[w] = "failed" => Current(w) \in troubled

\* What the table says of a message.
RecordInv ==
  /\ topic \in Seq(Message)
  /\ Range(topic) \union troubled \subseteq Range(committed)
  /\ stops \in 0..MaxStops
  /\ \A m \in Range(committed) :
       /\ outbox[m].status \in {"none", "published"} => Arrived(m)
       /\ outbox[m].status = "failed" => m \in troubled

\* The way of a message without trouble: one goroutine at most holds it; it arrived
\* while one holds it only if it is about to be marked; one that arrived is not fetched
\* again; and those of its booking before it are ahead of it.
WayInv ==
  \A i \in 1..Len(committed) : committed[i] \notin troubled =>
    /\ \A v, w \in Publisher : i \in batch[v] /\ i \in batch[w] => v = w
    /\ Arrived(committed[i]) =>
         /\ \A w \in Publisher : i \in batch[w] => i = Turn(w) /\ sent[w] = "yes"
         /\ outbox[committed[i]].status = "pending" => \E w \in Publisher : i \in batch[w]
    /\ \A k \in 1..(i - 1) :
         committed[k].booking = committed[i].booking /\ committed[k] \notin troubled /\ ~ Arrived(committed[k]) =>
           /\ ~ Arrived(committed[i])
           /\ \A w \in Publisher : i \in batch[w] => k \in batch[w]

OutboxInv == TablesInv /\ HeldInv /\ RecordInv /\ WayInv /\ EventsOnce

\* The elements of a sequence that grows by one.
LEMMA MessageAdded ==
  ASSUME NEW s \in Seq(Message), NEW m \in Message
  PROVE  /\ Append(s, m) \in Seq(Message) /\ Len(s) \in Nat /\ Len(Append(s, m)) = Len(s) + 1
         /\ \A i \in 1..Len(s) : Append(s, m)[i] = s[i] /\ s[i] \in Message
         /\ Append(s, m)[Len(s) + 1] = m
         /\ Range(Append(s, m)) = Range(s) \union {m}
<1>1. /\ Append(s, m) \in Seq(Message) /\ Len(s) \in Nat /\ Len(Append(s, m)) = Len(s) + 1
      /\ \A i \in 1..Len(s) : Append(s, m)[i] = s[i]
      /\ Append(s, m)[Len(s) + 1] = m
  BY AppendProperties, LenProperties
<1>2. \A i \in 1..Len(s) : s[i] \in Message
  BY ElementOfSeq
<1>3. Range(Append(s, m)) = Range(s) \union {m}
  <2>1. Append(s, m) = s \o <<m>> BY AppendIsConcat
  <2>2. Range(<<m>>) = {m}
    <3>1. Range(<<m>>) = {<<m>>[i] : i \in 1..1} BY DEF Range
    <3> QED BY <3>1
  <2>3. <<m>> \in Seq(Message) OBVIOUS
  <2>4. Range(s \o <<m>>) = Range(s) \union Range(<<m>>) BY <2>3, RangeConcatenation
  <2> QED BY <2>1, <2>2, <2>4
<1> QED BY <1>1, <1>2, <1>3

\* Messages are at the places of the sequence, one at each.
LEMMA Places ==
  ASSUME TablesInv
  PROVE  /\ Len(committed) \in Nat /\ DOMAIN committed = 1..Len(committed)
         /\ \A i \in 1..Len(committed) : committed[i] \in Message /\ committed[i] \in Range(committed)
         /\ \A m \in Range(committed) : \E i \in 1..Len(committed) : committed[i] = m
         /\ \A i, j \in 1..Len(committed) : committed[i] = committed[j] => i = j
<1>1. committed \in Seq(Message) BY DEF TablesInv
<1>2. Len(committed) \in Nat /\ DOMAIN committed = 1..Len(committed) BY <1>1, LenProperties
<1>3. \A i \in 1..Len(committed) : committed[i] \in Message BY <1>1, ElementOfSeq
<1>4. Range(committed) = {committed[i] : i \in 1..Len(committed)} BY <1>2 DEF Range
<1>5. \A i, j \in 1..Len(committed) : committed[i] = committed[j] => i = j
  <2> SUFFICES ASSUME NEW i \in 1..Len(committed), NEW j \in 1..Len(committed), committed[i] = committed[j]
               PROVE  i = j
    OBVIOUS
  <2>1. ~ (i < j) /\ ~ (j < i) BY DEF TablesInv
  <2> QED BY <1>2, <2>1
<1> QED BY <1>2, <1>3, <1>4, <1>5

\* The first of a batch is a committed message.
LEMMA FirstOfBatch ==
  ASSUME TablesInv, HeldInv, NEW w \in Publisher, batch[w] # {}
  PROVE  /\ Turn(w) \in batch[w] /\ Turn(w) \in 1..Len(committed)
         /\ \A i \in batch[w] : Turn(w) <= i
         /\ Current(w) = committed[Turn(w)] /\ Current(w) \in Message /\ Current(w) \in Range(committed)
<1>1. batch[w] \in SUBSET (1..Len(committed)) BY DEF HeldInv
<1>2. Turn(w) \in batch[w] /\ \A i \in batch[w] : Turn(w) <= i
  <2>1. batch[w] \in SUBSET Nat BY <1>1, Places
  <2> QED BY <2>1, MinIsLeast DEF Turn
<1>3. Turn(w) \in 1..Len(committed) BY <1>1, <1>2
<1> QED BY <1>2, <1>3, Places DEF Current

\* A transaction adds a message that no booking had, and nobody holds it yet.
LEMMA CommitKeeps ==
  ASSUME OutboxInv, NEW b \in Booking, NEW from, NEW to, NEW about, Commit(b, from, to, about),
         \/ from = "none" /\ to = "reserved" /\ about = "created"
         \/ from = "reserved" /\ to \in Outcome /\ about = to
  PROVE  OutboxInv'
<1>1. PICK m \in Message : m.booking = b /\ m.event = about /\ m = [booking |-> b, event |-> about]
  <2>1. [booking |-> b, event |-> about] \in Message BY DEF Message
  <2> QED BY <2>1
<1>2. PICK n \in Nat : n = Len(committed) BY Places DEF OutboxInv
<1>3. /\ committed \in Seq(Message) /\ DOMAIN committed = 1..n
      /\ \A i \in 1..n : committed[i] \in Message /\ committed[i] \in Range(committed)
      /\ \A i \in Range(committed) : \E k \in 1..n : committed[k] = i
      /\ \A i, j \in 1..n : committed[i] = committed[j] => i = j
  BY <1>2, Places DEF OutboxInv, TablesInv
<1>4. \A i \in 1..n : committed[i] # m /\ (committed[i].booking = b => committed[i].event = "created")
  <2> SUFFICES ASSUME NEW i \in 1..n, committed[i].booking = b
               PROVE  committed[i] # m /\ committed[i].event = "created"
    BY <1>1
  <2>1. bookingRow[b] # "none" /\ committed[i].event \in {"created", bookingRow[b]}
    BY <1>2 DEF OutboxInv, TablesInv
  <2>2. bookingRow[b] = from BY DEF Commit
  <2>3. from = "reserved" /\ about \in Outcome BY <2>1, <2>2
  <2>4. committed[i].event = "created"
    <3>1. committed[i] \in Message BY <1>3
    <3>2. committed[i].event # "reserved" BY <3>1 DEF Message, Outcome
    <3> QED BY <2>1, <2>2, <2>3, <3>2
  <2>5. about # "created" BY <2>3 DEF Outcome
  <2> QED BY <1>1, <2>4, <2>5
<1>5. /\ committed' \in Seq(Message) /\ Len(committed') = n + 1 /\ n \in Nat
      /\ \A i \in 1..n : committed'[i] = committed[i]
      /\ committed'[n + 1] = m
      /\ Range(committed') = Range(committed) \union {m}
  <2>1. committed' = Append(committed, m) BY <1>1 DEF Commit
  <2> QED BY <1>2, <1>3, <2>1, MessageAdded
<1>6. /\ outbox' = [outbox EXCEPT ![m] = [status |-> "pending", tries |-> 0]]
      /\ bookingRow[b] = from /\ bookingRow' = [bookingRow EXCEPT ![b] = to]
      /\ UNCHANGED <<batch, sent, topic, troubled, stops>>
  BY <1>1 DEF Commit
<1>7. m \notin Range(committed) BY <1>3, <1>4
<1>8. \A k : k \in 1..(n + 1) <=> k \in 1..n \/ k = n + 1 OBVIOUS
<1>9. TablesInv'
  <2>1. bookingRow' \in [Booking -> {"none", "reserved"} \union Outcome]
    BY <1>6 DEF OutboxInv, TablesInv
  <2>2. outbox' \in [Message -> [status : {"none", "pending", "published", "failed"}, tries : Nat]]
    BY <1>6 DEF OutboxInv, TablesInv
  <2>3. ASSUME NEW i \in 1..Len(committed')
        PROVE  /\ bookingRow'[committed'[i].booking] # "none"
               /\ committed'[i].event \in {"created", bookingRow'[committed'[i].booking]}
    <3>1. bookingRow'[b] = to /\ \A c \in Booking \ {b} : bookingRow'[c] = bookingRow[c]
      BY <1>6 DEF OutboxInv, TablesInv
    <3>2. to # "none" BY DEF Outcome
    <3>3. CASE i = n + 1 BY <1>1, <1>5, <3>1, <3>2, <3>3
    <3>4. CASE i \in 1..n
      <4>1. committed'[i] = committed[i] /\ committed[i].booking \in Booking BY <1>3, <1>5, <3>4 DEF Message
      <4>2. CASE committed[i].booking = b BY <1>4, <3>1, <3>2, <3>4, <4>1, <4>2
      <4>3. CASE committed[i].booking # b BY <1>2, <3>1, <3>4, <4>1, <4>3 DEF OutboxInv, TablesInv
      <4> QED BY <4>2, <4>3
    <3> QED BY <1>5, <1>8, <3>3, <3>4
  <2>4. ASSUME NEW i \in 1..Len(committed'), NEW j \in 1..Len(committed'), i < j
        PROVE  /\ committed'[i] # committed'[j]
               /\ committed'[i].booking = committed'[j].booking => committed'[i].event = "created"
    <3>1. i \in 1..n /\ committed'[i] = committed[i] BY <1>5, <2>4
    <3>2. CASE j = n + 1 BY <1>1, <1>4, <1>5, <3>1, <3>2
    <3>3. CASE j \in 1..n
      <4>1. committed'[j] = committed[j] BY <1>5, <3>3
      <4>2. /\ committed[i] # committed[j]
            /\ committed[i].booking = committed[j].booking => committed[i].event = "created"
        BY <1>2, <2>4, <3>1, <3>3 DEF OutboxInv, TablesInv
      <4> QED BY <3>1, <4>1, <4>2
    <3> QED BY <1>5, <1>8, <3>2, <3>3
  <2>5. \A i \in Message \ Range(committed') : outbox'[i] = NoMessage
    BY <1>5, <1>6 DEF OutboxInv, TablesInv
  <2> QED BY <1>5, <2>1, <2>2, <2>3, <2>4, <2>5 DEF TablesInv
<1>10. \A w \in Publisher : batch[w] \in SUBSET (1..n) BY <1>2 DEF OutboxInv, HeldInv
<1>11. \A w \in Publisher : batch[w] # {} => Turn(w) \in 1..n /\ Turn(w)' = Turn(w) /\ Current(w)' = Current(w)
  <2> SUFFICES ASSUME NEW w \in Publisher, batch[w] # {}
               PROVE  Turn(w) \in 1..n /\ Turn(w)' = Turn(w) /\ Current(w)' = Current(w)
    OBVIOUS
  <2>1. Turn(w) \in 1..n BY <1>2, FirstOfBatch DEF OutboxInv
  <2>2. Turn(w)' = Turn(w) BY <1>6 DEF Turn
  <2> QED BY <1>5, <2>1, <2>2 DEF Current
<1>12. HeldInv'
  <2>1. batch' \in [Publisher -> SUBSET (1..(n + 1))]
    <3>1. \A w \in Publisher : batch[w] \in SUBSET (1..(n + 1)) BY <1>8, <1>10
    <3>2. batch \in [Publisher -> SUBSET (1..n)] BY <1>2 DEF OutboxInv, HeldInv
    <3> QED BY <1>6, <3>1, <3>2
  <2>2. ASSUME NEW w \in Publisher
        PROVE  /\ IsFiniteSet(batch'[w]) /\ Cardinality(batch'[w]) <= BatchSize
               /\ batch'[w] = {} => sent'[w] = "no"
               /\ sent'[w] = "yes" => Arrived(Current(w))'
               /\ sent'[w] = "failed" => Current(w)' \in troubled'
    BY <1>6, <1>11 DEF OutboxInv, HeldInv, Arrived
  <2>3. sent' \in [Publisher -> Sending] BY <1>6 DEF OutboxInv, HeldInv
  <2> QED BY <1>5, <2>1, <2>2, <2>3 DEF HeldInv
<1>13. RecordInv'
  <2>1. outbox'[m].status = "pending" /\ \A i \in Message \ {m} : outbox'[i] = outbox[i]
    BY <1>6 DEF OutboxInv, TablesInv
  <2>2. \A i \in Range(committed) : i \in Message \ {m} BY <1>3, <1>7
  <2> QED BY <1>5, <1>6, <2>1, <2>2 DEF OutboxInv, RecordInv, Arrived
<1>14. EventsOnce'
  <2>1. outbox'[m].status = "pending" /\ \A i \in Message \ {m} : outbox'[i] = outbox[i]
    BY <1>6 DEF OutboxInv, TablesInv
  <2>2. \A i \in Range(committed) : i \in Message \ {m} BY <1>3, <1>7
  <2> QED BY <1>5, <1>6, <2>1, <2>2 DEF OutboxInv, EventsOnce
<1>15. WayInv'
  <2> SUFFICES ASSUME NEW i \in 1..(n + 1), committed'[i] \notin troubled
               PROVE  /\ \A v, w \in Publisher : i \in batch[v] /\ i \in batch[w] => v = w
                      /\ Arrived(committed'[i]) =>
                           /\ \A w \in Publisher : i \in batch[w] => i = Turn(w) /\ sent[w] = "yes"
                           /\ outbox'[committed'[i]].status = "pending" => \E w \in Publisher : i \in batch[w]
                      /\ \A k \in 1..(i - 1) :
                           committed'[k].booking = committed'[i].booking /\ committed'[k] \notin troubled /\ ~ Arrived(committed'[k]) =>
                             /\ ~ Arrived(committed'[i])
                             /\ \A w \in Publisher : i \in batch[w] => k \in batch[w]
    BY <1>5, <1>6 DEF WayInv, Arrived, Turn
  <2>1. CASE i = n + 1
    <3>1. committed'[i] = m /\ ~ Arrived(m) /\ \A w \in Publisher : i \notin batch[w]
      BY <1>5, <1>7, <1>10, <2>1 DEF OutboxInv, RecordInv, Arrived
    <3> QED BY <3>1
  <2>2. CASE i \in 1..n
    <3>1. committed'[i] = committed[i] /\ outbox'[committed[i]] = outbox[committed[i]]
      <4>1. committed[i] \in Message \ {m} BY <1>3, <1>7, <2>2
      <4> QED BY <1>5, <1>6, <2>2, <4>1 DEF OutboxInv, TablesInv
    <3>2. \A k \in 1..(i - 1) : k \in 1..n /\ committed'[k] = committed[k] BY <1>5, <2>2
    <3> QED BY <1>2, <2>2, <3>1, <3>2 DEF OutboxInv, WayInv
  <2> QED BY <1>8, <2>1, <2>2
<1> QED BY <1>9, <1>12, <1>13, <1>14, <1>15 DEF OutboxInv

\* What a goroutine fetches are messages that are due and not locked, the oldest of them
\* and so many at most.
LEMMA Fetched ==
  ASSUME TablesInv, NEW w \in Publisher
  PROVE  /\ FirstDue(w) \in SUBSET (1..Len(committed))
         /\ IsFiniteSet(FirstDue(w)) /\ Cardinality(FirstDue(w)) <= BatchSize
         /\ \A i \in FirstDue(w) : Due(w, committed[i])
         /\ \A i \in FirstDue(w), k \in 1..Len(committed) :
              k < i /\ Due(w, committed[k]) => k \in FirstDue(w) \/ k \in DueFor(w) \intersect Locked(w)
<1>1. PICK n \in Nat : n = Len(committed) /\ DOMAIN committed = 1..n BY Places
<1>2. PICK D \in SUBSET (1..n) : D = DueFor(w) \ Locked(w) BY <1>1 DEF DueFor
<1>3. PICK F : F = FirstDue(w) OBVIOUS
<1>4. F = {i \in D : Cardinality({j \in D : j < i}) < BatchSize} BY <1>2, <1>3 DEF FirstDue
<1>5. BatchSize \in Nat \ {0} BY OutboxAssumption
<1>6. /\ F \subseteq D /\ Cardinality(F) <= BatchSize
      /\ \A i \in F, k \in D : k < i => k \in F
  BY <1>4, <1>5, FirstFew, ZenonT(60)
<1>7. IsFiniteSet(F)
  <2>1. IsFiniteSet(1..n) BY FS_Interval
  <2>2. F \in SUBSET (1..n) BY <1>6
  <2> QED BY <2>1, <2>2, FS_Subset
<1>8. \A i \in 1..n : i \in DueFor(w) <=> Due(w, committed[i]) BY <1>1 DEF DueFor
<1>9. \A i \in D : Due(w, committed[i]) BY <1>2, <1>8
<1>10. \A k \in 1..n : Due(w, committed[k]) => k \in D \/ k \in DueFor(w) \intersect Locked(w) BY <1>2, <1>8
<1> QED BY <1>1, <1>3, <1>6, <1>7, <1>9, <1>10

\* A goroutine fetches a message without trouble only while it is pending, so that it
\* has not arrived, and with it those of its booking that have not arrived either, none
\* of which another goroutine has locked.
LEMMA FetchKeeps ==
  ASSUME OutboxInv, NEW w \in Publisher, Fetch(w)
  PROVE  OutboxInv'
<1>1. PICK n \in Nat : n = Len(committed) BY Places DEF OutboxInv
<1>2. PICK F : F = FirstDue(w) OBVIOUS
<1>3. /\ batch[w] = {} /\ F # {} /\ batch' = [batch EXCEPT ![w] = F]
      /\ sent' = [sent EXCEPT ![w] = "fetching"]
      /\ UNCHANGED <<bookingRow, committed, outbox, topic, stops>>
  BY <1>2 DEF Fetch
<1>4. /\ F \in SUBSET (1..n) /\ IsFiniteSet(F) /\ Cardinality(F) <= BatchSize
      /\ \A i \in F : Due(w, committed[i])
      /\ \A i \in F, k \in 1..n :
           k < i /\ Due(w, committed[k]) => k \in F \/ k \in DueFor(w) \intersect Locked(w)
  BY <1>1, <1>2, Fetched DEF OutboxInv
<1>5. /\ troubled \subseteq troubled' /\ troubled' \subseteq Range(committed)
      /\ \A i \in F, v \in Publisher \ {w} : i \in batch[v] => committed[i] \in troubled'
      /\ \A i \in F, k \in DueFor(w) \intersect Locked(w) :
           k < i /\ committed[k].booking = committed[i].booking => committed[i] \in troubled'
  <2>1. troubled' = troubled \union {committed[i] : i \in {j \in F : Shared(w, j) \/ TakenPast(w, j)}}
    BY <1>2 DEF Fetch
  <2>2. \A i \in F : committed[i] \in Range(committed) BY <1>1, <1>4, Places DEF OutboxInv
  <2>3. \A i \in F : Shared(w, i) \/ TakenPast(w, i) => committed[i] \in troubled' BY <2>1
  <2>4. troubled \subseteq troubled' /\ troubled' \subseteq Range(committed)
    BY <2>1, <2>2 DEF OutboxInv, RecordInv
  <2>5. \A i \in F, v \in Publisher \ {w} : i \in batch[v] => committed[i] \in troubled' BY <2>3 DEF Shared
  <2>6. \A i \in F, k \in DueFor(w) \intersect Locked(w) :
          k < i /\ committed[k].booking = committed[i].booking => committed[i] \in troubled'
    BY <2>3 DEF TakenPast
  <2> QED BY <2>4, <2>5, <2>6
<1>6. /\ committed \in Seq(Message) /\ \A i \in 1..n : committed[i] \in Message /\ committed[i] \in Range(committed)
  BY <1>1, Places DEF OutboxInv, TablesInv
<1>7. /\ batch \in [Publisher -> SUBSET (1..n)] /\ sent \in [Publisher -> Sending]
  BY <1>1 DEF OutboxInv, HeldInv
<1>8. /\ batch'[w] = F /\ \A v \in Publisher \ {w} : batch'[v] = batch[v]
      /\ sent'[w] = "fetching" /\ \A v \in Publisher \ {w} : sent'[v] = sent[v]
  BY <1>3, <1>7
<1>9. \A v \in Publisher \ {w} : Turn(v)' = Turn(v) /\ Current(v)' = Current(v)
  BY <1>3, <1>8 DEF Turn, Current
<1>10. TablesInv'
  BY <1>3 DEF OutboxInv, TablesInv
<1>11. HeldInv'
  <2>1. batch' \in [Publisher -> SUBSET (1..n)] BY <1>3, <1>4, <1>7
  <2>2. ASSUME NEW v \in Publisher
        PROVE  /\ IsFiniteSet(batch'[v]) /\ Cardinality(batch'[v]) <= BatchSize
               /\ batch'[v] = {} => sent'[v] = "no"
               /\ sent'[v] = "yes" => Arrived(Current(v))'
               /\ sent'[v] = "failed" => Current(v)' \in troubled'
    <3>1. CASE v = w BY <1>3, <1>4, <1>7, <1>8, <3>1
    <3>2. CASE v # w BY <1>3, <1>5, <1>8, <1>9, <3>2 DEF OutboxInv, HeldInv, Arrived
    <3> QED BY <3>1, <3>2
  <2>3. sent' \in [Publisher -> Sending] BY <1>3, <1>7 DEF Sending
  <2> QED BY <1>1, <1>3, <2>1, <2>2, <2>3 DEF HeldInv
<1>12. RecordInv' BY <1>3, <1>5 DEF OutboxInv, RecordInv, Arrived
<1>13. EventsOnce' BY <1>3, <1>5 DEF OutboxInv, EventsOnce
<1>14. ASSUME NEW i \in 1..n, committed[i] \notin troubled'
       PROVE  /\ \A u, v \in Publisher : i \in batch'[u] /\ i \in batch'[v] => u = v
              /\ Arrived(committed[i]) =>
                   /\ \A v \in Publisher : i \in batch'[v] => i = Turn(v)' /\ sent'[v] = "yes"
                   /\ outbox[committed[i]].status = "pending" => \E v \in Publisher : i \in batch'[v]
              /\ \A k \in 1..(i - 1) :
                   committed[k].booking = committed[i].booking /\ committed[k] \notin troubled' /\ ~ Arrived(committed[k]) =>
                     /\ ~ Arrived(committed[i])
                     /\ \A v \in Publisher : i \in batch'[v] => k \in batch'[v]
  <2>1. committed[i] \notin troubled BY <1>5, <1>14
  <2>2. /\ \A u, v \in Publisher : i \in batch[u] /\ i \in batch[v] => u = v
        /\ Arrived(committed[i]) =>
             /\ \A v \in Publisher : i \in batch[v] => i = Turn(v) /\ sent[v] = "yes"
             /\ outbox[committed[i]].status = "pending" => \E v \in Publisher : i \in batch[v]
        /\ \A k \in 1..(i - 1) :
             committed[k].booking = committed[i].booking /\ committed[k] \notin troubled /\ ~ Arrived(committed[k]) =>
               /\ ~ Arrived(committed[i])
               /\ \A v \in Publisher : i \in batch[v] => k \in batch[v]
    BY <1>1, <2>1 DEF OutboxInv, WayInv
  <2>3. CASE i \notin F BY <1>3, <1>5, <1>8, <1>9, <2>2, <2>3
  <2>4. CASE i \in F
    <3>1. \A v \in Publisher : i \in batch'[v] => v = w BY <1>5, <1>8, <1>14, <2>4
    <3>2. outbox[committed[i]].status = "pending" /\ w \in Poller
      <4>1. outbox[committed[i]].status # "failed" BY <1>6, <2>1 DEF OutboxInv, RecordInv
      <4> QED BY <1>4, <2>4, <4>1 DEF Due
    <3>3. \A v \in Publisher : i \notin batch[v] BY <1>3, <1>8, <3>1
    <3>4. ~ Arrived(committed[i]) BY <2>2, <3>2, <3>3
    <3>5. ASSUME NEW k \in 1..(i - 1), committed[k].booking = committed[i].booking,
                 committed[k] \notin troubled', ~ Arrived(committed[k])
          PROVE  k \in F
      <4>1. k \in 1..n /\ k < i BY <1>1
      <4>2. committed[k] \in Message /\ committed[k] \in Range(committed) /\ committed[k] \notin troubled
        BY <1>5, <1>6, <3>5, <4>1
      <4>3. outbox[committed[k]].status \notin {"none", "published", "failed"} BY <3>5, <4>2 DEF OutboxInv, RecordInv
      <4>4. outbox[committed[k]].status = "pending"
        <5>1. outbox[committed[k]].status \in {"none", "pending", "published", "failed"}
          BY <4>2 DEF OutboxInv, TablesInv
        <5> QED BY <4>3, <5>1
      <4>5. Due(w, committed[k]) BY <3>2, <4>4 DEF Due
      <4>6. k \in F \/ k \in DueFor(w) \intersect Locked(w) BY <1>4, <2>4, <4>1, <4>5
      <4> QED BY <1>5, <1>14, <2>4, <3>5, <4>1, <4>6
    <3> QED BY <1>8, <3>1, <3>4, <3>5
  <2> QED BY <2>3, <2>4
<1>15. WayInv'
  BY <1>1, <1>3, <1>14 DEF WayInv, Arrived
<1> QED BY <1>10, <1>11, <1>12, <1>13, <1>15 DEF OutboxInv

\* The end of a fetch frees the rows.
LEMMA FetchEndKeeps ==
  ASSUME OutboxInv, NEW w \in Publisher, FetchEnds(w)
  PROVE  OutboxInv'
<1>1. /\ sent[w] = "fetching" /\ sent' = [sent EXCEPT ![w] = "no"]
      /\ UNCHANGED <<bookingRow, committed, outbox, batch, topic, troubled, stops>>
  BY DEF FetchEnds
<1>2. sent \in [Publisher -> Sending] BY DEF OutboxInv, HeldInv
<1>3. /\ sent' \in [Publisher -> Sending] /\ sent'[w] = "no"
      /\ \A v \in Publisher \ {w} : sent'[v] = sent[v]
  BY <1>1, <1>2 DEF Sending
<1>4. \A v \in Publisher : sent[v] = "yes" <=> sent'[v] = "yes" BY <1>1, <1>3
<1>5. \A v \in Publisher : Turn(v)' = Turn(v) /\ Current(v)' = Current(v)
  BY <1>1 DEF Turn, Current
<1>6. TablesInv' BY <1>1 DEF OutboxInv, TablesInv
<1>7. HeldInv' BY <1>1, <1>3, <1>5 DEF OutboxInv, HeldInv, Arrived
<1>8. RecordInv' BY <1>1 DEF OutboxInv, RecordInv, Arrived
<1>9. WayInv' BY <1>1, <1>4, <1>5 DEF OutboxInv, WayInv, Arrived
<1>10. EventsOnce' BY <1>1 DEF OutboxInv, EventsOnce
<1> QED BY <1>6, <1>7, <1>8, <1>9, <1>10 DEF OutboxInv

\* A message without trouble that is sent was not sent before, and those of its booking
\* that were committed before it arrived before it.
LEMMA SendKeeps ==
  ASSUME OutboxInv, NEW w \in Publisher, Send(w)
  PROVE  OutboxInv'
<1>1. PICK n \in Nat : n = Len(committed) BY Places DEF OutboxInv
<1>2. PICK t, m : t = Turn(w) /\ m = Current(w) OBVIOUS
<1>3. /\ batch[w] # {} /\ sent[w] = "no"
      /\ UNCHANGED <<bookingRow, committed, outbox, batch, stops>>
      /\ \/ topic' = Append(topic, m) /\ sent' = [sent EXCEPT ![w] = "yes"] /\ troubled' = troubled
         \/ /\ topic' = Append(topic, m) \/ topic' = topic
            /\ sent' = [sent EXCEPT ![w] = "failed"] /\ troubled' = troubled \union {m}
  BY <1>2 DEF Send
<1>4. /\ t \in batch[w] /\ t \in 1..n /\ \A i \in batch[w] : t <= i
      /\ m = committed[t] /\ m \in Message /\ m \in Range(committed)
  BY <1>1, <1>2, <1>3, FirstOfBatch DEF OutboxInv
<1>5. /\ committed \in Seq(Message) /\ topic \in Seq(Message)
      /\ \A i \in 1..n : committed[i] \in Message /\ committed[i] \in Range(committed)
      /\ \A i \in Range(committed) : \E k \in 1..n : committed[k] = i
      /\ \A i, j \in 1..n : committed[i] = committed[j] => i = j
  BY <1>1, Places DEF OutboxInv, TablesInv, RecordInv
<1>6. /\ topic' \in Seq(Message) /\ Range(topic) \subseteq Range(topic') /\ Range(topic') \subseteq Range(topic) \union {m}
      /\ m \notin troubled' => m \in Range(topic')
  <2>1. CASE topic' = Append(topic, m)
    <3>1. Append(topic, m) \in Seq(Message) /\ Range(Append(topic, m)) = Range(topic) \union {m}
      BY <1>4, <1>5, MessageAdded
    <3> QED BY <2>1, <3>1
  <2>2. CASE topic' = topic /\ troubled' = troubled \union {m} BY <1>5, <2>2
  <2> QED BY <1>3, <2>1, <2>2
<1>7. /\ troubled \subseteq troubled' /\ troubled' \subseteq troubled \union {m}
      /\ sent' \in [Publisher -> Sending] /\ \A v \in Publisher \ {w} : sent'[v] = sent[v]
      /\ sent'[w] = "yes" => m \in Range(topic')
      /\ sent'[w] = "failed" => m \in troubled'
      /\ m \notin troubled' => sent'[w] = "yes"
  <2>1. sent \in [Publisher -> Sending] BY DEF OutboxInv, HeldInv
  <2>2. CASE topic' = Append(topic, m) /\ sent' = [sent EXCEPT ![w] = "yes"] /\ troubled' = troubled
    BY <1>4, <1>5, <2>1, <2>2, MessageAdded DEF Sending
  <2>3. CASE sent' = [sent EXCEPT ![w] = "failed"] /\ troubled' = troubled \union {m}
    BY <2>1, <2>3 DEF Sending
  <2> QED BY <1>3, <2>2, <2>3
<1>8. \A v \in Publisher : Turn(v)' = Turn(v) /\ Current(v)' = Current(v)
  BY <1>3 DEF Turn, Current
<1>9. TablesInv' BY <1>3 DEF OutboxInv, TablesInv
<1>10. HeldInv'
  <2>1. batch' \in [Publisher -> SUBSET (1..Len(committed'))] BY <1>3 DEF OutboxInv, HeldInv
  <2>2. ASSUME NEW v \in Publisher
        PROVE  /\ IsFiniteSet(batch'[v]) /\ Cardinality(batch'[v]) <= BatchSize
               /\ batch'[v] = {} => sent'[v] = "no"
               /\ sent'[v] = "yes" => Arrived(Current(v))'
               /\ sent'[v] = "failed" => Current(v)' \in troubled'
    <3>1. IsFiniteSet(batch'[v]) /\ Cardinality(batch'[v]) <= BatchSize BY <1>3 DEF OutboxInv, HeldInv
    <3>2. CASE v = w BY <1>2, <1>3, <1>7, <1>8, <3>1, <3>2 DEF Arrived
    <3>3. CASE v # w BY <1>3, <1>6, <1>7, <1>8, <3>1, <3>3 DEF OutboxInv, HeldInv, Arrived
    <3> QED BY <3>2, <3>3
  <2> QED BY <1>7, <2>1, <2>2 DEF HeldInv
<1>11. RecordInv' BY <1>3, <1>4, <1>6, <1>7 DEF OutboxInv, RecordInv, Arrived
<1>12. m \notin troubled' =>
         /\ m \notin Range(topic)
         /\ \A k \in 1..n : committed[k].booking = m.booking /\ committed[k] \notin troubled =>
              /\ k < t => Arrived(committed[k])
              /\ t < k => ~ Arrived(committed[k])
  <2> SUFFICES ASSUME m \notin troubled'
               PROVE  /\ m \notin Range(topic)
                      /\ \A k \in 1..n : committed[k].booking = m.booking /\ committed[k] \notin troubled =>
                           /\ k < t => Arrived(committed[k])
                           /\ t < k => ~ Arrived(committed[k])
    OBVIOUS
  <2>1. committed[t] \notin troubled BY <1>4, <1>7
  <2>2. m \notin Range(topic) BY <1>1, <1>3, <1>4, <2>1 DEF OutboxInv, WayInv, Arrived
  <2>3. ASSUME NEW k \in 1..n, committed[k].booking = m.booking, committed[k] \notin troubled, k < t
        PROVE  Arrived(committed[k])
    <3>1. k \in 1..(t - 1) /\ k \notin batch[w] BY <1>4, <2>3
    <3> QED BY <1>1, <1>4, <2>1, <2>3, <3>1 DEF OutboxInv, WayInv
  <2>4. ASSUME NEW k \in 1..n, committed[k].booking = m.booking, committed[k] \notin troubled, t < k
        PROVE  ~ Arrived(committed[k])
    <3>1. t \in 1..(k - 1) BY <1>4, <2>4
    <3>2. ~ Arrived(committed[t]) BY <1>4, <2>2 DEF Arrived
    <3> QED BY <1>1, <1>4, <2>1, <2>4, <3>1, <3>2 DEF OutboxInv, WayInv
  <2> QED BY <2>2, <2>3, <2>4
<1>13. ASSUME NEW i \in 1..n, committed[i] \notin troubled'
       PROVE  /\ \A u, v \in Publisher : i \in batch[u] /\ i \in batch[v] => u = v
              /\ Arrived(committed[i])' =>
                   /\ \A v \in Publisher : i \in batch[v] => i = Turn(v) /\ sent'[v] = "yes"
                   /\ outbox[committed[i]].status = "pending" => \E v \in Publisher : i \in batch[v]
              /\ \A k \in 1..(i - 1) :
                   committed[k].booking = committed[i].booking /\ committed[k] \notin troubled' /\ ~ Arrived(committed[k])' =>
                     /\ ~ Arrived(committed[i])'
                     /\ \A v \in Publisher : i \in batch[v] => k \in batch[v]
  <2>1. committed[i] \notin troubled BY <1>7, <1>13
  <2>2. /\ \A u, v \in Publisher : i \in batch[u] /\ i \in batch[v] => u = v
        /\ Arrived(committed[i]) =>
             /\ \A v \in Publisher : i \in batch[v] => i = Turn(v) /\ sent[v] = "yes"
             /\ outbox[committed[i]].status = "pending" => \E v \in Publisher : i \in batch[v]
        /\ \A k \in 1..(i - 1) :
             committed[k].booking = committed[i].booking /\ committed[k] \notin troubled /\ ~ Arrived(committed[k]) =>
               /\ ~ Arrived(committed[i])
               /\ \A v \in Publisher : i \in batch[v] => k \in batch[v]
    BY <1>1, <2>1 DEF OutboxInv, WayInv
  <2>3. \A k \in 1..(i - 1) : k \in 1..n BY <1>1
  <2>4. \A k \in 1..n : Arrived(committed[k])' <=> committed[k] \in Range(topic') BY <1>3 DEF Arrived
  <2>5. \A k \in 1..(i - 1) :
          committed[k].booking = committed[i].booking /\ committed[k] \notin troubled' /\ ~ Arrived(committed[k])' =>
            /\ ~ Arrived(committed[i])
            /\ \A v \in Publisher : i \in batch[v] => k \in batch[v]
    BY <1>6, <1>7, <2>2, <2>3, <2>4 DEF Arrived
  <2>6. CASE i # t
    <3>1. committed[i] # m BY <1>4, <1>5, <2>6
    <3>2. Arrived(committed[i])' <=> Arrived(committed[i]) BY <1>6, <2>4, <3>1 DEF Arrived
    <3>3. Arrived(committed[i]) => \A v \in Publisher : i \in batch[v] => i = Turn(v) /\ sent'[v] = "yes"
      BY <1>2, <1>7, <2>2, <2>6
    <3> QED BY <2>2, <2>5, <3>2, <3>3
  <2>7. CASE i = t
    <3>1. m \notin troubled' BY <1>4, <1>13, <2>7
    <3>2. \A v \in Publisher : i \in batch[v] => v = w BY <1>4, <2>2, <2>7
    <3>3. \A k \in 1..(i - 1) :
            committed[k].booking = committed[i].booking /\ committed[k] \notin troubled' => Arrived(committed[k])'
      <4> SUFFICES ASSUME NEW k \in 1..(i - 1), committed[k].booking = committed[i].booking, committed[k] \notin troubled'
                   PROVE  Arrived(committed[k])'
        OBVIOUS
      <4>1. k \in 1..n /\ k < t BY <1>4, <2>3, <2>7
      <4>2. Arrived(committed[k]) BY <1>4, <1>7, <1>12, <2>7, <3>1, <4>1
      <4> QED BY <1>6, <2>4, <4>1, <4>2 DEF Arrived
    <3> QED BY <1>2, <1>4, <1>7, <2>2, <2>7, <3>1, <3>2, <3>3
  <2> QED BY <2>6, <2>7
<1>14. WayInv'
  BY <1>1, <1>3, <1>8, <1>13 DEF WayInv
<1>15. EventsOnce'
  <2>1. \A i \in Range(committed') : outbox'[i].status \in {"none", "published"} => i \in Range(topic')
    BY <1>3, <1>6 DEF OutboxInv, EventsOnce
  <2>2. ASSUME NEW i \in DOMAIN topic', NEW j \in DOMAIN topic', i < j, topic'[i].booking = topic'[j].booking
        PROVE  \/ {topic'[i], topic'[j]} \intersect troubled' # {}
               \/ topic'[i] # topic'[j] /\ topic'[i].event = "created"
    <3>1. CASE topic' = topic BY <1>7, <2>2, <3>1 DEF OutboxInv, EventsOnce
    <3>2. CASE topic' = Append(topic, m)
      <4>1. PICK l \in Nat : l = Len(topic) BY <1>5, LenProperties
      <4>2. /\ DOMAIN topic = 1..l /\ DOMAIN topic' = 1..(l + 1) /\ topic'[l + 1] = m
            /\ \A h \in 1..l : topic'[h] = topic[h] /\ topic[h] \in Range(topic)
        <5>1. DOMAIN topic = 1..l /\ DOMAIN topic' = 1..Len(topic') BY <1>5, <1>6, <4>1, LenProperties
        <5>2. \A h \in DOMAIN topic : topic[h] \in Range(topic) BY DEF Range
        <5> QED BY <1>4, <1>5, <3>2, <4>1, <5>1, <5>2, MessageAdded
      <4>3. i \in 1..l /\ (j \in 1..l \/ j = l + 1) BY <2>2, <4>2
      <4>4. CASE j \in 1..l BY <1>7, <2>2, <4>2, <4>3, <4>4 DEF OutboxInv, EventsOnce
      <4>5. CASE j = l + 1
        <5> SUFFICES ASSUME m \notin troubled', topic[i] \notin troubled'
                     PROVE  topic[i] # m /\ topic[i].event = "created"
          BY <4>2, <4>3, <4>5
        <5>1. topic[i] \in Range(topic) /\ topic[i].booking = m.booking BY <2>2, <4>2, <4>3, <4>5
        <5>2. topic[i] # m BY <1>12, <5>1
        <5>3. PICK k \in 1..n : committed[k] = topic[i] BY <1>5, <5>1 DEF OutboxInv, RecordInv
        <5>4. committed[k] \notin troubled BY <1>7, <5>3
        <5>5. ~ (t < k) BY <1>12, <5>1, <5>3, <5>4 DEF Arrived
        <5>6. k # t BY <1>4, <5>2, <5>3
        <5>7. k < t BY <1>1, <1>4, <5>5, <5>6
        <5>8. committed[k].event = "created" BY <1>1, <1>4, <5>1, <5>3, <5>7 DEF OutboxInv, TablesInv
        <5> QED BY <5>2, <5>3, <5>8
      <4> QED BY <4>3, <4>4, <4>5
    <3> QED BY <1>3, <3>1, <3>2
  <2> QED BY <2>1, <2>2 DEF EventsOnce
<1> QED BY <1>9, <1>10, <1>11, <1>14, <1>15 DEF OutboxInv

\* A goroutine lets go of messages that had trouble, or arrived and are marked, or of
\* all it holds, when those without trouble have not arrived.
LEMMA LettingGoKeeps ==
  ASSUME OutboxInv, NEW w \in Publisher, NEW rest \in SUBSET batch[w], batch[w] # {}, Turn(w) \notin rest,
         UNCHANGED <<bookingRow, committed, topic>>, stops' \in 0..MaxStops,
         batch' = [batch EXCEPT ![w] = rest], sent' = [sent EXCEPT ![w] = "no"],
         troubled \subseteq troubled', troubled' \subseteq Range(committed),
         outbox' \in [Message -> [status : {"none", "pending", "published", "failed"}, tries : Nat]],
         \A m \in Message :
           \/ outbox'[m] = outbox[m]
           \/ /\ m \in Range(committed)
              /\ \/ outbox'[m].status \in {"none", "published"} /\ Arrived(m)
                 \/ outbox'[m].status = "failed" /\ m \in troubled',
         \A i \in batch[w] \ rest :
           \/ committed[i] \in troubled'
           \/ Arrived(committed[i]) /\ outbox'[committed[i]].status # "pending"
           \/ ~ Arrived(committed[i]) /\ rest = {}
  PROVE  OutboxInv'
<1>1. PICK n \in Nat : n = Len(committed) BY Places DEF OutboxInv
<1>2. /\ batch \in [Publisher -> SUBSET (1..n)] /\ sent \in [Publisher -> Sending]
  BY <1>1 DEF OutboxInv, HeldInv
<1>3. /\ batch'[w] = rest /\ \A v \in Publisher \ {w} : batch'[v] = batch[v]
      /\ sent'[w] = "no" /\ \A v \in Publisher \ {w} : sent'[v] = sent[v]
      /\ \A v \in Publisher : batch'[v] \subseteq batch[v]
  BY <1>2
<1>4. \A v \in Publisher \ {w} : Turn(v)' = Turn(v) /\ Current(v)' = Current(v)
  BY <1>3 DEF Turn, Current
<1>5. \A i \in 1..n : committed[i] \in Message /\ committed[i] \in Range(committed)
  BY <1>1, Places DEF OutboxInv
<1>6. TablesInv' BY DEF OutboxInv, TablesInv
<1>7. HeldInv'
  <2>1. batch' \in [Publisher -> SUBSET (1..n)] BY <1>2
  <2>2. ASSUME NEW v \in Publisher
        PROVE  /\ IsFiniteSet(batch'[v]) /\ Cardinality(batch'[v]) <= BatchSize
               /\ batch'[v] = {} => sent'[v] = "no"
               /\ sent'[v] = "yes" => Arrived(Current(v))'
               /\ sent'[v] = "failed" => Current(v)' \in troubled'
    <3>1. IsFiniteSet(batch[v]) /\ Cardinality(batch[v]) <= BatchSize BY DEF OutboxInv, HeldInv
    <3>2. IsFiniteSet(batch'[v]) /\ Cardinality(batch'[v]) <= Cardinality(batch[v]) BY <1>3, <3>1, FS_Subset
    <3>3. Cardinality(batch[v]) \in Nat /\ Cardinality(batch'[v]) \in Nat /\ BatchSize \in Nat
      BY <3>1, <3>2, FS_CardinalityType, OutboxAssumption
    <3>4. Cardinality(batch'[v]) <= BatchSize BY <3>1, <3>2, <3>3
    <3>5. CASE v = w BY <1>3, <3>2, <3>4, <3>5
    <3>6. CASE v # w BY <1>3, <1>4, <3>2, <3>4, <3>6 DEF OutboxInv, HeldInv, Arrived
    <3> QED BY <3>5, <3>6
  <2>3. sent' \in [Publisher -> Sending] BY <1>2 DEF Sending
  <2> QED BY <1>1, <2>1, <2>2, <2>3 DEF HeldInv
<1>8. \A m \in Range(committed) : m \in Message BY Places DEF OutboxInv
<1>9. RecordInv'
  <2>1. \A m \in Range(committed) :
          /\ outbox'[m].status \in {"none", "published"} => Arrived(m)
          /\ outbox'[m].status = "failed" => m \in troubled'
    BY <1>8 DEF OutboxInv, RecordInv
  <2> QED BY <2>1 DEF OutboxInv, RecordInv, Arrived
<1>10. EventsOnce' BY <1>8 DEF OutboxInv, EventsOnce, Arrived
<1>11. ASSUME NEW i \in 1..n, committed[i] \notin troubled'
       PROVE  /\ \A u, v \in Publisher : i \in batch'[u] /\ i \in batch'[v] => u = v
              /\ Arrived(committed[i]) =>
                   /\ \A v \in Publisher : i \in batch'[v] => i = Turn(v)' /\ sent'[v] = "yes"
                   /\ outbox'[committed[i]].status = "pending" => \E v \in Publisher : i \in batch'[v]
              /\ \A k \in 1..(i - 1) :
                   committed[k].booking = committed[i].booking /\ committed[k] \notin troubled' /\ ~ Arrived(committed[k]) =>
                     /\ ~ Arrived(committed[i])
                     /\ \A v \in Publisher : i \in batch'[v] => k \in batch'[v]
  <2>1. committed[i] \notin troubled BY <1>11
  <2>2. /\ \A u, v \in Publisher : i \in batch[u] /\ i \in batch[v] => u = v
        /\ Arrived(committed[i]) =>
             /\ \A v \in Publisher : i \in batch[v] => i = Turn(v) /\ sent[v] = "yes"
             /\ outbox[committed[i]].status = "pending" => \E v \in Publisher : i \in batch[v]
        /\ \A k \in 1..(i - 1) :
             committed[k].booking = committed[i].booking /\ committed[k] \notin troubled /\ ~ Arrived(committed[k]) =>
               /\ ~ Arrived(committed[i])
               /\ \A v \in Publisher : i \in batch[v] => k \in batch[v]
    BY <1>1, <2>1 DEF OutboxInv, WayInv
  <2>3. \A u, v \in Publisher : i \in batch'[u] /\ i \in batch'[v] => u = v BY <1>3, <2>2
  <2>4. Arrived(committed[i]) => \A v \in Publisher : i \in batch'[v] => i = Turn(v)' /\ sent'[v] = "yes"
    BY <1>3, <1>4, <2>2
  <2>5. ASSUME Arrived(committed[i]), outbox'[committed[i]].status = "pending"
        PROVE  \E v \in Publisher : i \in batch'[v]
    <3>1. outbox[committed[i]].status = "pending" BY <1>5, <2>5
    <3>2. PICK v \in Publisher : i \in batch[v] BY <2>2, <2>5, <3>1
    <3>3. CASE v = w BY <1>3, <1>11, <2>5, <3>2, <3>3
    <3>4. CASE v # w BY <1>3, <3>2, <3>4
    <3> QED BY <3>3, <3>4
  <2>6. ASSUME NEW k \in 1..(i - 1), committed[k].booking = committed[i].booking, committed[k] \notin troubled',
               ~ Arrived(committed[k])
        PROVE  ~ Arrived(committed[i]) /\ \A v \in Publisher : i \in batch'[v] => k \in batch'[v]
    <3>1. ~ Arrived(committed[i]) /\ \A v \in Publisher : i \in batch[v] => k \in batch[v] BY <2>2, <2>6
    <3>2. \A v \in Publisher : i \in batch'[v] => k \in batch'[v] BY <1>3, <2>6, <3>1
    <3> QED BY <3>1, <3>2
  <2> QED BY <2>3, <2>4, <2>5, <2>6
<1>12. WayInv'
  BY <1>1, <1>11 DEF WayInv, Arrived
<1> QED BY <1>6, <1>7, <1>9, <1>10, <1>12 DEF OutboxInv

\* The first of a batch is marked.
LEMMA MarkKeeps ==
  ASSUME OutboxInv, NEW w \in Publisher, MarkMessage(w) \/ MarkMessageFails(w)
  PROVE  OutboxInv'
<1>1. PICK t, m : t = Turn(w) /\ m = Current(w) OBVIOUS
<1>2. sent[w] \in {"yes", "failed"} /\ batch[w] # {}
  BY DEF MarkMessage, MarkMessageFails, Tried, OutboxInv, HeldInv
<1>3. t \in batch[w] /\ m = committed[t] /\ m \in Message /\ m \in Range(committed)
  BY <1>1, <1>2, FirstOfBatch DEF OutboxInv
<1>4. /\ sent[w] \in {"yes", "failed"} /\ (sent[w] = "yes" => Arrived(m)) /\ (sent[w] = "failed" => m \in troubled)
  BY <1>1, <1>2 DEF OutboxInv, HeldInv
<1>5. PICK rest \in SUBSET batch[w] : rest = batch[w] \ {t} OBVIOUS
<1>6. /\ batch' = [batch EXCEPT ![w] = rest] /\ sent' = [sent EXCEPT ![w] = "no"]
      /\ UNCHANGED <<bookingRow, committed, topic>>
  BY <1>1, <1>5 DEF MarkMessage, MarkMessageFails, NextMessage
<1>7. troubled \subseteq Range(committed) /\ stops \in 0..MaxStops BY DEF OutboxInv, RecordInv
<1>8. /\ outbox \in [Message -> [status : {"none", "pending", "published", "failed"}, tries : Nat]]
      /\ \A i \in Range(committed) : i \in Message /\ (outbox[i].status = "none" => Arrived(i))
  <2>1. outbox \in [Message -> [status : {"none", "pending", "published", "failed"}, tries : Nat]]
    BY DEF OutboxInv, TablesInv
  <2>2. \A i \in Range(committed) : i \in Message BY Places DEF OutboxInv
  <2>3. \A i \in Range(committed) : outbox[i].status = "none" => Arrived(i) BY DEF OutboxInv, RecordInv
  <2> QED BY <2>1, <2>2, <2>3
<1>9. CASE MarkMessage(w)
  <2>1. PICK row : row = outbox[m] OBVIOUS
  <2>2. row \in [status : {"none", "pending", "published", "failed"}, tries : Nat] BY <1>3, <1>8, <2>1
  <2>3. PICK new : new = IF row = NoMessage THEN row ELSE Marked(row, sent[w] = "yes") OBVIOUS
  <2>4. outbox' = [outbox EXCEPT ![m] = new] /\ troubled' = troubled /\ stops' = stops
    BY <1>1, <1>9, <2>1, <2>3 DEF MarkMessage
  <2>5. /\ new \in [status : {"none", "pending", "published", "failed"}, tries : Nat]
        /\ \/ new.status \in {"none", "published"} /\ Arrived(m)
           \/ new.status = "failed" /\ m \in troubled
    <3>1. CASE row = NoMessage
      <4>1. row.status = "none" BY <3>1 DEF NoMessage
      <4>2. Arrived(m) BY <1>3, <1>8, <2>1, <4>1
      <4>3. new = row BY <2>3, <3>1
      <4> QED BY <2>2, <4>1, <4>2, <4>3
    <3>2. CASE row # NoMessage /\ sent[w] = "yes" BY <1>4, <2>2, <2>3, <3>2 DEF Marked
    <3>3. CASE row # NoMessage /\ sent[w] = "failed"
      <4>1. new = [row EXCEPT !.status = "failed", !.tries = row.tries + 1] BY <2>3, <3>3 DEF Marked
      <4>2. row.tries + 1 \in Nat BY <2>2
      <4>3. new \in [status : {"none", "pending", "published", "failed"}, tries : Nat] BY <2>2, <4>1, <4>2
      <4>4. new.status = "failed" BY <2>2, <4>1
      <4> QED BY <1>4, <3>3, <4>3, <4>4
    <3> QED BY <1>4, <3>1, <3>2, <3>3
  <2>6. outbox' \in [Message -> [status : {"none", "pending", "published", "failed"}, tries : Nat]]
    BY <1>8, <2>4, <2>5
  <2>7. outbox'[m] = new /\ \A i \in Message \ {m} : outbox'[i] = outbox[i] BY <1>3, <1>8, <2>4
  <2>8. \A i \in batch[w] \ rest :
          \/ committed[i] \in troubled'
          \/ Arrived(committed[i]) /\ outbox'[committed[i]].status # "pending"
    BY <1>3, <1>5, <2>4, <2>5, <2>7
  <2>9. \A i \in Message :
          \/ outbox'[i] = outbox[i]
          \/ /\ i \in Range(committed)
             /\ \/ outbox'[i].status \in {"none", "published"} /\ Arrived(i)
                \/ outbox'[i].status = "failed" /\ i \in troubled'
    BY <1>3, <2>4, <2>5, <2>7
  <2>10. Turn(w) \notin rest /\ stops' \in 0..MaxStops /\ troubled \subseteq troubled' /\ troubled' \subseteq Range(committed)
    BY <1>1, <1>5, <1>7, <2>4
  <2> QED BY <1>2, <1>6, <2>6, <2>8, <2>9, <2>10, LettingGoKeeps
<1>10. CASE MarkMessageFails(w)
  <2>1. outbox' = outbox /\ troubled' = troubled \union {m} /\ stops' \in 0..MaxStops
    BY <1>1, <1>7, <1>10, OutboxAssumption DEF MarkMessageFails
  <2>2. \A i \in batch[w] \ rest : committed[i] \in troubled' BY <1>3, <1>5, <2>1
  <2>3. \A i \in Message : outbox'[i] = outbox[i] BY <2>1
  <2>4. Turn(w) \notin rest /\ troubled \subseteq troubled' /\ troubled' \subseteq Range(committed)
    BY <1>1, <1>3, <1>5, <1>7, <2>1
  <2>5. outbox' \in [Message -> [status : {"none", "pending", "published", "failed"}, tries : Nat]] BY <1>8, <2>1
  <2> QED BY <1>2, <1>6, <2>1, <2>2, <2>3, <2>4, <2>5, LettingGoKeeps
<1> QED BY <1>9, <1>10

\* A goroutine stops: what it sent had trouble, and the rest has not arrived.
LEMMA StopKeeps ==
  ASSUME OutboxInv, NEW w \in Publisher, PublisherStops(w)
  PROVE  OutboxInv'
<1>1. PICK rest \in SUBSET batch[w] : rest = {} OBVIOUS
<1>2. /\ batch[w] # {} /\ batch' = [batch EXCEPT ![w] = rest] /\ sent' = [sent EXCEPT ![w] = "no"]
      /\ UNCHANGED <<bookingRow, committed, topic>> /\ outbox' = outbox
      /\ troubled' = troubled \union {m \in Range(committed) : Tried(w) /\ m = Current(w)}
  BY <1>1 DEF PublisherStops
<1>3. stops' \in 0..MaxStops BY OutboxAssumption DEF PublisherStops, OutboxInv, RecordInv
<1>4. troubled \subseteq troubled' /\ troubled' \subseteq Range(committed) /\ Turn(w) \notin rest
  BY <1>1, <1>2 DEF OutboxInv, RecordInv
<1>5. ASSUME NEW i \in batch[w], committed[i] \notin troubled'
      PROVE  ~ Arrived(committed[i])
  <2>1. i \in 1..Len(committed) /\ committed[i] \in Range(committed) /\ committed[i] \notin troubled
    BY <1>4, <1>5, Places DEF OutboxInv, HeldInv
  <2>2. Arrived(committed[i]) => i = Turn(w) /\ sent[w] = "yes" BY <2>1 DEF OutboxInv, WayInv
  <2>3. i = Turn(w) => ~ Tried(w) BY <1>2, <1>5, <2>1 DEF Current
  <2> QED BY <2>2, <2>3 DEF Tried
<1>6. outbox' \in [Message -> [status : {"none", "pending", "published", "failed"}, tries : Nat]]
  BY <1>2 DEF OutboxInv, TablesInv
<1>7. \A i \in Message : outbox'[i] = outbox[i] BY <1>2
<1> QED BY <1>1, <1>2, <1>3, <1>4, <1>5, <1>6, <1>7, LettingGoKeeps

\* Published messages, which have arrived, are deleted.
LEMMA CleanUpKeeps ==
  ASSUME OutboxInv, CleanUpOutbox
  PROVE  OutboxInv'
<1>1. PICK gone \in SUBSET {m \in Message : outbox[m].status = "published"} :
        outbox' = [m \in Message |-> IF m \in gone THEN NoMessage ELSE outbox[m]]
  BY DEF CleanUpOutbox
<1>2. UNCHANGED <<bookingRow, committed, batch, sent, topic, troubled, stops>> BY DEF CleanUpOutbox
<1>3. \A m \in Message :
        \/ outbox'[m] = outbox[m]
        \/ outbox[m].status = "published" /\ outbox'[m] = NoMessage
  BY <1>1
<1>4. NoMessage \in [status : {"none", "pending", "published", "failed"}, tries : Nat] /\ NoMessage.status = "none"
  BY DEF NoMessage
<1>5. \A v \in Publisher : Turn(v)' = Turn(v) /\ Current(v)' = Current(v) BY <1>2 DEF Turn, Current
<1>6. outbox' \in [Message -> [status : {"none", "pending", "published", "failed"}, tries : Nat]]
  BY <1>1, <1>4 DEF OutboxInv, TablesInv
<1>7. TablesInv' BY <1>2, <1>3, <1>6 DEF OutboxInv, TablesInv
<1>8. HeldInv' BY <1>2, <1>5 DEF OutboxInv, HeldInv, Arrived
<1>9. \A m \in Range(committed) : m \in Message BY Places DEF OutboxInv
<1>10. \A m \in Range(committed) :
         /\ outbox'[m].status \in {"none", "published"} => outbox[m].status \in {"none", "published"}
         /\ outbox'[m].status \in {"pending", "failed"} => outbox'[m] = outbox[m]
  BY <1>3, <1>4, <1>9
<1>11. RecordInv' BY <1>2, <1>10 DEF OutboxInv, RecordInv, Arrived
<1>12. EventsOnce' BY <1>2, <1>10 DEF OutboxInv, EventsOnce
<1>13. WayInv'
  <2>1. \A i \in 1..Len(committed) : outbox'[committed[i]].status = "pending" => outbox[committed[i]].status = "pending"
    BY <1>10, Places DEF OutboxInv
  <2> QED BY <1>2, <1>5, <2>1 DEF OutboxInv, WayInv, Arrived
<1> QED BY <1>7, <1>8, <1>11, <1>12, <1>13 DEF OutboxInv

\* No message is committed at first.
LEMMA OutboxInvInit ==
  ASSUME OutboxInit
  PROVE  OutboxInv
<1>1. Len(committed) = 0 /\ committed \in Seq(Message) /\ topic \in Seq(Message) BY DEF OutboxInit
<1>2. Range(committed) = {} /\ Range(topic) = {} BY DEF OutboxInit, Range
<1>3. NoMessage \in [status : {"none", "pending", "published", "failed"}, tries : Nat] BY DEF NoMessage
<1>4. TablesInv BY <1>1, <1>2, <1>3 DEF TablesInv, OutboxInit
<1>5. HeldInv
  <2>1. IsFiniteSet({}) /\ Cardinality({}) = 0 BY FS_EmptySet
  <2> QED BY <2>1, OutboxAssumption DEF HeldInv, OutboxInit, Sending
<1>6. RecordInv BY <1>1, <1>2, OutboxAssumption DEF RecordInv, OutboxInit
<1>7. WayInv BY <1>1 DEF WayInv
<1>8. EventsOnce
  <2>1. DOMAIN topic = {} BY DEF OutboxInit
  <2> QED BY <1>2, <2>1 DEF EventsOnce
<1> QED BY <1>4, <1>5, <1>6, <1>7, <1>8 DEF OutboxInv

\* The invariant holds after every step.
LEMMA OutboxStep ==
  ASSUME OutboxInv, [OutboxNext]_outboxVars
  PROVE  OutboxInv'
<1>1. ASSUME NEW b \in Booking, CreateWithOutbox(b) PROVE OutboxInv'
  <2>1. Commit(b, "none", "reserved", "created") BY <1>1 DEF CreateWithOutbox
  <2> QED BY <2>1, CommitKeeps
<1>2. ASSUME NEW b \in Booking, SettleWithOutbox(b) PROVE OutboxInv'
  <2>1. PICK outcome \in Outcome : Commit(b, "reserved", outcome, outcome) BY <1>2 DEF SettleWithOutbox
  <2> QED BY <2>1, CommitKeeps
<1>3. ASSUME NEW w \in Publisher,
             \/ Fetch(w) \/ FetchEnds(w) \/ Send(w)
             \/ MarkMessage(w) \/ MarkMessageFails(w) \/ PublisherStops(w)
      PROVE  OutboxInv'
  BY <1>3, FetchKeeps, FetchEndKeeps, SendKeeps, MarkKeeps, StopKeeps
<1>4. CASE CleanUpOutbox BY <1>4, CleanUpKeeps
<1>5. CASE UNCHANGED outboxVars
  <2>1. UNCHANGED <<bookingRow, committed, outbox, batch, sent, topic, troubled, stops>> BY <1>5 DEF outboxVars
  <2>2. \A v \in Publisher : Turn(v)' = Turn(v) /\ Current(v)' = Current(v) BY <2>1 DEF Turn, Current
  <2>3. TablesInv' BY <2>1 DEF OutboxInv, TablesInv
  <2>4. HeldInv' BY <2>1, <2>2 DEF OutboxInv, HeldInv, Arrived
  <2>5. RecordInv' /\ EventsOnce' BY <2>1 DEF OutboxInv, RecordInv, EventsOnce, Arrived
  <2>6. WayInv' BY <2>1, <2>2 DEF OutboxInv, WayInv, Arrived
  <2> QED BY <2>3, <2>4, <2>5, <2>6 DEF OutboxInv
<1> QED BY <1>1, <1>2, <1>3, <1>4, <1>5 DEF OutboxNext

\* The invariant holds throughout.
LEMMA OutboxMain == OutboxSpec => []OutboxInv
<1>1. OutboxInit => OutboxInv BY OutboxInvInit
<1>2. OutboxInv /\ [OutboxNext]_outboxVars => OutboxInv' BY OutboxStep
<1> QED BY <1>1, <1>2, PTL DEF OutboxSpec

\* For any number of bookings, goroutines and retries and any size of a batch: an event
\* counts as published, or is deleted, only when it reached the topic, and the events of
\* a booking that neither failed nor were fetched by two goroutines at once come once
\* and in order.
THEOREM EventsComeOnce == OutboxSpec => []EventsOnce
<1>1. OutboxInv => EventsOnce BY DEF OutboxInv
<1> QED BY <1>1, OutboxMain, PTL

\* The outbox keeps its type, and no batch is larger than the size of a batch.
LEMMA OutboxInvTyped ==
  ASSUME OutboxInv
  PROVE  OutboxTypeOK
<1>1. \A m \in Range(committed) : bookingRow[m.booking] # "none"
  <2>1. \A i \in 1..Len(committed) : bookingRow[committed[i].booking] # "none" BY DEF OutboxInv, TablesInv
  <2>2. \A m \in Range(committed) : \E i \in 1..Len(committed) : committed[i] = m BY Places DEF OutboxInv
  <2> QED BY <2>1, <2>2
<1>2. \A w \in Publisher : batch[w] \subseteq DOMAIN committed BY Places DEF OutboxInv, HeldInv
<1> QED BY <1>1, <1>2 DEF OutboxInv, TablesInv, HeldInv, RecordInv, OutboxTypeOK

\* What the tables and the goroutines hold is what the operations leave there, and no
\* batch is larger than a fetch may make it.
THEOREM OutboxTyped == OutboxSpec => []OutboxTypeOK
<1>1. OutboxInv => OutboxTypeOK BY OutboxInvTyped
<1> QED BY <1>1, OutboxMain, PTL

(***************************************************************************)
(* The cached catalogue                                                    *)
(***************************************************************************)
DropStage == {"drop detail", "drop slug", "drop list"}
Record == [at : VisitStage, copy : CatalogEvent \union {NoEvent}, edits : BOOLEAN]

\* Who changes the event edits it, and nobody has a copy before it exists.
VisitsInv ==
  /\ slugKey \in [Slug -> CatalogEvent \union {NoCopy}]
  /\ asked = NoEvent <=> event = NoEvent
  /\ event = NoEvent => detailKey = NoCopy /\ \A s \in Slug : slugKey[s] = NoCopy
  /\ \A v \in Visit : visit[v] # Away =>
       /\ visit[v].at \in {"edit", "remove"} \union DropStage => visit[v].edits
       /\ visit[v].at \in {"fill list", "fill slug"} => ~visit[v].edits
       /\ visit[v].at # "fill list" => visit[v].copy \in CatalogEvent /\ event # NoEvent

\* Until it is doubtful one visitor edits, what it starts from is the row, and the
\* slug whose key it will drop is the row's.
EditsInv == ~doubtful =>
  /\ \A v, w \in Editing : v = w
  /\ \A v \in Visit : visit[v] # Away =>
       /\ visit[v].at \in {"edit", "remove"} => visit[v].copy = event
       /\ visit[v].at \in DropStage => visit[v].copy.slug = event.slug

CacheInv == EventCacheTypeOK /\ VisitsInv /\ EditsInv /\ CatalogueFollowsEdits

\* The initial state satisfies the invariant.
LEMMA CacheInitInv == EventCacheInit => CacheInv
<1> SUFFICES ASSUME EventCacheInit PROVE CacheInv
  OBVIOUS
<1>1. \A v \in Visit : visit[v] = Away BY DEF EventCacheInit
<1>2. EventCacheTypeOK BY DEF EventCacheInit, EventCacheTypeOK
<1>3. VisitsInv BY <1>1 DEF EventCacheInit, VisitsInv
<1>4. EditsInv BY <1>1 DEF EditsInv, Editing
<1>5. CatalogueFollowsEdits BY DEF EventCacheInit, CatalogueFollowsEdits
<1> QED BY <1>2, <1>3, <1>4, <1>5 DEF CacheInv

\* Rows, copies and their absence differ.
LEMMA CacheKinds ==
  /\ NoEvent \notin CatalogEvent /\ NoCopy \notin CatalogEvent
  /\ \A e \in CatalogEvent \union {NoEvent} : Live(e) => e \in CatalogEvent
  /\ \A e \in CatalogEvent : e.slug \in Slug
BY DEF NoEvent, NoCopy, CatalogEvent, Live

\* An edit changes one field.
LEMMA EditedTyped ==
  ASSUME NEW e \in CatalogEvent
  PROVE  /\ \A s \in Slug : Edited(e, "slug", s) \in CatalogEvent
         /\ \A st \in {"draft", "published", "deleted"} :
              Edited(e, "status", st) \in CatalogEvent /\ Edited(e, "status", st).slug = e.slug
BY DEF Edited, CatalogEvent

\* A visitor that is there has its fields.
LEMMA VisitKinds ==
  ASSUME EventCacheTypeOK, NEW v \in Visit
  PROVE  /\ visit[v] # Away => visit[v] \in Record
         /\ DOMAIN visit = Visit /\ doubtful \in BOOLEAN
BY DEF EventCacheTypeOK, Record

\* A visitor goes on with its copy, or with another.
LEMMA VisitGoes ==
  ASSUME EventCacheTypeOK, NEW v \in Visit, visit[v] # Away, NEW at \in VisitStage, NEW copy \in CatalogEvent \union {NoEvent}
  PROVE  /\ visit' = [visit EXCEPT ![v].at = at] =>
              /\ visit' \in [Visit -> Record \union {Away}]
              /\ visit'[v] # Away /\ visit'[v].at = at /\ visit'[v].copy = visit[v].copy /\ visit'[v].edits = visit[v].edits
              /\ \A w \in Visit \ {v} : visit'[w] = visit[w]
         /\ visit' = [visit EXCEPT ![v].at = at, ![v].copy = copy] =>
              /\ visit' \in [Visit -> Record \union {Away}]
              /\ visit'[v] # Away /\ visit'[v].at = at /\ visit'[v].copy = copy /\ visit'[v].edits = visit[v].edits
              /\ \A w \in Visit \ {v} : visit'[w] = visit[w]
<1>1. visit[v] \in Record /\ DOMAIN visit = Visit BY VisitKinds
<1>2. visit \in [Visit -> Record \union {Away}] BY DEF EventCacheTypeOK, Record
<1>3. /\ [visit[v] EXCEPT !.at = at] \in Record /\ [visit[v] EXCEPT !.at = at, !.copy = copy] \in Record
      /\ [visit[v] EXCEPT !.at = at].at = at
      /\ [visit[v] EXCEPT !.at = at].copy = visit[v].copy
      /\ [visit[v] EXCEPT !.at = at].edits = visit[v].edits
      /\ [visit[v] EXCEPT !.at = at, !.copy = copy].at = at
      /\ [visit[v] EXCEPT !.at = at, !.copy = copy].copy = copy
      /\ [visit[v] EXCEPT !.at = at, !.copy = copy].edits = visit[v].edits
  BY <1>1 DEF Record
<1>4. Away.at = "away" /\ at # "away" BY DEF Away, VisitStage
<1> QED BY <1>1, <1>2, <1>3, <1>4

\* A visitor comes, or leaves.
LEMMA VisitComes ==
  ASSUME EventCacheTypeOK, NEW v \in Visit, NEW r \in Record \union {Away}, visit' = [visit EXCEPT ![v] = r]
  PROVE  /\ visit' \in [Visit -> Record \union {Away}] /\ visit'[v] = r
         /\ \A w \in Visit \ {v} : visit'[w] = visit[w]
BY DEF EventCacheTypeOK, Record

\* A request that begins keeps the invariant.
LEMMA BeginStep ==
  ASSUME CacheInv, NEW v \in Visit, NEW at \in {"fill list", "fill slug", "fill detail", "edit"}, NEW edits \in BOOLEAN,
         NEW copy \in CatalogEvent \union {NoEvent}, Begin(v, at, copy, edits),
         at # "fill list" => copy \in CatalogEvent /\ event # NoEvent,
         at \in {"fill list", "fill slug"} => ~edits,
         at = "edit" => edits /\ (Editing = {} => copy = event)
  PROVE  CacheInv'
<1>t. EventCacheTypeOK /\ VisitsInv /\ EditsInv /\ CatalogueFollowsEdits BY DEF CacheInv
<1> DEFINE r == [at |-> at, copy |-> copy, edits |-> edits]
<1>1. r \in Record /\ r # Away /\ r.at = at /\ r.copy = copy /\ r.edits = edits BY DEF Record, Away, VisitStage
<1> HIDE DEF r
<1>2. /\ visit' \in [Visit -> Record \union {Away}] /\ visit'[v] = r
      /\ \A w \in Visit \ {v} : visit'[w] = visit[w]
  <2>1. visit' = [visit EXCEPT ![v] = r] BY DEF Begin, r
  <2> QED BY <1>t, <1>1, <2>1, VisitComes
<1>3. /\ visit[v] = Away /\ ~doubtful /\ doubtful' = (edits /\ Editing # {})
      /\ UNCHANGED <<event, asked, detailKey, slugKey, listKey>>
  BY DEF Begin
<1>4. EventCacheTypeOK' BY <1>t, <1>2, <1>3 DEF EventCacheTypeOK, Record
<1>5. VisitsInv' BY <1>t, <1>1, <1>2, <1>3 DEF VisitsInv, DropStage
<1>6. EditsInv'
  <2>1. CASE edits BY <1>t, <1>1, <1>2, <1>3, <2>1 DEF EditsInv, Editing, DropStage
  <2>2. CASE ~edits BY <1>t, <1>1, <1>2, <1>3, <2>2, ZenonT(60) DEF EditsInv, Editing, DropStage
  <2> QED BY <2>1, <2>2
<1>7. \A stages : Dropping(stages) => Dropping(stages)' BY <1>2, <1>3 DEF Dropping
<1>8. CatalogueFollowsEdits' BY <1>t, <1>3, <1>7 DEF CatalogueFollowsEdits
<1> QED BY <1>4, <1>5, <1>6, <1>8 DEF CacheInv

\* Every step keeps the invariant.
LEMMA CacheStep == CacheInv /\ [EventCacheNext]_cacheVars => CacheInv'
<1> SUFFICES ASSUME CacheInv, [EventCacheNext]_cacheVars PROVE CacheInv'
  OBVIOUS
<1>t. EventCacheTypeOK /\ VisitsInv /\ EditsInv /\ CatalogueFollowsEdits BY DEF CacheInv
<1>k. event \in CatalogEvent \union {NoEvent} /\ doubtful \in BOOLEAN /\ detailKey \in CatalogEvent \union {NoCopy}
      /\ (Live(event) => event \in CatalogEvent /\ event # NoEvent)
  BY <1>t, CacheKinds DEF EventCacheTypeOK
<1>1. ASSUME NEW v \in Visit, NEW edits \in BOOLEAN, MissByID(v, edits) PROVE CacheInv'
  BY <1>1, <1>k, BeginStep DEF MissByID
<1>2. ASSUME NEW v \in Visit, MissBySlug(v) PROVE CacheInv'
  BY <1>2, <1>k, BeginStep DEF MissBySlug
<1>3. ASSUME NEW v \in Visit, MissList(v) PROVE CacheInv'
  BY <1>3, <1>k, BeginStep DEF MissList
<1>4. ASSUME NEW v \in Visit, HitToEdit(v) PROVE CacheInv'
  <2>1. detailKey \in CatalogEvent /\ event # NoEvent /\ ~doubtful
    BY <1>4, <1>k, <1>t DEF HitToEdit, Begin, VisitsInv
  <2>2. Editing = {} => detailKey = event
    BY <1>t, <2>1, CacheKinds DEF CatalogueFollowsEdits, Dropping, VisitsInv, DropStage, Editing
  <2> QED BY <1>4, <2>1, <2>2, BeginStep DEF HitToEdit
<1>5. ASSUME NEW v \in Visit, FillDetail(v) PROVE CacheInv'
  <2>0. visit[v] # Away /\ visit[v].at = "fill detail" /\ visit[v] \in Record /\ visit[v].copy \in CatalogEvent
        /\ UNCHANGED <<event, asked, slugKey, listKey>> /\ detailKey' = visit[v].copy
        /\ doubtful' = (doubtful \/ visit[v].copy # event) /\ event # NoEvent
    BY <1>5, <1>t, VisitKinds DEF FillDetail, Is, VisitsInv
  <2>1. /\ visit' \in [Visit -> Record \union {Away}]
        /\ IF visit[v].edits
           THEN /\ visit'[v] # Away /\ visit'[v].at = "edit" /\ visit'[v].copy = visit[v].copy /\ visit'[v].edits
           ELSE visit'[v] = Away
        /\ \A w \in Visit \ {v} : visit'[w] = visit[w]
    <3>1. CASE visit[v].edits
      BY <1>5, <1>t, <2>0, <3>1, VisitGoes DEF FillDetail, VisitStage
    <3>2. CASE ~visit[v].edits
      BY <1>5, <1>t, <2>0, <3>2, VisitComes DEF FillDetail
    <3> QED BY <3>1, <3>2
  <2>2. EventCacheTypeOK' BY <1>t, <2>0, <2>1 DEF EventCacheTypeOK, Record
  <2>3. VisitsInv' BY <1>t, <2>0, <2>1 DEF VisitsInv, DropStage
  <2>4. EditsInv' BY <1>t, <2>0, <2>1 DEF EditsInv, Editing, DropStage
  <2>5. \A stages \in SUBSET DropStage : Dropping(stages) => Dropping(stages)'
    BY <2>0, <2>1 DEF Dropping, DropStage
  <2>6. CatalogueFollowsEdits' BY <1>t, <2>0, <2>5 DEF CatalogueFollowsEdits, DropStage
  <2> QED BY <2>2, <2>3, <2>4, <2>6 DEF CacheInv
<1>6. ASSUME NEW v \in Visit, FillSlug(v) PROVE CacheInv'
  <2>0. visit[v] # Away /\ visit[v].at = "fill slug" /\ visit[v] \in Record /\ visit[v].copy \in CatalogEvent
        /\ UNCHANGED <<event, asked, detailKey, listKey>> /\ slugKey' = [slugKey EXCEPT ![visit[v].copy.slug] = visit[v].copy]
        /\ doubtful' = (doubtful \/ visit[v].copy # event) /\ event # NoEvent /\ ~visit[v].edits
    BY <1>6, <1>t, VisitKinds DEF FillSlug, Is, VisitsInv
  <2>1. /\ visit' \in [Visit -> Record \union {Away}]
        /\ visit'[v] # Away /\ visit'[v].at = "fill detail" /\ visit'[v].copy = visit[v].copy /\ ~visit'[v].edits
        /\ \A w \in Visit \ {v} : visit'[w] = visit[w]
    BY <1>6, <1>t, <2>0, VisitGoes DEF FillSlug, Goes, VisitStage
  <2>a. /\ slugKey' \in [Slug -> CatalogEvent \union {NoCopy}]
        /\ \A s \in Slug : slugKey'[s] = slugKey[s] \/ (slugKey'[s] = visit[v].copy /\ visit[v].copy.slug = s)
    BY <1>t, <2>0, CacheKinds DEF VisitsInv
  <2>2. EventCacheTypeOK' BY <1>t, <2>0, <2>1, <2>a DEF EventCacheTypeOK, Record
  <2>3. VisitsInv' BY <1>t, <2>0, <2>1, <2>a DEF VisitsInv, DropStage
  <2>4. EditsInv' BY <1>t, <2>0, <2>1 DEF EditsInv, Editing, DropStage
  <2>5. \A stages \in SUBSET DropStage : Dropping(stages) => Dropping(stages)'
    BY <2>0, <2>1 DEF Dropping, DropStage
  <2>6. CatalogueFollowsEdits' BY <1>t, <2>0, <2>5, <2>a DEF CatalogueFollowsEdits, DropStage
  <2> QED BY <2>2, <2>3, <2>4, <2>6 DEF CacheInv
<1>7. ASSUME NEW v \in Visit, FillList(v) PROVE CacheInv'
  <2>0. visit[v] # Away /\ visit[v].at = "fill list" /\ visit[v] \in Record /\ visit' = [visit EXCEPT ![v] = Away]
        /\ UNCHANGED <<event, asked, detailKey, slugKey>> /\ listKey' = Listed(visit[v].copy)
        /\ doubtful' = (doubtful \/ Listed(visit[v].copy) # Listed(event))
    BY <1>7, <1>t, VisitKinds DEF FillList, Is
  <2>1. /\ visit' \in [Visit -> Record \union {Away}] /\ visit'[v] = Away
        /\ \A w \in Visit \ {v} : visit'[w] = visit[w]
    BY <1>t, <2>0, VisitComes
  <2>a. \A e \in listKey' : e.status = "published" BY <2>0 DEF Listed
  <2>2. EventCacheTypeOK' BY <1>t, <2>0, <2>1, <2>a DEF EventCacheTypeOK, Record
  <2>3. VisitsInv' BY <1>t, <2>0, <2>1 DEF VisitsInv, DropStage
  <2>4. EditsInv' BY <1>t, <2>0, <2>1 DEF EditsInv, Editing, DropStage
  <2>5. \A stages \in SUBSET DropStage : Dropping(stages) => Dropping(stages)'
    BY <2>0, <2>1 DEF Dropping, DropStage
  <2>6. CatalogueFollowsEdits' BY <1>t, <2>0, <2>5 DEF CatalogueFollowsEdits, DropStage
  <2> QED BY <2>2, <2>3, <2>4, <2>6 DEF CacheInv
<1>8. ASSUME NEW v \in Visit, NEW s \in Slug, CreateEvent(v, s) PROVE CacheInv'
  <2> DEFINE e == [slug |-> s, status |-> "draft"]
  <2>0. visit[v] = Away /\ event = NoEvent /\ event' = e /\ asked' = e
        /\ visit' = [visit EXCEPT ![v] = [at |-> "drop list", copy |-> e, edits |-> TRUE]]
        /\ UNCHANGED <<detailKey, slugKey, listKey, doubtful>>
    BY <1>8 DEF CreateEvent
  <2>a. e \in CatalogEvent /\ e # NoEvent /\ e.slug = s BY CacheKinds DEF CatalogEvent
  <2>b. [at |-> "drop list", copy |-> e, edits |-> TRUE] \in Record BY <2>a DEF Record, VisitStage
  <2>c. \A w \in Visit : visit[w] # Away => visit[w].at = "fill list" /\ ~visit[w].edits
    BY <1>t, <2>0 DEF VisitsInv
  <2> HIDE DEF e
  <2>1. /\ visit' \in [Visit -> Record \union {Away}] /\ visit'[v] = [at |-> "drop list", copy |-> e, edits |-> TRUE]
        /\ \A w \in Visit \ {v} : visit'[w] = visit[w]
        /\ visit'[v] # Away /\ visit'[v].at = "drop list"
    BY <1>t, <2>0, <2>b, VisitComes DEF Away
  <2>2. EventCacheTypeOK' BY <1>t, <2>0, <2>1, <2>a DEF EventCacheTypeOK, Record
  <2>3. VisitsInv' BY <1>t, <2>0, <2>1, <2>a, <2>c DEF VisitsInv, DropStage
  <2>4. EditsInv' BY <1>t, <2>0, <2>1, <2>a, <2>c DEF EditsInv, Editing, DropStage
  <2>5. Dropping({"drop detail", "drop slug", "drop list"})' BY <2>1 DEF Dropping
  <2>6. CatalogueFollowsEdits' BY <1>t, <2>0, <2>5 DEF CatalogueFollowsEdits, VisitsInv
  <2> QED BY <2>2, <2>3, <2>4, <2>6 DEF CacheInv
<1>9. ASSUME NEW v \in Visit, UpdateEvent(v) PROVE CacheInv'
  <2>1. PICK new \in CatalogEvent, want \in CatalogEvent :
          /\ event' = new /\ asked' = want /\ (visit[v].copy = asked => new = want)
          /\ visit' = [visit EXCEPT ![v].at = "drop detail", ![v].copy = new]
          /\ Live(event) /\ visit[v] # Away /\ visit[v].at = "edit"
          /\ UNCHANGED <<detailKey, slugKey, listKey, doubtful>>
    <3>1. visit[v] # Away /\ visit[v].at = "edit" /\ visit[v].copy \in CatalogEvent /\ asked \in CatalogEvent
      BY <1>9, <1>t DEF UpdateEvent, Is, VisitsInv, EventCacheTypeOK
    <3>2. PICK field \in {"slug", "status"} : \E value \in IF field = "slug" THEN Slug ELSE {"draft", "published"} :
            WriteRow(Edited(visit[v].copy, field, value)) /\ asked' = Edited(asked, field, value)
      BY <1>9 DEF UpdateEvent
    <3>4. PICK value \in IF field = "slug" THEN Slug ELSE {"draft", "published"} :
            WriteRow(Edited(visit[v].copy, field, value)) /\ asked' = Edited(asked, field, value)
      BY <3>2
    <3>3. Edited(visit[v].copy, field, value) \in CatalogEvent /\ Edited(asked, field, value) \in CatalogEvent
      BY <3>1, EditedTyped
    <3> QED BY <1>9, <3>1, <3>4, <3>3 DEF UpdateEvent, WriteRow
  <2>0. visit[v].edits BY <1>t, <2>1 DEF VisitsInv
  <2>2. /\ visit' \in [Visit -> Record \union {Away}]
        /\ visit'[v] # Away /\ visit'[v].at = "drop detail" /\ visit'[v].copy = new /\ visit'[v].edits
        /\ \A w \in Visit \ {v} : visit'[w] = visit[w]
    BY <1>t, <2>0, <2>1, VisitGoes DEF VisitStage
  <2>3. EventCacheTypeOK' BY <1>t, <2>1, <2>2 DEF EventCacheTypeOK, Record
  <2>4. VisitsInv' BY <1>t, <2>0, <2>1, <2>2, CacheKinds DEF VisitsInv, DropStage
  <2>a. ~doubtful => \A w \in Visit : visit[w] # Away /\ visit[w].edits => w = v
    BY <1>t, <2>0, <2>1 DEF EditsInv, Editing
  <2>b. \A w \in Visit : visit[w] # Away /\ visit[w].at \in {"edit", "remove"} \union DropStage => visit[w].edits
    BY <1>t DEF VisitsInv
  <2>5. EditsInv' BY <2>1, <2>2, <2>a, <2>b DEF EditsInv, Editing, DropStage
  <2>6. CatalogueFollowsEdits'
    <3>1. ~doubtful => visit[v].copy = event /\ event = asked BY <1>t, <2>1 DEF EditsInv, CatalogueFollowsEdits
    <3>2. \A stages : "drop detail" \in stages => Dropping(stages)' BY <2>2 DEF Dropping
    <3> QED BY <2>1, <3>1, <3>2 DEF CatalogueFollowsEdits
  <2> QED BY <2>3, <2>4, <2>5, <2>6 DEF CacheInv
<1>10. ASSUME NEW v \in Visit, FindToDelete(v) PROVE CacheInv'
  <2>0. visit[v] # Away /\ visit[v].at = "edit" /\ visit[v].edits /\ event \in CatalogEvent /\ event # NoEvent
        /\ UNCHANGED <<event, asked, detailKey, slugKey, listKey, doubtful>>
    BY <1>10, <1>t, <1>k DEF FindToDelete, Is, VisitsInv
  <2>1. /\ visit' \in [Visit -> Record \union {Away}]
        /\ visit'[v] # Away /\ visit'[v].at = "remove" /\ visit'[v].copy = event /\ visit'[v].edits
        /\ \A w \in Visit \ {v} : visit'[w] = visit[w]
    BY <1>10, <1>t, <2>0, VisitGoes DEF FindToDelete, VisitStage
  <2>2. EventCacheTypeOK' BY <1>t, <2>0, <2>1 DEF EventCacheTypeOK, Record
  <2>3. VisitsInv' BY <1>t, <2>0, <2>1 DEF VisitsInv, DropStage
  <2>a. ~doubtful => \A w \in Visit : visit[w] # Away /\ visit[w].edits => w = v
    BY <1>t, <2>0 DEF EditsInv, Editing
  <2>b. \A w \in Visit : visit[w] # Away /\ visit[w].at \in {"edit", "remove"} \union DropStage => visit[w].edits
    BY <1>t DEF VisitsInv
  <2>4. EditsInv' BY <2>0, <2>1, <2>a, <2>b DEF EditsInv, Editing, DropStage
  <2>5. \A stages \in SUBSET DropStage : Dropping(stages) => Dropping(stages)'
    BY <2>0, <2>1 DEF Dropping, DropStage
  <2>6. CatalogueFollowsEdits' BY <1>t, <2>0, <2>5 DEF CatalogueFollowsEdits, DropStage
  <2> QED BY <2>2, <2>3, <2>4, <2>6 DEF CacheInv
<1>11. ASSUME NEW v \in Visit, DeleteEvent(v) PROVE CacheInv'
  <2>0. visit[v] # Away /\ visit[v].at = "remove" /\ visit[v].edits /\ visit[v].copy \in CatalogEvent /\ Live(event)
        /\ event' = Edited(event, "status", "deleted") /\ asked' = Edited(asked, "status", "deleted")
        /\ UNCHANGED <<detailKey, slugKey, listKey, doubtful>>
    BY <1>11, <1>t DEF DeleteEvent, Is, VisitsInv, WriteRow
  <2>a. event' \in CatalogEvent /\ event'.slug = event.slug /\ asked' \in CatalogEvent /\ (event = asked => event' = asked')
    <3>1. event \in CatalogEvent /\ asked \in CatalogEvent BY <1>t, <1>k, <2>0 DEF VisitsInv, EventCacheTypeOK
    <3> QED BY <2>0, <3>1, EditedTyped
  <2>1. /\ visit' \in [Visit -> Record \union {Away}]
        /\ visit'[v] # Away /\ visit'[v].at = "drop detail" /\ visit'[v].copy = visit[v].copy /\ visit'[v].edits
        /\ \A w \in Visit \ {v} : visit'[w] = visit[w]
    BY <1>11, <1>t, <2>0, VisitGoes DEF DeleteEvent, Goes, VisitStage
  <2>2. EventCacheTypeOK' BY <1>t, <2>0, <2>1, <2>a DEF EventCacheTypeOK, Record
  <2>3. VisitsInv' BY <1>t, <2>0, <2>1, <2>a, CacheKinds DEF VisitsInv, DropStage
  <2>b. ~doubtful => /\ \A w \in Visit : visit[w] # Away /\ visit[w].edits => w = v
                     /\ visit[v].copy = event
    BY <1>t, <2>0 DEF EditsInv, Editing
  <2>c. \A w \in Visit : visit[w] # Away /\ visit[w].at \in {"edit", "remove"} \union DropStage => visit[w].edits
    BY <1>t DEF VisitsInv
  <2>4. EditsInv' BY <2>0, <2>1, <2>a, <2>b, <2>c DEF EditsInv, Editing, DropStage
  <2>5. \A stages : "drop detail" \in stages => Dropping(stages)' BY <2>1 DEF Dropping
  <2>6. CatalogueFollowsEdits' BY <1>t, <2>0, <2>a, <2>5 DEF CatalogueFollowsEdits
  <2> QED BY <2>2, <2>3, <2>4, <2>6 DEF CacheInv
<1>12. ASSUME NEW v \in Visit, DropDetail(v) PROVE CacheInv'
  <2>0. visit[v] # Away /\ visit[v].at = "drop detail" /\ visit[v] \in Record /\ visit[v].copy \in CatalogEvent /\ event # NoEvent
        /\ UNCHANGED <<event, asked, slugKey, listKey>>
    BY <1>12, <1>t, VisitKinds DEF DropDetail, Is, VisitsInv
  <2>1. /\ visit' \in [Visit -> Record \union {Away}]
        /\ visit'[v] # Away /\ visit'[v].at = "drop slug" /\ visit'[v].copy = visit[v].copy /\ visit'[v].edits = visit[v].edits
        /\ \A w \in Visit \ {v} : visit'[w] = visit[w]
    BY <1>12, <1>t, <2>0, VisitGoes DEF DropDetail, Goes, VisitStage
  <2>2. \/ detailKey' = NoCopy /\ UNCHANGED doubtful
        \/ doubtful' = TRUE /\ UNCHANGED detailKey
    BY <1>12 DEF DropDetail
  <2>3. EventCacheTypeOK' BY <1>t, <1>k, <2>0, <2>1, <2>2 DEF EventCacheTypeOK, Record, NoList
  <2>4. VisitsInv' BY <1>t, <2>0, <2>1, <2>2 DEF VisitsInv, DropStage
  <2>a. ~doubtful' => ~doubtful BY <1>k, <2>2
  <2>5. EditsInv' BY <1>t, <2>0, <2>1, <2>a, ZenonT(60) DEF EditsInv, Editing, DropStage
  <2>6. CatalogueFollowsEdits'
    <3> SUFFICES ASSUME ~doubtful' PROVE CatalogueFollowsEdits'
      BY DEF CatalogueFollowsEdits
    <3>1. ~doubtful BY <1>k, <2>2
    <3>2. \A w \in Visit : visit[w] # Away /\ visit[w].at \in DropStage => w = v
      BY <1>t, <2>0, <3>1 DEF EditsInv, VisitsInv, Editing, DropStage
    <3>3. \A stages \in SUBSET DropStage : Dropping(stages) <=> "drop detail" \in stages
      BY <2>0, <3>2 DEF Dropping
    <3>4. \A stages \in SUBSET DropStage : "drop slug" \in stages => Dropping(stages)'
      BY <2>1 DEF Dropping
    <3>5. visit[v].copy.slug = event.slug BY <1>t, <2>0, <3>1 DEF EditsInv, DropStage
    <3> QED BY <1>t, <2>0, <2>2, <3>1, <3>3, <3>4, <3>5 DEF CatalogueFollowsEdits, DropStage
  <2> QED BY <2>3, <2>4, <2>5, <2>6 DEF CacheInv
<1>13. ASSUME NEW v \in Visit, DropSlug(v) PROVE CacheInv'
  <2>0. visit[v] # Away /\ visit[v].at = "drop slug" /\ visit[v] \in Record /\ visit[v].copy \in CatalogEvent /\ event # NoEvent
        /\ UNCHANGED <<event, asked, detailKey, listKey>>
    BY <1>13, <1>t, VisitKinds DEF DropSlug, Is, VisitsInv
  <2>1. /\ visit' \in [Visit -> Record \union {Away}]
        /\ visit'[v] # Away /\ visit'[v].at = "drop list" /\ visit'[v].copy = visit[v].copy /\ visit'[v].edits = visit[v].edits
        /\ \A w \in Visit \ {v} : visit'[w] = visit[w]
    BY <1>13, <1>t, <2>0, VisitGoes DEF DropSlug, Goes, VisitStage
  <2>2. /\ slugKey' \in [Slug -> CatalogEvent \union {NoCopy}]
        /\ \A s \in Slug : slugKey'[s] \in {slugKey[s], NoCopy}
        /\ \/ slugKey'[visit[v].copy.slug] = NoCopy /\ UNCHANGED doubtful
           \/ doubtful' = TRUE
    <3>1. visit[v].copy.slug \in Slug BY <2>0, CacheKinds
    <3>2. CASE slugKey' = [slugKey EXCEPT ![visit[v].copy.slug] = NoCopy] /\ UNCHANGED doubtful
      BY <1>t, <3>1, <3>2 DEF VisitsInv
    <3>3. CASE doubtful' = TRUE /\ UNCHANGED slugKey BY <1>t, <3>3 DEF VisitsInv
    <3> QED BY <1>13, <3>2, <3>3 DEF DropSlug
  <2>3. EventCacheTypeOK' BY <1>t, <1>k, <2>0, <2>1, <2>2 DEF EventCacheTypeOK, Record, NoList
  <2>4. VisitsInv' BY <1>t, <2>0, <2>1, <2>2 DEF VisitsInv, DropStage
  <2>a. ~doubtful' => ~doubtful BY <1>k, <2>2
  <2>5. EditsInv' BY <1>t, <2>0, <2>1, <2>a, ZenonT(60) DEF EditsInv, Editing, DropStage
  <2>6. CatalogueFollowsEdits'
    <3> SUFFICES ASSUME ~doubtful' PROVE CatalogueFollowsEdits'
      BY DEF CatalogueFollowsEdits
    <3>1. ~doubtful BY <1>k, <2>2
    <3>2. \A w \in Visit : visit[w] # Away /\ visit[w].at \in DropStage => w = v
      BY <1>t, <2>0, <3>1 DEF EditsInv, VisitsInv, Editing, DropStage
    <3>3. \A stages \in SUBSET DropStage : Dropping(stages) <=> "drop slug" \in stages
      BY <2>0, <3>2 DEF Dropping
    <3>4. \A stages \in SUBSET DropStage : "drop list" \in stages => Dropping(stages)'
      BY <2>1 DEF Dropping
    <3>5. visit[v].copy.slug = event.slug BY <1>t, <2>0, <3>1 DEF EditsInv, DropStage
    <3> QED BY <1>t, <2>0, <2>2, <3>1, <3>3, <3>4, <3>5 DEF CatalogueFollowsEdits, DropStage
  <2> QED BY <2>3, <2>4, <2>5, <2>6 DEF CacheInv
<1>14. ASSUME NEW v \in Visit, DropList(v) PROVE CacheInv'
  <2>0. visit[v] # Away /\ visit[v].at = "drop list" /\ visit[v] \in Record /\ visit[v].copy \in CatalogEvent /\ event # NoEvent
        /\ UNCHANGED <<event, asked, detailKey, slugKey>>
    BY <1>14, <1>t, VisitKinds DEF DropList, Is, VisitsInv
  <2>1. /\ visit' \in [Visit -> Record \union {Away}]
        /\ visit'[v] = Away
        /\ \A w \in Visit \ {v} : visit'[w] = visit[w]
    BY <1>14, <1>t, <2>0, VisitComes DEF DropList
  <2>2. \/ listKey' = NoList /\ UNCHANGED doubtful
        \/ doubtful' = TRUE /\ UNCHANGED listKey
    BY <1>14 DEF DropList
  <2>3. EventCacheTypeOK' BY <1>t, <1>k, <2>0, <2>1, <2>2 DEF EventCacheTypeOK, Record, NoList
  <2>4. VisitsInv' BY <1>t, <2>0, <2>1, <2>2 DEF VisitsInv, DropStage
  <2>a. ~doubtful' => ~doubtful BY <1>k, <2>2
  <2>5. EditsInv' BY <1>t, <2>0, <2>1, <2>a DEF EditsInv, Editing, DropStage
  <2>6. CatalogueFollowsEdits'
    <3> SUFFICES ASSUME ~doubtful' PROVE CatalogueFollowsEdits'
      BY DEF CatalogueFollowsEdits
    <3>1. ~doubtful BY <1>k, <2>2
    <3>2. \A w \in Visit : visit[w] # Away /\ visit[w].at \in DropStage => w = v
      BY <1>t, <2>0, <3>1 DEF EditsInv, VisitsInv, Editing, DropStage
    <3>3. \A stages \in SUBSET DropStage : Dropping(stages) <=> "drop list" \in stages
      BY <2>0, <3>2 DEF Dropping
    <3>5. visit[v].copy.slug = event.slug BY <1>t, <2>0, <3>1 DEF EditsInv, DropStage
    <3>6. listKey' = NoList BY <2>2
    <3>7. ~Dropping({"drop detail", "drop slug"}) /\ ~Dropping({"drop detail"})
      BY <2>0, <3>2 DEF Dropping, DropStage
    <3> QED BY <1>t, <2>0, <3>1, <3>6, <3>7 DEF CatalogueFollowsEdits
  <2> QED BY <2>3, <2>4, <2>5, <2>6 DEF CacheInv
<1>15. ASSUME NEW v \in Visit, VisitEnds(v) PROVE CacheInv'
  <2>0. visit[v] # Away /\ UNCHANGED <<event, asked, detailKey, slugKey, listKey>>
        /\ doubtful' = (doubtful \/ visit[v].at \in DropStage)
    BY <1>15 DEF VisitEnds, DropStage
  <2>1. /\ visit' \in [Visit -> Record \union {Away}] /\ visit'[v] = Away
        /\ \A w \in Visit \ {v} : visit'[w] = visit[w]
    BY <1>15, <1>t, VisitComes DEF VisitEnds
  <2>2. EventCacheTypeOK' BY <1>t, <2>0, <2>1 DEF EventCacheTypeOK, Record
  <2>3. VisitsInv' BY <1>t, <2>0, <2>1 DEF VisitsInv, DropStage
  <2>4. EditsInv' BY <1>t, <2>0, <2>1 DEF EditsInv, Editing, DropStage
  <2>5. \A stages \in SUBSET DropStage : ~doubtful' /\ Dropping(stages) => Dropping(stages)'
    BY <2>0, <2>1 DEF Dropping
  <2>6. CatalogueFollowsEdits' BY <1>t, <2>0, <2>5 DEF CatalogueFollowsEdits, DropStage
  <2> QED BY <2>2, <2>3, <2>4, <2>6 DEF CacheInv
<1>16. CASE KeyExpires
  <2>0. UNCHANGED <<event, asked, visit, doubtful>> BY <1>16 DEF KeyExpires
  <2>1. /\ detailKey' \in {detailKey, NoCopy} /\ listKey' \in {listKey, NoList}
        /\ slugKey' \in [Slug -> CatalogEvent \union {NoCopy}] /\ \A s \in Slug : slugKey'[s] \in {slugKey[s], NoCopy}
    BY <1>16, <1>t DEF KeyExpires, VisitsInv
  <2>2. EventCacheTypeOK' BY <1>t, <2>0, <2>1 DEF EventCacheTypeOK, Record
  <2>3. VisitsInv' BY <1>t, <2>0, <2>1 DEF VisitsInv, DropStage
  <2>4. EditsInv' BY <1>t, <2>0 DEF EditsInv, Editing
  <2>5. \A stages : Dropping(stages) <=> Dropping(stages)' BY <2>0 DEF Dropping
  <2>6. CatalogueFollowsEdits' BY <1>t, <2>0, <2>1, <2>5 DEF CatalogueFollowsEdits
  <2> QED BY <2>2, <2>3, <2>4, <2>6 DEF CacheInv
<1>17. CASE UNCHANGED cacheVars
  BY <1>17, <1>t DEF cacheVars, CacheInv, EventCacheTypeOK, VisitsInv, EditsInv, CatalogueFollowsEdits, Editing, Dropping
<1> QED BY <1>1, <1>2, <1>3, <1>4, <1>5, <1>6, <1>7, <1>8, <1>9, <1>10, <1>11, <1>12, <1>13, <1>14, <1>15, <1>16, <1>17
     DEF EventCacheNext

\* The row is what the edits made of it and the keys hold the row, but for keys about
\* to be deleted, until edits overlap, a key is set late or is not deleted.
THEOREM CatalogueFollows == EventCacheSpec => []CatalogueFollowsEdits
<1>1. EventCacheSpec => []CacheInv BY CacheInitInv, CacheStep, PTL DEF EventCacheSpec
<1>2. CacheInv => CatalogueFollowsEdits BY DEF CacheInv
<1> QED BY <1>1, <1>2, PTL

\* The row, the keys and the requests keep their types.
THEOREM CacheTyped == EventCacheSpec => []EventCacheTypeOK
<1>1. EventCacheSpec => []CacheInv BY CacheInitInv, CacheStep, PTL DEF EventCacheSpec
<1>2. CacheInv => EventCacheTypeOK BY DEF CacheInv
<1> QED BY <1>1, <1>2, PTL

(***************************************************************************)
(* The audit logger                                                        *)
(***************************************************************************)
\* The elements of sequences that are joined, or grow by one.
LEMMA RangeOf ==
  ASSUME NEW S, NEW s \in Seq(S), NEW t \in Seq(S), NEW e \in S
  PROVE  /\ Range(s \o t) = Range(s) \union Range(t) /\ Range(Append(s, e)) = Range(s) \union {e}
         /\ Range(s) = {s[i] : i \in 1..Len(s)} /\ Range(s) \subseteq S
<1>1. Range(s \o t) = Range(s) \union Range(t) BY RangeConcatenation
<1>2. Range(s) = {s[i] : i \in 1..Len(s)} /\ Range(s) \subseteq S BY DEF Range
<1>3. Append(s, e) = s \o <<e>> BY AppendIsConcat
<1>4. Range(<<e>>) = {e}
  <2>1. Range(<<e>>) = {<<e>>[i] : i \in 1..1} BY DEF Range
  <2> QED BY <2>1
<1>5. <<e>> \in Seq(S) OBVIOUS
<1>6. Range(s \o <<e>>) = Range(s) \union Range(<<e>>) BY <1>5, RangeConcatenation
<1> QED BY <1>1, <1>2, <1>3, <1>4, <1>6

\* The first of one sequence becomes the last of the one in front of it.
LEMMA MoveHead ==
  ASSUME NEW S, NEW s \in Seq(S), NEW t \in Seq(S), t # <<>>
  PROVE  Append(s, Head(t)) \o Tail(t) = s \o t
<1>1. /\ Head(t) = t[1] /\ Head(t) \in S /\ Tail(t) \in Seq(S) /\ Len(Tail(t)) = Len(t) - 1 /\ Len(t) \in Nat \ {0}
      /\ \A i \in 1..Len(Tail(t)) : Tail(t)[i] = t[i + 1]
  BY HeadTailProperties, EmptySeq
<1>2. /\ Append(s, Head(t)) \in Seq(S) /\ Len(Append(s, Head(t))) = Len(s) + 1 /\ Len(s) \in Nat
      /\ \A i \in 1..Len(s) : Append(s, Head(t))[i] = s[i]
      /\ Append(s, Head(t))[Len(s) + 1] = t[1]
  BY <1>1, AppendProperties
<1> DEFINE l == Append(s, Head(t)) \o Tail(t)
<1> DEFINE r == s \o t
<1>3. /\ l \in Seq(S) /\ Len(l) = Len(s) + Len(t)
      /\ \A i \in 1..(Len(s) + Len(t)) : l[i] = IF i <= Len(s) + 1 THEN Append(s, Head(t))[i] ELSE Tail(t)[i - (Len(s) + 1)]
  BY <1>1, <1>2, ConcatProperties
<1>4. /\ r \in Seq(S) /\ Len(r) = Len(s) + Len(t)
      /\ \A i \in 1..(Len(s) + Len(t)) : r[i] = IF i <= Len(s) THEN s[i] ELSE t[i - Len(s)]
  BY <1>1, <1>2, ConcatProperties
<1> HIDE DEF l, r
<1>5. \A i \in 1..(Len(s) + Len(t)) : l[i] = r[i]
  <2> SUFFICES ASSUME NEW i \in 1..(Len(s) + Len(t)) PROVE l[i] = r[i]
    OBVIOUS
  <2>1. CASE i <= Len(s) BY <1>1, <1>2, <1>3, <1>4, <2>1
  <2>2. CASE i = Len(s) + 1 BY <1>1, <1>2, <1>3, <1>4, <2>2
  <2>3. CASE i > Len(s) + 1
    <3>1. i - (Len(s) + 1) \in 1..Len(Tail(t)) BY <1>1, <1>2, <2>3
    <3>2. l[i] = Tail(t)[i - (Len(s) + 1)] BY <1>2, <1>3, <2>3
    <3>3. Tail(t)[i - (Len(s) + 1)] = t[i - Len(s)] BY <1>1, <1>2, <3>1
    <3>4. r[i] = t[i - Len(s)] BY <1>2, <1>4, <2>3
    <3> QED BY <3>2, <3>3, <3>4
  <2> QED BY <1>1, <1>2, <2>1, <2>2, <2>3
<1>6. l = r BY <1>3, <1>4, <1>5, SeqEqual
<1> QED BY <1>6 DEF l, r

\* A new element at the end of both sequences keeps the order, and so does one at the
\* end of the second.
LEMMA OrderGrows ==
  ASSUME NEW s \in Seq(Entry), NEW t \in Seq(Entry), NEW e \in Entry,
         InOrderOf(s, t), Range(s) \subseteq Range(t), e \notin Range(t)
  PROVE  InOrderOf(Append(s, e), Append(t, e)) /\ InOrderOf(s, Append(t, e))
<1> DEFINE u == Append(s, e)
<1> DEFINE v == Append(t, e)
<1>1. /\ Len(s) \in Nat /\ DOMAIN u = 1..(Len(s) + 1) /\ DOMAIN s = 1..Len(s)
      /\ \A i \in 1..Len(s) : u[i] = s[i] /\ s[i] # e
      /\ u[Len(s) + 1] = e
  <2>1. \A i \in 1..Len(s) : s[i] # e BY RangeOf
  <2> QED BY <2>1, AppendProperties, LenProperties
<1>2. /\ Len(t) \in Nat /\ DOMAIN v = 1..(Len(t) + 1) /\ DOMAIN t = 1..Len(t)
      /\ \A i \in 1..Len(t) : v[i] = t[i] /\ t[i] # e
      /\ v[Len(t) + 1] = e
  <2>1. \A i \in 1..Len(t) : t[i] # e BY RangeOf
  <2> QED BY <2>1, AppendProperties, LenProperties
<1> HIDE DEF u, v
<1>3. InOrderOf(u, v)
  <2> SUFFICES ASSUME NEW i \in DOMAIN u, NEW j \in DOMAIN u, NEW m \in DOMAIN v, NEW n \in DOMAIN v,
                      i < j, u[i] = v[m], u[j] = v[n]
               PROVE  m < n
    BY DEF InOrderOf
  <2>1. i \in 1..Len(s) /\ m \in 1..Len(t) BY <1>1, <1>2
  <2>2. CASE j = Len(s) + 1 BY <1>1, <1>2, <2>1, <2>2
  <2>3. CASE j \in 1..Len(s)
    <3>1. n \in 1..Len(t) BY <1>1, <1>2, <2>3
    <3> QED BY <1>1, <1>2, <2>1, <2>3, <3>1 DEF InOrderOf
  <2> QED BY <1>1, <2>2, <2>3
<1>4. InOrderOf(s, v)
  <2> SUFFICES ASSUME NEW i \in DOMAIN s, NEW j \in DOMAIN s, NEW m \in DOMAIN v, NEW n \in DOMAIN v,
                      i < j, s[i] = v[m], s[j] = v[n]
               PROVE  m < n
    BY DEF InOrderOf
  <2>1. m \in 1..Len(t) /\ n \in 1..Len(t) BY <1>1, <1>2
  <2> QED BY <1>1, <1>2, <2>1 DEF InOrderOf
<1> QED BY <1>3, <1>4 DEF u, v

\* An element that is taken out of a sequence in order leaves it in order, and is gone.
LEMMA OrderShrinks ==
  ASSUME NEW a \in Seq(Entry), NEW b \in Seq(Entry), NEW e \in Entry, NEW t \in Seq(Entry),
         InOrderOf(Append(a, e) \o b, t), Range(Append(a, e) \o b) \subseteq Range(t)
  PROVE  /\ InOrderOf(a \o b, t)
         /\ Range(a \o b) = Range(Append(a, e) \o b) \ {e}
<1> DEFINE u == Append(a, e) \o b
<1> DEFINE v == a \o b
<1>1. /\ Len(a) \in Nat /\ Len(b) \in Nat
      /\ v \in Seq(Entry) /\ Len(v) = Len(a) + Len(b)
      /\ \A i \in 1..(Len(a) + Len(b)) : v[i] = IF i <= Len(a) THEN a[i] ELSE b[i - Len(a)]
  BY ConcatProperties, LenProperties
<1>2. /\ Append(a, e) \in Seq(Entry) /\ Len(Append(a, e)) = Len(a) + 1
      /\ \A i \in 1..Len(a) : Append(a, e)[i] = a[i]
      /\ Append(a, e)[Len(a) + 1] = e
  BY AppendProperties
<1>3. /\ u \in Seq(Entry) /\ Len(u) = Len(a) + 1 + Len(b)
      /\ \A i \in 1..(Len(a) + 1 + Len(b)) : u[i] = IF i <= Len(a) + 1 THEN Append(a, e)[i] ELSE b[i - (Len(a) + 1)]
  <2>1. PICK c \in Seq(Entry) : c = Append(a, e) /\ Len(c) = Len(a) + 1
    BY <1>2
  <2>2. /\ c \o b \in Seq(Entry) /\ Len(c \o b) = Len(c) + Len(b)
        /\ \A i \in 1..(Len(c) + Len(b)) : (c \o b)[i] = IF i <= Len(c) THEN c[i] ELSE b[i - Len(c)]
    BY ConcatProperties
  <2> QED BY <2>1, <2>2
<1>4. DOMAIN u = 1..(Len(a) + 1 + Len(b)) /\ DOMAIN v = 1..(Len(a) + Len(b)) /\ DOMAIN t = 1..Len(t) /\ Len(t) \in Nat
  BY <1>1, <1>3, LenProperties
<1>5. InOrderOf(u, t) /\ Range(u) \subseteq Range(t) OBVIOUS
<1>6. Range(u) = {u[i] : i \in DOMAIN u} /\ Range(v) = {v[i] : i \in DOMAIN v} /\ Range(t) = {t[i] : i \in DOMAIN t}
  BY DEF Range
<1> HIDE DEF u, v
<1> DEFINE up(i) == IF i <= Len(a) THEN i ELSE i + 1
<1>7. \A i \in DOMAIN v : up(i) \in DOMAIN u /\ u[up(i)] = v[i] /\ up(i) # Len(a) + 1
  <2> SUFFICES ASSUME NEW i \in DOMAIN v PROVE up(i) \in DOMAIN u /\ u[up(i)] = v[i] /\ up(i) # Len(a) + 1
    OBVIOUS
  <2>1. CASE i <= Len(a)
    <3>1. i \in DOMAIN u /\ i # Len(a) + 1 /\ i <= Len(a) + 1 /\ i \in 1..Len(a) BY <1>1, <1>4, <2>1
    <3>2. u[i] = Append(a, e)[i] BY <1>3, <1>4, <3>1
    <3>3. v[i] = a[i] BY <1>1, <1>4, <2>1
    <3> QED BY <1>2, <2>1, <3>1, <3>2, <3>3
  <2>2. CASE ~ (i <= Len(a))
    <3>1. i + 1 \in DOMAIN u /\ ~ (i + 1 <= Len(a) + 1) /\ i - Len(a) = (i + 1) - (Len(a) + 1) /\ i + 1 # Len(a) + 1
      BY <1>1, <1>4, <2>2
    <3>2. u[i + 1] = b[(i + 1) - (Len(a) + 1)] BY <1>3, <1>4, <3>1
    <3>3. v[i] = b[i - Len(a)] BY <1>1, <1>4, <2>2
    <3> QED BY <2>2, <3>1, <3>2, <3>3
  <2> QED BY <2>1, <2>2
<1>8. \A i, j \in DOMAIN v : i < j => up(i) < up(j) BY <1>1, <1>4
<1>9. InOrderOf(v, t)
  <2> SUFFICES ASSUME NEW i \in DOMAIN v, NEW j \in DOMAIN v, NEW m \in DOMAIN t, NEW n \in DOMAIN t,
                      i < j, v[i] = t[m], v[j] = t[n]
               PROVE  m < n
    BY DEF InOrderOf
  <2> HIDE DEF up
  <2> QED BY <1>5, <1>7, <1>8 DEF InOrderOf
<1>10. \A i, j \in DOMAIN u : u[i] = u[j] => i = j
  <2> SUFFICES ASSUME NEW i \in DOMAIN u, NEW j \in DOMAIN u, u[i] = u[j], i < j PROVE FALSE
    BY <1>1, <1>4
  <2>1. PICK m \in DOMAIN t : t[m] = u[i] BY <1>5, <1>6
  <2>2. m < m BY <1>5, <2>1 DEF InOrderOf
  <2> QED BY <1>4, <2>2
<1>11. u[Len(a) + 1] = e /\ Len(a) + 1 \in DOMAIN u BY <1>1, <1>2, <1>3, <1>4
<1>12. \A i \in DOMAIN u : i # Len(a) + 1 => \E k \in DOMAIN v : v[k] = u[i]
  <2> SUFFICES ASSUME NEW i \in DOMAIN u, i # Len(a) + 1 PROVE \E k \in DOMAIN v : v[k] = u[i]
    OBVIOUS
  <2>1. CASE i <= Len(a)
    <3>1. i \in DOMAIN v /\ up(i) = i BY <1>1, <1>4, <2>1
    <3> QED BY <1>7, <3>1
  <2>2. CASE ~ (i <= Len(a))
    <3>1. i - 1 \in DOMAIN v /\ up(i - 1) = i BY <1>1, <1>4, <2>2
    <3> QED BY <1>7, <3>1
  <2> QED BY <2>1, <2>2
<1>13. Range(v) = Range(u) \ {e}
  <2> HIDE DEF up
  <2> QED BY <1>6, <1>7, <1>10, <1>11, <1>12
<1> QED BY <1>9, <1>13 DEF u, v

\* Sequences of entries, joined and grown.
LEMMA EntrySeqs ==
  /\ \A s, t \in Seq(Entry) : s \o t \in Seq(Entry) /\ Range(s \o t) = Range(s) \union Range(t)
  /\ \A s, t, u \in Seq(Entry) : (s \o t) \o u = s \o (t \o u)
  /\ \A s \in Seq(Entry), e \in Entry :
       /\ Append(s, e) \in Seq(Entry) /\ Append(s, e) = s \o <<e>> /\ <<e>> \in Seq(Entry)
       /\ Len(Append(s, e)) = Len(s) + 1 /\ Range(Append(s, e)) = Range(s) \union {e}
<1>1. \A s, t \in Seq(Entry) : s \o t \in Seq(Entry) /\ Range(s \o t) = Range(s) \union Range(t)
  BY ConcatProperties, RangeConcatenation
<1>2. \A s, t, u \in Seq(Entry) : (s \o t) \o u = s \o (t \o u) BY ConcatAssociative
<1>3. \A s \in Seq(Entry), e \in Entry :
       /\ Append(s, e) \in Seq(Entry) /\ Append(s, e) = s \o <<e>> /\ <<e>> \in Seq(Entry)
       /\ Len(Append(s, e)) = Len(s) + 1
  BY AppendProperties, AppendIsConcat
<1>4. \A s \in Seq(Entry), e \in Entry : Range(Append(s, e)) = Range(s) \union {e} BY RangeOf
<1> QED BY <1>1, <1>2, <1>3, <1>4

\* An entry that the worker collects stays where it is in the whole.
LEMMA CollectMoves ==
  ASSUME NEW a \in Seq(Entry), NEW c \in Seq(Entry), NEW b \in Seq(Entry), b # <<>>
  PROVE  (a \o Append(c, Head(b))) \o Tail(b) = (a \o c) \o b
<1>1. Head(b) \in Entry /\ Tail(b) \in Seq(Entry) BY HeadTailProperties
<1>2. a \o c \in Seq(Entry) BY EntrySeqs
<1>3. Append(c, Head(b)) = c \o <<Head(b)>> /\ <<Head(b)>> \in Seq(Entry) BY <1>1, EntrySeqs
<1>4. a \o (c \o <<Head(b)>>) = (a \o c) \o <<Head(b)>> BY <1>3, EntrySeqs
<1>5. (a \o c) \o <<Head(b)>> = Append(a \o c, Head(b)) BY <1>1, <1>2, EntrySeqs
<1>6. Append(a \o c, Head(b)) \o Tail(b) = (a \o c) \o b BY <1>2, MoveHead
<1> QED BY <1>3, <1>4, <1>5, <1>6

\* So does one that it inserts; one that it passes over is gone.
LEMMA InsertMoves ==
  ASSUME NEW a \in Seq(Entry), NEW f \in Seq(Entry), NEW b \in Seq(Entry), f # <<>>, NEW t \in Seq(Entry),
         InOrderOf((a \o f) \o b, t), Range((a \o f) \o b) \subseteq Range(t)
  PROVE  /\ (Append(a, Head(f)) \o Tail(f)) \o b = (a \o f) \o b
         /\ InOrderOf((a \o Tail(f)) \o b, t)
         /\ Range((a \o Tail(f)) \o b) = Range((a \o f) \o b) \ {Head(f)}
         /\ Head(f) \in Range(t)
<1>1. Head(f) \in Entry /\ Tail(f) \in Seq(Entry) BY HeadTailProperties
<1>2. Append(a, Head(f)) \o Tail(f) = a \o f BY MoveHead
<1>3. Tail(f) \o b \in Seq(Entry) /\ Append(a, Head(f)) \in Seq(Entry) BY <1>1, EntrySeqs
<1>4. (Append(a, Head(f)) \o Tail(f)) \o b = Append(a, Head(f)) \o (Tail(f) \o b) BY <1>1, <1>3, EntrySeqs, SMTT(30)
<1>5. (a \o Tail(f)) \o b = a \o (Tail(f) \o b) BY <1>1, EntrySeqs
<1>6. (a \o f) \o b = Append(a, Head(f)) \o (Tail(f) \o b) BY <1>2, <1>4
<1>7. InOrderOf(Append(a, Head(f)) \o (Tail(f) \o b), t) /\ Range(Append(a, Head(f)) \o (Tail(f) \o b)) \subseteq Range(t)
  BY <1>6
<1>8. /\ InOrderOf(a \o (Tail(f) \o b), t)
      /\ Range(a \o (Tail(f) \o b)) = Range(Append(a, Head(f)) \o (Tail(f) \o b)) \ {Head(f)}
  <2>1. PICK h \in Entry : h = Head(f) BY <1>1
  <2>2. PICK c \in Seq(Entry) : c = Tail(f) \o b BY <1>3
  <2>3. InOrderOf(Append(a, h) \o c, t) /\ Range(Append(a, h) \o c) \subseteq Range(t) BY <1>7, <2>1, <2>2
  <2>4. InOrderOf(a \o c, t) /\ Range(a \o c) = Range(Append(a, h) \o c) \ {h} BY <2>3, OrderShrinks
  <2> QED BY <2>1, <2>2, <2>4
<1>9. Range(Append(a, Head(f)) \o (Tail(f) \o b)) = Range(Append(a, Head(f))) \union Range(Tail(f) \o b)
  BY <1>3, EntrySeqs
<1>10. Range(Append(a, Head(f))) = Range(a) \union {Head(f)} BY <1>1, EntrySeqs
<1> QED BY <1>2, <1>5, <1>6, <1>7, <1>8, <1>9, <1>10

\* The sequences hold entries, and a batch is inserted when it is full.
AuditShape ==
  /\ {logged, buffer, collected, flushing, auditTable} \subseteq Seq(Entry)
  /\ flushing = <<>> => Len(collected) < AuditBatch
  /\ auditor = "stopped" => collected = <<>> /\ flushing = <<>>
  /\ closing = "returned" => auditor = "stopped"

AuditInv == AuditTypeOK /\ AuditShape /\ AuditedOnce

\* What the worker has still to insert.
InHand == IF flushing = <<>> THEN collected ELSE flushing

\* The initial state satisfies the invariant.
LEMMA AuditInitInv == AuditInit => AuditInv
<1> SUFFICES ASSUME AuditInit PROVE AuditInv
  OBVIOUS
<1>1. <<>> \in Seq(Entry) /\ Len(<<>>) = 0 /\ <<>> \o <<>> \o <<>> = <<>> BY EmptySeq, ConcatEmptySeq
<1>2. Range(<<>>) = {} BY DEF Range
<1>3. AuditTypeOK BY <1>1, <1>2, AuditAssumption DEF AuditInit, AuditTypeOK
<1>4. AuditShape BY <1>1, AuditAssumption DEF AuditInit, AuditShape
<1>5. Known = <<>> BY <1>1 DEF AuditInit, Known
<1>6. InOrderOf(<<>>, <<>>) BY DEF InOrderOf
<1>7. AuditedOnce BY <1>2, <1>5, <1>6 DEF AuditInit, AuditedOnce
<1> QED BY <1>3, <1>4, <1>7 DEF AuditInv

\* Every step keeps the invariant.
LEMMA AuditStep == AuditInv /\ [AuditNext]_auditVars => AuditInv'
<1> SUFFICES ASSUME AuditInv, [AuditNext]_auditVars PROVE AuditInv'
  OBVIOUS
<1> USE AuditAssumption
<1>t. AuditTypeOK /\ AuditShape /\ AuditedOnce BY DEF AuditInv
<1>s. /\ logged \in Seq(Entry) /\ buffer \in Seq(Entry) /\ collected \in Seq(Entry)
      /\ flushing \in Seq(Entry) /\ auditTable \in Seq(Entry) /\ InHand \in Seq(Entry)
      /\ auditTable \o InHand \in Seq(Entry) /\ Known = (auditTable \o InHand) \o buffer /\ Known \in Seq(Entry)
      /\ Range(Known) \subseteq Range(logged)
      /\ Len(buffer) \in Nat /\ Len(collected) \in Nat /\ Len(flushing) \in Nat
  BY <1>t, ConcatProperties, LenProperties DEF AuditShape, InHand, Known, AuditedOnce
<1>e. \A s \in Seq(Entry) : s = <<>> <=> Len(s) = 0 BY EmptySeq
\* Steps that move entries, or none, leave what is known.
<1>u. ASSUME Known' = Known, UNCHANGED <<logged, discarded>>, closing' = "returned" => collected' = <<>>
      PROVE  AuditedOnce'
  BY <1>t, <1>u DEF AuditedOnce, InOrderOf
<1>1. ASSUME NEW e \in Entry, LogEntry(e) PROVE AuditInv'
  <2>0. e \notin Range(logged) /\ logged' = Append(logged, e) /\ UNCHANGED <<collected, flushing, auditTable, closing, auditor>>
    BY <1>1 DEF LogEntry
  <2>1. logged' \in Seq(Entry) /\ Range(logged') = Range(logged) \union {e} BY <1>s, <2>0, AppendProperties, RangeOf
  <2>2. InOrderOf(Append(Known, e), logged') /\ InOrderOf(Known, logged')
    BY <1>t, <1>s, <2>0, OrderGrows DEF AuditedOnce
  <2>3. CASE Accepts
    <3>1. buffer' = Append(buffer, e) /\ UNCHANGED discarded BY <1>1, <2>3 DEF LogEntry
    <3>2. buffer' \in Seq(Entry) /\ Len(buffer') <= BufferSize BY <1>s, <2>3, <3>1, AppendProperties DEF Accepts
    <3>3. Known' = Append(Known, e)
      <4>1. Known' = (auditTable \o InHand) \o (buffer \o <<e>>) BY <1>s, <2>0, <3>1, AppendIsConcat DEF Known, InHand
      <4>2. <<e>> \in Seq(Entry) OBVIOUS
      <4>3. Known' = Known \o <<e>> BY <1>s, <4>1, <4>2, EntrySeqs, SMTT(30)
      <4> QED BY <1>s, <4>3, EntrySeqs
    <3>4. Range(Known') = Range(Known) \union {e} BY <1>s, <3>3, EntrySeqs
    <3>5. AuditTypeOK' BY <1>t, <2>0, <2>1, <3>1, <3>2 DEF AuditTypeOK
    <3>6. AuditShape' BY <1>t, <2>0, <2>1, <3>2 DEF AuditShape
    <3>7. AuditedOnce' BY <1>t, <2>0, <2>1, <2>2, <3>1, <3>3, <3>4 DEF AuditedOnce, AuditTypeOK
    <3> QED BY <3>5, <3>6, <3>7 DEF AuditInv
  <2>4. CASE ~Accepts
    <3>1. UNCHANGED buffer /\ discarded' = discarded \union {e} BY <1>1, <2>4 DEF LogEntry
    <3>2. Known' = Known BY <2>0, <3>1 DEF Known
    <3>5. AuditTypeOK' BY <1>t, <2>0, <2>1, <3>1 DEF AuditTypeOK
    <3>6. AuditShape' BY <1>t, <2>0, <2>1, <3>1 DEF AuditShape
    <3>7. AuditedOnce' BY <1>t, <2>0, <2>1, <2>2, <3>1, <3>2 DEF AuditedOnce
    <3> QED BY <3>5, <3>6, <3>7 DEF AuditInv
  <2> QED BY <2>3, <2>4
<1>2. CASE Collect
  <2>0. /\ flushing = <<>> /\ auditor = "running" /\ buffer # <<>> /\ buffer' = Tail(buffer)
        /\ collected' = Append(collected, Head(buffer))
        /\ flushing' = IF Len(collected') >= AuditBatch THEN collected' ELSE <<>>
        /\ UNCHANGED <<logged, auditTable, discarded, closing, auditor>>
    BY <1>2 DEF Collect, Selecting
  <2>1. /\ Head(buffer) \in Entry /\ buffer' \in Seq(Entry) /\ Len(buffer') = Len(buffer) - 1
        /\ collected' \in Seq(Entry) /\ Len(collected') = Len(collected) + 1
    BY <1>s, <2>0, HeadTailProperties, AppendProperties
  <2>2. Known' = Known
    <3>1. InHand = collected /\ Known' = (auditTable \o collected') \o buffer' BY <2>0 DEF Known, InHand
    <3>2. Known = (auditTable \o collected) \o buffer BY <1>s, <3>1
    <3>3. (auditTable \o Append(collected, Head(buffer))) \o Tail(buffer) = (auditTable \o collected) \o buffer
      <4>1. auditTable \in Seq(Entry) /\ collected \in Seq(Entry) /\ buffer \in Seq(Entry) /\ buffer # <<>> BY <1>s, <2>0
      <4> QED BY <4>1, CollectMoves
    <3> QED BY <2>0, <3>1, <3>2, <3>3
  <2>3. AuditTypeOK' BY <1>t, <1>s, <2>0, <2>1, <1>e DEF AuditTypeOK, AuditShape
  <2>4. AuditShape' BY <1>t, <1>s, <2>0, <2>1, <1>e DEF AuditShape
  <2>5. AuditedOnce' BY <1>t, <1>u, <2>0, <2>2 DEF AuditedOnce, AuditShape
  <2> QED BY <2>3, <2>4, <2>5 DEF AuditInv
<1>3. CASE TickFlush
  <2>0. /\ flushing = <<>> /\ auditor = "running" /\ flushing' = collected
        /\ UNCHANGED <<logged, buffer, collected, auditTable, discarded, closing, auditor>>
    BY <1>3 DEF TickFlush, Selecting
  <2>1. Known' = Known BY <2>0 DEF Known
  <2>2. AuditTypeOK' BY <1>t, <1>s, <2>0 DEF AuditTypeOK
  <2>3. AuditShape' BY <1>t, <1>s, <2>0, <1>e DEF AuditShape
  <2>4. AuditedOnce' BY <1>t, <1>u, <2>0, <2>1 DEF AuditedOnce
  <2> QED BY <2>2, <2>3, <2>4 DEF AuditInv
<1>4. CASE Leave
  <2>0. /\ flushing = <<>> /\ auditor = "running" /\ flushing' = collected
        /\ auditor' = IF collected = <<>> THEN "stopped" ELSE "leaving"
        /\ UNCHANGED <<logged, buffer, collected, auditTable, discarded, closing>>
    BY <1>4 DEF Leave, Selecting
  <2>1. Known' = Known BY <2>0 DEF Known
  <2>2. AuditTypeOK' BY <1>t, <1>s, <2>0 DEF AuditTypeOK
  <2>3. AuditShape' BY <1>t, <1>s, <2>0, <1>e DEF AuditShape
  <2>4. AuditedOnce' BY <1>t, <1>u, <2>0, <2>1 DEF AuditedOnce
  <2> QED BY <2>2, <2>3, <2>4 DEF AuditInv
<1>5. CASE InsertEntry
  <2>0. /\ flushing # <<>> /\ flushing' = Tail(flushing) /\ InHand = flushing
        /\ collected' = IF flushing' = <<>> THEN <<>> ELSE collected
        /\ auditor' = IF flushing' = <<>> /\ auditor = "leaving" THEN "stopped" ELSE auditor
        /\ UNCHANGED <<logged, buffer, closing>>
    BY <1>5 DEF InsertEntry, InHand
  <2>1. /\ Head(flushing) \in Entry /\ flushing' \in Seq(Entry) /\ Len(flushing') = Len(flushing) - 1
        /\ collected' \in Seq(Entry) /\ InHand' = Tail(flushing)
    BY <1>s, <1>e, <2>0, HeadTailProperties DEF InHand
  <2>2. /\ (Append(auditTable, Head(flushing)) \o Tail(flushing)) \o buffer = Known
        /\ InOrderOf((auditTable \o Tail(flushing)) \o buffer, logged)
        /\ Range((auditTable \o Tail(flushing)) \o buffer) = Range(Known) \ {Head(flushing)}
        /\ Head(flushing) \in Range(logged)
    <3>1. InOrderOf((auditTable \o flushing) \o buffer, logged) /\ Range((auditTable \o flushing) \o buffer) \subseteq Range(logged)
      BY <1>t, <1>s, <2>0 DEF AuditedOnce
    <3>2. Known = (auditTable \o flushing) \o buffer BY <1>s, <2>0
    <3>3. auditTable \in Seq(Entry) /\ flushing \in Seq(Entry) /\ buffer \in Seq(Entry) /\ logged \in Seq(Entry) /\ flushing # <<>>
      BY <1>s, <2>0
    <3>4. /\ (Append(auditTable, Head(flushing)) \o Tail(flushing)) \o buffer = (auditTable \o flushing) \o buffer
          /\ InOrderOf((auditTable \o Tail(flushing)) \o buffer, logged)
          /\ Range((auditTable \o Tail(flushing)) \o buffer) = Range((auditTable \o flushing) \o buffer) \ {Head(flushing)}
          /\ Head(flushing) \in Range(logged)
      BY <3>1, <3>3, InsertMoves
    <3> QED BY <3>2, <3>4
  <2>3. Known' = (auditTable' \o Tail(flushing)) \o buffer BY <2>0, <2>1 DEF Known, InHand
  <2>4. collected = <<>> => collected' = <<>> BY <2>0
  <2>5. AuditShape' /\ Len(collected') <= AuditBatch /\ Len(flushing') <= Len(collected')
        /\ auditor' \in {"running", "leaving", "stopped"}
    <3>1. auditTable' \in Seq(Entry)
      <4>1. auditTable' \in {auditTable, Append(auditTable, Head(flushing))} BY <1>5 DEF InsertEntry
      <4>2. Append(auditTable, Head(flushing)) \in Seq(Entry) BY <1>s, <2>1, EntrySeqs
      <4> QED BY <1>s, <4>1, <4>2
    <3>2. Len(collected') <= AuditBatch /\ Len(flushing') <= Len(collected')
      <4>1. CASE flushing' = <<>>
        <5>1. collected' = <<>> /\ Len(flushing') = 0 /\ Len(collected') = 0 BY <1>e, <2>0, <2>1, <4>1
        <5> QED BY <5>1
      <4>2. CASE flushing' # <<>> BY <1>t, <1>s, <2>0, <2>1, <4>2 DEF AuditTypeOK
      <4> QED BY <4>1, <4>2
    <3>3. flushing' = <<>> => Len(collected') = 0 BY <1>e, <2>0, <2>1
    <3>4. auditor' \in {"running", "leaving", "stopped"} BY <1>t, <2>0 DEF AuditTypeOK
    <3>5. auditor' = "stopped" => flushing' = <<>> /\ collected' = <<>> BY <1>t, <2>0 DEF AuditShape
    <3>6. auditor = "stopped" => auditor' = "stopped" BY <2>0
    <3>7. logged' \in Seq(Entry) /\ buffer' \in Seq(Entry) BY <1>s, <2>0
    <3> QED BY <1>t, <2>0, <2>1, <3>1, <3>2, <3>3, <3>4, <3>5, <3>6, <3>7 DEF AuditShape
  <2>6. CASE auditTable' = Append(auditTable, Head(flushing)) /\ UNCHANGED discarded
    <3>1. Known' = Known BY <2>2, <2>3, <2>6
    <3>2. AuditTypeOK' BY <1>t, <2>0, <2>5, <2>6 DEF AuditTypeOK
    <3>3. AuditedOnce' BY <1>t, <1>u, <2>0, <2>4, <2>6, <3>1 DEF AuditedOnce
    <3> QED BY <2>5, <3>2, <3>3 DEF AuditInv
  <2>7. CASE discarded' = discarded \union {Head(flushing)} /\ UNCHANGED auditTable
    <3>1. InOrderOf(Known', logged) /\ Range(Known') = Range(Known) \ {Head(flushing)} BY <2>2, <2>3, <2>7
    <3>2. AuditTypeOK' BY <1>t, <2>0, <2>2, <2>5, <2>7 DEF AuditTypeOK
    <3>3. AuditedOnce' BY <1>t, <2>0, <2>4, <2>7, <3>1 DEF AuditedOnce
    <3> QED BY <2>5, <3>2, <3>3 DEF AuditInv
  <2> QED BY <1>5, <2>6, <2>7 DEF InsertEntry
<1>6. CASE Cancel
  <2>1. Known' = Known BY <1>6 DEF Cancel, Known
  <2> QED BY <1>6, <1>t, <1>u, <2>1 DEF Cancel, AuditInv, AuditTypeOK, AuditShape
<1>7. CASE CloseBuffer
  <2>1. Known' = Known BY <1>7 DEF CloseBuffer, Known
  <2> QED BY <1>7, <1>t, <1>u, <2>1 DEF CloseBuffer, AuditInv, AuditTypeOK, AuditShape
<1>8. CASE CloseReturns
  <2>1. Known' = Known BY <1>8 DEF CloseReturns, Known
  <2> QED BY <1>8, <1>t, <1>u, <2>1 DEF CloseReturns, AuditInv, AuditTypeOK, AuditShape
<1>9. CASE UNCHANGED auditVars
  <2>1. Known' = Known BY <1>9 DEF auditVars, Known
  <2> QED BY <1>9, <1>t, <1>u, <2>1 DEF auditVars, AuditInv, AuditTypeOK, AuditShape, AuditedOnce
<1> QED BY <1>1, <1>2, <1>3, <1>4, <1>5, <1>6, <1>7, <1>8, <1>9 DEF AuditNext

\* Entries are inserted once and in their order, and one that was not discarded is in
\* the table, the batch or the channel, whenever the logger is closed.
THEOREM AuditOnce == AuditSpec => []AuditedOnce
<1>1. AuditSpec => []AuditInv BY AuditInitInv, AuditStep, PTL DEF AuditSpec
<1>2. AuditInv => AuditedOnce BY DEF AuditInv
<1> QED BY <1>1, <1>2, PTL

\* The channel and the batch stay within their sizes.
THEOREM AuditTyped == AuditSpec => []AuditTypeOK
<1>1. AuditSpec => []AuditInv BY AuditInitInv, AuditStep, PTL DEF AuditSpec
<1>2. AuditInv => AuditTypeOK BY DEF AuditInv
<1> QED BY <1>1, <1>2, PTL

(***************************************************************************)
(* All of them                                                             *)
(***************************************************************************)
ServicesInv ==
  /\ IdemInv /\ RateInv /\ LibraryInv /\ SessionsInv /\ OutboxInv
  /\ CacheInv /\ AuditInv

\* A step of the run is one of one part, or a stutter, for each part.
LEMMA OneAtATime ==
  ASSUME [MCNext]_vars
  PROVE  /\ [IdemNext]_idemVars /\ [RateNext]_rateVars /\ [LibraryNext]_libVars
         /\ [SessionsNext]_sessionVars /\ [OutboxNext]_outboxVars
         /\ [EventCacheNext]_cacheVars /\ [AuditNext]_auditVars
BY DEF MCNext, vars

\* What each part keeps is kept in the run of all.
LEMMA ServicesKeep == MCSpec => []ServicesInv
<1>1. MCInit => ServicesInv
  BY IdemInitInv, RateInvInit, LibraryInitInv, SessionsInitInv, OutboxInvInit, CacheInitInv, AuditInitInv
  DEF MCInit, ServicesInv
<1>2. ServicesInv /\ [MCNext]_vars => ServicesInv'
  <2> SUFFICES ASSUME ServicesInv, [MCNext]_vars PROVE ServicesInv'
    OBVIOUS
  <2>1. IdemInv' BY OneAtATime, IdemStep DEF ServicesInv
  <2>2. RateInv' BY OneAtATime, RateStep DEF ServicesInv
  <2>3. LibraryInv' BY OneAtATime, LibraryStep DEF ServicesInv
  <2>4. SessionsInv' BY OneAtATime, SessionsStep DEF ServicesInv
  <2>5. OutboxInv' BY OneAtATime, OutboxStep DEF ServicesInv
  <2>6. CacheInv' BY OneAtATime, CacheStep DEF ServicesInv
  <2>7. AuditInv' BY OneAtATime, AuditStep DEF ServicesInv
  <2> QED BY <2>1, <2>2, <2>3, <2>4, <2>5, <2>6, <2>7 DEF ServicesInv
<1> QED BY <1>1, <1>2, PTL DEF MCSpec

\* In the run of all seven parts each keeps its type, whichever part the run is about
\* and however it goes on.
THEOREM ServicesTyped == MCSpec => []ServicesTypeOK
<1>1. ServicesInv => ServicesTypeOK
  BY OutboxInvTyped DEF ServicesInv, ServicesTypeOK, IdemInv, RateInv, LibraryInv, SessionsInv, CacheInv, AuditInv
<1> QED BY <1>1, ServicesKeep, PTL
=============================================================================
