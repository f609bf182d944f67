--------------------------- MODULE RetryQueueProofs ---------------------------
(* That a queue and its ack() lose nothing, for any number of messages,         *)
(* consumers, invocations, failures and lost connections.                       *)
EXTENDS RetryQueue, TLAPS

\* One step of the broker or of a consumer.
QueueNext ==
  \/ \E m \in Messages : Publish(m)
  \/ \E s \in Slots, r \in Runs, w \in Ids : Deliver(s, r, w)
  \/ \E r \in Runs : Finish(r) \/ Fail(r) \/ PublishRetry(r) \/ AckRetried(r) \/ Nack(r)
  \/ \E s \in Slots : TtlExpires(s)
  \/ \E w \in Ids : Disconnect(w) \/ ConsumerDies(w)
QueueSpec == QueueInit /\ [][QueueNext]_queueVars

\* An invocation works on a message that was published; it holds the copy it was delivered,
\* alone, until it settles it or loses its connection.
Holding ==
  /\ \A r \in Runs : run[r].stage # "idle" => run[r].msg \in published
  /\ \A r \in Runs : run[r].stage = "idle" => run[r].tag = NoSlot
  /\ \A r \in Runs : run[r].tag # NoSlot =>
       LET c == copy[run[r].tag]
       IN c.at = "unacked" /\ c.msg = run[r].msg /\ c.attempt = run[r].attempt
  /\ \A q, r \in Runs : run[q].tag = run[r].tag /\ run[q].tag # NoSlot => q = r
  /\ losses = 0 => \A r \in Runs : run[r].stage # "idle" => run[r].tag # NoSlot

\* The handler has failed n times on m, or has succeeded.
Tried(m, n) == m \in handled \/ failures[m] >= n

\* x-retry-count never runs ahead of the failures there have been, for a message whose
\* handler has not succeeded.
Counting ==
  /\ \A s \in Slots : copy[s].at # "free" =>
       copy[s].msg \in published /\ Tried(copy[s].msg, copy[s].attempt)
  /\ \A s \in Slots : copy[s].at = "dead" => Tried(copy[s].msg, MaxRetry + 1)
  /\ \A r \in Runs : run[r].stage # "idle" => Tried(run[r].msg, run[r].attempt)
  /\ \A r \in Runs : run[r].stage = "failed" => Tried(run[r].msg, run[r].attempt + 1)

\* The broker has message m, at its a-th attempt or a later one.
Has(m, a) == \E s \in Slots : copy[s].at # "free" /\ copy[s].msg = m /\ copy[s].attempt >= a

\* Once the retry is published it is there, a later attempt than the copy that is given up for
\* it: of several invocations that retry one message, none takes the copy another relies on.
Keeping ==
  /\ \A m \in published : m \in handled \/ Has(m, 0)
  /\ \A r \in Runs : run[r].stage = "retried" =>
       run[r].msg \in handled \/ Has(run[r].msg, run[r].attempt + 1)

QueueInv == QueueTypeOK /\ Holding /\ Counting /\ Keeping

-----------------------------------------------------------------------------
\* The invariant says more than the property (ack, publishRetry, nack).
LEMMA InvLosesNothing == QueueInv => NothingLost
<1> SUFFICES ASSUME QueueInv, NEW m \in published, m \notin handled
             PROVE  \E s \in Slots : copy[s].msg = m /\ (copy[s].at = "dead" => failures[m] > MaxRetry)
  BY DEF NothingLost
<1> USE QueueConstants
<1>1. PICK s \in Slots : copy[s].at # "free" /\ copy[s].msg = m
  BY DEF QueueInv, Keeping, Has
<1>2. failures[m] \in Nat
  BY DEF QueueInv, QueueTypeOK
<1> QED BY <1>1, <1>2 DEF QueueInv, Counting, Tried

\* An empty queue (the topology that is declared).
LEMMA QueueInitInv == QueueInit => QueueInv
<1> SUFFICES ASSUME QueueInit PROVE QueueInv
  OBVIOUS
<1> USE QueueConstants DEF QueueInit
<1>1. QueueTypeOK
  BY DEF QueueTypeOK, Copies, RunStates, Places, Stages, Attempts, Free, Idle
<1>2. Holding
  BY DEF Holding, Idle
<1>3. Counting
  BY DEF Counting, Tried, Free, Idle
<1>4. Keeping
  BY DEF Keeping, Idle
<1> QED BY <1>1, <1>2, <1>3, <1>4 DEF QueueInv

\* Where the broker puts a copy there was none (SomeSlot).
LEMMA SomeSlotIsFree == ASSUME Room # {} PROVE SomeSlot \in Slots /\ copy[SomeSlot] = Free
  BY DEF SomeSlot, Room

\* A message that is published (emit).
LEMMA PublishKeepsInv ==
  ASSUME QueueInv, NEW m \in Messages, Publish(m) PROVE QueueInv'
<1> USE QueueConstants
<1>1. /\ SomeSlot \in Slots /\ copy[SomeSlot] = Free
      /\ copy' = [copy EXCEPT ![SomeSlot] = [at |-> "main", msg |-> m, attempt |-> 0]]
      /\ copy \in [Slots -> Copies]
  BY SomeSlotIsFree DEF Publish, QueueInv, QueueTypeOK
<1>2. QueueTypeOK'
  BY <1>1 DEF QueueInv, QueueTypeOK, Publish, Copies, Places, Attempts
<1>3. Holding'
  BY <1>1 DEF QueueInv, Holding, Publish, QueueTypeOK, RunStates, Free
<1>4. Counting'
  BY <1>1 DEF QueueInv, Counting, Tried, Publish, QueueTypeOK
<1>5. ASSUME NEW n, NEW a, Has(n, a) PROVE Has(n, a)'
  BY <1>1, <1>5 DEF Has, Free
<1>6. Has(m, 0)'
  BY <1>1 DEF Has
<1>7. Keeping'
  BY <1>5, <1>6 DEF QueueInv, Keeping, Publish
<1> QED BY <1>2, <1>3, <1>4, <1>7 DEF QueueInv

\* What the broker has with it stays, if copies keep their message and attempt.
LEMMA CopiesStay ==
  ASSUME \A s \in Slots : copy[s].at # "free" =>
           copy'[s].at # "free" /\ copy'[s].msg = copy[s].msg /\ copy'[s].attempt = copy[s].attempt,
         NEW n, NEW a, Has(n, a)
  PROVE  Has(n, a)'
  BY DEF Has

\* A delivery (the consumers compete, each up to its prefetch).
LEMMA DeliverKeepsInv ==
  ASSUME QueueInv, NEW s \in Slots, NEW r \in Runs, NEW w \in Ids, Deliver(s, r, w) PROVE QueueInv'
<1> USE QueueConstants
<1>1. /\ copy \in [Slots -> Copies] /\ run \in [Runs -> RunStates]
      /\ copy[s].at = "main" /\ run[r] = Idle
      /\ copy' = [copy EXCEPT ![s].at = "unacked"]
      /\ run' = [run EXCEPT ![r] = [stage |-> "handling", msg |-> copy[s].msg,
                                    attempt |-> copy[s].attempt, tag |-> s, by |-> w]]
      /\ UNCHANGED <<losses, published, handled, failures>>
  BY DEF QueueInv, QueueTypeOK, Deliver
<1>2. QueueTypeOK'
  BY <1>1 DEF QueueInv, QueueTypeOK, Copies, RunStates, Places, Stages
<1>3. Holding'
  BY <1>1 DEF QueueInv, Holding, Counting, Idle, Copies, RunStates
<1>4. Counting'
  BY <1>1 DEF QueueInv, Counting, Tried, Idle, Copies, RunStates
<1>5. ASSUME NEW n, NEW a, Has(n, a) PROVE Has(n, a)'
  BY <1>1, <1>5, CopiesStay DEF Copies
<1>6. Keeping'
  BY <1>1, <1>5 DEF QueueInv, Keeping
<1> QED BY <1>2, <1>3, <1>4, <1>6 DEF QueueInv

\* The copy of an invocation is let go of or put somewhere else (ack, nack).
LEMMA SettleOne ==
  ASSUME QueueInv, NEW r \in Runs, run[r].stage # "idle", NEW place \in {"free", "dead"},
         place = "dead" => Tried(run[r].msg, MaxRetry + 1),
         copy' = Settle(copy, r, place), run' = [run EXCEPT ![r] = Idle],
         UNCHANGED <<losses, published, failures>>,
         handled' \in {handled, handled \cup {run[r].msg}}
  PROVE  QueueTypeOK' /\ Holding' /\ Counting'
<1> USE QueueConstants
<1>1. copy \in [Slots -> Copies] /\ run \in [Runs -> RunStates]
  BY DEF QueueInv, QueueTypeOK
<1>2. /\ copy' \in [Slots -> Copies]
      /\ \A s \in Slots : s = run[r].tag \/ copy'[s] = copy[s]
      /\ run[r].tag # NoSlot => run[r].tag \in Slots
      /\ run[r].tag # NoSlot => \/ place = "free" /\ copy'[run[r].tag] = Free
                                \/ /\ place = "dead"
                                   /\ copy'[run[r].tag] = [copy[run[r].tag] EXCEPT !.at = "dead"]
  BY <1>1 DEF Settle, Copies, RunStates, Places, Attempts, Free
<1>3. Idle \in RunStates
  BY DEF Idle, RunStates, Stages, Attempts
<1>4. run[r].msg \in published
  BY DEF QueueInv, Holding
<1>5. QueueTypeOK'
  BY <1>1, <1>2, <1>3, <1>4 DEF QueueInv, QueueTypeOK
<1>6. Holding'
  <2>1. /\ \A q \in Runs \ {r} : run'[q] = run[q]
        /\ run'[r].stage = "idle" /\ run'[r].tag = NoSlot
    BY <1>1 DEF Idle
  <2>2. \A q \in Runs \ {r} : run[q].tag # NoSlot => run[q].tag \in Slots /\ run[q].tag # run[r].tag
    BY <1>1 DEF QueueInv, Holding, RunStates
  <2>3. \A q \in Runs \ {r} : run[q].tag # NoSlot => copy'[run[q].tag] = copy[run[q].tag]
    BY <1>2, <2>2
  <2> QED BY <2>1, <2>3 DEF QueueInv, Holding
<1>7. Counting'
  <2>1. /\ \A s \in Slots : copy'[s].at # "free" => copy[s].at # "free"
             /\ copy'[s].msg = copy[s].msg /\ copy'[s].attempt = copy[s].attempt
        /\ \A s \in Slots : copy'[s].at = "dead" => Tried(copy'[s].msg, MaxRetry + 1)
    BY <1>1, <1>2 DEF QueueInv, Holding, Counting, Free, Copies
  <2>2. \A m, n : Tried(m, n) => Tried(m, n)'
    BY DEF Tried
  <2> QED BY <1>1, <2>1, <2>2 DEF QueueInv, Counting, Idle
<1> QED BY <1>5, <1>6, <1>7

\* The copy that an invocation lets go of is of its own message and attempt, and the only one
\* that changes.
LEMMA OthersStay ==
  ASSUME QueueInv, NEW r \in Runs, copy' = Settle(copy, r, "free"), NEW n, NEW a, Has(n, a)
  PROVE  Has(n, a)' \/ (n = run[r].msg /\ a <= run[r].attempt)
<1> USE QueueConstants
<1>1. PICK s \in Slots : copy[s].at # "free" /\ copy[s].msg = n /\ copy[s].attempt >= a
  BY DEF Has
<1>2. copy \in [Slots -> Copies] /\ run \in [Runs -> RunStates]
  BY DEF QueueInv, QueueTypeOK
<1>3. CASE run[r].tag = s
  BY <1>1, <1>2, <1>3 DEF QueueInv, Holding
<1>4. CASE run[r].tag # s
  BY <1>1, <1>2, <1>4 DEF Has, Settle
<1> QED BY <1>3, <1>4

\* An invocation goes to the catch of ack(): its handler threw, or its acknowledgement did.
LEMMA CatchKeepsInv ==
  ASSUME QueueInv, NEW r \in Runs, run[r].stage = "handling",
         run' = [run EXCEPT ![r].stage = "failed"], UNCHANGED <<copy, losses, published>>,
         handled \subseteq handled', handled' \subseteq published,
         failures' \in [Messages -> 0 .. MaxRetry + 1],
         \A m \in Messages : failures'[m] >= failures[m],
         \/ run[r].msg \in handled'
         \/ failures'[run[r].msg] > failures[run[r].msg] \/ failures'[run[r].msg] > MaxRetry
  PROVE  QueueInv'
<1> USE QueueConstants
<1>1. /\ run \in [Runs -> RunStates] /\ copy \in [Slots -> Copies]
      /\ failures \in [Messages -> 0 .. MaxRetry + 1]
      /\ run[r].msg \in published /\ published \subseteq Messages
  BY DEF QueueInv, QueueTypeOK, Holding
<1>2. /\ \A q \in Runs \ {r} : run'[q] = run[q]
      /\ run'[r].stage = "failed" /\ run'[r].msg = run[r].msg /\ run'[r].tag = run[r].tag
      /\ run'[r].attempt = run[r].attempt
      /\ run' \in [Runs -> RunStates]
  BY <1>1 DEF RunStates, Stages
<1>3. QueueTypeOK'
  BY <1>1, <1>2 DEF QueueInv, QueueTypeOK
<1>4. Holding'
  BY <1>1, <1>2 DEF QueueInv, Holding
<1>5. ASSUME NEW m \in Messages, NEW n \in Nat, Tried(m, n) PROVE Tried(m, n)'
  <2>1. failures[m] \in Nat /\ failures'[m] \in Nat /\ failures'[m] >= failures[m]
    BY <1>1
  <2> QED BY <1>5, <2>1 DEF Tried
<1>6. Counting'
  <2>1. \A s \in Slots : copy[s].at # "free" =>
          /\ copy[s].msg \in published /\ copy[s].msg \in Messages /\ copy[s].attempt \in Nat
          /\ Tried(copy[s].msg, copy[s].attempt)
          /\ copy[s].at = "dead" => Tried(copy[s].msg, MaxRetry + 1)
    BY <1>1 DEF QueueInv, Counting, Copies, Attempts
  <2>2. \A q \in Runs : run[q].stage # "idle" =>
          /\ run[q].msg \in Messages /\ run[q].attempt \in 0 .. MaxRetry
          /\ Tried(run[q].msg, run[q].attempt)
          /\ run[q].stage = "failed" => Tried(run[q].msg, run[q].attempt + 1)
    BY <1>1 DEF QueueInv, Counting, Holding, RunStates, Attempts
  <2>3. Tried(run[r].msg, run[r].attempt + 1)'
    <3>1. CASE run[r].msg \in handled'
      BY <1>2, <3>1 DEF Tried
    <3>2. CASE run[r].msg \in handled
      BY <1>2, <3>2 DEF Tried
    <3>3. CASE run[r].msg \notin handled' /\ run[r].msg \notin handled
      <4>1. /\ failures[run[r].msg] >= run[r].attempt /\ run[r].attempt \in 0 .. MaxRetry
            /\ failures[run[r].msg] \in Nat /\ failures'[run[r].msg] \in Nat
        BY <1>1, <2>2, <3>3 DEF Tried
      <4>2. failures'[run[r].msg] >= run[r].attempt + 1
        BY <3>3, <4>1
      <4> QED BY <1>2, <4>2 DEF Tried
    <3> QED BY <3>1, <3>2, <3>3
  <2>4. \A q \in Runs : run'[q].stage # "idle" => Tried(run[q].msg, run[q].attempt)'
    BY <1>2, <1>5, <2>2
  <2>5. \A q \in Runs : run'[q].stage = "failed" => Tried(run[q].msg, run[q].attempt + 1)'
    <3> SUFFICES ASSUME NEW q \in Runs, run'[q].stage = "failed"
                 PROVE  Tried(run[q].msg, run[q].attempt + 1)'
      OBVIOUS
    <3>1. CASE q = r
      BY <2>3, <3>1
    <3>2. CASE q # r
      <4>1. run[q].msg \in Messages /\ run[q].attempt + 1 \in Nat /\ Tried(run[q].msg, run[q].attempt + 1)
        BY <1>2, <2>2, <3>2
      <4>2. Tried(run[q].msg, run[q].attempt + 1)' <=> (run[q].msg \in handled' \/ failures'[run[q].msg] >= run[q].attempt + 1)
        BY <1>2, <3>2 DEF Tried
      <4>3. failures[run[q].msg] \in Nat /\ failures'[run[q].msg] \in Nat /\ failures'[run[q].msg] >= failures[run[q].msg]
        BY <1>1, <4>1
      <4> QED BY <4>1, <4>2, <4>3 DEF Tried
    <3> QED BY <3>1, <3>2
  <2>6. \A s \in Slots : copy'[s].at # "free" => Tried(copy[s].msg, copy[s].attempt)'
    BY <1>5, <2>1
  <2>7. \A s \in Slots : copy'[s].at = "dead" => Tried(copy[s].msg, MaxRetry + 1)'
    BY <1>5, <2>1
  <2> QED BY <2>1, <2>4, <2>5, <2>6, <2>7 DEF Counting
<1>7. ASSUME NEW n, NEW a, Has(n, a) PROVE Has(n, a)'
  BY <1>7 DEF Has
<1>8. Keeping'
  BY <1>2, <1>7 DEF QueueInv, Keeping
<1> QED BY <1>3, <1>4, <1>6, <1>8 DEF QueueInv

\* A handler that succeeds (ack).
LEMMA FinishKeepsInv ==
  ASSUME QueueInv, NEW r \in Runs, Finish(r) PROVE QueueInv'
<1> USE QueueConstants
<1>1. /\ run[r].stage = "handling" /\ handled' = handled \cup {run[r].msg}
      /\ UNCHANGED <<losses, published, failures>> /\ run \in [Runs -> RunStates]
      /\ failures \in [Messages -> 0 .. MaxRetry + 1] /\ handled' \subseteq published
  BY DEF Finish, QueueInv, QueueTypeOK, Holding
<1>2. CASE run' = [run EXCEPT ![r].stage = "failed"] /\ UNCHANGED copy
  <2>1. /\ failures' \in [Messages -> 0 .. MaxRetry + 1]
        /\ \A m \in Messages : failures'[m] >= failures[m]
        /\ handled \subseteq handled' /\ run[r].msg \in handled'
    BY <1>1
  <2> QED BY <1>1, <1>2, <2>1, CatchKeepsInv
<1>3. CASE run' = [run EXCEPT ![r] = Idle] /\ copy' = Settle(copy, r, "free")
  <2>1. QueueTypeOK' /\ Holding' /\ Counting'
    BY <1>1, <1>3, SettleOne
  <2>2. ASSUME NEW n, NEW a, Has(n, a), n \notin handled' PROVE Has(n, a)'
    BY <1>1, <1>3, <2>2, OthersStay
  <2>3. ASSUME NEW q \in Runs, run'[q].stage = "retried" PROVE run'[q] = run[q]
    BY <1>1, <1>3, <2>3 DEF Idle
  <2>4. handled \subseteq handled'
    BY <1>1
  <2>5. Keeping'
    BY <1>1, <2>2, <2>3, <2>4 DEF QueueInv, Keeping
  <2> QED BY <2>1, <2>5 DEF QueueInv
<1>4. \/ run' = [run EXCEPT ![r].stage = "failed"] /\ UNCHANGED copy
      \/ run' = [run EXCEPT ![r] = Idle] /\ copy' = Settle(copy, r, "free")
  BY DEF Finish
<1> QED BY <1>2, <1>3, <1>4

\* A handler that throws.
LEMMA FailKeepsInv ==
  ASSUME QueueInv, NEW r \in Runs, Fail(r) PROVE QueueInv'
<1> USE QueueConstants
<1>1. /\ run[r].stage = "handling" /\ run' = [run EXCEPT ![r].stage = "failed"]
      /\ failures' = [failures EXCEPT ![run[r].msg] = IF @ <= MaxRetry THEN @ + 1 ELSE @]
      /\ UNCHANGED <<copy, losses, published, handled>>
      /\ failures \in [Messages -> 0 .. MaxRetry + 1] /\ handled \subseteq published
      /\ run[r].msg \in Messages
  BY DEF Fail, QueueInv, QueueTypeOK, Holding
<1>2. /\ failures' \in [Messages -> 0 .. MaxRetry + 1]
      /\ \A m \in Messages : failures'[m] >= failures[m]
      /\ failures'[run[r].msg] > failures[run[r].msg] \/ failures'[run[r].msg] > MaxRetry
  BY <1>1
<1> QED BY <1>1, <1>2, CatchKeepsInv

\* The copy for the next attempt (publishRetry).
LEMMA PublishRetryKeepsInv ==
  ASSUME QueueInv, NEW r \in Runs, PublishRetry(r),
         Room # {}, copy' = [copy EXCEPT ![SomeSlot] = Waiting(run[r])],
         run' = [run EXCEPT ![r].stage = "retried"]
  PROVE  QueueInv'
<1> USE QueueConstants
<1> DEFINE new == SomeSlot
<1>1. /\ run[r].stage = "failed" /\ run[r].attempt < MaxRetry
      /\ new \in Slots /\ copy[new] = Free
      /\ copy' = [copy EXCEPT ![new] = Waiting(run[r])]
      /\ run' = [run EXCEPT ![r].stage = "retried"]
      /\ UNCHANGED <<losses, published, handled, failures>>
      /\ run \in [Runs -> RunStates] /\ copy \in [Slots -> Copies]
      /\ failures \in [Messages -> 0 .. MaxRetry + 1] /\ published \subseteq Messages
  BY SomeSlotIsFree DEF PublishRetry, QueueInv, QueueTypeOK
<1> HIDE DEF new
<1>2. /\ \A q \in Runs \ {r} : run'[q] = run[q]
      /\ run'[r].stage = "retried" /\ run'[r].msg = run[r].msg /\ run'[r].tag = run[r].tag
      /\ run'[r].attempt = run[r].attempt
      /\ run' \in [Runs -> RunStates]
  BY <1>1 DEF RunStates, Stages
<1>3. /\ \A s \in Slots \ {new} : copy'[s] = copy[s]
      /\ copy'[new].at = "waiting" /\ copy'[new].msg = run[r].msg
      /\ copy'[new].attempt = run[r].attempt + 1
      /\ copy[new].at = "free"
      /\ copy' \in [Slots -> Copies]
  BY <1>1 DEF Waiting, Copies, RunStates, Attempts, Places, Free
<1>4. /\ run[r].msg \in published /\ run[r].attempt \in Nat
      /\ Tried(run[r].msg, run[r].attempt) /\ Tried(run[r].msg, run[r].attempt + 1)
  BY <1>1 DEF QueueInv, Holding, Counting, RunStates, Attempts
<1>5. QueueTypeOK'
  BY <1>1, <1>2, <1>3 DEF QueueInv, QueueTypeOK
<1>6. Holding'
  <2>1. \A q \in Runs : run[q].tag # new \/ run[q].tag = NoSlot
    BY <1>3 DEF QueueInv, Holding
  <2>2. \A q \in Runs : /\ run'[q].tag = run[q].tag /\ run'[q].msg = run[q].msg
                        /\ run'[q].attempt = run[q].attempt
                        /\ run'[q].stage = "idle" <=> run[q].stage = "idle"
    BY <1>1, <1>2
  <2>3. \A q \in Runs : run[q].tag # NoSlot => copy'[run[q].tag] = copy[run[q].tag]
    BY <1>1, <1>3, <2>1 DEF RunStates
  <2> QED BY <1>1, <2>2, <2>3 DEF QueueInv, Holding
<1>7. Counting'
  BY <1>1, <1>2, <1>3, <1>4 DEF QueueInv, Counting, Tried
<1>8. ASSUME NEW n, NEW a, Has(n, a) PROVE Has(n, a)'
  BY <1>3, <1>8 DEF Has
<1>9. \A m \in published : m \in handled \/ Has(m, 0)'
  BY <1>8 DEF QueueInv, Keeping
<1>10. ASSUME NEW q \in Runs, run'[q].stage = "retried"
       PROVE  (run[q].msg \in handled \/ Has(run[q].msg, run[q].attempt + 1))'
  <2>1. CASE q = r
    BY <1>1, <1>2, <1>3, <1>4, <2>1 DEF Has
  <2>2. CASE q # r
    <3>1. /\ run'[q] = run[q]
          /\ run[q].msg \in handled \/ Has(run[q].msg, run[q].attempt + 1)
      BY <1>2, <1>10, <2>2 DEF QueueInv, Keeping
    <3>2. CASE Has(run[q].msg, run[q].attempt + 1)
      BY <1>1, <1>3, <3>1, <3>2 DEF Has
    <3> QED BY <1>1, <3>1, <3>2
  <2> QED BY <2>1, <2>2
<1>11. Keeping'
  BY <1>1, <1>9, <1>10 DEF Keeping
<1> QED BY <1>5, <1>6, <1>7, <1>11 DEF QueueInv

\* The copy for the next attempt is refused: the invocation keeps its delivery, or has
\* none to keep (publishRetry).
LEMMA RefusedKeepsInv ==
  ASSUME QueueInv, NEW r \in Runs, PublishRetry(r), UNCHANGED copy,
         run' = [run EXCEPT ![r] = IF run[r].tag = NoSlot THEN Idle ELSE [@ EXCEPT !.stage = "stuck"]]
  PROVE  QueueInv'
<1> USE QueueConstants
<1>1. /\ run[r].stage = "failed" /\ UNCHANGED <<copy, losses, published, handled, failures>>
      /\ run \in [Runs -> RunStates] /\ Idle \in RunStates
  BY DEF PublishRetry, QueueInv, QueueTypeOK, Idle, RunStates, Stages, Attempts
<1>2. /\ run' \in [Runs -> RunStates]
      /\ \A q \in Runs \ {r} : run'[q] = run[q]
      /\ \/ run'[r] = Idle
         \/ /\ run'[r].stage = "stuck" /\ run'[r].msg = run[r].msg
            /\ run'[r].attempt = run[r].attempt /\ run'[r].tag = run[r].tag
  BY <1>1 DEF RunStates, Stages
<1>3. QueueTypeOK'
  BY <1>1, <1>2 DEF QueueInv, QueueTypeOK
<1>4. Holding'
  BY <1>1, <1>2 DEF QueueInv, Holding, Idle
<1>5. Counting'
  BY <1>1, <1>2 DEF QueueInv, Counting, Tried, Idle
<1>6. Keeping'
  BY <1>1, <1>2 DEF QueueInv, Keeping, Has, Idle
<1> QED BY <1>3, <1>4, <1>5, <1>6 DEF QueueInv

\* The acknowledgement after the retry was published (ack).
LEMMA AckRetriedKeepsInv ==
  ASSUME QueueInv, NEW r \in Runs, AckRetried(r) PROVE QueueInv'
<1> USE QueueConstants
<1>1. /\ run[r].stage = "retried" /\ run' = [run EXCEPT ![r] = Idle]
      /\ copy' = Settle(copy, r, "free")
      /\ UNCHANGED <<losses, published, handled, failures>>
      /\ run \in [Runs -> RunStates] /\ copy \in [Slots -> Copies]
  BY DEF AckRetried, QueueInv, QueueTypeOK
<1>2. QueueTypeOK' /\ Holding' /\ Counting'
  BY <1>1, SettleOne
<1>3. PICK m, k : m = run[r].msg /\ k = run[r].attempt
  OBVIOUS
<1>4. k \in Nat
  BY <1>1, <1>3 DEF RunStates, Attempts
<1>5. ASSUME m \notin handled PROVE Has(m, k + 1)'
  <2>1. Has(m, k + 1)
    BY <1>1, <1>3, <1>5 DEF QueueInv, Keeping
  <2>2. ~(k + 1 <= k)
    BY <1>4
  <2> QED BY <1>1, <1>3, <2>1, <2>2, OthersStay
<1>6. ASSUME NEW n, NEW a \in Nat, Has(n, a), n \notin handled PROVE Has(n, a)'
  <2>1. CASE n = m /\ a <= k
    <3>1. PICK s \in Slots : copy'[s].at # "free" /\ copy'[s].msg = m /\ copy'[s].attempt >= k + 1
      BY <1>5, <1>6, <2>1 DEF Has
    <3>2. copy'[s].attempt \in Nat
      BY <1>2 DEF QueueTypeOK, Copies, Attempts
    <3>3. copy'[s].attempt >= a
      BY <1>4, <1>6, <2>1, <3>1, <3>2
    <3> QED BY <2>1, <3>1, <3>3 DEF Has
  <2> QED BY <1>1, <1>3, <1>6, <2>1, OthersStay
<1>7. ASSUME NEW q \in Runs, run'[q].stage = "retried"
      PROVE  run'[q] = run[q] /\ run[q].attempt + 1 \in Nat
  BY <1>1, <1>7 DEF Idle, RunStates, Attempts
<1>8. Keeping'
  BY <1>1, <1>6, <1>7 DEF QueueInv, Keeping
<1> QED BY <1>2, <1>8 DEF QueueInv

\* A message that goes to the dead-letter queue (nack without requeue).
LEMMA NackKeepsInv ==
  ASSUME QueueInv, NEW r \in Runs, Nack(r) PROVE QueueInv'
<1> USE QueueConstants
<1>1. /\ run[r].stage = "failed" /\ run[r].attempt >= MaxRetry
      /\ run' = [run EXCEPT ![r] = Idle] /\ copy' = Settle(copy, r, "dead")
      /\ UNCHANGED <<losses, published, handled, failures>>
      /\ run \in [Runs -> RunStates] /\ copy \in [Slots -> Copies]
      /\ failures \in [Messages -> 0 .. MaxRetry + 1] /\ published \subseteq Messages
  BY DEF Nack, QueueInv, QueueTypeOK
<1>2. Tried(run[r].msg, MaxRetry + 1)
  <2>1. /\ Tried(run[r].msg, run[r].attempt + 1) /\ failures[run[r].msg] \in Nat
        /\ run[r].attempt \in Nat
    BY <1>1 DEF QueueInv, Counting, Holding, RunStates, Attempts
  <2> QED BY <1>1, <2>1 DEF Tried
<1>3. QueueTypeOK' /\ Holding' /\ Counting'
  BY <1>1, <1>2, SettleOne
<1>4. \A s \in Slots : copy[s].at # "free" =>
         copy'[s].at # "free" /\ copy'[s].msg = copy[s].msg /\ copy'[s].attempt = copy[s].attempt
  BY <1>1 DEF Settle, Copies
<1>5. ASSUME NEW n, NEW a, Has(n, a) PROVE Has(n, a)'
  BY <1>4, <1>5, CopiesStay
<1>6. ASSUME NEW q \in Runs, run'[q].stage = "retried" PROVE run'[q] = run[q]
  BY <1>1, <1>6 DEF Idle
<1>7. Keeping'
  BY <1>1, <1>5, <1>6 DEF QueueInv, Keeping
<1> QED BY <1>3, <1>7 DEF QueueInv

\* The end of a retry's TTL.
LEMMA TtlExpiresKeepsInv ==
  ASSUME QueueInv, NEW s \in Slots, TtlExpires(s) PROVE QueueInv'
<1> USE QueueConstants
<1>1. /\ copy[s].at = "waiting" /\ copy' = [copy EXCEPT ![s].at = "main"]
      /\ UNCHANGED <<run, losses, published, handled, failures>>
      /\ run \in [Runs -> RunStates] /\ copy \in [Slots -> Copies]
  BY DEF TtlExpires, QueueInv, QueueTypeOK
<1>2. QueueTypeOK'
  BY <1>1 DEF QueueInv, QueueTypeOK, Copies, Places
<1>3. Holding'
  BY <1>1 DEF QueueInv, Holding, RunStates
<1>4. Counting'
  BY <1>1 DEF QueueInv, Counting, Tried, Copies
<1>5. ASSUME NEW n, NEW a, Has(n, a) PROVE Has(n, a)'
  BY <1>1, <1>5, CopiesStay DEF Copies
<1>6. Keeping'
  BY <1>1, <1>5 DEF QueueInv, Keeping
<1> QED BY <1>2, <1>3, <1>4, <1>6 DEF QueueInv

\* What a consumer had is queued again; its invocations go on without a copy, or end
\* (a lost connection, a process that dies).
LEMMA LossKeepsInv ==
  ASSUME QueueInv, NEW w \in Ids, Disconnect(w) \/ ConsumerDies(w) PROVE QueueInv'
<1> USE QueueConstants
<1>1. /\ losses < MaxLosses /\ losses' = losses + 1 /\ copy' = Requeue(w)
      /\ UNCHANGED <<published, handled, failures>>
      /\ run \in [Runs -> RunStates] /\ copy \in [Slots -> Copies] /\ losses \in 0 .. MaxLosses
  BY DEF Disconnect, ConsumerDies, QueueInv, QueueTypeOK
<1>2. \A r \in Runs : \/ run'[r] = run[r] /\ run[r].by # w
                      \/ run'[r] = Idle
                      \/ run'[r] = [run[r] EXCEPT !.tag = NoSlot]
  BY <1>1 DEF Disconnect, ConsumerDies
<1>3. Idle \in RunStates
  BY DEF Idle, RunStates, Stages, Attempts
<1>4. run' \in [Runs -> RunStates]
  BY <1>1, <1>3 DEF Disconnect, ConsumerDies, RunStates
<1>5. /\ copy' \in [Slots -> Copies]
      /\ \A s \in Slots : copy'[s] = copy[s]
           \/ /\ \E r \in Unacked(w) : run[r].tag = s
              /\ copy'[s] = [copy[s] EXCEPT !.at = "main"]
  BY <1>1 DEF Requeue, Copies, Places
<1>6. QueueTypeOK'
  BY <1>1, <1>4, <1>5 DEF QueueInv, QueueTypeOK
<1>7. \A s \in Slots : /\ copy'[s].at = "free" <=> copy[s].at = "free"
                       /\ copy'[s].at = "dead" => copy[s].at = "dead"
                       /\ copy'[s].msg = copy[s].msg /\ copy'[s].attempt = copy[s].attempt
  <2> SUFFICES ASSUME NEW s \in Slots
               PROVE  /\ copy'[s].at = "free" <=> copy[s].at = "free"
                      /\ copy'[s].at = "dead" => copy[s].at = "dead"
                      /\ copy'[s].msg = copy[s].msg /\ copy'[s].attempt = copy[s].attempt
    OBVIOUS
  <2>1. CASE copy'[s] = copy[s]
    BY <2>1
  <2>2. CASE (\E r \in Unacked(w) : run[r].tag = s) /\ copy'[s] = [copy[s] EXCEPT !.at = "main"]
    <3>1. copy[s].at = "unacked"
      BY <2>2 DEF QueueInv, Holding, Unacked
    <3> QED BY <1>1, <2>2, <3>1 DEF Copies
  <2> QED BY <1>5, <2>1, <2>2
<1>8. \A r \in Runs :
        /\ run'[r].stage # "idle" => /\ run'[r].stage = run[r].stage /\ run'[r].msg = run[r].msg
                                     /\ run'[r].attempt = run[r].attempt
        /\ run'[r].stage = "idle" => run[r].stage = "idle" \/ run'[r].tag = NoSlot
        /\ run'[r].tag # NoSlot => run'[r] = run[r] /\ run[r].by # w
        /\ run[r].tag = NoSlot => run'[r].tag = NoSlot
  <2> TAKE r \in Runs
  <2>1. CASE run'[r] = run[r] /\ run[r].by # w
    BY <2>1
  <2>2. CASE run'[r] = Idle
    BY <2>2 DEF Idle
  <2>3. CASE run'[r] = [run[r] EXCEPT !.tag = NoSlot]
    BY <1>1, <2>3 DEF RunStates
  <2> QED BY <1>2, <2>1, <2>2, <2>3
<1>9. Holding'
  <2>1. ASSUME NEW r \in Runs, run'[r].tag # NoSlot
        PROVE  run'[r] = run[r] /\ copy'[run[r].tag] = copy[run[r].tag]
    <3>1. run'[r] = run[r] /\ run[r].by # w /\ run[r].tag # NoSlot /\ run[r].tag \in Slots
      BY <1>1, <1>8, <2>1 DEF RunStates
    <3>2. ~\E q \in Unacked(w) : run[q].tag = run[r].tag
      BY <3>1 DEF QueueInv, Holding, Unacked
    <3> QED BY <1>5, <3>1, <3>2
  <2>2. \A r \in Runs : run'[r].tag # NoSlot =>
          LET c == copy'[run'[r].tag]
          IN c.at = "unacked" /\ c.msg = run'[r].msg /\ c.attempt = run'[r].attempt
    BY <2>1 DEF QueueInv, Holding
  <2>3. \A q, r \in Runs : run'[q].tag = run'[r].tag /\ run'[q].tag # NoSlot => q = r
    BY <2>1 DEF QueueInv, Holding
  <2>4. /\ \A r \in Runs : run'[r].stage # "idle" => run'[r].msg \in published'
        /\ \A r \in Runs : run'[r].stage = "idle" => run'[r].tag = NoSlot
    BY <1>1, <1>8 DEF QueueInv, Holding
  <2>5. losses' # 0
    BY <1>1
  <2> QED BY <2>2, <2>3, <2>4, <2>5 DEF Holding
<1>10. Counting'
  BY <1>1, <1>7, <1>8 DEF QueueInv, Counting, Tried
<1>11. ASSUME NEW n, NEW a, Has(n, a) PROVE Has(n, a)'
  BY <1>7, <1>11, CopiesStay
<1>12. Keeping'
  <2>1. \A m \in published : m \in handled \/ Has(m, 0)'
    BY <1>11 DEF QueueInv, Keeping
  <2>2. ASSUME NEW r \in Runs, run'[r].stage = "retried"
        PROVE  /\ run'[r].msg = run[r].msg /\ run'[r].attempt = run[r].attempt
               /\ run[r].msg \in handled \/ Has(run[r].msg, run[r].attempt + 1)'
    BY <1>8, <1>11, <2>2 DEF QueueInv, Keeping
  <2>3. \A r \in Runs : run'[r].stage = "retried" =>
          (run[r].msg \in handled \/ Has(run[r].msg, run[r].attempt + 1))'
    BY <1>1, <2>2 DEF Has
  <2> QED BY <1>1, <2>1, <2>3 DEF Keeping
<1> QED BY <1>6, <1>9, <1>10, <1>12 DEF QueueInv

\* Every step of the queue keeps the invariant, and so does a step that leaves it alone.
LEMMA QueueStepInv == QueueInv /\ [QueueNext]_queueVars => QueueInv'
<1> SUFFICES ASSUME QueueInv, [QueueNext]_queueVars PROVE QueueInv'
  OBVIOUS
<1>1. CASE UNCHANGED queueVars
  BY <1>1 DEF queueVars, QueueInv, QueueTypeOK, Holding, Counting, Tried, Keeping, Has
<1>2. CASE \E m \in Messages : Publish(m)
  BY <1>2, PublishKeepsInv
<1>3. CASE \E s \in Slots, r \in Runs, w \in Ids : Deliver(s, r, w)
  BY <1>3, DeliverKeepsInv
<1>4. CASE \E r \in Runs : Finish(r) \/ Fail(r) \/ PublishRetry(r) \/ AckRetried(r) \/ Nack(r)
  <2>1. ASSUME NEW r \in Runs, PublishRetry(r) PROVE QueueInv'
    BY <2>1, PublishRetryKeepsInv, RefusedKeepsInv DEF PublishRetry
  <2> QED BY <1>4, <2>1, FinishKeepsInv, FailKeepsInv, AckRetriedKeepsInv, NackKeepsInv
<1>5. CASE \E s \in Slots : TtlExpires(s)
  BY <1>5, TtlExpiresKeepsInv
<1>6. CASE \E w \in Ids : Disconnect(w) \/ ConsumerDies(w)
  BY <1>6, LossKeepsInv
<1> QED BY <1>1, <1>2, <1>3, <1>4, <1>5, <1>6 DEF QueueNext

\* A message the broker has accepted is with it until a handler has succeeded, and dead-lettered
\* only after MaxRetry + 1 failures: through any failures, lost connections and dead processes,
\* for any number of messages and consumers (publishRetry, ack, nack).
THEOREM QueueLosesNothing == QueueSpec => []NothingLost
<1> QED BY InvLosesNothing, QueueInitInv, QueueStepInv, PTL DEF QueueSpec
=============================================================================
