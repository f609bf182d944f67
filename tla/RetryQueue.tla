----------------------------- MODULE RetryQueue -----------------------------
(***************************************************************************)
(* One RabbitMQ queue of the four in rabbitmq.constants.ts, with its retry  *)
(* queue and its dead-letter queue, and the ack() that every consumer has:  *)
(* the handler runs, then the message is acknowledged; if it throws, a copy *)
(* with a higher x-retry-count goes to the retry queue, whose TTL brings it  *)
(* back, and after MaxRetry of those the message is dead-lettered.  If that  *)
(* publish is refused too, ack() ends with the message neither acknowledged  *)
(* nor refused: it stays with the consumer until the connection is lost.     *)
(*                                                                         *)
(* The broker keeps copies; a consumer keeps runs of its handler.  When the  *)
(* consumer's connection is lost the broker queues the copy again, but the   *)
(* run that was working on it goes on.                                      *)
(***************************************************************************)
EXTENDS Integers, FiniteSets

CONSTANTS Messages,
          Slots,      \* room for copies at the broker
          Runs,       \* room for handler invocations
          Ids,        \* the processes that consume
          MaxRetry,   \* RABBITMQ_MAX_RETRY_ATTEMPTS
          Prefetch,   \* prefetchCount
          MaxLosses,  \* bound: connections and processes lost
          NoMessage, NoSlot, NoWorker

ASSUME QueueConstants ==
  /\ MaxRetry \in Nat /\ MaxLosses \in Nat
  /\ Prefetch \in Nat \ {0}
  /\ NoMessage \notin Messages /\ NoSlot \notin Slots /\ NoWorker \notin Ids

Attempts == 0..MaxRetry
Places   == {"free", "main", "unacked", "waiting", "dead"}
Stages   == {"idle", "handling", "failed", "retried", "stuck"}
Copies   == [at : Places, msg : Messages \cup {NoMessage}, attempt : Attempts]
RunStates == [stage : Stages, msg : Messages \cup {NoMessage}, attempt : Attempts,
              tag : Slots \cup {NoSlot}, by : Ids \cup {NoWorker}]

VARIABLES copy,      \* copy[s]: what the broker keeps in s
          run,       \* run[r]: an invocation of ack()
          losses,    \* connections and processes lost so far
          published, \* messages the broker has accepted
          handled,   \* ghost: messages whose handler has succeeded
          failures   \* ghost: failures[m] counts the times it has thrown

queueVars == <<copy, run, losses, published, handled, failures>>

Free == [at |-> "free", msg |-> NoMessage, attempt |-> 0]
Idle == [stage |-> "idle", msg |-> NoMessage, attempt |-> 0, tag |-> NoSlot, by |-> NoWorker]

QueueInit ==
  /\ copy = [s \in Slots |-> Free]
  /\ run = [r \in Runs |-> Idle]
  /\ losses = 0
  /\ published = {}
  /\ handled = {}
  /\ failures = [m \in Messages |-> 0]

Unacked(w) == {r \in Runs : run[r].by = w /\ run[r].tag # NoSlot}

\* Which slot a copy gets makes no difference.
Room       == {s \in Slots : copy[s] = Free}
SomeSlot   == CHOOSE s \in Room : TRUE
Waiting(i) == [at |-> "waiting", msg |-> i.msg, attempt |-> i.attempt + 1]

\* The broker lets go of the copy that run r was delivered, if it still counts as
\* delivered to it.
Settle(c, r, place) ==
  IF run[r].tag = NoSlot THEN c
  ELSE [c EXCEPT ![run[r].tag] = IF place = "free" THEN Free ELSE [@ EXCEPT !.at = place]]

-----------------------------------------------------------------------------
\* client.emit(): persistent, into a durable queue.
Publish(m) ==
  /\ m \notin published
  /\ Room # {}
  /\ copy' = [copy EXCEPT ![SomeSlot] = [at |-> "main", msg |-> m, attempt |-> 0]]
  /\ published' = published \cup {m}
  /\ UNCHANGED <<run, losses, handled, failures>>

\* Competing consumers, each with at most Prefetch deliveries not acknowledged.
Deliver(s, r, w) ==
  /\ copy[s].at = "main"
  /\ run[r] = Idle
  /\ Cardinality(Unacked(w)) < Prefetch
  /\ copy' = [copy EXCEPT ![s].at = "unacked"]
  /\ run' = [run EXCEPT ![r] = [stage |-> "handling", msg |-> copy[s].msg,
                                attempt |-> copy[s].attempt, tag |-> s, by |-> w]]
  /\ UNCHANGED <<losses, published, handled, failures>>

\* The handler resolves; channel.ack, within the try.  A consumer that knows that its
\* channel is closed throws there, and goes on as if the handler had thrown.
Finish(r) ==
  /\ run[r].stage = "handling"
  /\ \/ copy' = Settle(copy, r, "free") /\ run' = [run EXCEPT ![r] = Idle]
     \/ run[r].tag = NoSlot /\ run' = [run EXCEPT ![r].stage = "failed"] /\ UNCHANGED copy
  /\ handled' = handled \cup {run[r].msg}
  /\ UNCHANGED <<losses, published, failures>>

\* The handler throws.
Fail(r) ==
  /\ run[r].stage = "handling"
  /\ run' = [run EXCEPT ![r].stage = "failed"]
  /\ failures' = [failures EXCEPT ![run[r].msg] = IF @ <= MaxRetry THEN @ + 1 ELSE @]
  /\ UNCHANGED <<copy, losses, published, handled>>

\* Mutant: publish without a confirm channel; the copy may never arrive.
PublishRetryUnconfirmed(r) ==
  /\ run[r].stage = "failed" /\ run[r].attempt < MaxRetry
  /\ Room # {}
  /\ copy' \in {copy, [copy EXCEPT ![SomeSlot] = Waiting(run[r])]}
  /\ run' = [run EXCEPT ![r].stage = "retried"]
  /\ UNCHANGED <<losses, published, handled, failures>>

\* publishRetry: over a connection of its own.  If it is refused ack() rejects, and
\* what it was delivered is left as it is.
PublishRetry(r) ==
  /\ run[r].stage = "failed" /\ run[r].attempt < MaxRetry
  /\ \/ /\ Room # {}
        /\ copy' = [copy EXCEPT ![SomeSlot] = Waiting(run[r])]
        /\ run' = [run EXCEPT ![r].stage = "retried"]
     \/ /\ run' = [run EXCEPT ![r] = IF run[r].tag = NoSlot THEN Idle ELSE [@ EXCEPT !.stage = "stuck"]]
        /\ UNCHANGED copy
  /\ UNCHANGED <<losses, published, handled, failures>>

AckRetried(r) ==
  /\ run[r].stage = "retried"
  /\ copy' = Settle(copy, r, "free")
  /\ run' = [run EXCEPT ![r] = Idle]
  /\ UNCHANGED <<losses, published, handled, failures>>

\* Mutant: nack with requeue, its default.
NackRequeue(r) ==
  /\ run[r].stage = "failed" /\ run[r].attempt >= MaxRetry
  /\ copy' = Settle(copy, r, "main")
  /\ run' = [run EXCEPT ![r] = Idle]
  /\ UNCHANGED <<losses, published, handled, failures>>

\* nack without requeue: to the dead-letter queue, from which nobody reads.
Nack(r) ==
  /\ run[r].stage = "failed" /\ run[r].attempt >= MaxRetry
  /\ copy' = Settle(copy, r, "dead")
  /\ run' = [run EXCEPT ![r] = Idle]
  /\ UNCHANGED <<losses, published, handled, failures>>

\* The TTL of a retry: dead-lettered back into the main queue.
TtlExpires(s) ==
  /\ copy[s].at = "waiting"
  /\ copy' = [copy EXCEPT ![s].at = "main"]
  /\ UNCHANGED <<run, losses, published, handled, failures>>

Requeue(w) == [s \in Slots |-> IF \E r \in Unacked(w) : run[r].tag = s
                               THEN [copy[s] EXCEPT !.at = "main"] ELSE copy[s]]

\* The consumer's connection drops: what it has not acknowledged is queued again,
\* and what its runs acknowledge later is ignored, or throws.
Disconnect(w) ==
  /\ losses < MaxLosses /\ Unacked(w) # {}
  /\ losses' = losses + 1
  /\ copy' = Requeue(w)
  /\ run' = [r \in Runs |-> IF run[r].by # w THEN run[r]
                            ELSE IF run[r].stage = "stuck" THEN Idle
                            ELSE [run[r] EXCEPT !.tag = NoSlot]]
  /\ UNCHANGED <<published, handled, failures>>

\* The process dies, and its runs with it.
ConsumerDies(w) ==
  /\ losses < MaxLosses
  /\ losses' = losses + 1
  /\ copy' = Requeue(w)
  /\ run' = [r \in Runs |-> IF run[r].by = w THEN Idle ELSE run[r]]
  /\ UNCHANGED <<published, handled, failures>>

-----------------------------------------------------------------------------
QueueTypeOK ==
  /\ copy \in [Slots -> Copies]
  /\ run \in [Runs -> RunStates]
  /\ losses \in 0..MaxLosses
  /\ published \subseteq Messages
  /\ handled \subseteq published
  /\ failures \in [Messages -> 0..MaxRetry + 1]

\* A message the broker has accepted stays with it until a handler has succeeded, through
\* failures, lost connections and dead processes; and it stays in the dead-letter queue
\* only once its handler has failed MaxRetry + 1 times (publishRetry, ack, nack).
NothingLost ==
  \A m \in published : m \in handled
    \/ \E s \in Slots : copy[s].msg = m /\ (copy[s].at = "dead" => failures[m] > MaxRetry)
=============================================================================
