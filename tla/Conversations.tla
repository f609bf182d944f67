---------------------------- MODULE Conversations ----------------------------
(***************************************************************************)
(* The conversations of one store with its customers, and their topics in   *)
(* the store's Telegram group: conversations.service.ts, telegram.controller *)
(* .ts and telegram.service.ts.                                             *)
(*                                                                         *)
(* A message sent in the app is stored and then forwarded to the topic of    *)
(* its conversation, which the first message creates.  What the staff write  *)
(* in a topic comes back through the webhook and is stored in the            *)
(* conversation that a Redis key, or else the database, names for the topic. *)
(* A handler's steps are separated where it awaits; whatever it has read     *)
(* before is kept in its record.                                            *)
(*                                                                         *)
(* Storing a message is a transaction of two statements.  The insert takes a *)
(* shared lock on the conversation's row (its foreign key), the update needs *)
(* the row alone: two transactions that have both inserted block each other, *)
(* and InnoDB rolls one back, which nobody retries.                          *)
(***************************************************************************)
EXTENDS Integers, FiniteSets

CONSTANTS Convs, Handlers,
          Groups,        \* Telegram groups that may be linked to the store
          MaxTopics,     \* bound: topics created
          NoGroup, NoConv

ASSUME ConversationConstants ==
  /\ MaxTopics \in Nat \ {0}
  /\ NoGroup \notin Groups /\ NoConv \notin Convs

TopicIds == 1..MaxTopics       \* message_thread_id, counted in each group
NoTopic  == 0

VARIABLES opened,     \* rows of `conversations`
          topic,      \* topic[c]: telegramTopicId
          preview,    \* preview[c]: lastMessageBody is of the newest message of c
          group,      \* the store's telegramGroupId
          key,        \* key[g][t]: the conversation telegram:topic:g:t names
          handler,    \* handler[h]: an invocation
          madeFor,    \* ghost: madeFor[g][t]: the conversation topic t was created for
          forwarded,  \* ghost: topics that have been sent a message
          linked,     \* ghost: groups that have been linked
          crossed     \* ghost: a message went to another conversation's topic or back

convVars == <<opened, topic, preview, group, key, handler,
              madeFor, forwarded, linked, crossed>>
threads  == <<opened, topic>>
storeVars == <<group, linked>>
ghosts   == <<madeFor, forwarded, crossed>>

FreeHandler == [pc |-> "free", conv |-> NoConv, reply |-> FALSE, group |-> NoGroup,
                topic |-> NoTopic, before |-> {}, overtaken |-> FALSE]
Handling == [pc : {"free", "insert", "update", "create", "save", "key", "publish"},
             conv : Convs \cup {NoConv}, reply : BOOLEAN,
             group : Groups \cup {NoGroup}, topic : {NoTopic} \cup TopicIds,
             before : SUBSET Handlers,  \* whose messages in conv are older and not committed
             overtaken : BOOLEAN]       \* a newer message has been committed

ConvInit ==
  /\ opened = {}
  /\ topic = [c \in Convs |-> NoTopic]
  /\ preview = [c \in Convs |-> TRUE]
  /\ group = NoGroup
  /\ key = [g \in Groups |-> [t \in TopicIds |-> NoConv]]
  /\ handler = [h \in Handlers |-> FreeHandler]
  /\ madeFor = [g \in Groups |-> [t \in TopicIds |-> NoConv]]
  /\ forwarded = {}
  /\ linked = {}
  /\ crossed = FALSE

At(h, pc)      == handler[h].pc = pc
Goes(h, pc)    == handler' = [handler EXCEPT ![h].pc = pc]
Ends(h)        == handler' = [handler EXCEPT ![h] = FreeHandler]
Inserted(c)    == {h \in Handlers : At(h, "update") /\ handler[h].conv = c}
SharedBy(h)    == Inserted(handler[h].conv) \ {h}   \* who else holds a shared lock

-----------------------------------------------------------------------------
\* create: an upsert, for a customer who is neither owner nor active staff.
OpenConversation(c) ==
  /\ c \notin opened
  /\ opened' = opened \cup {c}
  /\ UNCHANGED <<topic, preview, storeVars, key, handler, ghosts>>

\* processMessage, of the customer, and processStaffMessage, of an active member:
\* the read, with the group and the topic as they are now.
Receive(h, c) ==
  /\ At(h, "free") /\ c \in opened
  /\ handler' = [handler EXCEPT ![h] = [FreeHandler EXCEPT !.pc = "insert", !.conv = c,
                                                           !.group = group, !.topic = topic[c]]]
  /\ UNCHANGED <<threads, preview, storeVars, key, ghosts>>

\* Mutant: the first conversation of the store, whatever its topic.
NamedByGroup(g, t) ==
  IF key[g][t] # NoConv THEN {key[g][t]}
  ELSE {c \in opened : topic[c] # NoTopic /\ group = g}

\* Mutant: Redis alone knows the topics.
NamedByKey(g, t) == {key[g][t]} \ {NoConv}

\* The key, or else any row with this topic of the store with this group.
Named(g, t) ==
  IF key[g][t] # NoConv THEN {key[g][t]}
  ELSE {c \in opened : topic[c] = t /\ group = g}

\* handleGroupTopicReply: the staff answer in a topic.  The key is set again.
ReceiveReply(h, g, t) ==
  /\ At(h, "free") /\ madeFor[g][t] # NoConv
  /\ \/ \E c \in Named(g, t) :
           /\ key' = [key EXCEPT ![g][t] = c]
           /\ handler' = [handler EXCEPT ![h] = [FreeHandler EXCEPT !.pc = "insert", !.conv = c,
                                                                  !.reply = TRUE]]
           /\ crossed' = (crossed \/ c # madeFor[g][t])
     \/ Named(g, t) = {} /\ UNCHANGED <<key, handler, crossed>>   \* dropped
  /\ UNCHANGED <<threads, preview, storeVars, madeFor, forwarded>>

\* message.create in its transaction.
InsertMessage(h) ==
  /\ At(h, "insert")
  /\ handler' = [handler EXCEPT ![h].pc = "update", ![h].before = Inserted(handler[h].conv)]
  /\ UNCHANGED <<threads, preview, storeVars, key, ghosts>>

\* What follows the transaction: a reply is emitted; a message is forwarded, unless the
\* store had no group.  Ghosts: who was older has been overtaken.
AfterCommit(h) ==
  [k \in Handlers |->
     IF k # h
     THEN [handler[k] EXCEPT !.overtaken = @ \/ k \in handler[h].before, !.before = @ \ {h}]
     ELSE IF handler[h].reply \/ handler[h].group = NoGroup THEN FreeHandler
     ELSE [handler[h] EXCEPT !.pc = IF handler[h].topic = NoTopic THEN "create" ELSE "key",
                             !.before = {}, !.overtaken = FALSE]]

\* Mutant: two statements without a transaction; no lock is left from the insert.
CommitUnlocked(h) ==
  /\ At(h, "update")
  /\ preview' = [preview EXCEPT ![handler[h].conv] = ~handler[h].overtaken]
  /\ handler' = AfterCommit(h)
  /\ UNCHANGED <<threads, storeVars, key, ghosts>>

\* conversation.update, and the commit.
CommitMessage(h) ==
  /\ At(h, "update") /\ SharedBy(h) = {}
  /\ preview' = [preview EXCEPT ![handler[h].conv] = ~handler[h].overtaken]
  /\ handler' = AfterCommit(h)
  /\ UNCHANGED <<threads, storeVars, key, ghosts>>

\* createGroupTopic: a new topic, or an error, which ends the forwarding.
CreateTopic(h) ==
  /\ At(h, "create")
  /\ LET g == handler[h].group
         unused == {t \in TopicIds : madeFor[g][t] = NoConv}
         made   == {x \in Groups \X TopicIds : madeFor[x[1]][x[2]] # NoConv}
     IN \/ \E t \in unused :
             /\ \A s \in unused : t <= s
             /\ Cardinality(made) < MaxTopics
             /\ madeFor' = [madeFor EXCEPT ![g][t] = handler[h].conv]
             /\ handler' = [handler EXCEPT ![h].pc = "save", ![h].topic = t]
        \/ Ends(h) /\ UNCHANGED madeFor
  /\ UNCHANGED <<threads, preview, storeVars, key, forwarded, crossed>>

\* conversation.update: waits for transactions on the row.
SaveTopic(h) ==
  /\ At(h, "save") /\ Inserted(handler[h].conv) = {}
  /\ topic' = [topic EXCEPT ![handler[h].conv] = handler[h].topic]
  /\ Goes(h, "key")
  /\ UNCHANGED <<opened, preview, storeVars, key, ghosts>>

SetKey(h) ==
  /\ At(h, "key")
  /\ key' = [key EXCEPT ![handler[h].group][handler[h].topic] = handler[h].conv]
  /\ Goes(h, "publish")
  /\ UNCHANGED <<threads, preview, storeVars, ghosts>>

\* publishTelegram, for the text and each attachment; the queue does the rest.
Forward(h) ==
  /\ At(h, "publish")
  /\ LET g == handler[h].group  t == handler[h].topic
     IN /\ forwarded' = forwarded \cup {<<g, t>>}
        /\ crossed' = (crossed \/ \E o \in Convs : t \in TopicIds /\ madeFor[g][t] = o /\ o # handler[h].conv)
  /\ Ends(h)
  /\ UNCHANGED <<threads, preview, storeVars, key, madeFor>>

\* An error, the victim of a deadlock, or the end of the process; a transaction that
\* was open is rolled back.
StopHandler(h) ==
  /\ ~At(h, "free")
  /\ handler' = [k \in Handlers |-> IF k = h THEN FreeHandler ELSE [handler[k] EXCEPT !.before = @ \ {h}]]
  /\ UNCHANGED <<threads, preview, storeVars, key, ghosts>>

\* TELEGRAM_ACTIVE_TTL, two hours.
KeyExpires(g, t) ==
  /\ key[g][t] # NoConv
  /\ key' = [key EXCEPT ![g][t] = NoConv]
  /\ UNCHANGED <<threads, preview, storeVars, handler, ghosts>>

-----------------------------------------------------------------------------
\* generateStoreSetupUrl and "/start token" in a group before the token expires, or
\* the owner names the group himself.  Bound: no way back to a group that was left for another.
LinkGroup(g) ==
  /\ linked \subseteq {g} \/ g \notin linked
  /\ group' = g /\ linked' = linked \cup {g}
  /\ UNCHANGED <<threads, preview, key, handler, ghosts>>

UnlinkGroup ==
  /\ group # NoGroup /\ group' = NoGroup
  /\ UNCHANGED <<threads, preview, linked, key, handler, ghosts>>

Handle(h) ==
  \/ \E c \in Convs : Receive(h, c)
  \/ \E g \in Groups, t \in TopicIds : ReceiveReply(h, g, t)
  \/ InsertMessage(h) \/ CommitMessage(h) \/ CreateTopic(h) \/ SaveTopic(h)
  \/ SetKey(h) \/ Forward(h) \/ StopHandler(h)

ConvNext ==
  \/ \E h \in Handlers : Handle(h)
  \/ \E c \in Convs : OpenConversation(c)
  \/ \E g \in Groups : LinkGroup(g) \/ \E t \in TopicIds : KeyExpires(g, t)
  \/ UnlinkGroup

-----------------------------------------------------------------------------
ConvTypeOK ==
  /\ opened \subseteq Convs
  /\ topic \in [Convs -> {NoTopic} \cup TopicIds]
  /\ preview \in [Convs -> BOOLEAN]
  /\ group \in Groups \cup {NoGroup} /\ linked \subseteq Groups
  /\ key \in [Groups -> [TopicIds -> Convs \cup {NoConv}]]
  /\ handler \in [Handlers -> Handling]
  /\ madeFor \in [Groups -> [TopicIds -> Convs \cup {NoConv}]]
  /\ forwarded \subseteq Groups \X TopicIds
  /\ crossed \in BOOLEAN

\* While the store stays with one group, messages of a conversation appear in its own
\* topics only, and what the staff answer there is stored in that conversation.  The
\* topic of a conversation survives a change of group, where the same number may be
\* another customer's topic.
TopicsKeptApart == Cardinality(linked) <= 1 => ~crossed

\* An answer to a forwarded message finds its conversation, with or without the key;
\* only a topic that lost its place to another one, created at the same time for the
\* same conversation, stops working when its key expires, or all do when the store
\* has left the group.
AnswersFindTheirWay ==
  Cardinality(linked) <= 1 =>
    \A g \in Groups, t \in TopicIds :
       <<g, t>> \in forwarded /\ Named(g, t) = {} =>
          group # g \/ topic[madeFor[g][t]] # t

\* The preview of a conversation shows its newest message, although the two writes of a
\* message may be interleaved with those of others.
PreviewIsNewest == \A c \in Convs : preview[c]
=============================================================================
