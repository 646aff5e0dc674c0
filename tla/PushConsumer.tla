---------------------------- MODULE PushConsumer ----------------------------
(***************************************************************************)
(* One message queue and the push consumers of one group that share it in  *)
(* clustering mode: pulling, the process queue, concurrent consumption     *)
(* with messages sent back, the client's offset table, the move of the     *)
(* queue from client to client in a rebalance, and the offset the broker   *)
(* keeps for the group.                                                    *)
(*                                                                         *)
(* Every rebalance creates a new ProcessQueue; tasks and pulls of a        *)
(* dropped one may still be under way.  Commits are one-way calls handled  *)
(* by a pool of threads: they arrive in any order, or never.               *)
(*                                                                         *)
(* Left out: orderly consumption (module QueueLock), broadcasting, pausing *)
(* a consumer, resetting offsets by an administrator, and the shutdown of  *)
(* a client, which is a persist followed by what a crash does.             *)
(*                                                                         *)
(* Bounds: MaxOffset messages, MaxChanges changes of the allocation and    *)
(* failures, MaxQueues process queues at the same time.                    *)
(***************************************************************************)
EXTENDS Integers, FiniteSets

CONSTANTS Clients,
          NoClient,      \* not a client
          Oldest,        \* the smallest offset in the queue
          Unmatched,     \* offsets whose tag the group did not subscribe to
          PullBatch,     \* pullBatchSize
          ConsumeBatch,  \* consumeMessageBatchMaxSize
          PullThreshold, \* pullThresholdForQueue
          MaxSpan,       \* consumeConcurrentlyMaxSpan
          FromLast,      \* CONSUME_FROM_LAST_OFFSET, else ..._FIRST_OFFSET
          MaxOffset,     \* bound: the end of the queue
          MaxChanges,    \* bound: changes of the allocation and failures
          MaxQueues      \* bound: process queues that exist at the same time

ASSUME ConsumerAssumption ==
    /\ NoClient \notin Clients
    /\ Oldest \in Nat /\ MaxOffset \in Nat /\ Oldest <= MaxOffset
    /\ Unmatched \subseteq 0 .. MaxOffset
    /\ PullBatch \in Nat \ {0} /\ ConsumeBatch \in Nat \ {0}
    /\ PullThreshold \in Nat /\ MaxSpan \in Nat
    /\ FromLast \in BOOLEAN
    /\ MaxChanges \in Nat /\ MaxQueues \in Nat \ {0}

VARIABLES
    maxOffset,    \* getMaxOffsetInQuque
    committed,    \* ConsumerOffsetManager.offsetTable, None when absent
    persisted,    \* the same in consumerOffset.json
    commits,      \* offsets on their way to the broker
    allocated,    \* the client that the allocation gives the queue to
    owner, dropped, msgTreeMap, queueOffsetMax, nextOffset, \* of each of them
    pull,         \* where its PullRequest is
    tasks,        \* the ConsumeRequests
    processQueueTable, \* per client, the process queue of the queue or 0
    offsetTable,       \* per client, RemoteBrokerOffsetStore.offsetTable
    rebalance,         \* per client, where its rebalance thread is
    changes,           \* counter for the bound
    done               \* history: offsets consumed or sent back

brokerVars == <<maxOffset, committed, persisted, commits>>
queueVars == <<owner, dropped, msgTreeMap, queueOffsetMax, nextOffset>>
clientVars == <<processQueueTable, offsetTable, rebalance>>
boundVars == <<allocated, changes>>
vars == <<brokerVars, queueVars, pull, tasks, clientVars, boundVars, done>>

None == -1
Offsets == 0 .. MaxOffset
Ids == 1 .. MaxQueues

First(S) == CHOOSE m \in S : \A n \in S : m <= n
Last(S) == CHOOSE m \in S : \A n \in S : n <= m
Greater(m, n) == IF m < n THEN n ELSE m

Init ==
    /\ maxOffset = Oldest
    /\ committed = None /\ persisted = None /\ commits = {}
    /\ allocated \in Clients
    /\ owner = [g \in Ids |-> NoClient]
    /\ dropped = [g \in Ids |-> FALSE]
    /\ msgTreeMap = [g \in Ids |-> {}]
    /\ queueOffsetMax = [g \in Ids |-> 0]
    /\ nextOffset = [g \in Ids |-> 0]
    /\ pull = [g \in Ids |-> "gone"]
    /\ tasks = {}
    /\ processQueueTable = [c \in Clients |-> 0]
    /\ offsetTable = [c \in Clients |-> None]
    /\ rebalance = [c \in Clients |-> [pc |-> "idle", offset |-> None]]
    /\ changes = 0 /\ done = {}

-----------------------------------------------------------------------------
(* The broker: messages arrive, commits are applied in whatever order they *)
(* are handled, the offsets are written to a file from time to time.       *)

Arrive ==
    /\ maxOffset < MaxOffset
    /\ maxOffset' = maxOffset + 1
    /\ UNCHANGED <<committed, persisted, commits, queueVars, pull, tasks, clientVars,
                   boundVars, done>>

\* A one-way call; of equal offsets under way one is kept.
Send(v) == commits' = commits \cup {v}

\* ConsumerOffsetManager.commitOffset overwrites, also with a smaller offset.
CommitOffset(v) ==
    /\ v \in commits
    /\ commits' = commits \ {v}
    /\ committed' = v
    /\ UNCHANGED <<maxOffset, persisted, queueVars, pull, tasks, clientVars,
                   boundVars, done>>

LoseCommit(v) ==
    /\ v \in commits /\ changes < MaxChanges
    /\ commits' = commits \ {v}
    /\ changes' = changes + 1
    /\ UNCHANGED <<maxOffset, committed, persisted, queueVars, pull, tasks,
                   clientVars, allocated, done>>

BrokerPersist ==
    /\ changes < MaxChanges /\ persisted # committed
    /\ persisted' = committed
    /\ UNCHANGED <<maxOffset, committed, commits, queueVars, pull, tasks, clientVars,
                   boundVars, done>>

\* The broker comes back with the offsets of the file; what was on its way
\* to it is lost and the pulls it held end with an exception.
BrokerRestart ==
    /\ changes < MaxChanges
    /\ changes' = changes + 1
    /\ committed' = persisted
    /\ commits' = {}
    /\ pull' = [g \in Ids |-> IF pull[g] = "sent"
                              THEN "ready" ELSE pull[g]]
    /\ UNCHANGED <<maxOffset, persisted, queueVars, tasks, clientVars, allocated,
                   done>>

-----------------------------------------------------------------------------
(* Pulling: one PullRequest per process queue.                             *)

MsgCount(g) == Cardinality(msgTreeMap[g])

\* ProcessQueue.getMaxSpan
Span(g) ==
    IF msgTreeMap[g] = {} THEN 0 ELSE Last(msgTreeMap[g]) - First(msgTreeMap[g])

\* Flow control only delays; the request of a dropped queue ends.  The offset
\* to commit travels along with the request, and the broker stores it after it
\* has answered.
PullMessage(g) ==
    /\ pull[g] = "ready" /\ ~dropped[g]
    /\ MsgCount(g) <= PullThreshold /\ Span(g) <= MaxSpan
    /\ pull' = [pull EXCEPT ![g] = "sent"]
    /\ IF offsetTable[owner[g]] > 0 THEN Send(offsetTable[owner[g]])
                                    ELSE UNCHANGED commits
    /\ UNCHANGED <<maxOffset, committed, persisted, queueVars, tasks, clientVars,
                   boundVars, done>>

\* Nobody reads a dropped queue whose pull has ended: its content is forgotten.
Forget(g) ==
    /\ pull' = [pull EXCEPT ![g] = "gone"]
    /\ msgTreeMap' = [msgTreeMap EXCEPT ![g] = {}]
    /\ queueOffsetMax' = [queueOffsetMax EXCEPT ![g] = 0]
    /\ nextOffset' = [nextOffset EXCEPT ![g] = 0]

PullDropped(g) ==
    /\ pull[g] = "ready" /\ dropped[g]
    /\ Forget(g)
    /\ UNCHANGED <<brokerVars, owner, dropped, tasks, clientVars, boundVars, done>>

\* Mutant of PullException: the PullRequest is lost.
PullExceptionEnds(g) ==
    /\ pull[g] = "sent"
    /\ changes < MaxChanges
    /\ changes' = changes + 1
    /\ pull' = [pull EXCEPT ![g] = "gone"]
    /\ UNCHANGED <<brokerVars, queueVars, tasks, clientVars, allocated, done>>

\* onException: the request or its answer is lost.
PullException(g) ==
    /\ pull[g] = "sent"
    /\ changes < MaxChanges
    /\ changes' = changes + 1
    /\ pull' = [pull EXCEPT ![g] = "ready"]
    /\ UNCHANGED <<brokerVars, queueVars, tasks, clientVars, allocated, done>>

\* DefaultMessageStore.getMessage: the offset up to which the queue is read,
\* and the messages found on the way.
Wanted(g) == { m \in nextOffset[g] .. maxOffset - 1 : m \notin Unmatched }

Found(g) == { m \in Wanted(g) : Cardinality({ n \in Wanted(g) : n < m }) < PullBatch }

ReadUpTo(g) == IF Wanted(g) = Found(g) THEN maxOffset ELSE First(Wanted(g) \ Found(g))

\* submitConsumeRequest cuts the messages into batches.
Batches(msgs) ==
    LET batch(m) == Cardinality({ n \in msgs : n < m }) \div ConsumeBatch
    IN { { m \in msgs : batch(m) = batch(first) } : first \in msgs }

NewTask(g, msgs) == [pq |-> g, msgs |-> msgs, pc |-> "queued", offset |-> None]

\* FOUND: the messages go into the process queue and to the executor.
OnFound(g) ==
    /\ pull[g] = "sent"
    /\ nextOffset[g] >= Oldest /\ Found(g) # {}
    /\ msgTreeMap' = [msgTreeMap EXCEPT ![g] = @ \cup Found(g)]
    /\ queueOffsetMax' = [queueOffsetMax EXCEPT ![g] = Last(Found(g))]
    /\ tasks' = tasks \cup { NewTask(g, msgs) : msgs \in Batches(Found(g)) }
    /\ nextOffset' = [nextOffset EXCEPT ![g] = ReadUpTo(g)]
    /\ pull' = [pull EXCEPT ![g] = "ready"]
    /\ UNCHANGED <<brokerVars, owner, dropped, clientVars, boundVars, done>>

\* Mutant of UpdateOffset: only an absent entry is set.
UpdateOffsetAbsent(c, v, increaseOnly) ==
    offsetTable' = [offsetTable EXCEPT ![c] =
        IF increaseOnly /\ @ # None THEN @ ELSE v]

\* RemoteBrokerOffsetStore.updateOffset
UpdateOffset(c, v, increaseOnly) ==
    offsetTable' = [offsetTable EXCEPT ![c] =
        IF increaseOnly THEN Greater(@, v) ELSE v]

\* NO_NEW_MSG and NO_MATCHED_MSG with correctTagsOffset
OnNothing(g) ==
    /\ pull[g] = "sent"
    /\ nextOffset[g] >= Oldest /\ Found(g) = {}
    /\ nextOffset' = [nextOffset EXCEPT ![g] = maxOffset]
    /\ IF MsgCount(g) = 0 THEN UpdateOffset(owner[g], maxOffset, TRUE)
                          ELSE UNCHANGED offsetTable
    /\ pull' = [pull EXCEPT ![g] = "ready"]
    /\ UNCHANGED <<brokerVars, owner, dropped, msgTreeMap, queueOffsetMax, tasks,
                   processQueueTable, rebalance, boundVars, done>>

\* OFFSET_ILLEGAL: the process queue is given up and a task for ten seconds
\* later scheduled, ...
OnOffsetIllegal(g) ==
    /\ pull[g] = "sent"
    /\ nextOffset[g] < Oldest
    /\ nextOffset' = [nextOffset EXCEPT ![g] = Oldest]
    /\ dropped' = [dropped EXCEPT ![g] = TRUE]
    /\ pull' = [pull EXCEPT ![g] = "fix"]
    /\ UNCHANGED <<brokerVars, owner, msgTreeMap, queueOffsetMax, tasks,
                   clientVars, boundVars, done>>

\* ... which sets and commits the offset ...
FixOffset(g) ==
    /\ pull[g] = "fix"
    /\ UpdateOffset(owner[g], nextOffset[g], FALSE)
    /\ Send(nextOffset[g])
    /\ pull' = [pull EXCEPT ![g] = "remove"]
    /\ UNCHANGED <<maxOffset, committed, persisted, queueVars, tasks,
                   processQueueTable, rebalance, boundVars, done>>

\* ... and removes the process queue that the client has by then.
RemoveProcessQueue(g) ==
    LET c == owner[g]
        h == processQueueTable[c]
    IN
    /\ pull[g] = "remove"
    /\ Forget(g)
    /\ IF h = 0
         THEN UNCHANGED <<dropped, processQueueTable, offsetTable, commits>>
         ELSE /\ dropped' = [dropped EXCEPT ![h] = TRUE]
              /\ processQueueTable' = [processQueueTable EXCEPT ![c] = 0]
              /\ offsetTable' = [offsetTable EXCEPT ![c] = None]
              /\ IF offsetTable[c] = None THEN UNCHANGED commits
                                          ELSE Send(offsetTable[c])
    /\ UNCHANGED <<maxOffset, committed, persisted, owner, tasks, rebalance,
                   boundVars, done>>

-----------------------------------------------------------------------------
(* ConsumeMessageConcurrentlyService: the tasks of the executor.           *)

Become(t, u) == tasks' = (tasks \ {t}) \cup {u}

\* The task of a queue that is dropped ends.
Skip(t) ==
    /\ t.pc = "queued" /\ dropped[t.pq]
    /\ tasks' = tasks \ {t}
    /\ UNCHANGED <<brokerVars, queueVars, pull, clientVars, boundVars, done>>

\* Mutant of RemoveResult: the offset after the messages just finished.
RemoveResultOwn(g, msgs) ==
    IF msgTreeMap[g] = {} \/ msgs = {} THEN None ELSE Last(msgs) + 1

\* ProcessQueue.removeMessage: the first offset still in the process queue, or
\* the one after the last that came in.
RemoveResult(g, msgs) ==
    IF msgTreeMap[g] = {} THEN None
    ELSE IF msgTreeMap[g] \subseteq msgs THEN queueOffsetMax[g] + 1
    ELSE First(msgTreeMap[g] \ msgs)

RemoveMessage(t, msgs) ==
    msgTreeMap' = [msgTreeMap EXCEPT ![t.pq] = @ \ msgs]

\* What becomes of a task whose messages are removed: the offset is still to
\* be put into the table.
Updating(t, msgs) ==
    IF RemoveResult(t.pq, msgs) = None THEN {}
    ELSE {[t EXCEPT !.pc = "update", !.msgs = msgs,
                    !.offset = RemoveResult(t.pq, msgs)]}

\* Mutant of Later: messages that could not be sent back are not tried again.
LaterNever(t, failed) == {}

\* submitConsumeRequestLater
Later(t, failed) ==
    IF failed = {} THEN {} ELSE {[t EXCEPT !.pc = "later", !.msgs = failed]}

\* What the listener leaves when it acknowledges the messages below n.
Rejected(t, n) == { m \in t.msgs : m >= n }

\* Mutant of Consume: messages that could not be sent back are forgotten.
ConsumeOnce(t) ==
    /\ t.pc = "queued"
    /\ \E n \in 0 .. MaxOffset : \E failed \in SUBSET Rejected(t, n) :
          /\ ~dropped[t.pq]
          /\ failed # {} => changes < MaxChanges
          /\ changes' = IF failed = {} THEN changes ELSE changes + 1
          /\ done' = done \cup (t.msgs \ failed)
          /\ RemoveMessage(t, t.msgs)
          /\ tasks' = (tasks \ {t}) \cup Updating(t, t.msgs)
    /\ UNCHANGED <<brokerVars, owner, dropped, queueOffsetMax, nextOffset, pull,
                   clientVars, allocated>>

\* The listener has consumed the messages below n: all, some or, with
\* RECONSUME_LATER, none.  processConsumeResult sends the others back; those for
\* which that fails are consumed again five seconds later, the rest leaves the
\* process queue.  (A queue dropped from here on is noticed by nobody, so that
\* these steps are one.)
Consume(t) ==
    /\ t.pc = "queued" /\ ~dropped[t.pq]
    /\ \E n \in 0 .. MaxOffset : \E failed \in SUBSET Rejected(t, n) :
          /\ failed # {} => changes < MaxChanges
          /\ changes' = IF failed = {} THEN changes ELSE changes + 1
          /\ done' = done \cup (t.msgs \ failed)
          /\ RemoveMessage(t, t.msgs \ failed)
          /\ tasks' = (tasks \ {t}) \cup Updating(t, t.msgs \ failed)
                         \cup Later(t, failed)
    /\ UNCHANGED <<brokerVars, owner, dropped, queueOffsetMax, nextOffset, pull,
                   clientVars, allocated>>

\* The queue was dropped while the listener had the messages.
ConsumeDropped(t) ==
    /\ t.pc = "queued" /\ dropped[t.pq]
    /\ \E n \in 0 .. MaxOffset : done' = done \cup (t.msgs \ Rejected(t, n))
    /\ tasks' = tasks \ {t}
    /\ UNCHANGED <<brokerVars, queueVars, pull, clientVars, boundVars>>

Resubmit(t) ==
    /\ t.pc = "later"
    /\ Become(t, [t EXCEPT !.pc = "queued"])
    /\ UNCHANGED <<brokerVars, queueVars, pull, clientVars, boundVars, done>>

\* By now the queue may be dropped, and its offset removed from the table.
Update(t) ==
    /\ t.pc = "update"
    /\ UpdateOffset(owner[t.pq], t.offset, TRUE)
    /\ tasks' = tasks \ {t}
    /\ UNCHANGED <<brokerVars, queueVars, pull, processQueueTable, rebalance,
                   boundVars, done>>

-----------------------------------------------------------------------------
(* Periodic persisting, and the rebalance of each client.                  *)

\* RemoteBrokerOffsetStore.persistAll: for the queues the client has.
PersistAll(c) ==
    /\ processQueueTable[c] # 0
    /\ offsetTable[c] # None
    /\ Send(offsetTable[c])
    /\ UNCHANGED <<maxOffset, committed, persisted, queueVars, pull, tasks,
                   clientVars, boundVars, done>>

\* A client that has other queues only drops what it kept for this one.
PersistOthers(c) ==
    /\ processQueueTable[c] = 0
    /\ offsetTable[c] # None
    /\ offsetTable' = [offsetTable EXCEPT ![c] = None]
    /\ UNCHANGED <<brokerVars, queueVars, pull, tasks, processQueueTable, rebalance,
                   boundVars, done>>

\* A client joins or leaves: the allocation changes.
Move(c) ==
    /\ changes < MaxChanges /\ c # allocated
    /\ allocated' = c
    /\ changes' = changes + 1
    /\ UNCHANGED <<brokerVars, queueVars, pull, tasks, clientVars, done>>

\* updateProcessQueueTableInRebalance drops a queue that is no longer the
\* client's ...
Drop(c) ==
    /\ rebalance[c].pc = "idle" /\ processQueueTable[c] # 0
    /\ allocated # c
    /\ dropped' = [dropped EXCEPT ![processQueueTable[c]] = TRUE]
    /\ rebalance' = [rebalance EXCEPT ![c].pc = "persist"]
    /\ UNCHANGED <<brokerVars, owner, msgTreeMap, queueOffsetMax, nextOffset,
                   pull, tasks, processQueueTable, offsetTable, boundVars, done>>

\* ... or whose pull has not come back for too long.
DropExpired(c) ==
    /\ rebalance[c].pc = "idle" /\ processQueueTable[c] # 0
    /\ allocated = c /\ changes < MaxChanges
    /\ pull[processQueueTable[c]] # "ready"
    /\ changes' = changes + 1
    /\ dropped' = [dropped EXCEPT ![processQueueTable[c]] = TRUE]
    /\ rebalance' = [rebalance EXCEPT ![c].pc = "persist"]
    /\ UNCHANGED <<brokerVars, owner, msgTreeMap, queueOffsetMax, nextOffset,
                   pull, tasks, processQueueTable, offsetTable, allocated, done>>

\* removeUnnecessaryMessageQueue: persist, ...
DropPersist(c) ==
    /\ rebalance[c].pc = "persist"
    /\ IF offsetTable[c] = None THEN UNCHANGED commits ELSE Send(offsetTable[c])
    /\ rebalance' = [rebalance EXCEPT ![c].pc = "remove"]
    /\ UNCHANGED <<maxOffset, committed, persisted, queueVars, pull, tasks,
                   processQueueTable, offsetTable, boundVars, done>>

\* ... removeOffset, and the entry goes.
DropRemove(c) ==
    /\ rebalance[c].pc = "remove"
    /\ offsetTable' = [offsetTable EXCEPT ![c] = None]
    /\ processQueueTable' = [processQueueTable EXCEPT ![c] = 0]
    /\ rebalance' = [rebalance EXCEPT ![c].pc = "idle"]
    /\ UNCHANGED <<brokerVars, queueVars, pull, tasks, boundVars, done>>

\* queryConsumerOffset: a group without an offset is told 0 when the queue is
\* young and still in memory, and otherwise that there is none.
QueryConsumerOffset ==
    IF committed # None THEN {committed}
    ELSE IF Oldest = 0 THEN {0, None}
    ELSE {None}

\* computePullFromWhere asks the broker ...
Fetch(c) ==
    /\ rebalance[c].pc = "idle" /\ processQueueTable[c] = 0
    /\ allocated = c
    /\ \E v \in QueryConsumerOffset :
          rebalance' = [rebalance EXCEPT ![c] = [pc |-> "add", offset |-> v]]
    /\ UNCHANGED <<brokerVars, queueVars, pull, tasks, processQueueTable,
                   offsetTable, boundVars, done>>

PullFromWhere(v) ==
    IF v # None THEN v ELSE IF FromLast THEN maxOffset ELSE 0

\* Process queues that nothing refers to any more.
Unused == { g \in Ids :
    /\ pull[g] = "gone"
    /\ \A t \in tasks : t.pq # g
    /\ \A c \in Clients : processQueueTable[c] # g }

\* ... and a new process queue begins there.
Add(c) ==
    LET v == rebalance[c].offset
        g == First(Unused)
    IN
    /\ rebalance[c].pc = "add"
    /\ Unused # {}
    /\ IF v = None THEN UNCHANGED offsetTable ELSE UpdateOffset(c, v, FALSE)
    /\ owner' = [owner EXCEPT ![g] = c]
    /\ dropped' = [dropped EXCEPT ![g] = FALSE]
    /\ msgTreeMap' = [msgTreeMap EXCEPT ![g] = {}]
    /\ queueOffsetMax' = [queueOffsetMax EXCEPT ![g] = 0]
    /\ nextOffset' = [nextOffset EXCEPT ![g] = PullFromWhere(v)]
    /\ pull' = [pull EXCEPT ![g] = "ready"]
    /\ processQueueTable' = [processQueueTable EXCEPT ![c] = g]
    /\ rebalance' = [rebalance EXCEPT ![c] = [pc |-> "idle", offset |-> None]]
    /\ UNCHANGED <<brokerVars, tasks, boundVars, done>>

\* A client dies and is started again: all it had in memory is lost.
Crash(c) ==
    /\ changes < MaxChanges
    /\ changes' = changes + 1
    /\ tasks' = { t \in tasks : owner[t.pq] # c }
    /\ dropped' = [g \in Ids |-> dropped[g] \/ owner[g] = c]
    /\ msgTreeMap' = [g \in Ids |-> IF owner[g] = c THEN {} ELSE msgTreeMap[g]]
    /\ queueOffsetMax' = [g \in Ids |-> IF owner[g] = c THEN 0 ELSE queueOffsetMax[g]]
    /\ nextOffset' = [g \in Ids |-> IF owner[g] = c THEN 0 ELSE nextOffset[g]]
    /\ pull' = [g \in Ids |-> IF owner[g] = c THEN "gone" ELSE pull[g]]
    /\ processQueueTable' = [processQueueTable EXCEPT ![c] = 0]
    /\ offsetTable' = [offsetTable EXCEPT ![c] = None]
    /\ rebalance' = [rebalance EXCEPT ![c] = [pc |-> "idle", offset |-> None]]
    /\ UNCHANGED <<brokerVars, owner, allocated, done>>

-----------------------------------------------------------------------------
PullStep(g) ==
    \/ PullMessage(g) \/ PullDropped(g)
    \/ OnFound(g) \/ OnNothing(g) \/ OnOffsetIllegal(g)
    \/ FixOffset(g) \/ RemoveProcessQueue(g)

TaskStep(t) ==
    Skip(t) \/ Consume(t) \/ ConsumeDropped(t) \/ Resubmit(t) \/ Update(t)

RebalanceStep(c) == Drop(c) \/ DropPersist(c) \/ DropRemove(c) \/ Fetch(c) \/ Add(c)

Next ==
    \/ Arrive \/ BrokerPersist \/ BrokerRestart
    \/ \E v \in Offsets : CommitOffset(v) \/ LoseCommit(v)
    \/ \E g \in Ids : PullStep(g) \/ PullException(g)
    \/ \E t \in tasks : TaskStep(t)
    \/ \E c \in Clients :
          \/ PersistAll(c) \/ PersistOthers(c) \/ Move(c) \/ RebalanceStep(c)
          \/ DropExpired(c) \/ Crash(c)

Spec == Init /\ [][Next]_vars

\* Every thread keeps running and the listener returns; a task takes finitely
\* many steps, so it is enough that some task goes on.
FairSpec ==
    /\ Spec
    /\ WF_vars(\E v \in Offsets : CommitOffset(v))
    /\ WF_vars(\E t \in tasks : TaskStep(t))
    /\ \A g \in Ids : WF_vars(PullStep(g))
    /\ \A c \in Clients : WF_vars(RebalanceStep(c)) /\ WF_vars(PersistAll(c))

-----------------------------------------------------------------------------
(* Properties                                                              *)

Tasks == [pq : Ids, msgs : SUBSET Offsets, pc : {"queued", "later", "update"},
          offset : Offsets \cup {None}]
RebalanceState == [pc : {"idle", "persist", "remove", "add"}, offset : Offsets \cup {None}]

TypeOK ==
    /\ maxOffset \in Offsets
    /\ committed \in Offsets \cup {None} /\ persisted \in Offsets \cup {None}
    /\ commits \subseteq Offsets
    /\ allocated \in Clients
    /\ owner \in [Ids -> Clients \cup {NoClient}]
    /\ dropped \in [Ids -> BOOLEAN]
    /\ msgTreeMap \in [Ids -> SUBSET Offsets]
    /\ queueOffsetMax \in [Ids -> Offsets] /\ nextOffset \in [Ids -> Offsets]
    /\ pull \in [Ids -> {"ready", "sent", "fix", "remove", "gone"}]
    /\ tasks \subseteq Tasks
    /\ processQueueTable \in [Clients -> Ids \cup {0}]
    /\ offsetTable \in [Clients -> Offsets \cup {None}]
    /\ rebalance \in [Clients -> RebalanceState]
    /\ changes \in 0 .. MaxChanges
    /\ done \subseteq Offsets

\* Offsets nobody has to work on: consumed, sent back, filtered, deleted.
Finished == done \cup Unmatched \cup 0 .. Oldest - 1

Safe(v) == \A m \in 0 .. v - 1 : m \in Finished

\* Whatever offset is kept anywhere for the group (on the broker, in its file,
\* on the way to it, in a client's table or in the hands of a late task), no
\* message below it is unfinished: wherever a client goes on, nothing is
\* skipped.
NothingSkipped ==
    /\ Safe(committed) /\ Safe(persisted)
    /\ \A v \in commits : Safe(v)
    /\ \A c \in Clients : Safe(offsetTable[c])
    /\ \A t \in tasks : Safe(t.offset)

\* Every message in a process queue that is not dropped is in the hands of a
\* task that has still to finish it.
NoneStranded ==
    /\ TypeOK
    /\ \A g \in Ids : ~dropped[g] =>
          \A m \in msgTreeMap[g] :
             \E t \in tasks : t.pq = g /\ m \in t.msgs /\ t.pc # "update"

Group == INSTANCE ConsumerGroup WITH finished <- Finished

\* The clients together are the consumer group of module ConsumerGroup.
ImplementsGroup == Group!Spec

\* Every message is finished in the end, although clients crash and the
\* queue moves between them.
AllConsumed == \A m \in Oldest .. MaxOffset - 1 :
    m < maxOffset ~> m \in Finished

\* The group's offset on the broker reaches the end of a queue that gets no
\* more messages and stays there: no stale commit is the last.
LagCleared == (maxOffset = MaxOffset) ~> [](committed = MaxOffset)

-----------------------------------------------------------------------------
(* The inductive invariant of the proofs; it needs ~FromLast.              *)

\* The offsets that may be kept for the group.
Kept == { v \in Offsets \cup {None} : v <= maxOffset /\ Safe(v) }

\* NothingSkipped, for the offsets that a rebalance has fetched too.
KeptInv ==
    /\ committed \in Kept /\ persisted \in Kept
    /\ commits \subseteq Kept
    /\ \A c \in Clients : offsetTable[c] \in Kept /\ rebalance[c].offset \in Kept
    /\ \A t \in tasks : t.offset \in Kept /\ t.msgs \subseteq 0 .. maxOffset - 1

\* What a process queue has pulled and does not hold any more is finished, and
\* it holds nothing but what it has pulled.
Pulled(g) ==
    /\ nextOffset[g] <= maxOffset
    /\ msgTreeMap[g] \subseteq 0 .. nextOffset[g] - 1
    /\ \A m \in 0 .. nextOffset[g] - 1 : m \in Finished \cup msgTreeMap[g]
    /\ msgTreeMap[g] # {} => queueOffsetMax[g] < nextOffset[g]
    /\ pull[g] = "fix" => nextOffset[g] = Oldest

QueueInv == \A g \in Ids : Pulled(g)

\* Process queues at work, and tasks, belong to a client.
OwnerInv ==
    /\ \A g \in Ids : pull[g] # "gone" => owner[g] \in Clients
    /\ \A t \in tasks : owner[t.pq] \in Clients

ConsumerInv == NoneStranded /\ KeptInv /\ QueueInv /\ OwnerInv /\ Oldest <= maxOffset

=============================================================================
