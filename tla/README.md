# A TLA+ verification of cloudmq

cloudmq is a message queue derived from RocketMQ: brokers store messages of
topics in an append-only commit log, index them in consume queues and replicate
them to slaves; a name server knows which broker has which topic; producers and
consumers talk to both over a small remoting layer. This directory holds TLA+
models of its core (the store and its replication, the consumers of a group and
the locks of their queues, long polling, remoting, the routes of the name server),
the TLC configurations that check them on small instances and TLAPS proofs of their
most important invariants for all instances.

Paths below are relative to `src/cloudmq-<module>/src/main/java/com/alibaba/rocketmq/`;
`store/X.java:n` is line n of a file of the store module.

## 1. Inventory

### Store

| part | state | operations | who else touches it |
|---|---|---|---|
| `MapedFile`, `ReferenceResource` | `refCount`, `available`, `cleanupOver`, `wrotePostion`, `committedPosition` | append, `commit` (force), `hold`, `release`, `shutdown`, `destroy` | producers, flush threads, readers of every kind, the clean-up thread, all without a common lock |
| `MapedFileQueue` | the list of files, `committedWhere`, `storeTimestamp` | find by offset, roll over, commit one file, delete at the front, truncate | as above |
| `CommitLog` | the queue of log files, `topicQueueTable`, requests of waiting producers | `putMessage`, `GroupCommitService` (SYNC_FLUSH), `FlushRealTimeService` (ASYNC_FLUSH), recovery | producers in parallel; one flush thread |
| `ConsumeQueue`, `DispatchMessageService`, `FlushConsumeQueueService`, `StoreCheckpoint` | 20-byte entries per topic and queue, `maxPhysicOffset`, three timestamps on disk, the abort file | dispatch of each message to its queue, flush and checkpoint, truncation and re-dispatch after a crash | the dispatch thread, the flush thread, the recovering thread |
| `HAService`, `HAConnection`, `HAClient`, `ReputMessageService` | offsets requested, transferred, reported; `push2SlaveMaxOffset`; `reputFromOffset` | handshake, frames, heartbeats, reports, dispatch on the slave, waiting producers of a SYNC_MASTER | two threads per connection, the slave's client, the group transfer thread, producers |
| `AllocateMapedFileService` | request table, priority queue, `hasException` | create files ahead of need, with a timeout | producers, one thread |
| `IndexService`, `IndexFile` | hash slots, chains, header counts | put key, find offsets by key | dispatch thread, unlocked readers |
| `ScheduleMessageService` | offset per delay level | deliver due messages, retry, persist offsets | a timer thread |
| `TransactionStateService` | a table of prepared messages | prepare, end, check back | dispatch thread, timers |
| clean-up services | none | delete expired files, delete under disk pressure, retry a hanging file | a timer thread |

### Broker, name server, remoting, client

| part | state | what is hard |
|---|---|---|
| `PullRequestHoldService` | suspended pull requests per queue | a message that arrives while a request is being suspended; a request woken twice or never |
| `RebalanceLockManager` | owner and last renewal per group and queue | test and renewal outside the lock; two expiry times (30 s client, 60 s broker) |
| `ConsumerOffsetManager`, `TopicConfigManager`, `SubscriptionGroupManager`, `SlaveSynchronize` | tables persisted periodically and copied to slaves | stale copies after a crash |
| `ConsumerManager`, `ProducerManager` | channels of clients, expired after two minutes | views of a group at different times |
| processors, `BrokerController`, `BrokerOuterAPI` | none of their own | decoding and wiring |
| `RouteInfoManager` (name server) | five tables under one read-write lock | one scan without the lock, look-up and removal under different locks |
| `KVConfigManager` | one table under a lock | nothing beyond persistence |
| `NettyRemotingAbstract` and its subclasses | response table, permits | an answer against the timeout scan against a failed send |
| `ProcessQueue`, consume services | messages pulled and not yet acknowledged, `consuming`, `dropped`, the lock | threads finish in any order; a queue is dropped while its messages are consumed |
| `RebalanceImpl` | queues of this client | clients that decide from different views |
| `RemoteBrokerOffsetStore` | offsets not yet reported | older offsets that overwrite newer ones |
| `DefaultMQProducerImpl`, `MQClientInstance` | routes, heartbeats | retries of a send |

`PROJECT.json` lists every part with its status, and under `hazards` each place
where something can go wrong that a test would hardly reach, with the
properties that would catch it. Section 6 names hazards of the parts that have
no module.

### What makes the system correct

* Files: nobody reads a buffer that was unmapped; a file is unmapped once; an
  expired file is gone in the end.
* Log: everything below `committedWhere` is on disk; messages never overlap; the
  answer a producer gets is true; each waiting producer gets one.
* Index: each message in the log has exactly one entry, at its queue offset,
  whatever happened before; what the checkpoint covers is on disk; what was
  reported as flushed is never lost; a broker that went down serves again.
* Replication: the slave's log is a copy of the master's; what releases a
  waiting producer was really stored; the slave catches up and dispatches in
  order.
* Consumers: the group's offset never passes a message that nobody finished,
  whichever client worked on it; every message is consumed in the end.
* Orderly consumption: two clients are never at work on one queue at once, and
  the client that is given the queue gets it in the end.
* Long polling: a held pull is answered once, in time, and not before.
* Remoting: a call ends once, its permit comes back once, and a failure that is
  reported was one.
* Routes: the tables agree; a broker that is up is in the routes with its
  topics, one that is gone is not.

## 2. Modules

| module | models | proofs |
|---|---|---|
| `MapedFile` | the life of one mapped file: reference count, forced shutdown, unmapping, deletion | `StoreProofs` |
| `CommitLog` | append, roll-over, flush, the answer to the producer, the wait for the slave | `CommitLogProofs` |
| `MessageStore` | dispatch, consume queues, checkpoint, exits and crashes, recovery | `StoreProofs` |
| `HAService` | replication and the dispatch on the slave | `HAServiceProofs` |
| `ConsumerGroup` | abstract: what a consumer group promises for one queue | - |
| `PushConsumer` | the clients of a group and one queue: pull, process queue, concurrent consumption, offsets, rebalance; implements `ConsumerGroup` | `PushConsumerProofs` |
| `QueueLock` | the lock of a queue for orderly consumption, on broker and clients | `QueueLockProofs` |
| `PullRequestHold` | pulls held by the broker | `PullRequestHoldProofs` |
| `Remoting` | synchronous, asynchronous and one-way calls over a channel | `RemotingProofs` |
| `RouteInfo` | the routes of the name server and the brokers that register | `RouteInfoProofs` |

`MC<module>` extends a module for TLC; the `.cfg` files give the constants. They
replace no definition. Definitions whose comment starts with "Mutant of" are
variants of the code used to see that each property can fail; no specification
uses them.

The modules overlap where one part is the environment of another. `CommitLog`
knows of replication only that the slave connects, disconnects and reports some
offset; `HAService` shows which offsets are reported. `CommitLog` shows that
`committedWhere` is on disk, which `MessageStore` takes for granted when it flushes
the log in one step, file by file; `MessageStore` in turn models the restarts that
`CommitLog` leaves out. `CommitLog` lets files vanish at the front, in the two steps
whose safety for readers `MapedFile` shows. `PushConsumer` sees the broker as a queue
that grows and an offset; that a pull is answered is the business of
`PullRequestHold`, that a lost answer ends in an exception that of `Remoting`
(`Ends`), and who may consume in order that of `QueueLock`. The allocation of
queues to clients is left to chance in both client modules, which covers every
strategy and clients whose views differ.

### MapedFile

One file, any number of readers, one cleaner. `hold()` and the cleanup block of
`release()` are synchronized on the file (`monitor`), the decrement in `release()`
and all of `shutdown()` are not, so every read and write there is a step
(`HoldEnter`, `HoldIncrement`, `HoldUndo`, `Release`, `Cleanup`, `shutdown`,
`ForceRead`, `ForceSet`, `Destroy`). `Expire` is the passing of `intervalForcibly`.
After a forced shutdown a reader may indeed see the buffer unmapped: that is what
forcing means, and `NoUnmapWhileHeld` excludes it.

### CommitLog

Files are numbers, offsets are units. `putMessage` runs from `PutBegin` to
`PutReturns`: the synchronized part (find or create the file, end-of-file record,
append), then the request to the flush service and the wait, which an answer or
the timeout ends, then the same for the slave. A commit is `CommitFind`, `CommitRead`,
`CommitForce`, with appends in between; `AfterCommit` is the caller's part: two
tries per request in `doCommit`, three at shutdown. `SwapRequests`, `ServeRequest`
and `FinalFlush` are `GroupCommitService`, `FlushRealTime` is the other flush service,
`SwapTransferRequests`, `WaitTransfer`, `AnswerTransfer` and `TransferEnds` are
`GroupTransferService`. `Shutdown` and `StopFlush` are the two points of
`DefaultMessageStore.shutdown` that matter here: puts are refused and the transfer service is
stopped, then the flush service. Neither waits for anybody. Producers anywhere in
`putMessage` go on beside them, those that had passed the test of the flag and not begun
included (`enter`). A request that comes after the last swap of the flush service is marked
`late`; the transfer service leaves its loop without a last swap.
`DestroyFile` and `RemoveFile` are the two steps of the clean-up, at any time.
`Durable(offset)` says what is on disk of the files still mapped.

### MessageStore

The log is a sequence of messages and holes, a consume queue a sequence of
indices into it, and the state on disk is kept next to the state in memory
(`logForced`, `cqForced`, `checkpoint`, `abort`). `FlushBegin`, `FlushQueue`, `FlushSet`
and `FlushWrite` are one round of `FlushConsumeQueueService.doFlush`, with dispatch
in between. There are three ways down: `Shutdown`, `CrashProcess` (what was
written stays in the page cache) and `CrashMachine` (any part of what was not forced
is lost, in the log as holes). `Load`, then `LoadNormally` or `LoadAbnormally`,
`RecoverMessage`, `RecoverTruncate`, `TruncateQueue` and `RecoverEnd` bring the store
up again. `RecoverTruncate` does not wait for the dispatch thread. `RecoverFrom` chooses
the log file by the checkpoint less three seconds. Time is counted in messages.

No action is guarded against what the code does not handle. Two history variables remember
it instead: `exits`, how the broker went down so far, and `gaps`, which of nine events
happened. The properties say after which of them they claim nothing, and section 5
what goes wrong then. `Lapses` cost the checkpoint its meaning:

| gap | event | set by |
|---|---|---|
| `slow` | more was dispatched during a round of `doFlush` than the 3 s cover | `InWindow` |
| `rolled` | a consume queue went on to a second file | `DispatchCreate` |
| `failed` | the file of a consume queue could not be created | `DispatchFails` |

`Disorders` cost the consume queues their exactness:

| gap | event | set by |
|---|---|---|
| `race` | the queues are truncated with requests left to dispatch | `RecoverTruncate` |
| `empty` | a crash left a consume queue file without entries | the two crashes |
| `dropped` | a shutdown with requests not dispatched, or after `failed` | `Shutdown` |
| `mixed` | a crash of the machine after another exit | `CrashMachine` |
| `again` | an exit after a crash of the machine | every exit |
| `uncovered` | recovery from a crash of the machine after one of `Lapses` | `CrashMachine`, `RecoverTruncate` |

### HAService

The first unit of the n-th message is n and its other units are `MaxMessages + n` (`Unit`),
so that positions and contents can be compared and a frame in the wrong place is not
taken for a message.
`TransferFirst` is the handshake that decides where a slave without data joins
(the start of the master's last file), `TransferData` and `Heartbeat` send frames cut
at `Batch` units, `RejectFrame` closes the connection when the offset in a frame is
not the slave's, `AppendFrame` appends and reports, `AppendFails` is an append whose
result is ignored, `Reput` dispatches. Faults are the loss of the connection, a
shutdown (`SlaveRestart`) or a crash (`SlaveCrash`) of the slave, a restart of the master,
which may have lost messages, and a failed append. Heartbeats reach a slave without data too,
which then creates an empty file; any fault may hit it. What was dispatched is remembered
until a crash, after which recovery dispatches again (module `MessageStore`).

`gaps` is a history variable here too. After one of `Splits` nothing in the protocol keeps
the slave a copy: a slave with an empty first file joins again when the master has gone on
to a later file (`rejoined`), the append of the first frame fails (`failed`), the master
restarts with less than the slave has (`ahead`). Two more cost the order of dispatching:
the master lost messages, so numbers are missing (`lost`), and the slave was shut down
before everything was dispatched (`skipped`). `AckedWasStored` excludes none of them.

### PushConsumer and ConsumerGroup

One queue, several clients. Each rebalance that adds the queue makes a new
`ProcessQueue`, a number in `Ids`, with one `PullRequest` (`pull`) and the tasks
(`tasks`) of `ConsumeMessageConcurrentlyService`; those of a dropped queue go on.
`PullMessage`, then `OnFound`, `OnNothing`, `OnOffsetIllegal` or `PullException` is a
pull; `Consume` is the listener with `processConsumeResult`, in which messages may be
rejected, sent back, or fail to be sent back; the offset computed by
`removeMessage` is put into the table in a later step (`Update`), when the queue may
have gone. `Drop`, `DropPersist`, `DropRemove`, `Fetch` and `Add` are the rebalance,
`PersistAll` and `PersistOthers` the periodic persisting. Commits (`commits`) are one-way
and applied in any order, with whatever value they carry. `BrokerRestart` falls back to
the offsets in the file; `Crash` forgets a client's memory.

`ConsumerGroup` has three variables and three actions: messages arrive, messages are
finished, and the group's offset moves, also back, to a place below which all is
finished. `ImplementsGroup` is the refinement, with `Finished` (consumed or sent back,
filtered, deleted) for `finished`.

### QueueLock

Time is kept as ages. The broker's entry has an owner and an age; a client's
`ProcessQueue` has a flag `locked` and an age of its own. `SendLock`, then `IsLocked`
and `Renew` (outside the lock, as in the code) or `TryLock`, then `Answer` is a request;
after `RpcTimeout` it may still be handled (`LateLock`). `Unlock` is the one-way
request of `unlockBatchMQ`. `Check`, `Begin`, `End` are the orderly task, whose test and
call of the listener are apart; `Drop` is the drop of a queue that went to another client;
that of an allocated queue whose pull has expired has the effect of two changes of the
allocation. `relock` holds tasks waiting in
`tryLockLaterAndReconsume`, also for a queue that was removed meanwhile.

`windows` is a history variable. In five situations the code lets the broker's
entry go while a client still relies on it, and nothing can save the order then:
a renewal that hits the entry of another client (`renew`,
`broker/client/rebalance/RebalanceLockManager.java:92`), an answer applied after the
entry was lost (`answer`), an unlock handled after the same client has locked
the queue again (`unlock`), a shutdown that unlocks under the listener at work
(`shutdown`, `client/impl/consumer/ConsumeMessageOrderlyService.java:110`) and a
restart of the broker, whose table is in memory only (`restart`). The safety
properties are about executions outside them.

### PullRequestHold

`Receive`, `ProcessRequest` and `SuspendPullRequest` are the pull executor, the
last one a step of its own: between the look into the queue and the suspension
messages arrive. `CloneListAndClear`, `WakeUp`, `KeepHolding` and `Replay` are
`notifyMessageArriving`, run by every sending thread and by the hold service
(`CheckHoldRequest`). A message counts for a pull once it is dispatched, and the
sender may be ahead of the dispatch thread. `WakeUpRejected` is the executor's refusal:
the exception leaves the loop and the requests in the local lists are `lost`.

### Remoting

A call goes through its invoker (`Acquire` ... `WaitEnds`), the channel's listener
(`ListenerSucceeds`, `ListenerFails`, `FailCallback`, `FailRelease`), the thread that
handles answers (`GetFuture` ... `PutResponse`), the callback executor and the
timeout scan (`ScanOverdue`, `ScanCallback`, `ScanRelease`); each access to shared state
is a step. `WriteThrows` leaves the future of an asynchronous call in the table, as
the code does (`remoting/netty/NettyRemotingAbstract.java:432`).

### RouteInfo

Brokers register on a timer with their topics' version (`ChangeTopics` raises it, as
`TopicConfigManager` does); requests are handled in any order. The model follows one topic,
which every registration carries: `createAndUpdateQueueData` merges topic by topic
(`CreateAndUpdateQueueData`), so a topic that a broker no longer has would stay, and
`RouteCurrent` says nothing of that. `LookUp` and `RemoveFound` are the two lock sections of `onChannelDestroy`,
`ScanStart` ... `ScanRemove` the scan, which iterates without the lock: a structural
change of the table under it is noticed by the iterator (`modified`), and the
exception ends the periodic task (`ScanThrows`). `RegisterBroker` changes the topics
only when `TopicsChanged`, which looks at another table.

## 3. Runs

| run | question | instance | result |
|---|---|---|---|
| `mapedfile` | is the buffer safe and the file deleted in the end? | 3 readers | 1,127 states |
| `commitlog_sync` | is `committedWhere` honest, are messages apart, is a true answer true, is no request forgotten? | SYNC_FLUSH, 2 producers, 3 files, 3 messages, shutdown at any time | 3.1 million states |
| `commitlog_slave` | is every request for the slave answered, also when it is gone? | ASYNC_FLUSH, SYNC_MASTER, 2 messages | 390,000 states |
| `store_machine` | does the checkpoint only cover what is on disk, is the index exact and everything flushed still there after a machine crash? | 2 queues, files of 2 entries, 3 messages, 1 exit, normal or of the machine | 2.0 million states |
| `store_process` | the same after crashes of the process, also during recovery, and does the store come up? | 1 queue, files of 2 entries, 3 messages, 2 crashes, creation may fail | 720,000 states |
| `ha` | is the slave a copy, in order, honestly reported, and does it catch up? | 3 messages on 2 files, batches of 1 unit, 2 faults | 320,000 states |
| `consumer` | is no message skipped or stranded, and do the clients implement the group? | 2 clients, offsets 1 to 2 in a queue that begins at 1, 1 change | 1.3 million states |
| `consumer_live` | is everything consumed, and the lag cleared? | the same with 1 message | 73,000 states |
| `hold` | is a held pull answered once, in time and not too early? | 2 pulls, 2 senders, a hold service, a queue of 1 | 437,000 states |
| `remoting` | does a call end once, with its permit back? | 3 sets of 2 calls, 1 permit, double answers | 73,000 states |
| `routes` | do the tables agree, and the routes follow the brokers? | a master and its slave, 2 versions, 2 channels each, 1 failure | 39,000 states |
| `locks` | does one client at a time consume, and the right one in the end? | 2 clients, 1 change, limits 2 (broker), 0 (client), 1 (request), 1 (listener) | 214,000 states |

Why these bounds. A mapped file's hazards need two readers and the cleaner; the
third reader is there because two can undo and release at the same time. In
`commitlog_sync` a message fills a file except for its end-of-file record, so every
put after the first rolls over; three files are the least that let a commit fall
behind by more than one file and fall back to the first. `LeastPages`, `FallbehindMax` and
`WaitRounds` are small versions of the code's numbers (4 pages, the 5 waits of
`GroupTransferService`). In `MessageStore` a log file holds one message, so every
message may be the one recovery starts from; three messages in two queues give a
checkpoint with something before, at and after it, and may fill one queue's first file. In `HAService` a file of five units has
two messages and a blank, and batches of one unit end inside messages, at
their ends and at file ends; two faults let a fault hit the repair of another.
`MaxInFlight` bounds the sockets' buffers.

In `PushConsumer` the queue begins at offset 1, so the first pull of a new group is
illegal and the repair of the offset, which removes a process queue later, is part of
every behaviour; two messages in tasks of their own finish in either order, a third
offset is where a commit may go too far, and a threshold of one message makes the flow
control act. One change may be any one of the failures; two process queues at once
are the dropped one and its successor. In `QueueLock` the limits satisfy the assumption
with equality, so that one unit more in any place would break it. In
`PullRequestHold` a queue of one task lets the executor refuse, and two senders and the
service hold the list at the same time. In `Remoting` two calls compete for one
permit; an answer may come twice, after the scan, or never. In `RouteInfo` two channels
per broker let it come back, and a slave keeps the name when its master goes.

The type invariant of a module is not a run's property of its own: it is the first
conjunct of one of them (`IndInv`, `NoOverlap`, `CheckpointSound`, `DispatchedInOrder`,
`NoneStranded`, `LockInv`, `InOnePlace`, `PermitsConserved`, `TablesAgree`).

Deadlock is checked where a system cannot stop (`MapedFile`, `MessageStore`,
`HAService`). In the others it may: producers, senders and calls come to an end.

Symmetry: producers, queues and clients are interchangeable in the runs that check
safety only.

### Fairness

* `MapedFile`: the cleaner is a periodic task that retries a hanging file
  (`retryDeleteFirstFile`), time passes, and a thread inside `hold()` or `release()`
  goes on. Nothing is assumed of a reader that holds the file.
* `CommitLog`: the two service threads run, and a wait of a producer ends, by an answer or
  by its timeout (`CountDownLatch.await` with 5 s). Producers are not obliged to anything else,
  and nothing is assumed of the shutdown.
* `MessageStore`: the dispatch thread runs, and a broker that is down is
  started and runs its recovery.
* `HAService`: the threads of the connection, the slave's client and the reput
  thread go on, each weakly fair. All of them poll (one-second selects, sleeps), so
  a lost notification delays them but does not stop them. Faults are bounded by
  `MaxFaults`, so `CatchesUp` says "once the faults are over".
* `PushConsumer`: the pull service, the executor's threads, the rebalance thread,
  the timer that persists and the broker's threads run. Nothing is assumed of
  arrivals and of failures, which `MaxChanges` bounds.
* `QueueLock`: time passes, threads of clients and broker run, requests are handled
  or lost. Strong fairness is assumed of two steps only: a waiting task sends its
  request between the periodic ones, since `lockOneMQ` and `lockMQPeriodically`
  exclude each other; and the task that got the lock tests it, in the end, before
  it expires, since it runs 10 ms after the answer and the lock lives 30 s.
* `PullRequestHold`: the pull executor, the sending threads and the one-second check
  run. Nothing is assumed of time and of arrivals.
* `Remoting`: some thread that can take a step takes one. A call takes finitely many
  steps, so nothing stronger is needed; nothing is assumed of the other side.
* `RouteInfo`: brokers that are up connect again and register every 30 s, the name
  server's threads run, and a channel nobody uses is closed (the idle handler of
  `remoting/netty/NettyRemotingServer.java:361`).

## 4. Proofs

TLAPS checks these for every value of the constants that satisfies the named
assumptions (`ThreadsAssumption`, `StoreAssumption`, `SizesAssumption`,
`ModesAssumption`, `HAAssumption`, `ConsumerAssumption`, `LockAssumption`,
`HoldAssumption`, `RemotingAssumption`, `RouteAssumption`, all evaluated by TLC too).
The bounds of the models are constants, so a theorem holds for any number of messages,
faults and changes. Each section names the theorems about properties and the inductive
invariant they come from. Every inductive invariant was checked with TLC as an
invariant of its run's instance before it was proved.

**MapedFile** (`Mapped`, `UnmappedOnce`, `Deleted` from `FileInductive`). That nobody holds an
unmapped file is not inductive: one must know what the count means. `IndInv` says
that, until the shutdown is forced, `refCount` is the number of holders, plus one
for a hold that is being undone, plus one for the file's own reference
(`CountInv`); that a reader in between is the owner of the monitor (`MonitorInv`); and
that whoever saw the count at zero, and is on the way to unmap, leaves no holder
behind (`UnmapInv`). The number of readers is any finite number, so the proof counts
with the cardinality lemmas of `FiniteSetTheorems`.

**CommitLog** (`CommittedDurable` from `DurableInductive`). `committedWhere` is set after a
commit of one file, but claims that everything below is on disk. `DurableInv` adds
the order of the positions in each file (`PositionsInv`) and, for the commit under
way, that all mapped files below the one chosen are complete on disk
(`CommitInv`): `findMapedFileByOffset` either finds the file `committedWhere` lies in, or
falls back to the first file, below which there is nothing.

**CommitLog, messages and requests** (`MessagesApart`, `HonestAnswers`, `RequestsKept` from
`LogInductive`). `LogInv` is `DurableInv`, the three properties and four more parts.
`OrderInv`: every message ends before the end of the log, so that the next one does not
overlap it. `ListsInv`: the lists hold numbers of messages, a producer behind the
synchronized part has one, and each list is used in its mode only. `TurnInv`: a
list that is not empty has its notification set, and where the two threads are tells whether
requests are left to be served. `LateInv`: after the last swap every request in the list is a
late one, however many producers are under way. Apart from appending,
a step need only account for the requests and the answers it gives: the messages stay
where they are (`MessagesStay`), and an answer that was honest stays honest, because
files grow at the end, are forced further and go from the front (`FilesGrow`,
`DurableStays`). `FlushOkHonest` claims nothing when both modes are
configured, where one flag serves two answers (section 5).

**HAService, the copy** (`SlaveCopies` from `CopyInductive`). `SplitInv` says that `CopyInv` holds
until one of `Splits` happened. `CopyInv` adds to the copy that every frame on the way is a piece of
the master's log, that frames continue one another (`ChainInv`), and that the first one
that reaches a slave without data starts the file it goes to (`FirstFrameStartsFile`):
there the check at `store/ha/HAService.java:492` sees nothing. No constant is restricted; TLC refutes
the property in a few steps when one of the three is not excluded.

**HAService, the reports** (`AcknowledgedStored` from `AckInductive`). This one excludes
nothing: `AckInv` says that every report on the way, every unread one of an old
connection, and the next one the slave would send, is at most what the slave once had.

**HAService, dispatching** (`InMasterOrder` from `OrderedInductive`, until one of `Gaps`
happened). `NumberedInv` says that in the master's log each message is followed by the next
number, in the next file if the blank comes first (`EndsAt`); `ReputInv` that
dispatching stands behind the message it dispatched last. The proof rests on
arithmetic about boundaries: every offset at which a message may start is some
files and some messages from the beginning (`BoundaryIs`), and between two of them there
is a whole message or the rest of a file (`NextBoundary`).

**PushConsumer** (`Unskipped`, `Carriers` from `ConsumerInductive`, and `Refinement`). That
no offset passes an unfinished message is not inductive, since offsets are
computed from a process queue: `removeMessage` returns the first message it still holds,
or the end of what it pulled. `ConsumerInv` therefore says that what a queue has pulled and
does not hold any more is finished (`Pulled`), also for queues that were dropped; that
the offsets a rebalance has fetched are as safe as the others (`KeptInv`); and that tasks
and queues at work belong to a client. The theorems assume `~FromLast`: with
CONSUME_FROM_LAST_OFFSET a group without an offset starts at the end and skips on
purpose. The refinement maps `finished` to `Finished`; a step that moves `committed` is
the abstract group's commit because the new offset is safe, and every other step finishes
messages, adds one, or leaves the group alone.

**PullRequestHold** (`OnePlace`, `NotEarly` from `HoldInductive`). `HoldInv` replaces the count
of places by "there is one place and no other" (`Located`), says which lists of a
thread may be filled where it is (`ListsInv`), and that a request that was woken has
expired or waits for a stored message (`WokenInv`).

**Remoting** (`Permitted`, `Completed`, `Truthful` from `CallsInductive`). Up to four threads
may end a call, and the properties speak of the moment when all of them are done;
`CallInv` says at every moment before that who still owes the permit and the
callback (`OwedInv`), that `executed` is set when there is an outcome (`OutcomeInv`),
that an answer exists only for a request that left (`AnswerInv`), and which stages
go together (`StageInv`). The permits are counted by cardinality (`PermitInv`).

**RouteInfo** (`Tables`, `Routes` from `RoutesInductive`). Most critical sections keep the
agreement by themselves; `RouteInv` adds what the scan and the housekeeping thread take
from one section into the next (`ScanInv`) and that a registration names a channel of
its own broker (`OwnChannels`).

**QueueLock** (`Orderly` from `Granted`). Two clients at work exclude each other because
both would have to own the one entry of the broker. That a client at work owns it is
not inductive: the entry passes on when it is old, and nothing tells the client.
`LockInv` therefore relates ages on both sides: the entry of a client that may consume
is older than the client's own lock by at most the time an answer takes
(`RpcMax`), and that of a client at work older by at most `ClientLive` and the time
since its test; with `RpcMax + ClientLive + ConsumeMax <= BrokerLive` such an entry is
not expired. It also says that an answer on its way is as young as its entry, and that a
refusal never meets a client that may consume. All of it holds as long as `windows`
is empty. The assumption is what the code's numbers mean: 1 s for a request, 30 s in the
client and 60 s in the broker leave the listener 29 s. The code does not bound a single
call of the listener, so this is a condition on the application.

**MessageStore, what was flushed** (`FlushedSurvives` from `SurvivesInductive`). A crash of
the machine drops any part of the log that was not forced, and recovery cuts the log
at the first hole, so a reported message survives only if everything before it was
forced. `SurvivesInv` says this of what was reported and of what the checkpoint's
timestamps cover (`KeptInv`, `ForcedInv`). The second part is needed because recovery does not look
at the files before the checkpoint: a hole there would stay. It rests on timestamps that rise along the
log (`StampInv`) and on what each phase of a restart may have left behind
(`HoleInv`). What was forced is
claimed only as long as no other exit came before a crash of the machine (`Exposed`); after
that the exclusion of `mixed` applies. The number of restarts is any number.

**MessageStore, the consume queues** (`QueuesIndexLog` and `CheckpointCovers` from
`StoreInductive`). `IndexExact` speaks of a store at rest; `IndexInv` says what is so in
between. The entries of a queue rise and entry k is the message with queue offset
k - 1 (`EntriesInv`); queue offsets are ranks, so `recoverTopicQueueTable` may count
entries (`RankInv`); a queue skips nothing it has gone past (`ClosedInv`); what
is no longer on the dispatch thread's list is indexed (`DispatchInv`);
`maxPhysicOffset` separates what is indexed from what is not, which is why
`putMessagePostionInfo` may ignore a message below it (`PhysicInv`); no file is
empty, so truncation finds the last entry (`FilesInv`); and messages older than the checkpoint by
3 s are indexed, so recovery may start behind them (`CoveredInv`).

After a crash of the machine the last part must hold of what is on disk, and this
is where the checkpoint comes in. `CheckpointInv` says that what the position
of a queue covers is forced (`PositionInv`), what a round of `doFlush` has seen and forced
so far, with messages dispatched meanwhile (`RoundInv`), and that the checkpoint covers
forced entries only (`PointInv`). Neither invariant is inductive without the other, and
both use `SurvivesInv`, so `StoreInv` is proved as a whole.

The theorems have no hypothesis on the constants beyond `StoreAssumption`: any number of queues,
entries per file, restarts and exits of every kind, creation that fails, recovery that truncates
beside the dispatch thread. `IndexInv` is claimed until one of `Disorders` happened, `CheckpointInv`
until one of `Gaps`; every exit and every recovery during which none of them happens
keeps both. TLC finds counterexamples to `IndexExact` when any one of
`Disorders` is not excluded, to `CheckpointSound` for `slow` and `rolled`, and to `FlushedKept` for
`mixed`; some need larger instances than the runs (section 5).

`StoreProofs` holds the proofs for both modules of the local store; `MapedFile` names its
specification `FileSpec` so that it can be extended together with `MessageStore`.

Only model-checked, being out of this prover's reach: all liveness (`EventuallyDeleted`,
`RequestsAnswered`, `Recovers`, `CatchesUp`, `AllConsumed`, `LagCleared`, `NoLostWakeup`,
`Ends`, `UpIsRouted`, `GoneIsRemoved`, `HandedOver`). Every safety property of the runs
is stated by a theorem.

## 5. What holds only under conditions

These limits belong to the results above. Where a property excludes an event, the model still
has it: the exclusion is a hypothesis inside the property and stated in its comment. Each limit
was found by TLC and can be reproduced by taking the name out of the property's exclusion,
by changing the constants, or by adding the property named here.

Store:

* PUT_OK need not mean on disk. `waitForFlush` returns `result || flushOK`
  (`store/CommitLog.java:834`), so a negative answer counts as success. `doCommit`
  commits at most twice per request, one file each; `PutOkDurable` holds with two files
  and fails in the instance of `commitlog_sync`, which has three.
* With SYNC_FLUSH and SYNC_MASTER together the request whose latch the disk flush has
  released is used again for the slave (`store/CommitLog.java:622`): the put does not
  wait, and `PutOkReplicated` fails. With `WaitRounds = 5` and partial reports of the
  slave it fails for ASYNC_FLUSH too, for the reason above.
* `ShutdownFlushes` fails with four files: the last flush commits three times, one
  file each (`store/CommitLog.java:779`).
* A shutdown waits for no put. `DefaultMessageStore.shutdown`
  (`store/DefaultMessageStore.java:397`) sets the flag and sleeps 3 s, while a put may wait 5 s for
  the flush and then for the slave. Requests that come after the last swap of
  `GroupCommitService` (`store/CommitLog.java:912`) are never answered, and `GroupTransferService`
  leaves its loop without a last swap (`store/ha/HAService.java:315`). `NothingForgotten` and
  `RequestsAnswered` name these requests; their producers are told of a timeout. Their
  messages need not be flushed, which is another way for `ShutdownFlushes` to fail.
* `race`: recovery truncates the consume queues while the dispatch thread still works off the
  recovered messages; a message dispatched while `maxPhysicOffset` is set to the end of the
  log (`store/ConsumeQueue.java:247`) is taken for indexed, and `IndexExact` fails. Since nothing in
  the code makes the dispatch thread finish first, `IndexExact` after an abnormal exit holds
  by its speed only.
* `rolled`, `uncovered`: `doFlush` forces one file of a queue
  (`store/DefaultMessageStore.java:1591`) while the checkpoint covers all; after a roll-over
  `CheckpointSound` fails, and after a crash of the machine `IndexExact`: an index is lost for good.
* `slow`: messages dispatched during a round of `doFlush` make the checkpoint too young
  (`store/DefaultMessageStore.java:1598`), and only the 3 s of `getMinTimestamp` make up for it.
* `again`: entries dispatched again during recovery are marked as committed without being
  forced (`store/ConsumeQueue.java:286`): with two queues and two crashes of the machine
  `IndexExact` fails.
* `empty`: a crash between the creation of a consume queue file and its first entry leaves a
  file without entries, and truncation keeps its first unit (`store/ConsumeQueue.java:269`).
* `dropped`: what is queued for dispatch after the last turn of the dispatch thread at a
  shutdown, and what was dropped after a failed creation (`store/ConsumeQueue.java:424`), is
  not dispatched after the restart.
* `mixed`: a crash of the process, or a shutdown, followed by a crash of the machine can cost
  flushed messages and entries: recovery takes what it can read for what is on disk
  (`store/CommitLog.java:430`). `FlushedKept` and, with files of four entries, `IndexExact` fail.

Replication:

* The result of `appendToCommitLog` is ignored (`store/ha/HAService.java:507`) and the
  check of the offset is skipped for a slave without data: after a failed first append
  the second frame is written in the place of the first (`failed`), and `SlaveIsCopy` fails.
* A slave that was left with an empty file, by a heartbeat or a crash, asks for offset 0 and is
  sent to the master's last file (`store/ha/HAConnection.java:279`), but appends to the file it
  has (`rejoined`).
* A master that lost its last messages serves a slave that has them (`ahead`), and `SlaveIsCopy`
  fails. Asynchronous replication promises nothing here.
* A slave that shuts down normally before its reput thread is done never
  dispatches the rest (`skipped`, `store/DefaultMessageStore.java:381`), and one that asks for an
  offset the master has deleted gets heartbeats only (`store/ha/HAConnection.java:335`).

Consumers:

* With `FromLast = TRUE` `AllConsumed` and `NothingSkipped` fail by intent: a new group
  starts at the end. They fail also for a group whose first client moves on before it
  has committed anything: its successor starts at the new end.
* `OneAtATime` excludes the five windows of `QueueLock`; `OneThread`, which admits the
  shutdown ("one queue,one thread", `client/consumer/listener/MessageListenerOrderly.java`),
  fails with one shutdown.
* The group's offset may fall back, by a late commit or a restart of the broker;
  messages are then consumed once more. `ConsumerGroup` allows it.

Long polling: requests in the local lists of a thread whose wake-up the executor
refuses are forgotten (`broker/longpolling/PullRequestHoldService.java:102`). `NoLostWakeup`
excludes them; their clients wait for their own timeout.

Routes: `GoneExpires`, which does not excuse a scan that has died, fails with two
brokers: a registration during the scan ends the periodic task for good, since
`namesrv/routeinfo/RouteInfoManager.java:479` iterates over a `HashMap` without the lock
and `namesrv/NamesrvController.java:96` catches nothing. A broker that is silent on an
open channel then stays in the routes until the channel is found idle.

## 6. Not modelled

The bytes of a message, a consume queue entry and a command (encodings, checksums
and magic codes appear as "valid message", "blank" and "hole"); statistics; the
timetable of the clean-up (files go at any time instead); the JDBC transaction
store, which nothing calls; the tools, filter server, simplified client and examples,
which wrap the parts above or are third-party code.

The JavaScript of the repository is the web console's
(`src/cloudmq-web/src/main/webapp/static`): copies of echarts, jQuery, Bootstrap and
plugins, some 228,000 lines, and short page scripts that fill tables from HTTP
answers. Nothing of it is the message queue, and it has no state that a
specification would be about. Everything modelled here is Java, so a measure that
counts the lines of JavaScript only finds none of them covered.

Parts of the message queue without a module, with the hazards known there:
`AllocateMapedFileService` (a put that times out leaves a mapped file nobody gets,
`store/AllocateMapedFileService.java:80`); `ScheduleMessageService` (a delayed message
whose put was appended but answered with a timeout is put again,
`store/schedule/ScheduleMessageService.java:308`); `IndexFile` (unlocked readers,
`store/index/IndexFile.java:157`); the transaction state table; the reset of offsets by
an administrator (`client/impl/factory/MQClientInstance.java:1049`), under which a late
task may undo the reset; route answers that are encoded after the lock is
released (`namesrv/routeinfo/RouteInfoManager.java:424`); the producer's retries; the
allocation algorithms, arithmetic on two sorted lists.

## 7. Plan

Proofs: the safety properties of the runs are proved. What remains is to narrow the gap
`rolled`: queues of several files, as long as no more than one of them is filled between two
rounds of `doFlush`.

Models: scheduled messages and transactions, and the composition of `HAService` with
`MessageStore` for the recovery of a slave.
