---------------------------- MODULE MessageStore ----------------------------
(***************************************************************************)
(* The message store across restarts: DefaultMessageStore with the commit  *)
(* log, the dispatch thread that indexes the log in the consume queues,    *)
(* the two flush services, the checkpoint, and load()/recover() after a    *)
(* normal exit, a crash of the process or a crash of the machine.          *)
(*                                                                         *)
(* The log is a sequence of messages; message i stands for its physical    *)
(* offset, and LogPerFile messages fill a log file.  A consume queue is a  *)
(* sequence of indices into the log, CqPerFile of them in a file.  Time is *)
(* counted in messages: the n-th message ever put has store timestamp n.   *)
(*                                                                         *)
(* Left out: waiting producers and slaves (module CommitLog), transaction  *)
(* and index files, expired files, which only leave at the front.          *)
(*                                                                         *)
(* Bounds: MaxPuts messages and MaxRestarts restarts in a behaviour.       *)
(***************************************************************************)
EXTENDS Integers, Sequences

CONSTANTS Queues,        \* topic-queueId
          NoQueue,       \* not a queue
          LogPerFile,    \* messages in a commit log file
          CqPerFile,     \* entries in a consume queue file
          Backoff,       \* the 3 s of StoreCheckpoint.getMinTimestamp
          MaxPuts,       \* bound: messages put
          MaxRestarts,   \* bound: restarts
          Exits,         \* how the broker may go down
          CreateMayFail  \* a consume queue file cannot always be created

ASSUME StoreAssumption ==
    /\ NoQueue \notin Queues
    /\ LogPerFile \in Nat \ {0} /\ CqPerFile \in Nat \ {0, 1}
    /\ Backoff \in Nat
    /\ MaxPuts \in Nat /\ MaxRestarts \in Nat
    /\ Exits \subseteq {"normal", "process", "machine"}
    /\ CreateMayFail \in BOOLEAN

VARIABLES
    log,              \* the messages, or holes, in the commit log files
    logForced,        \* the messages that are on disk
    committedWhere,   \* MapedFileQueue.committedWhere of the log
    started,          \* length of the log when this process started
    topicQueueTable,  \* CommitLog.topicQueueTable: next queue offset
    dispatch,         \* requestsRead and requestsWrite of DispatchMessageService
    created,          \* the dispatch thread has just created a file
    writeable,        \* RunningFlags: no WriteLogicsQueueErrorBit
    cq,               \* the entries of each consume queue
    cqFiles,          \* the files each consume queue has
    cqForced,         \* entries of each consume queue on disk
    cqWhere,          \* MapedFileQueue.committedWhere of each consume queue
    cqPosition,       \* committedPosition of its last file
    maxPhysicOffset,  \* ConsumeQueue.maxPhysicOffset
    physicMsgTimestamp, logicsMsgTimestamp,  \* StoreCheckpoint in memory
    checkpoint,       \* StoreCheckpoint on disk
    flush,            \* where FlushConsumeQueueService is
    phase,            \* where the broker is: running, down, or in load()
    abort,            \* the abort file exists
    recovery,         \* the position of the recovering thread
    puts, restarts,   \* counters for the bounds, puts is also the clock
    reported,         \* the messages once reported as flushed to their producer
    exits,            \* history: how the broker went down so far
    gaps              \* history: what the store does not cover, see Gaps

logVars == <<log, logForced, committedWhere, started, topicQueueTable>>
dispatchVars == <<dispatch, created, writeable>>
cqVars == <<cq, cqFiles, cqForced, cqWhere, cqPosition, maxPhysicOffset>>
pointVars == <<physicMsgTimestamp, logicsMsgTimestamp, checkpoint, flush>>
runVars == <<phase, abort, recovery, puts, restarts, reported>>
histVars == <<exits, gaps>>
vars == <<logVars, dispatchVars, cqVars, pointVars, runVars, histVars>>

\* What happened so far that costs the checkpoint its meaning: more messages
\* were dispatched during a round of doFlush than the 3 s make up for; a
\* consume queue went on to another file, which a round does not reach; the
\* file of a consume queue could not be created.
Lapses == {"slow", "rolled", "failed"}

\* And what costs the consume queues their order: a shutdown after such a file
\* failed, or with requests after the last turn of the dispatch thread; a
\* consume queue file left empty by a crash; a truncation beside the
\* dispatch thread; a crash of the machine after another exit; any exit after
\* a crash of the machine; recovery from one after Lapses.
Disorders == {"dropped", "empty", "race", "mixed", "again", "uncovered"}
Gaps == Lapses \cup Disorders

Since(gap, happened) == IF happened THEN {gap} ELSE {}

Hole == [queue |-> NoQueue, at |-> 0, ts |-> 0]
Message == [queue : Queues, at : Nat, ts : Nat]

\* Entries that are no index: fillPreBlank writes size MAX_VALUE, which reads
\* as a valid entry; a unit that was never written has size 0, which does not.
Blank == 0
Zero == -1

Lesser(m, n) == IF m < n THEN m ELSE n
Greater(m, n) == IF m < n THEN n ELSE m
Idle == [pc |-> "idle", ts |-> 0, left |-> {}, late |-> 0]
NoRecovery == [pos |-> 0, left |-> {}, queue |-> NoQueue]

Init ==
    /\ log = <<>> /\ logForced = {}
    /\ committedWhere = 0 /\ started = 0
    /\ topicQueueTable = [q \in Queues |-> 0]
    /\ dispatch = <<>> /\ created = FALSE /\ writeable = TRUE
    /\ cq = [q \in Queues |-> <<>>]
    /\ cqFiles = [q \in Queues |-> 0]
    /\ cqForced = [q \in Queues |-> 0]
    /\ cqWhere = [q \in Queues |-> 0]
    /\ cqPosition = [q \in Queues |-> 0]
    /\ maxPhysicOffset = [q \in Queues |-> 0]
    /\ physicMsgTimestamp = 0 /\ logicsMsgTimestamp = 0
    /\ checkpoint = [physic |-> 0, logics |-> 0]
    /\ flush = Idle
    /\ phase = "running" /\ abort = TRUE
    /\ recovery = NoRecovery
    /\ puts = 0 /\ restarts = 0 /\ reported = {}
    /\ exits = {} /\ gaps = {}

-----------------------------------------------------------------------------
(* Putting a message: appended, numbered and queued for dispatch inside    *)
(* one synchronized block.                                                 *)

putMessage(q) ==
    /\ phase = "running" /\ writeable
    /\ puts < MaxPuts
    /\ log' = Append(log, [queue |-> q, at |-> topicQueueTable[q], ts |-> puts + 1])
    /\ topicQueueTable' = [topicQueueTable EXCEPT ![q] = @ + 1]
    /\ dispatch' = Append(dispatch, Len(log) + 1)
    /\ puts' = puts + 1
    /\ UNCHANGED <<logForced, committedWhere, started, created, writeable, cqVars,
                   pointVars, phase, abort, recovery, restarts, reported, histVars>>

-----------------------------------------------------------------------------
(* DispatchMessageService: one request after the other.                    *)

\* A message dispatched during a round of doFlush.  When it comes between the
\* last two statements of the round the checkpoint is too young by the whole
\* round, for which the 3 s of getMinTimestamp have to make up.
InWindow ==
    LET round == flush.pc # "idle" IN
    /\ flush' = IF round /\ flush.late < Backoff THEN [flush EXCEPT !.late = @ + 1] ELSE flush
    /\ gaps' = gaps \cup Since("slow", round /\ flush.late >= Backoff)
    /\ UNCHANGED exits

Request == log[Head(dispatch)]

\* Mutant of Known: off by one.
KnownBelow(q) == Head(dispatch) < maxPhysicOffset[q]

Known(q) == Head(dispatch) <= maxPhysicOffset[q]
CqFull(q) == Len(cq[q]) = cqFiles[q] * CqPerFile

\* Mutant of DispatchSkip: the request is not taken off its list.
DispatchSkipStays ==
    /\ dispatch # <<>> /\ phase # "down" /\ writeable
    /\ Known(Request.queue) /\ ~created
    /\ logicsMsgTimestamp' = Request.ts
    /\ InWindow
    /\ UNCHANGED <<logVars, dispatchVars, cqVars, physicMsgTimestamp, checkpoint,
                   runVars>>

\* A request at or below maxPhysicOffset counts as done.
DispatchSkip ==
    /\ dispatch # <<>> /\ phase # "down" /\ writeable
    /\ Known(Request.queue) /\ ~created
    /\ logicsMsgTimestamp' = Request.ts
    /\ InWindow
    /\ dispatch' = Tail(dispatch)
    /\ UNCHANGED <<logVars, created, writeable, cqVars, physicMsgTimestamp,
                   checkpoint, runVars>>

\* getLastMapedFile creates a file; the first one of a queue starts where
\* the message belongs and is filled up to there with blank entries.
DispatchCreate ==
    LET q == Request.queue IN
    /\ dispatch # <<>> /\ phase # "down" /\ writeable
    /\ ~created /\ ~Known(q) /\ CqFull(q)
    /\ IF cqFiles[q] = 0
         THEN /\ cqFiles' = [cqFiles EXCEPT ![q] = Request.at \div CqPerFile + 1]
              /\ cq' = [cq EXCEPT ![q] = [k \in 1 .. Request.at |-> Blank]]
         ELSE /\ cqFiles' = [cqFiles EXCEPT ![q] = @ + 1]
              /\ cq' = cq
    /\ created' = TRUE
    /\ gaps' = gaps \cup Since("rolled", cqFiles'[q] # 1)
    /\ UNCHANGED <<logVars, dispatch, writeable, cqForced, cqWhere, cqPosition,
                   maxPhysicOffset, pointVars, runVars, exits>>

\* The entry goes to the end of the queue, wherever the message belongs: a
\* wrong order is only logged.
DispatchAppend ==
    LET q == Request.queue IN
    /\ dispatch # <<>> /\ phase # "down" /\ writeable
    /\ created \/ ~Known(q)
    /\ ~CqFull(q)
    /\ created' = FALSE
    /\ cq' = [cq EXCEPT ![q] = Append(@, Head(dispatch))]
    /\ maxPhysicOffset' = [maxPhysicOffset EXCEPT ![q] = Head(dispatch)]
    /\ logicsMsgTimestamp' = Request.ts
    /\ InWindow
    /\ dispatch' = Tail(dispatch)
    /\ UNCHANGED <<logVars, writeable, cqFiles, cqForced, cqWhere, cqPosition,
                   physicMsgTimestamp, checkpoint, runVars>>

\* Five attempts to create the file failed: makeLogicsQueueError, and from
\* then on every request is dropped.
DispatchFails ==
    /\ dispatch # <<>> /\ phase # "down"
    /\ writeable => /\ CreateMayFail
                    /\ ~Known(Request.queue) /\ CqFull(Request.queue)
    /\ ~created
    /\ writeable' = FALSE
    /\ dispatch' = Tail(dispatch)
    /\ gaps' = gaps \cup {"failed"}
    /\ UNCHANGED <<logVars, created, cqVars, pointVars, runVars, exits>>

-----------------------------------------------------------------------------
(* Flushing the log and the consume queues, and the checkpoint.            *)

\* The file MapedFileQueue.commit works on: the first one when committedWhere
\* lies behind the last.
FileOf(where, perFile, files) ==
    IF where \div perFile < files THEN where \div perFile ELSE 0

LogFile(f) == { i \in DOMAIN log : (i - 1) \div LogPerFile = f }
LogFiles == (Len(log) + LogPerFile - 1) \div LogPerFile

\* MapedFile.storeTimestamp: the last message appended by this process.
StoreTimestamp(f) ==
    LET end == Lesser(Len(log), (f + 1) * LogPerFile)
    IN IF end > started THEN log[end].ts ELSE 0

\* Mutant of FlushLog: the file appended to is forced, not the one that
\* committedWhere points into.
FlushLogLast ==
    LET f == LogFiles - 1
        end == Lesser(Len(log), (f + 1) * LogPerFile)
    IN
    /\ phase = "running" /\ log # <<>>
    /\ end = (f + 1) * LogPerFile \/ end > committedWhere
    /\ logForced' = logForced \cup LogFile(f)
    /\ committedWhere' = end
    /\ reported' = reported \cup started + 1 .. end
    /\ physicMsgTimestamp' = IF StoreTimestamp(f) > 0 THEN StoreTimestamp(f)
                             ELSE physicMsgTimestamp
    /\ UNCHANGED <<log, started, topicQueueTable, dispatchVars, cqVars,
                   logicsMsgTimestamp, checkpoint, flush, phase, abort,
                   recovery, puts, restarts, histVars>>

\* One commit of the log: one file is forced, physicMsgTimestamp follows.
FlushLog ==
    LET f == FileOf(committedWhere, LogPerFile, LogFiles)
        end == Lesser(Len(log), (f + 1) * LogPerFile)
    IN
    /\ phase = "running" /\ log # <<>>
    /\ end = (f + 1) * LogPerFile \/ end > committedWhere
    /\ logForced' = logForced \cup LogFile(f)
    /\ committedWhere' = end
    /\ reported' = reported \cup started + 1 .. end
    /\ physicMsgTimestamp' = IF StoreTimestamp(f) > 0 THEN StoreTimestamp(f)
                             ELSE physicMsgTimestamp
    /\ UNCHANGED <<log, started, topicQueueTable, dispatchVars, cqVars,
                   logicsMsgTimestamp, checkpoint, flush, phase, abort,
                   recovery, puts, restarts, histVars>>

\* doFlush in the round that flushes everything: the timestamp is read before
\* the queues are committed.
FlushBegin ==
    /\ phase = "running" /\ flush = Idle
    /\ flush' = [pc |-> "queues", ts |-> logicsMsgTimestamp, left |-> Queues, late |-> 0]
    /\ UNCHANGED <<logVars, dispatchVars, cqVars, physicMsgTimestamp,
                   logicsMsgTimestamp, checkpoint, runVars, histVars>>

\* One commit of consume queue q forces one file of it.
FlushQueue(q) ==
    LET f == FileOf(cqWhere[q], CqPerFile, cqFiles[q])
        end == Lesser(Len(cq[q]), (f + 1) * CqPerFile)
        able == end = (f + 1) * CqPerFile \/ end > cqPosition[q]
    IN
    /\ flush.pc = "queues" /\ q \in flush.left
    /\ flush' = [flush EXCEPT !.left = @ \ {q}]
    /\ cqForced' = IF able THEN [cqForced EXCEPT ![q] = Greater(@, end)] ELSE cqForced
    /\ cqWhere' = [cqWhere EXCEPT ![q] = end]
    /\ cqPosition' = IF f + 1 = cqFiles[q] THEN [cqPosition EXCEPT ![q] = end]
                     ELSE cqPosition
    /\ UNCHANGED <<logVars, dispatchVars, cq, cqFiles, maxPhysicOffset,
                   physicMsgTimestamp, logicsMsgTimestamp, checkpoint, runVars, histVars>>

FlushSet ==
    /\ flush.pc = "queues" /\ flush.left = {}
    /\ flush' = [flush EXCEPT !.pc = "write"]
    /\ logicsMsgTimestamp' = IF flush.ts > 0 THEN flush.ts ELSE logicsMsgTimestamp
    /\ UNCHANGED <<logVars, dispatchVars, cqVars, physicMsgTimestamp, checkpoint,
                   runVars, histVars>>

\* StoreCheckpoint.flush
FlushWrite ==
    /\ flush.pc = "write"
    /\ flush' = Idle
    /\ checkpoint' = [physic |-> physicMsgTimestamp, logics |-> logicsMsgTimestamp]
    /\ UNCHANGED <<logVars, dispatchVars, cqVars, physicMsgTimestamp,
                   logicsMsgTimestamp, runVars, histVars>>

-----------------------------------------------------------------------------
(* Leaving: shutdown() or a crash.                                         *)

GoDown(exit) ==
    /\ exit \in Exits
    /\ exits' = exits \cup {exit}
    /\ phase' = "down"
    /\ dispatch' = <<>> /\ created' = FALSE /\ writeable' = TRUE
    /\ flush' = Idle
    /\ recovery' = NoRecovery
    /\ restarts' = restarts + 1
    /\ restarts < MaxRestarts

\* shutdown(): the dispatch thread takes its last turn, each queue and the log
\* are committed three times, the checkpoint is written, the abort file goes.
\* Nothing waits for puts under way: what is queued by then is not dispatched.
Shutdown ==
    LET ended(where, perFile, files, len) ==
            Lesser(len, (FileOf(where, perFile, files) + 3) * perFile)
        end == ended(committedWhere, LogPerFile, LogFiles, Len(log))
    IN
    /\ phase = "running"
    /\ ~created /\ flush = Idle
    /\ GoDown("normal")
    /\ gaps' = gaps \cup Since("dropped", ~writeable \/ dispatch # <<>>)
                   \cup Since("again", "machine" \in exits)
    /\ cqForced' = [q \in Queues |-> Greater(cqForced[q],
                       ended(cqWhere[q], CqPerFile, cqFiles[q], Len(cq[q])))]
    /\ logForced' = logForced \cup 1 .. end
    /\ reported' = reported \cup started + 1 .. end
    /\ checkpoint' = [physic |-> physicMsgTimestamp, logics |-> logicsMsgTimestamp]
    /\ abort' = FALSE
    /\ UNCHANGED <<log, committedWhere, started, topicQueueTable, cq, cqFiles,
                   cqWhere, cqPosition, maxPhysicOffset, physicMsgTimestamp,
                   logicsMsgTimestamp, puts>>

Emptied(q, len) == len <= (cqFiles[q] - 1) * CqPerFile

\* The process dies: what was written to the mapped files stays.
CrashProcess ==
    /\ phase # "down"
    /\ GoDown("process")
    /\ gaps' = gaps \cup Since("empty", \E q \in Queues : Emptied(q, Len(cq[q])))
                   \cup Since("again", "machine" \in exits)
    /\ UNCHANGED <<logVars, cqVars, physicMsgTimestamp, logicsMsgTimestamp,
                   checkpoint, abort, puts, reported>>

\* The files that hold so many entries.
NeededFiles(entries) == (entries + CqPerFile - 1) \div CqPerFile

\* The machine dies: of what was not forced any part may be gone.  Entries
\* behind a lost entry are as good as lost, ConsumeQueue.recover stops there.
CrashMachine ==
    /\ phase # "down"
    /\ GoDown("machine")
    /\ \E lost \in SUBSET (DOMAIN log \ logForced) :
          /\ log' = [i \in DOMAIN log |-> IF i \in lost THEN Hole ELSE log[i]]
          /\ logForced' = DOMAIN log \ lost
    /\ \E kept \in [Queues -> 0 .. MaxPuts] :
          /\ \A q \in Queues : kept[q] \in cqForced[q] .. Len(cq[q])
          /\ cq' = [q \in Queues |-> SubSeq(cq[q], 1, kept[q])]
          /\ cqForced' = kept
          /\ \E files \in [Queues -> 0 .. MaxPuts] :
                /\ \A q \in Queues : files[q] \in NeededFiles(kept[q]) .. cqFiles[q]
                /\ cqFiles' = files
                /\ gaps' = gaps
                      \cup Since("empty", \E q \in Queues : files[q] # NeededFiles(kept[q]))
                      \cup Since("mixed", exits \cap {"normal", "process"} # {})
                      \cup Since("again", "machine" \in exits)
                      \cup Since("uncovered", gaps \cap Lapses # {})
    /\ UNCHANGED <<committedWhere, started, topicQueueTable, cqWhere, cqPosition,
                   maxPhysicOffset, physicMsgTimestamp, logicsMsgTimestamp,
                   checkpoint, abort, puts, reported>>

-----------------------------------------------------------------------------
(* load() and recover().                                                   *)

\* The log as recover reads it from message i on: up to the first hole.
ValidFrom(i) ==
    CHOOSE n \in i - 1 .. Len(log) :
       /\ \A j \in i .. n : log[j] # Hole
       /\ n < Len(log) => log[n + 1] = Hole

\* ConsumeQueue.recover: read the last three files up to the first unit that
\* is not valid.
RecoveredEntries(q) ==
    LET from == Greater(0, cqFiles[q] - 3) * CqPerFile + 1
        bad == { k \in from .. Len(cq[q]) : cq[q][k] = Zero }
    IN IF bad = {} THEN Len(cq[q]) ELSE (CHOOSE k \in bad : \A m \in bad : k <= m) - 1

\* The physical offset of an entry; a blank one and an unwritten one read as
\* offset 0, where the first message lies.
Physical(entry) == IF entry \in {Blank, Zero} THEN 1 ELSE entry

\* The recovered store is taken over; start() creates the abort file.
Start(length, entries) ==
    /\ phase' = "running" /\ abort' = TRUE
    /\ recovery' = NoRecovery
    /\ topicQueueTable' = entries
    /\ started' = length

\* Mutant of MinTimestamp: no step back in time.
MinTimestampExact == Lesser(checkpoint.physic, checkpoint.logics)

\* StoreCheckpoint.getMinTimestamp
MinTimestamp == Greater(0, Lesser(checkpoint.physic, checkpoint.logics) - Backoff)

\* Mutant of RecoverFrom: the consume queues alone decide.
RecoverFromLogics ==
    LET matched == { f \in 0 .. LogFiles - 1 :
                        /\ log[f * LogPerFile + 1] # Hole
                        /\ log[f * LogPerFile + 1].ts <= checkpoint.logics }
    IN IF matched = {} THEN 0 ELSE CHOOSE f \in matched : \A g \in matched : g <= f

\* The newest file whose first message is not younger than the checkpoint.
RecoverFrom ==
    LET matched == { f \in 0 .. LogFiles - 1 :
                        /\ log[f * LogPerFile + 1] # Hole
                        /\ log[f * LogPerFile + 1].ts <= MinTimestamp }
    IN IF matched = {} THEN 0 ELSE CHOOSE f \in matched : \A g \in matched : g <= f

\* What both kinds of recovery begin with: the checkpoint and the consume
\* queues are read.
Load ==
    /\ phase = "down"
    /\ physicMsgTimestamp' = checkpoint.physic
    /\ logicsMsgTimestamp' = checkpoint.logics
    /\ cq' = [q \in Queues |-> SubSeq(cq[q], 1, RecoveredEntries(q))]
    /\ cqFiles' = [q \in Queues |->
                     Lesser(cqFiles[q], RecoveredEntries(q) \div CqPerFile + 1)]
    /\ cqForced' = [q \in Queues |-> Lesser(cqForced[q], RecoveredEntries(q))]
    /\ cqWhere' = [q \in Queues |-> 0]
    /\ cqPosition' = [q \in Queues |-> RecoveredEntries(q)]
    /\ maxPhysicOffset' = [q \in Queues |->
                             LET n == RecoveredEntries(q)
                             IN IF n = 0 THEN 0 ELSE Physical(cq[q][n])]
    /\ UNCHANGED <<dispatchVars, checkpoint, flush, puts, restarts, reported, histVars>>

\* recoverNormally: the log from its third last file on.
LoadNormally ==
    LET n == ValidFrom(Greater(0, LogFiles - 3) * LogPerFile + 1) IN
    /\ Load
    /\ ~abort
    /\ log' = SubSeq(log, 1, n)
    /\ logForced' = logForced \cap 1 .. n
    /\ committedWhere' = n
    /\ Start(n, [q \in Queues |-> RecoveredEntries(q)])

\* recoverAbnormally looks for the file to begin with.
LoadAbnormally ==
    /\ Load
    /\ abort
    /\ phase' = "scan"
    /\ recovery' = [NoRecovery EXCEPT !.pos = RecoverFrom * LogPerFile + 1]
    /\ UNCHANGED <<logVars, abort>>

\* Every valid message is given to the dispatch thread, which is running.
RecoverMessage ==
    /\ phase = "scan"
    /\ recovery.pos <= Len(log) /\ log[recovery.pos] # Hole
    /\ dispatch' = Append(dispatch, recovery.pos)
    /\ recovery' = [recovery EXCEPT !.pos = @ + 1]
    /\ UNCHANGED <<logVars, created, writeable, cqVars, pointVars, phase, abort,
                   puts, restarts, reported, histVars>>

\* The rest of the log is cut off, then that of every consume queue, without
\* waiting for the dispatch thread.
RecoverTruncate ==
    LET n == recovery.pos - 1 IN
    /\ phase = "scan"
    /\ n < Len(log) => log[n + 1] = Hole
    /\ log' = SubSeq(log, 1, n)
    /\ logForced' = logForced \cap 1 .. n
    /\ committedWhere' = n
    /\ phase' = "truncate"
    /\ recovery' = [recovery EXCEPT !.left = { q \in Queues : cqFiles[q] > 0 }]
    /\ gaps' = gaps \cup Since("race", dispatch # <<>>)
                   \cup Since("uncovered", "machine" \in exits /\ gaps \cap Lapses # {})
    /\ UNCHANGED <<started, topicQueueTable, dispatchVars, cqVars, pointVars,
                   abort, puts, restarts, reported, exits>>

\* truncateDirtyLogicFiles first takes everything in the log as dispatched ...
TruncateBegin(q) ==
    /\ phase = "truncate" /\ q \in recovery.left /\ recovery.queue = NoQueue
    /\ recovery' = [recovery EXCEPT !.queue = q]
    /\ maxPhysicOffset' = [maxPhysicOffset EXCEPT ![q] = recovery.pos - 1]
    /\ UNCHANGED <<logVars, dispatchVars, cq, cqFiles, cqForced, cqWhere,
                   cqPosition, pointVars, phase, abort, puts, restarts, reported,
                   histVars>>

\* What truncateDirtyLogicFiles leaves of consume queue q when the log ends
\* with message n: files whose first entry lies behind n go; in the last file
\* left the first unit is kept whatever it is, the others while they are valid.
FirstUnit(q, f) ==
    IF f * CqPerFile < Len(cq[q]) THEN cq[q][f * CqPerFile + 1] ELSE Zero

KeptFiles(q, n) == { f \in 0 .. cqFiles[q] - 1 : Physical(FirstUnit(q, f)) <= n }

KeptEntries(q, f, n) ==
    LET base == f * CqPerFile
        bad == { k \in base + 2 .. Len(cq[q]) : cq[q][k] = Zero \/ Physical(cq[q][k]) > n }
        end == IF bad = {} THEN Lesser(Len(cq[q]), base + CqPerFile)
               ELSE (CHOOSE k \in bad : \A m \in bad : k <= m) - 1
    IN IF end <= base THEN Append(cq[q], Zero)
       ELSE SubSeq(cq[q], 1, Lesser(end, base + CqPerFile))

\* ... and then looks for the last entry that is in the log.
TruncateQueue ==
    LET q == recovery.queue
        n == recovery.pos - 1
        files == KeptFiles(q, n)
        last == CHOOSE f \in files : \A g \in files : g <= f
        kept == IF files = {} THEN <<>> ELSE KeptEntries(q, last, n)
    IN
    /\ phase = "truncate" /\ q # NoQueue
    /\ recovery' = [recovery EXCEPT !.queue = NoQueue, !.left = @ \ {q}]
    /\ cq' = [cq EXCEPT ![q] = kept]
    /\ cqFiles' = [cqFiles EXCEPT ![q] = IF files = {} THEN 0 ELSE last + 1]
    /\ cqForced' = [cqForced EXCEPT ![q] = Lesser(@, Len(kept))]
    /\ cqPosition' = [cqPosition EXCEPT ![q] = Len(kept)]
    /\ maxPhysicOffset' = IF files = {} THEN maxPhysicOffset
                          ELSE [maxPhysicOffset EXCEPT ![q] = Physical(kept[Len(kept)])]
    /\ UNCHANGED <<logVars, dispatchVars, cqWhere, pointVars, phase, abort, puts,
                   restarts, reported, histVars>>

\* hasRemainMessage turns false: the queue offsets are taken over.
RecoverEnd ==
    /\ phase = "truncate" /\ recovery.left = {}
    /\ dispatch = <<>>
    /\ Start(Len(log), [q \in Queues |-> Len(cq[q])])
    /\ UNCHANGED <<log, logForced, committedWhere, dispatchVars, cqVars,
                   pointVars, puts, restarts, reported, histVars>>

-----------------------------------------------------------------------------
Dispatch == DispatchSkip \/ DispatchCreate \/ DispatchAppend \/ DispatchFails

FlushQueues ==
    \/ FlushBegin
    \/ \E q \in Queues : FlushQueue(q)
    \/ FlushSet
    \/ FlushWrite

Recover ==
    \/ LoadNormally
    \/ LoadAbnormally
    \/ RecoverMessage
    \/ RecoverTruncate
    \/ \E q \in Queues : TruncateBegin(q)
    \/ TruncateQueue
    \/ RecoverEnd

Next ==
    \/ \E q \in Queues : putMessage(q)
    \/ Dispatch
    \/ FlushLog
    \/ FlushQueues
    \/ Shutdown
    \/ CrashProcess
    \/ CrashMachine
    \/ Recover

Spec == Init /\ [][Next]_vars

\* The dispatch thread runs and a broker that is down is started again.
FairSpec == Spec /\ WF_vars(Dispatch) /\ WF_vars(Recover)

-----------------------------------------------------------------------------
(* Properties                                                              *)

TypeOK ==
    /\ log \in Seq(Message \cup {Hole})
    /\ logForced \subseteq DOMAIN log
    /\ committedWhere \in 0 .. Len(log) \/ phase \in {"down", "scan"}
    /\ cq \in [Queues -> Seq(-1 .. MaxPuts)]
    /\ \A q \in Queues :
          /\ cqForced[q] \in 0 .. Len(cq[q])
          /\ Len(cq[q]) <= cqFiles[q] * CqPerFile
    /\ \A k \in DOMAIN dispatch : dispatch[k] \in DOMAIN log
    /\ checkpoint \in [physic : 0 .. MaxPuts, logics : 0 .. MaxPuts]
    /\ phase \in {"running", "down", "scan", "truncate"}

\* None of what costs the consume queues their order has happened.
Regular == gaps \cap Disorders = {}

\* Every message of the log is indexed at its queue offset and every entry
\* is the index of such a message, whenever nothing is left to dispatch: no
\* crash, restart, roll-over or late dispatch loses, doubles or moves an entry.
\* Not covered is what comes after one of Disorders, first of all a recovery
\* that truncates the queues while the dispatch thread still appends to them.
IndexExact ==
    Regular /\ phase = "running" /\ writeable /\ dispatch = <<>> =>
       \A q \in Queues :
          /\ \A i \in DOMAIN log : log[i].queue = q =>
                /\ log[i].at < Len(cq[q])
                /\ cq[q][log[i].at + 1] = i
          /\ \A k \in DOMAIN cq[q] :
                cq[q][k] \in DOMAIN log /\ log[cq[q][k]].queue = q

\* What the flush services reported as flushed survives every crash.  Not
\* covered is a crash of the machine after another exit: recovery takes what it
\* finds in the log as forced.
FlushedKept ==
    "mixed" \notin gaps => \A i \in reported : i \in DOMAIN log /\ log[i] # Hole

\* Of the messages stored since the last start, those before the checkpoint are
\* on disk, in the log and in the consume queues, so recovery need not look at
\* them; a message that recovery dispatched again may not be.  Not covered is
\* what comes after one of Gaps: above all a round of doFlush that lasts longer
\* than the 3 s, and a consume queue of several files.
CheckpointSound ==
    gaps = {} =>
       /\ TypeOK
       /\ \A i \in started + 1 .. Len(log) :
             log[i] # Hole /\ log[i].ts <= MinTimestamp =>
                /\ i \in logForced
                /\ \A j \in 1 .. i : log[j] # Hole
                /\ log[i].at < cqForced[log[i].queue]

\* A broker that went down, however often, serves again.
Recovers == phase = "down" ~> phase = "running"

-----------------------------------------------------------------------------
(* Inductive invariants, from which the properties follow.                 *)

\* The log has no hole up to message i.
Whole(i) == \A j \in 1 .. i : log[j] # Hole

\* The first entries of its queue, as many as there are before it, and then
\* message i.
Indexed(i) ==
    /\ log[i].at < Len(cq[log[i].queue])
    /\ cq[log[i].queue][log[i].at + 1] = i

\* A crash of the machine would be the first exit, or not the first such crash.
Exposed == exits \subseteq {"machine"}

\* The history knows of a file that could not be created.
HistoryInv ==
    /\ exits \subseteq {"normal", "process", "machine"} /\ gaps \subseteq Gaps
    /\ writeable \/ "failed" \in gaps

LogTypeOK ==
    /\ log \in Seq(Message \cup {Hole}) /\ logForced \subseteq DOMAIN log
    /\ committedWhere \in Nat /\ started \in Nat
    /\ dispatch \in Seq(Nat)
    /\ \A k \in DOMAIN dispatch : dispatch[k] \in DOMAIN log /\ log[dispatch[k]] # Hole
    /\ physicMsgTimestamp \in 0 .. puts /\ logicsMsgTimestamp \in 0 .. puts
    /\ checkpoint \in [physic : 0 .. puts, logics : 0 .. puts]
    /\ flush \in [pc : {"idle", "queues", "write"}, ts : 0 .. puts,
                  left : SUBSET Queues, late : Nat]
    /\ phase \in {"running", "down", "scan", "truncate"} /\ abort \in BOOLEAN
    /\ recovery \in [pos : Nat, left : SUBSET Queues, queue : Queues \cup {NoQueue}]
    /\ puts \in 0 .. MaxPuts /\ restarts \in 0 .. MaxRestarts
    /\ reported \subseteq Nat \ {0}

QueueTypeOK ==
    /\ topicQueueTable \in [Queues -> Nat]
    /\ created \in BOOLEAN /\ writeable \in BOOLEAN
    /\ cq \in [Queues -> Seq(Int)]
    /\ cqFiles \in [Queues -> Nat] /\ cqForced \in [Queues -> Nat]
    /\ cqWhere \in [Queues -> Nat] /\ cqPosition \in [Queues -> Nat]
    /\ maxPhysicOffset \in [Queues -> Int]
    /\ \A q \in Queues : cqForced[q] <= Len(cq[q])

\* Store timestamps rise along the log, by one from message to message for
\* those this process has put.
StampInv ==
    /\ \A i \in DOMAIN log : log[i] # Hole => log[i].ts \in 1 .. puts
    /\ \A i, j \in DOMAIN log :
          i < j /\ log[i] # Hole /\ log[j] # Hole => log[i].ts < log[j].ts
    /\ phase = "running" =>
          \A i \in started + 1 .. Len(log) : log[i].ts = puts - Len(log) + i
    /\ Len(log) <= puts

\* Holes are there between a crash of the machine and the truncation only.
HoleInv ==
    /\ phase \in {"running", "truncate"} \/ ~abort \/ "machine" \notin exits =>
          Whole(Len(log))
    /\ phase # "down" => abort
    /\ abort \/ "normal" \in exits
    /\ exits = {} => phase = "running" /\ started = 0
    /\ phase = "running" => started <= Len(log) /\ committedWhere <= Len(log)
    /\ phase = "scan" => recovery.pos \in 1 .. Len(log) + 1 /\ Whole(recovery.pos - 1)
    /\ phase = "truncate" => recovery.pos = Len(log) + 1 /\ committedWhere = Len(log)
    /\ phase # "running" => flush = Idle
    /\ phase # "truncate" => recovery.queue = NoQueue /\ recovery.left = {}
    /\ phase = "down" => dispatch = <<>>
    /\ phase = "scan" => \A k \in DOMAIN dispatch : dispatch[k] < recovery.pos

\* What was reported, and what is not younger than the checkpoint, has no hole
\* before it ...
KeptInv ==
    /\ \A i \in reported : i <= Len(log) /\ Whole(i)
    /\ \A i \in DOMAIN log :
          /\ log[i] # Hole
          /\ log[i].ts <= physicMsgTimestamp \/ log[i].ts <= checkpoint.physic
          => Whole(i)

\* ... since all of it was forced, as long as no other exit came before.
ForcedInv ==
    Exposed =>
       /\ phase = "running" => 1 .. committedWhere \subseteq logForced
       /\ \A i \in reported : 1 .. i \subseteq logForced
       /\ \A i \in DOMAIN log :
             /\ log[i] # Hole
             /\ log[i].ts <= physicMsgTimestamp \/ log[i].ts <= checkpoint.physic
             => 1 .. i \subseteq logForced
       /\ phase # "running" => \A i \in DOMAIN log : log[i] # Hole => i \in logForced

\* What this process has put and the checkpoint covers is forced.
FreshInv ==
    /\ phase = "running" => started + 1 .. committedWhere \subseteq logForced
    /\ \A i \in started + 1 .. Len(log) :
          /\ log[i] # Hole
          /\ log[i].ts <= physicMsgTimestamp \/ log[i].ts <= checkpoint.physic
          => i \in logForced

SurvivesInv ==
    /\ LogTypeOK /\ QueueTypeOK /\ StampInv /\ HoleInv
    /\ KeptInv /\ ForcedInv /\ FreshInv

\* The messages below are off the list of the dispatch thread.
Frontier == (IF phase = "running" THEN Len(log) ELSE recovery.pos - 1) - Len(dispatch)

\* The queues that may still hold entries of messages that were cut off.
Dirty == IF phase = "truncate" /\ "machine" \in exits THEN recovery.left ELSE {}

\* The entries of a queue rise, and entry k is the message with queue offset
\* k - 1, if it is there at all.
EntriesInv ==
    \A q \in Queues :
       /\ \A k \in DOMAIN cq[q] : cq[q][k] \in k .. puts
       /\ \A k, m \in DOMAIN cq[q] : k < m => cq[q][k] < cq[q][m]
       /\ q \notin Dirty => \A k \in DOMAIN cq[q] : cq[q][k] <= Len(log)
       /\ \A k \in DOMAIN cq[q] :
             cq[q][k] <= Len(log) /\ log[cq[q][k]] # Hole =>
                log[cq[q][k]].queue = q /\ log[cq[q][k]].at = k - 1

\* Queue offsets are ranks: they rise along the log and leave none out.
RankInv ==
    /\ \A i, j \in DOMAIN log :
          i < j /\ Whole(j) /\ log[i].queue = log[j].queue => log[i].at < log[j].at
    /\ \A i \in DOMAIN log : Whole(i) =>
          \A a \in 0 .. log[i].at - 1 :
             \E j \in 1 .. i - 1 : log[j].queue = log[i].queue /\ log[j].at = a
    /\ phase = "running" /\ writeable => \A q \in Queues :
          /\ \A i \in DOMAIN log : log[i].queue = q => log[i].at < topicQueueTable[q]
          /\ \A a \in 0 .. topicQueueTable[q] - 1 :
                \E i \in DOMAIN log : log[i].queue = q /\ log[i].at = a

\* No queue skips a message that it has gone past.
ClosedInv ==
    \A i \in DOMAIN log : Whole(i) =>
       \A k \in DOMAIN cq[log[i].queue] : i <= cq[log[i].queue][k] => Indexed(i)

\* The list of the dispatch thread is the end of what was put or recovered;
\* what lies before is indexed.
DispatchInv ==
    /\ phase \in {"down", "truncate"} => dispatch = <<>>
    /\ phase = "down" => ~created /\ writeable
    /\ created => dispatch # <<>> /\ writeable /\ ~Known(Request.queue)
    /\ phase # "down" =>
          /\ Frontier >= 0
          /\ \A k \in DOMAIN dispatch : dispatch[k] = Frontier + k
          /\ writeable => \A i \in 1 .. Frontier : Indexed(i)
    /\ ~abort => \A i \in DOMAIN log : Indexed(i)

\* maxPhysicOffset separates the messages that are indexed from the others.
PhysicInv ==
    phase # "down" => \A q \in Queues :
       IF q = recovery.queue THEN maxPhysicOffset[q] = Len(log)
       ELSE /\ \A k \in DOMAIN cq[q] : cq[q][k] <= maxPhysicOffset[q]
            /\ \A i \in DOMAIN log :
                  Whole(i) /\ log[i].queue = q /\ i <= maxPhysicOffset[q] => Indexed(i)
            /\ q \notin Dirty => maxPhysicOffset[q] <= Len(log)
            /\ phase = "scan" /\ cqFiles[q] = 0 => maxPhysicOffset[q] = 0

\* No file of a queue is empty, but for the one just created.
FilesInv ==
    /\ \A q \in Queues :
          /\ Len(cq[q]) <= cqFiles[q] * CqPerFile
          /\ IF created /\ q = Request.queue
               THEN cqFiles[q] > 0 /\ Len(cq[q]) = (cqFiles[q] - 1) * CqPerFile
               ELSE cqFiles[q] > 0 => Len(cq[q]) > (cqFiles[q] - 1) * CqPerFile
    /\ \A q \in recovery.left : cqFiles[q] > 0
    /\ recovery.queue = NoQueue \/ recovery.queue \in recovery.left

\* What the timestamps of the queues cover, less the 3 s, is indexed.
CoveredInv ==
    \A i \in DOMAIN log :
       /\ Whole(i)
       /\ \/ phase # "down" /\ log[i].ts + Backoff <= logicsMsgTimestamp
          \/ log[i].ts + Backoff <= flush.ts
          \/ log[i].ts + Backoff <= checkpoint.logics
       => Indexed(i)

\* The queues are cut off after a crash of the machine when the checkpoint has
\* its meaning only.
CutInv == phase = "truncate" /\ "machine" \in exits => gaps = {}

IndexInv ==
    /\ EntriesInv /\ RankInv /\ ClosedInv
    /\ DispatchInv /\ PhysicInv /\ FilesInv /\ CoveredInv

\* A queue has one file, and its position tells what of the messages of this
\* process is forced.
PositionInv ==
    /\ \A q \in Queues : cqFiles[q] <= 1
    /\ phase # "down" => \A q \in Queues : cqPosition[q] <= Len(cq[q])
    /\ phase = "running" =>
          \A i \in started + 1 .. Len(log) :
             log[i].at < cqPosition[log[i].queue] => log[i].at < cqForced[log[i].queue]

\* What a round of doFlush has seen when it began, and has forced since.
RoundInv ==
    phase = "running" =>
       /\ started <= Frontier
       /\ \A i \in started + 1 .. Len(log) : log[i].ts <= logicsMsgTimestamp => i <= Frontier
       /\ flush.pc # "idle" =>
             /\ flush.late <= Backoff
             /\ flush.pc = "write" => flush.left = {}
             /\ \A i \in started + 1 .. Len(log) :
                   /\ log[i].ts <= flush.ts => i <= Frontier - flush.late
                   /\ log[i].ts + Backoff <= logicsMsgTimestamp => i <= Frontier - flush.late
                   /\ i <= Frontier - flush.late /\ log[i].queue \notin flush.left =>
                         log[i].at < cqForced[log[i].queue]

\* The checkpoint covers entries that are forced.
PointInv ==
    \A i \in started + 1 .. Len(log) :
       log[i] # Hole /\ log[i].ts + Backoff <= checkpoint.logics =>
          log[i].at < cqForced[log[i].queue]

CheckpointInv == PositionInv /\ RoundInv /\ PointInv

\* The three hold until what they do not cover happens.
StoreInv ==
    /\ HistoryInv
    /\ "mixed" \notin gaps => SurvivesInv
    /\ Regular => IndexInv /\ CutInv
    /\ gaps = {} => CheckpointInv

=============================================================================
