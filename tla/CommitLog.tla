----------------------------- MODULE CommitLog -----------------------------
(***************************************************************************)
(* Appending to the commit log, flushing it, and answering the producer:   *)
(* CommitLog.putMessage, MapedFileQueue.commit, the two flush services     *)
(* (GroupCommitService for SYNC_FLUSH, FlushRealTimeService for            *)
(* ASYNC_FLUSH) and the wait for the slave (HAService.GroupTransferService)*)
(* when the broker is a SYNC_MASTER.                                       *)
(*                                                                         *)
(* The log is a row of files 0, 1, 2, ... of FileSize units; file f holds  *)
(* the offsets f*FileSize .. (f+1)*FileSize - 1.  A message is MsgSize     *)
(* units and is never split; the end-of-file record takes at least         *)
(* BlankLength units.  Left out: message contents, dispatch to the consume *)
(* queues (module MessageStore), statistics, logging.                      *)
(*                                                                         *)
(* Bounds: MaxFiles files and MaxPuts appended messages in a behaviour.    *)
(***************************************************************************)
EXTENDS Integers, Sequences

CONSTANTS Producers,     \* threads in putMessage
          NoProducer,    \* nobody is in the synchronized part of putMessage
          FileSize,      \* units in one file
          MsgSize,       \* units of a stored message
          BlankLength,   \* END_FILE_MIN_BLANK_LENGTH
          MaxFiles,      \* bound: files created
          MaxPuts,       \* bound: messages appended
          Waits,         \* PROPERTY_WAIT_STORE_MSG_OK as the producers set it
          SyncFlush,     \* FlushDiskType is SYNC_FLUSH
          SyncMaster,    \* BrokerRole is SYNC_MASTER
          LeastPages,    \* flushCommitLogLeastPages (a page is one unit)
          FallbehindMax, \* haSlaveFallbehindMax
          WaitRounds     \* rounds GroupTransferService waits for the slave

ASSUME SizesAssumption ==
    /\ FileSize \in Nat /\ MsgSize \in Nat \ {0} /\ BlankLength \in Nat \ {0}
    /\ MsgSize + BlankLength <= FileSize
    /\ MaxFiles \in Nat \ {0} /\ MaxPuts \in Nat
    /\ LeastPages \in Nat /\ FallbehindMax \in Nat /\ WaitRounds \in Nat

ASSUME ModesAssumption ==
    /\ SyncFlush \in BOOLEAN
    /\ SyncMaster \in BOOLEAN
    /\ Waits \subseteq BOOLEAN
    /\ NoProducer \notin Producers

VARIABLES
    first, last,        \* the files in the queue are first..last
    wrote,              \* MapedFile.wrotePostion
    committed,          \* MapedFile.committedPosition
    forced,             \* what force() has put on disk
    available,          \* ReferenceResource.available
    committedWhere,     \* MapedFileQueue.committedWhere
    lock,               \* who is in the synchronized part of putMessage
    pc,                 \* where each producer is in putMessage
    cur,                \* the message each producer is putting
    puts,               \* every appended message with its request and status
    requestsWrite,      \* GroupCommitService.requestsWrite
    requestsRead,       \* GroupCommitService.requestsRead
    hasNotified,        \* ServiceThread.hasNotified of the flush service
    flush,              \* where the flush thread is, see FlushState
    stoped,             \* ServiceThread.stoped of the flush service
    haStoped,           \* ServiceThread.stoped of GroupTransferService
    haWrite, haRead,    \* GroupTransferService.requestsWrite, requestsRead
    haNotified,         \* its hasNotified
    haRounds,           \* rounds waited for the request it is serving
    haEnded,            \* its run() has returned, or is never given anything
    slaveMax,           \* HAService.push2SlaveMaxOffset
    connected           \* HAService.connectionCount > 0

fileVars == <<first, last, wrote, committed, forced, available>>
putVars == <<lock, pc, cur, puts>>
stopVars == <<haStoped, stoped>>
flushVars == <<requestsWrite, requestsRead, hasNotified, flush, stopVars>>
haVars == <<haWrite, haRead, haNotified, haRounds, haEnded, slaveMax, connected>>
vars == <<fileVars, committedWhere, putVars, flushVars, haVars>>

Files == 0 .. MaxFiles - 1
From(f) == f * FileSize
LogEnd == IF last < first THEN 0 ELSE From(last) + wrote[last]

\* The flush thread: pc, the commits done for the current request, the file
\* it is committing, the write position it read and the flushLeastPages.
FlushState == [pc : {"wait", "serve", "find", "read", "force", "ended"},
               tries : 0 .. 3, file : Files, value : 0 .. FileSize,
               least : {0, LeastPages}, final : BOOLEAN]

Statuses == {"none", "PUT_OK", "FLUSH_DISK_TIMEOUT", "FLUSH_SLAVE_TIMEOUT",
             "SLAVE_NOT_AVAILABLE"}

Init ==
    /\ first = 0 /\ last = -1
    /\ wrote = [f \in Files |-> 0]
    /\ committed = [f \in Files |-> 0]
    /\ forced = [f \in Files |-> 0]
    /\ available = [f \in Files |-> TRUE]
    /\ committedWhere = 0
    /\ lock = NoProducer
    /\ pc = [p \in Producers |-> "idle"]
    /\ cur = [p \in Producers |-> 0]
    /\ puts = <<>>
    /\ requestsWrite = <<>> /\ requestsRead = <<>>
    /\ hasNotified = FALSE
    /\ flush = [pc |-> "wait", tries |-> 0, file |-> 0, value |-> 0,
                least |-> 0, final |-> FALSE]
    /\ haStoped = FALSE /\ stoped = FALSE
    /\ haWrite = <<>> /\ haRead = <<>>
    /\ haNotified = FALSE
    /\ haRounds = 0 /\ haEnded = ~SyncMaster
    /\ slaveMax = 0
    /\ connected = FALSE

-----------------------------------------------------------------------------
(* putMessage, synchronized part: get the last file, append, roll over.    *)

Goto(p, where) == pc' = [pc EXCEPT ![p] = where]

PutBegin(p) ==
    /\ pc[p] = "enter" \/ (pc[p] = "idle" /\ ~haStoped)
    /\ lock = NoProducer
    /\ Len(puts) < MaxPuts
    /\ lock' = p
    /\ Goto(p, "append")
    /\ UNCHANGED <<fileVars, committedWhere, cur, puts, flushVars, haVars>>

\* getLastMapedFile has to create: there is no file or the last one is full.
NeedFile == last >= first => wrote[last] = FileSize

\* The new file joins the queue; until then the full file is the last one.
CreateFile(p) ==
    /\ pc[p] = "append"
    /\ NeedFile
    /\ last + 1 \in Files
    /\ last' = last + 1
    /\ UNCHANGED <<first, wrote, committed, forced, available, committedWhere,
                   putVars, flushVars, haVars>>

\* CREATE_MAPEDFILE_FAILED, also after the end-of-file record was written;
\* MESSAGE_ILLEGAL: the message is too large.  Nothing was appended.
PutFails(p) ==
    /\ pc[p] = "append"
    /\ lock' = NoProducer
    /\ Goto(p, "idle")
    /\ UNCHANGED <<fileVars, committedWhere, cur, puts, flushVars, haVars>>

\* Mutant of Fits: the length of the message is forgotten.
FitsBlank == wrote[last] + BlankLength <= FileSize

Fits == wrote[last] + MsgSize + BlankLength <= FileSize

\* doAppend returns END_OF_FILE: the rest of the file becomes a blank record.
EndOfFile(p) ==
    /\ pc[p] = "append"
    /\ ~NeedFile
    /\ ~Fits
    /\ wrote' = [wrote EXCEPT ![last] = FileSize]
    /\ UNCHANGED <<first, last, committed, forced, available, committedWhere,
                   putVars, flushVars, haVars>>

\* doAppend returns PUT_OK, the synchronized part ends.  The producer may
\* have asked not to wait.
AppendMessage(p) ==
    /\ pc[p] = "append"
    /\ ~NeedFile
    /\ Fits
    /\ wrote' = [wrote EXCEPT ![last] = wrote[last] + MsgSize]
    /\ \E w \in Waits :
          puts' = Append(puts, [start |-> LogEnd, next |-> LogEnd + MsgSize,
                                wait |-> w, status |-> "none", made |-> FALSE,
                                late |-> FALSE, done |-> FALSE, flushOK |-> FALSE])
    /\ cur' = [cur EXCEPT ![p] = Len(puts) + 1]
    /\ lock' = NoProducer
    /\ Goto(p, "flush")
    /\ UNCHANGED <<first, last, committed, forced, available, committedWhere,
                   flushVars, haVars>>

-----------------------------------------------------------------------------
(* putMessage, the waits.                                                  *)

\* SYNC_FLUSH and the message waits: a GroupCommitRequest is queued, late when
\* the service has swapped its lists for the last time.
PutRequest(p) ==
    /\ pc[p] = "flush"
    /\ SyncFlush /\ puts[cur[p]].wait
    /\ puts' = [puts EXCEPT ![cur[p]].made = TRUE, ![cur[p]].late = flush.final]
    /\ requestsWrite' = Append(requestsWrite, cur[p])
    /\ hasNotified' = TRUE
    /\ Goto(p, "waitDisk")
    /\ UNCHANGED <<fileVars, committedWhere, lock, cur, requestsRead, flush,
                   stopVars, haVars>>

\* Otherwise the flush service is only woken up.
WakeupFlush(p) ==
    /\ pc[p] = "flush"
    /\ ~(SyncFlush /\ puts[cur[p]].wait)
    /\ hasNotified' = TRUE
    /\ Goto(p, "ha")
    /\ UNCHANGED <<fileVars, committedWhere, lock, cur, puts, requestsWrite,
                   requestsRead, flush, stopVars, haVars>>

\* waitForFlush: true as soon as the latch is down, whatever flushOK says.
WaitForFlush(p) ==
    /\ pc[p] = "waitDisk"
    /\ puts[cur[p]].done
    /\ Goto(p, "ha")
    /\ UNCHANGED <<fileVars, committedWhere, lock, cur, puts, flushVars,
                   haVars>>

WaitForFlushTimeout(p) ==
    /\ pc[p] = "waitDisk"
    /\ ~puts[cur[p]].done
    /\ puts' = [puts EXCEPT ![cur[p]].status = "FLUSH_DISK_TIMEOUT"]
    /\ Goto(p, "ha")
    /\ UNCHANGED <<fileVars, committedWhere, lock, cur, flushVars, haVars>>

\* The status of a put that ends: PUT_OK unless a wait has set another one.
Finished(i, s) ==
    [puts EXCEPT ![i].status = IF s # "none" THEN s
                               ELSE IF @ = "none" THEN "PUT_OK" ELSE @]

PutReturns(p) ==
    /\ pc[p] = "ha"
    /\ ~(SyncMaster /\ puts[cur[p]].wait)
    /\ puts' = Finished(cur[p], "none")
    /\ Goto(p, "idle")
    /\ UNCHANGED <<fileVars, committedWhere, lock, cur, flushVars, haVars>>

isSlaveOK(offset) == connected /\ offset - slaveMax < FallbehindMax

SlaveNotAvailable(p) ==
    /\ pc[p] = "ha"
    /\ SyncMaster /\ puts[cur[p]].wait
    /\ ~isSlaveOK(puts[cur[p]].next)
    /\ puts' = Finished(cur[p], "SLAVE_NOT_AVAILABLE")
    /\ Goto(p, "idle")
    /\ UNCHANGED <<fileVars, committedWhere, lock, cur, flushVars, haVars>>

\* Mutant of PutTransferRequest: queued without a notification.
PutTransferSilently(p) ==
    /\ pc[p] = "ha"
    /\ SyncMaster /\ puts[cur[p]].wait
    /\ isSlaveOK(puts[cur[p]].next)
    /\ puts' = [puts EXCEPT ![cur[p]].made = TRUE]
    /\ haWrite' = Append(haWrite, cur[p])
    /\ Goto(p, "waitSlave")
    /\ UNCHANGED <<fileVars, committedWhere, lock, cur, flushVars, haRead,
                   haNotified, haRounds, haEnded, slaveMax, connected>>

\* The request of the disk flush is used again when there is one.
PutTransferRequest(p) ==
    /\ pc[p] = "ha"
    /\ SyncMaster /\ puts[cur[p]].wait
    /\ isSlaveOK(puts[cur[p]].next)
    /\ puts' = [puts EXCEPT ![cur[p]].made = TRUE]
    /\ haWrite' = Append(haWrite, cur[p])
    /\ haNotified' = TRUE
    /\ Goto(p, "waitSlave")
    /\ UNCHANGED <<fileVars, committedWhere, lock, cur, flushVars, haRead,
                   haRounds, haEnded, slaveMax, connected>>

WaitForSlave(p) ==
    /\ pc[p] = "waitSlave"
    /\ puts[cur[p]].done
    /\ puts' = Finished(cur[p], "none")
    /\ Goto(p, "idle")
    /\ UNCHANGED <<fileVars, committedWhere, lock, cur, flushVars, haVars>>

WaitForSlaveTimeout(p) ==
    /\ pc[p] = "waitSlave"
    /\ ~puts[cur[p]].done
    /\ puts' = Finished(cur[p], "FLUSH_SLAVE_TIMEOUT")
    /\ Goto(p, "idle")
    /\ UNCHANGED <<fileVars, committedWhere, lock, cur, flushVars, haVars>>

-----------------------------------------------------------------------------
(* MapedFileQueue.commit, run by the flush thread: find the file that      *)
(* committedWhere points into, force it, move committedWhere.              *)

\* findMapedFileByOffset(offset, true): the first file when the offset lies
\* in no file of the queue, also when it is just behind the last one.
findMapedFileByOffset(offset) ==
    IF offset \div FileSize \in first .. last THEN offset \div FileSize ELSE first

isAbleToFlush(f) ==
    \/ wrote[f] = FileSize
    \/ IF flush.least > 0 THEN wrote[f] - committed[f] >= flush.least
                          ELSE wrote[f] > committed[f]

\* Where the flush thread goes on after one commit: the next look at the
\* request it serves, or the end of doCommit / of one turn of run().  The
\* last turn of FlushRealTimeService commits until nothing moved, at most
\* RetryTimesOver = 3 times.
AfterCommit(where) ==
    flush' = [flush EXCEPT
        !.file = 0, !.value = 0, !.tries = @ + 1,
        !.pc = IF requestsRead # <<>> THEN "serve"
               ELSE IF ~flush.final THEN "wait"
               ELSE IF SyncFlush \/ where = committedWhere \/ flush.tries = 2
                    THEN "ended" ELSE "find"]

CommitFind ==
    /\ flush.pc = "find"
    /\ IF last < first
         THEN AfterCommit(committedWhere)
         ELSE flush' = [flush EXCEPT !.pc = "read",
                            !.file = findMapedFileByOffset(committedWhere)]
    /\ UNCHANGED <<fileVars, committedWhere, putVars, requestsWrite,
                   requestsRead, hasNotified, stopVars, haVars>>

\* MapedFile.commit up to the read of wrotePostion under hold(); a file that
\* was shut down counts as committed without being forced.
CommitRead ==
    LET f == flush.file IN
    /\ flush.pc = "read"
    /\ IF isAbleToFlush(f) /\ available[f]
         THEN /\ flush' = [flush EXCEPT !.pc = "force", !.value = wrote[f]]
              /\ UNCHANGED <<committed, committedWhere>>
         ELSE /\ committed' = IF isAbleToFlush(f)
                               THEN [committed EXCEPT ![f] = wrote[f]]
                               ELSE committed
              /\ committedWhere' = From(f) + committed'[f]
              /\ AfterCommit(committedWhere')
    /\ UNCHANGED <<first, last, wrote, forced, available, putVars,
                   requestsWrite, requestsRead, hasNotified, stopVars, haVars>>

\* Mutant of CommitForce: the write position is read after force().
CommitForceLate ==
    LET f == flush.file IN
    /\ flush.pc = "force"
    /\ forced' = [forced EXCEPT ![f] = flush.value]
    /\ committed' = [committed EXCEPT ![f] = wrote[f]]
    /\ committedWhere' = From(f) + wrote[f]
    /\ AfterCommit(committedWhere')
    /\ UNCHANGED <<first, last, wrote, available, putVars, requestsWrite,
                   requestsRead, hasNotified, stopVars, haVars>>

\* force() writes everything appended so far, committedPosition only takes
\* the position read before it.
CommitForce ==
    LET f == flush.file IN
    /\ flush.pc = "force"
    /\ forced' = [forced EXCEPT ![f] = wrote[f]]
    /\ committed' = [committed EXCEPT ![f] = flush.value]
    /\ committedWhere' = From(f) + flush.value
    /\ AfterCommit(committedWhere')
    /\ UNCHANGED <<first, last, wrote, available, putVars, requestsWrite,
                   requestsRead, hasNotified, stopVars, haVars>>

-----------------------------------------------------------------------------
(* GroupCommitService: SYNC_FLUSH.                                         *)

\* wakeupCustomer(ok)
Wakeup(i, ok) == [puts EXCEPT ![i].done = TRUE, ![i].flushOK = ok]

\* doCommit: serve the requests, or commit once when there are none.
DoCommit(final) ==
    flush' = [flush EXCEPT !.tries = 0, !.least = 0, !.final = final,
                 !.pc = IF requestsWrite = <<>> THEN "find" ELSE "serve"]

\* waitForRunning returns, onWaitEnd swaps the two lists.
SwapRequests ==
    /\ SyncFlush
    /\ flush.pc = "wait"
    /\ hasNotified
    /\ hasNotified' = FALSE
    /\ requestsRead' = requestsWrite /\ requestsWrite' = <<>>
    /\ DoCommit(FALSE)
    /\ UNCHANGED <<fileVars, committedWhere, putVars, stopVars, haVars>>

\* The loop over requestsRead: look at committedWhere before each of at most
\* n commits, not after the last one; then the request is answered anyway.
Serve(n, answer) ==
    LET i == Head(requestsRead)
        flushOK == flush.tries < n /\ committedWhere >= puts[i].next
    IN
    /\ flush.pc = "serve"
    /\ IF flush.tries < n /\ ~flushOK
         THEN /\ flush' = [flush EXCEPT !.pc = "find"]
              /\ UNCHANGED <<puts, requestsRead>>
         ELSE /\ puts' = Wakeup(i, flushOK \/ answer)
              /\ requestsRead' = Tail(requestsRead)
              /\ flush' = [flush EXCEPT !.tries = 0,
                             !.pc = IF Tail(requestsRead) # <<>> THEN "serve"
                                    ELSE IF flush.final THEN "ended"
                                    ELSE "wait"]
    /\ UNCHANGED <<fileVars, committedWhere, lock, pc, cur, requestsWrite,
                   hasNotified, stopVars, haVars>>

\* Mutant of ServeRequest: giving up counts as success.
ServeOptimistic == Serve(2, TRUE)

ServeRequest == Serve(2, FALSE)

(* FlushRealTimeService: ASYNC_FLUSH, every interval or when woken up.     *)

FlushRealTime ==
    /\ ~SyncFlush
    /\ flush.pc = "wait"
    /\ ~stoped
    /\ hasNotified' = FALSE
    /\ \E least \in {0, LeastPages} :
          flush' = [flush EXCEPT !.pc = "find", !.tries = 0, !.least = least]
    /\ UNCHANGED <<fileVars, committedWhere, putVars, requestsWrite,
                   requestsRead, stopVars, haVars>>

-----------------------------------------------------------------------------
(* DefaultMessageStore.shutdown: new puts are refused, 3 s later the       *)
(* services are stopped one after the other, whatever is still under way:  *)
(* a put waits for up to 5 s, and nothing waits for a put.                 *)

\* HAService.shutdown, after the flag was set.  Some producers have passed the
\* look at the flag in DefaultMessageStore.putMessage and not begun yet.
Shutdown ==
    /\ ~haStoped
    /\ haStoped' = TRUE
    /\ haNotified' = TRUE
    /\ \E under \in SUBSET { p \in Producers : pc[p] = "idle" } :
          pc' = [p \in Producers |-> IF p \in under THEN "enter" ELSE pc[p]]
    /\ UNCHANGED <<fileVars, committedWhere, lock, cur, puts, requestsWrite,
                   requestsRead, hasNotified, flush, stoped, haWrite, haRead,
                   haRounds, haEnded, slaveMax, connected>>

\* CommitLog.shutdown; the join of the transfer thread before it is limited.
StopFlush ==
    /\ haStoped /\ ~stoped
    /\ stoped' = TRUE
    /\ hasNotified' = TRUE
    /\ UNCHANGED <<fileVars, committedWhere, putVars, requestsWrite,
                   requestsRead, flush, haStoped, haVars>>

\* Mutant of FinalFlush: the lists are not swapped a last time.
FinalFlushUnswapped ==
    /\ flush.pc = "wait"
    /\ stoped
    /\ flush' = [flush EXCEPT !.tries = 0, !.least = 0, !.final = TRUE, !.pc = "find"]
    /\ UNCHANGED <<fileVars, committedWhere, putVars, requestsWrite,
                   requestsRead, hasNotified, stopVars, haVars>>

\* run() leaves its loop: one more doCommit, or up to three more commits.
FinalFlush ==
    /\ flush.pc = "wait"
    /\ stoped
    /\ requestsRead' = requestsWrite /\ requestsWrite' = <<>>
    /\ DoCommit(TRUE)
    /\ UNCHANGED <<fileVars, committedWhere, putVars, hasNotified, stopVars,
                   haVars>>

-----------------------------------------------------------------------------
(* GroupTransferService: SYNC_MASTER.                                      *)

SlaveConnection ==
    /\ SyncMaster
    /\ connected' = ~connected
    /\ UNCHANGED <<fileVars, committedWhere, putVars, flushVars, haWrite,
                   haRead, haNotified, haRounds, haEnded, slaveMax>>

\* The slave reports how far it has written the log (notifyTransferSome).
NotifyTransferSome ==
    /\ connected
    /\ slaveMax' \in slaveMax + 1 .. LogEnd
    /\ UNCHANGED <<fileVars, committedWhere, putVars, flushVars, haWrite,
                   haRead, haNotified, haRounds, haEnded, connected>>

SwapTransferRequests ==
    /\ haRead = <<>> /\ ~haEnded
    /\ haNotified
    /\ haNotified' = FALSE
    /\ haRead' = haWrite /\ haWrite' = <<>>
    /\ UNCHANGED <<fileVars, committedWhere, putVars, flushVars, haRounds,
                   haEnded, slaveMax, connected>>

\* A round of waiting ends by a report of the slave or after a second.
WaitTransfer ==
    /\ haRead # <<>>
    /\ slaveMax < puts[Head(haRead)].next
    /\ haRounds < WaitRounds
    /\ haRounds' = haRounds + 1
    /\ UNCHANGED <<fileVars, committedWhere, putVars, flushVars, haWrite,
                   haRead, haNotified, haEnded, slaveMax, connected>>

AnswerTransfer ==
    LET i == Head(haRead)
        transferOK == slaveMax >= puts[i].next
    IN
    /\ haRead # <<>>
    /\ transferOK \/ haRounds = WaitRounds
    /\ puts' = Wakeup(i, transferOK)
    /\ haRead' = Tail(haRead)
    /\ haRounds' = 0
    /\ UNCHANGED <<fileVars, committedWhere, lock, pc, cur, flushVars, haWrite,
                   haNotified, haEnded, slaveMax, connected>>

\* run() leaves its loop, without another look at the lists.
TransferEnds ==
    /\ haRead = <<>> /\ ~haEnded
    /\ haStoped
    /\ haEnded' = TRUE
    /\ UNCHANGED <<fileVars, committedWhere, putVars, flushVars, haWrite, haRead,
                   haNotified, haRounds, slaveMax, connected>>

-----------------------------------------------------------------------------
(* CleanCommitLogService: files go from the front, never the last one.     *)

DestroyFile ==
    \E f \in first .. last - 1 :
       /\ available[f]
       /\ \A g \in first .. f - 1 : ~available[g]
       /\ available' = [available EXCEPT ![f] = FALSE]
       /\ UNCHANGED <<first, last, wrote, committed, forced, committedWhere,
                      putVars, flushVars, haVars>>

\* The destroyed file leaves the queue once nobody holds it.
RemoveFile ==
    /\ first < last
    /\ ~available[first]
    /\ ~(flush.pc = "force" /\ flush.file = first)
    /\ first' = first + 1
    /\ UNCHANGED <<last, wrote, committed, forced, available, committedWhere,
                   putVars, flushVars, haVars>>

-----------------------------------------------------------------------------
Put(p) ==
    \/ PutBegin(p) \/ CreateFile(p) \/ PutFails(p) \/ EndOfFile(p)
    \/ AppendMessage(p) \/ PutRequest(p) \/ WakeupFlush(p)
    \/ WaitForFlush(p) \/ WaitForFlushTimeout(p) \/ PutReturns(p)
    \/ SlaveNotAvailable(p) \/ PutTransferRequest(p)
    \/ WaitForSlave(p) \/ WaitForSlaveTimeout(p)

FlushThread ==
    \/ CommitFind \/ CommitRead \/ CommitForce \/ SwapRequests
    \/ ServeRequest \/ FlushRealTime \/ FinalFlush

TransferThread ==
    SwapTransferRequests \/ WaitTransfer \/ AnswerTransfer \/ TransferEnds

Next ==
    \/ \E p \in Producers : Put(p)
    \/ FlushThread
    \/ TransferThread
    \/ Shutdown
    \/ StopFlush
    \/ SlaveConnection
    \/ NotifyTransferSome
    \/ DestroyFile
    \/ RemoveFile

Spec == Init /\ [][Next]_vars

\* The service threads keep running, and no wait of a producer is without a
\* timeout.  Nothing else is asked of producers.
FairSpec ==
    /\ Spec
    /\ WF_vars(FlushThread) /\ WF_vars(TransferThread)
    /\ \A p \in Producers :
          /\ WF_vars(WaitForFlush(p) \/ WaitForFlushTimeout(p))
          /\ WF_vars(WaitForSlave(p) \/ WaitForSlaveTimeout(p))

-----------------------------------------------------------------------------
(* Properties                                                              *)

PutRecord == [start : Nat, next : Nat, wait : BOOLEAN, status : Statuses,
              made : BOOLEAN, late : BOOLEAN, done : BOOLEAN, flushOK : BOOLEAN]

TypeOK ==
    /\ first \in Nat /\ last \in Int /\ last < MaxFiles
    /\ wrote \in [Files -> 0 .. FileSize]
    /\ committed \in [Files -> 0 .. FileSize]
    /\ forced \in [Files -> 0 .. FileSize]
    /\ available \in [Files -> BOOLEAN]
    /\ committedWhere \in Nat
    /\ lock \in Producers \cup {NoProducer}
    /\ pc \in [Producers -> {"idle", "enter", "append", "flush", "waitDisk",
                             "ha", "waitSlave"}]
    /\ cur \in [Producers -> Nat]
    /\ puts \in Seq(PutRecord)
    /\ requestsWrite \in Seq(Nat) /\ requestsRead \in Seq(Nat)
    /\ hasNotified \in BOOLEAN
    /\ flush \in FlushState
    /\ haStoped \in BOOLEAN /\ stoped \in BOOLEAN
    /\ haWrite \in Seq(Nat) /\ haRead \in Seq(Nat)
    /\ haNotified \in BOOLEAN
    /\ haRounds \in 0 .. WaitRounds /\ haEnded \in BOOLEAN
    /\ slaveMax \in Nat
    /\ connected \in BOOLEAN

Contains(list, i) == \E k \in 1 .. Len(list) : list[k] = i

\* Everything below offset is on disk, or its file was deleted.
Durable(offset) ==
    \A f \in first .. last :
       available[f] =>
          forced[f] = FileSize \/ offset - From(f) <= forced[f]

\* Everything below committedWhere has been forced, although appends go on
\* between the read of the write position and force(), commit() may fall
\* back to the first file, and files disappear at the front.
CommittedIsDurable == Durable(committedWhere)

\* A flush service that answers a request with true tells the truth: the
\* message is on disk (SYNC_FLUSH), or the slave has it (SYNC_MASTER only).
FlushOkHonest ==
    \A i \in 1 .. Len(puts) :
       puts[i].flushOK =>
          /\ SyncFlush /\ ~SyncMaster => Durable(puts[i].next)
          /\ SyncMaster /\ ~SyncFlush => slaveMax >= puts[i].next

\* Messages lie one behind the other, each in one file, also when the file is
\* rolled over inside the synchronized part or its creation fails half-way.
NoOverlap ==
    /\ TypeOK
    /\ \A i \in 1 .. Len(puts) :
          /\ puts[i].start \div FileSize = (puts[i].next - 1) \div FileSize
          /\ \A j \in 1 .. i - 1 : puts[j].next <= puts[i].start

\* Every queued request is answered: the lists are swapped under the lock that
\* guards hasNotified.  The exception are requests that a service leaves behind
\* when it is stopped: their producers are told of a timeout.
RequestsAnswered ==
    \A i \in 1 .. MaxPuts :
       (i <= Len(puts) /\ puts[i].made) ~>
          /\ i <= Len(puts)
          /\ \/ puts[i].done
             \/ /\ IF SyncMaster THEN haEnded ELSE flush.pc = "ended"
                /\ puts[i].status \in {"FLUSH_DISK_TIMEOUT", "FLUSH_SLAVE_TIMEOUT"}

\* The reason for it, a state at a time: a request that is not answered is in
\* one of the lists, and a list that the service has still to read has its
\* notification set.  A stopped flush service leaves nothing but requests that
\* came after its last swap, however late puts are under way; a stopped
\* transfer service answers what it has taken over and leaves the rest.
NothingForgotten ==
    /\ \A i \in 1 .. Len(puts) :
          puts[i].made /\ ~puts[i].done =>
             Contains(requestsWrite \o requestsRead \o haWrite \o haRead, i)
    /\ flush.pc = "wait" /\ requestsWrite # <<>> => hasNotified
    /\ haRead = <<>> /\ haWrite # <<>> => haNotified
    /\ flush.pc = "ended" =>
          /\ requestsRead = <<>>
          /\ \A k \in 1 .. Len(requestsWrite) : puts[requestsWrite[k]].late
    /\ haEnded => haRead = <<>>

\* What PUT_OK means under SYNC_FLUSH for a message that waits.
PutOkDurable ==
    SyncFlush =>
       \A i \in 1 .. Len(puts) :
          puts[i].status = "PUT_OK" /\ puts[i].wait => Durable(puts[i].next)

\* What PUT_OK means on a SYNC_MASTER for a message that waits.
PutOkReplicated ==
    SyncMaster =>
       \A i \in 1 .. Len(puts) :
          puts[i].status = "PUT_OK" /\ puts[i].wait => slaveMax >= puts[i].next

\* What a normal shutdown leaves behind: everything is on disk.
ShutdownFlushes == flush.pc = "ended" => Durable(LogEnd)

-----------------------------------------------------------------------------
(* The inductive strengthening of CommittedIsDurable.                      *)

LogTypeOK ==
    /\ first \in Nat /\ last \in Int /\ last >= -1 /\ last < MaxFiles
    /\ first <= last + 1
    /\ wrote \in [Files -> 0 .. FileSize]
    /\ committed \in [Files -> 0 .. FileSize]
    /\ forced \in [Files -> 0 .. FileSize]
    /\ available \in [Files -> BOOLEAN]
    /\ committedWhere \in Nat
    /\ flush \in FlushState
    /\ flush.pc \in {"find", "read", "force"} => flush.tries <= 2

\* Positions of one file: nothing is forced or committed beyond what was
\* written, and what counts as committed is forced while the file is mapped.
PositionsInv ==
    \A f \in Files :
       /\ forced[f] <= wrote[f]
       /\ committed[f] <= wrote[f]
       /\ available[f] => committed[f] <= forced[f]
       /\ f > last => wrote[f] = 0

\* The commit under way: all files below the one it works on are on disk,
\* and the position it read has been written.
CommitInv ==
    /\ flush.pc \in {"read", "force"} =>
          /\ flush.file <= last
          /\ \A g \in first .. last :
                g < flush.file /\ available[g] => forced[g] = FileSize
    /\ flush.pc = "force" => flush.value <= wrote[flush.file]

DurableInv ==
    /\ LogTypeOK
    /\ PositionsInv
    /\ CommitInv
    /\ committedWhere <= From(last + 1)
    /\ CommittedIsDurable

-----------------------------------------------------------------------------
(* The inductive strengthening of NoOverlap, FlushOkHonest and             *)
(* NothingForgotten.                                                       *)

\* Every message ends before the end of the log, which only grows.
OrderInv ==
    /\ last >= 0 => first <= last
    /\ \A i \in 1 .. Len(puts) : last >= 0 /\ puts[i].next <= From(last) + wrote[last]

\* A producer behind the synchronized part has its message, a list holds
\* requests of messages, and each list is used in its mode only.
ListsInv ==
    /\ \A p \in Producers : pc[p] \notin {"idle", "enter", "append"} => cur[p] \in 1 .. Len(puts)
    /\ \A k \in 1 .. Len(requestsRead) : requestsRead[k] \in 1 .. Len(puts)
    /\ \A k \in 1 .. Len(requestsWrite) : requestsWrite[k] \in 1 .. Len(puts)
    /\ \A k \in 1 .. Len(haRead) : haRead[k] \in 1 .. Len(puts)
    /\ \A k \in 1 .. Len(haWrite) : haWrite[k] \in 1 .. Len(puts)
    /\ SyncFlush \/ (requestsWrite = <<>> /\ requestsRead = <<>>)
    /\ SyncMaster \/ (haWrite = <<>> /\ haRead = <<>>)

\* Where the two threads are tells whether requests are left to be served, and
\* after the last swap every new request is a late one.
TurnInv ==
    /\ requestsWrite # <<>> => hasNotified
    /\ haWrite # <<>> => haNotified
    /\ flush.pc = "serve" => requestsRead # <<>>
    /\ flush.pc \in {"wait", "ended"} => requestsRead = <<>>
    /\ flush.pc = "wait" => ~flush.final
    /\ flush.pc = "ended" => flush.final
    /\ flush.final => stoped
    /\ haEnded => haRead = <<>>

\* Requests are only late after the last swap.
LateInv ==
    flush.final => \A k \in 1 .. Len(requestsWrite) : puts[requestsWrite[k]].late

LogInv ==
    /\ DurableInv
    /\ NoOverlap
    /\ OrderInv
    /\ ListsInv
    /\ TurnInv
    /\ LateInv
    /\ FlushOkHonest
    /\ NothingForgotten

=============================================================================
