------------------------------ MODULE HAService ------------------------------
(***************************************************************************)
(* Replication of the commit log from a master to a slave: the slave's     *)
(* HAClient, the HAConnection that the master serves it with, HAService's  *)
(* push2SlaveMaxOffset, and the ReputMessageService that dispatches what   *)
(* the slave received.                                                     *)
(*                                                                         *)
(* The log is counted in units: a message has MsgUnits of them, a file has *)
(* FileSize, of which the last, too few for a message, are blank.  The     *)
(* units of the n-th message tell its number and which one is the first,   *)
(* so that a copy can be compared.  A frame is one header with its body;   *)
(* the connection delivers frames and reports in order until it breaks,    *)
(* and a frame cut by a break is dropped.                                  *)
(*                                                                         *)
(* Left out: the threads that wait for the slave (module CommitLog), the   *)
(* slave's consume queues (module MessageStore), expired master files.     *)
(*                                                                         *)
(* Bounds: MaxMessages put, MaxFaults breaks and restarts, MaxInFlight     *)
(* frames and reports on the way.                                          *)
(***************************************************************************)
EXTENDS Integers, Sequences

CONSTANTS MsgUnits,        \* units of a message
          FileSize,        \* mapedFileSizeCommitLog
          Batch,           \* haTransferBatchSize
          MaxMessages,     \* bound: messages put
          MaxFaults,       \* bound: connection losses and restarts
          MaxInFlight      \* bound: frames, and reports, on the way

ASSUME HAAssumption ==
    /\ MsgUnits \in Nat \ {0} /\ FileSize \in Nat \ {0} /\ Batch \in Nat \ {0}
    /\ FileSize > MsgUnits /\ FileSize % MsgUnits # 0
    /\ MaxMessages \in Nat /\ MaxFaults \in Nat /\ MaxInFlight \in Nat \ {0, 1}

VARIABLES
    master,                 \* the master's log
    slaveFile,              \* the slave has a log file
    slaveBase,              \* where its first file starts
    slaveLog,               \* its log from there on
    connected,              \* HAClient.socketChannel is open
    currentReportedOffset,  \* of HAClient
    toSlave, toMaster,      \* frames and reports on the connection
    slaveRequestOffset,     \* of HAConnection
    nextTransferFromWhere,  \* of its WriteSocketService
    push2SlaveMaxOffset,    \* of HAService
    oldReports,             \* unread reports on connections the slave has left
    slaveHigh,              \* the most the slave ever had
    reputFromOffset,        \* of ReputMessageService
    dispatched,             \* messages it dispatched, since the slave last crashed
    gaps,                   \* history: what the protocol does not cover, see Gaps
    puts, faults            \* counters for the bounds

masterVars == <<master, puts, push2SlaveMaxOffset>>
logVars == <<slaveFile, slaveBase, slaveLog, slaveHigh>>
connVars == <<connected, currentReportedOffset, toSlave, toMaster,
              slaveRequestOffset, nextTransferFromWhere>>
reputVars == <<reputFromOffset, dispatched>>
vars == <<masterVars, logVars, connVars, reputVars, oldReports, gaps, faults>>

\* What happened so far that costs the slave its copy: a slave with an empty
\* first file joined again at a later file of the master; the file for the
\* first frame could not be created; the master restarted with less than the
\* slave has.  And what costs it the order of dispatching only: the master
\* lost messages, which leaves numbers out; a shutdown came before everything
\* was dispatched.
Splits == {"rejoined", "failed", "ahead"}
Gaps == Splits \cup {"lost", "skipped"}
Mark(gap, happened) == gaps' = IF happened THEN gaps \cup {gap} ELSE gaps

Blank == 0
Unit(n, i) == IF i = 1 THEN n ELSE MaxMessages + n
PerFile == FileSize \div MsgUnits
Lesser(m, n) == IF m < n THEN m ELSE n
Greater(m, n) == IF m < n THEN n ELSE m

\* Where recovery may end: at the start of a message or of the blank.
Boundary(o) == LET p == o % FileSize IN (p % MsgUnits) = 0 /\ p <= PerFile * MsgUnits
AtBlank(o) == o % FileSize = PerFile * MsgUnits
FileStart(o) == o - (o % FileSize)

\* getMaxOffset of the slave's log
SlaveMax == IF slaveFile THEN slaveBase + Len(slaveLog) ELSE 0

Init ==
    /\ master = <<>> /\ puts = 0 /\ push2SlaveMaxOffset = 0
    /\ slaveFile = FALSE /\ slaveBase = 0 /\ slaveLog = <<>> /\ slaveHigh = 0
    /\ connected = FALSE /\ currentReportedOffset = 0
    /\ toSlave = <<>> /\ toMaster = <<>>
    /\ slaveRequestOffset = -1 /\ nextTransferFromWhere = -1
    /\ oldReports = {}
    /\ reputFromOffset = 0 /\ dispatched = <<>>
    /\ gaps = {} /\ faults = 0

-----------------------------------------------------------------------------
(* The master                                                              *)

putMessage ==
    LET blanks == IF AtBlank(Len(master)) THEN FileSize % MsgUnits ELSE 0
        blank == [i \in 1 .. blanks |-> Blank]
        message == [i \in 1 .. MsgUnits |-> Unit(puts + 1, i)]
    IN
    /\ puts < MaxMessages
    /\ master' = master \o blank \o message
    /\ puts' = puts + 1
    /\ UNCHANGED <<push2SlaveMaxOffset, logVars, connVars, reputVars, oldReports, gaps, faults>>

notifyTransferSome(offset) ==
    push2SlaveMaxOffset' = Greater(push2SlaveMaxOffset, offset)

\* ReadSocketService: of the reports that have arrived only the last counts.
ReadReport ==
    /\ connected
    /\ \E k \in DOMAIN toMaster :
          /\ slaveRequestOffset' = IF slaveRequestOffset < 0 THEN toMaster[k]
                                   ELSE slaveRequestOffset
          /\ notifyTransferSome(toMaster[k])
          /\ toMaster' = SubSeq(toMaster, k + 1, Len(toMaster))
    /\ UNCHANGED <<master, puts, logVars, connected, currentReportedOffset, toSlave,
                   nextTransferFromWhere, reputVars, oldReports, gaps, faults>>

\* A report the slave sent before it closed the connection.
ReadOldReport ==
    /\ \E offset \in oldReports :
          /\ oldReports' = oldReports \ {offset}
          /\ notifyTransferSome(offset)
    /\ UNCHANGED <<master, puts, logVars, connVars, reputVars, gaps, faults>>

\* WriteSocketService decides where to begin: a slave without data gets the
\* master's last file.
TransferFirst ==
    /\ connected /\ slaveRequestOffset # -1 /\ nextTransferFromWhere = -1
    /\ nextTransferFromWhere' = IF slaveRequestOffset = 0 THEN FileStart(Len(master))
                                ELSE slaveRequestOffset
    /\ Mark("rejoined", slaveRequestOffset = 0 /\ slaveFile /\ nextTransferFromWhere' # 0)
    /\ UNCHANGED <<masterVars, logVars, connected, currentReportedOffset, toSlave,
                   toMaster, slaveRequestOffset, reputVars, oldReports, faults>>

\* A batch, at most to the end of the file.
TransferData ==
    LET from == nextTransferFromWhere
        end == Lesser(Lesser(Len(master), FileStart(from) + FileSize), from + Batch)
    IN
    /\ connected /\ from # -1 /\ from < Len(master)
    /\ Len(toSlave) < MaxInFlight
    /\ toSlave' = Append(toSlave, [from |-> from, data |-> SubSeq(master, from + 1, end)])
    /\ nextTransferFromWhere' = end
    /\ UNCHANGED <<masterVars, logVars, connected, currentReportedOffset, toMaster,
                   slaveRequestOffset, reputVars, oldReports, gaps, faults>>

\* A header without a body, when nothing was written for a while.
Heartbeat ==
    /\ connected /\ nextTransferFromWhere # -1 /\ toSlave = <<>>
    /\ toSlave' = <<[from |-> nextTransferFromWhere, data |-> <<>>]>>
    /\ UNCHANGED <<masterVars, logVars, connected, currentReportedOffset, toMaster,
                   slaveRequestOffset, nextTransferFromWhere, reputVars, oldReports, gaps, faults>>

-----------------------------------------------------------------------------
(* The slave's HAClient                                                    *)

\* Mutant of ConnectMaster: the offset of the last connection is reported.
ConnectMasterStale ==
    /\ ~connected
    /\ connected' = TRUE
    /\ UNCHANGED <<masterVars, logVars, currentReportedOffset, toSlave, toMaster,
                   slaveRequestOffset, nextTransferFromWhere, reputVars, oldReports, gaps, faults>>

ConnectMaster ==
    /\ ~connected
    /\ connected' = TRUE
    /\ currentReportedOffset' = SlaveMax
    /\ UNCHANGED <<masterVars, logVars, toSlave, toMaster, slaveRequestOffset,
                   nextTransferFromWhere, reputVars, oldReports, gaps, faults>>

\* The first report, and one whenever nothing came for a while.
ReportOffset ==
    /\ connected /\ toMaster = <<>>
    /\ toMaster' = <<currentReportedOffset>>
    /\ UNCHANGED <<masterVars, logVars, connected, currentReportedOffset, toSlave,
                   slaveRequestOffset, nextTransferFromWhere, reputVars, oldReports, gaps, faults>>

\* Either side closes: frames on the way are lost, reports may still be read.
Close ==
    /\ connected' = FALSE
    /\ toSlave' = <<>> /\ toMaster' = <<>>
    /\ slaveRequestOffset' = -1 /\ nextTransferFromWhere' = -1

\* Mutant of Expected: a frame from further ahead is let through.
ExpectedAhead(frame) == SlaveMax = 0 \/ SlaveMax <= frame.from

\* The frame continues the slave's log, or the slave has none.
Expected(frame) == SlaveMax = 0 \/ SlaveMax = frame.from

\* dispatchReadRequest closes the connection at a frame that does not fit ...
RejectFrame ==
    /\ connected /\ toSlave # <<>>
    /\ ~Expected(Head(toSlave))
    /\ Close
    /\ oldReports' = oldReports \cup { toMaster[k] : k \in DOMAIN toMaster }
    /\ UNCHANGED <<masterVars, logVars, currentReportedOffset, reputVars, gaps, faults>>

\* ... and otherwise appends it, to the last file if there is one and room
\* in it, whatever offset the frame has, and reports when that was something
\* new.  A heartbeat leaves an empty slave with an empty file.  A failed append
\* goes unnoticed.
AppendFrame ==
    LET frame == Head(toSlave)
        room == FileSize - (SlaveMax % FileSize)
    IN
    /\ connected /\ toSlave # <<>>
    /\ Len(toMaster) < MaxInFlight
    /\ Expected(frame)
    /\ IF Len(frame.data) <= room
         THEN /\ slaveFile' = TRUE
              /\ slaveBase' = IF slaveFile THEN slaveBase ELSE FileStart(frame.from)
              /\ slaveLog' = slaveLog \o frame.data
         ELSE UNCHANGED <<slaveFile, slaveBase, slaveLog>>
    /\ slaveHigh' = Greater(slaveHigh, SlaveMax')
    /\ toSlave' = Tail(toSlave)
    /\ IF SlaveMax' > currentReportedOffset
         THEN /\ currentReportedOffset' = SlaveMax'
              /\ toMaster' = Append(toMaster, SlaveMax')
         ELSE UNCHANGED <<currentReportedOffset, toMaster>>
    /\ UNCHANGED <<masterVars, connected, slaveRequestOffset, nextTransferFromWhere,
                   reputVars, oldReports, gaps, faults>>

\* Mutant of AppendFails: what was sent is reported, not what is there.
AppendFailsReports ==
    LET sent == Head(toSlave).from + Len(Head(toSlave).data) IN
    /\ faults < MaxFaults /\ faults' = faults + 1
    /\ connected /\ toSlave # <<>>
    /\ Expected(Head(toSlave))
    /\ slaveFile => slaveLog # <<>> /\ SlaveMax % FileSize = 0
    /\ toSlave' = Tail(toSlave)
    /\ toMaster' = Append(toMaster, sent)
    /\ Mark("failed", ~slaveFile /\ Head(toSlave).data # <<>>)
    /\ UNCHANGED <<masterVars, logVars, connected, currentReportedOffset,
                   slaveRequestOffset, nextTransferFromWhere, reputVars, oldReports>>

\* The slave cannot create the file for the frame: nothing is appended, hence
\* nothing new to report, and the next frame will be rejected unless the slave
\* is empty: then it is taken for the first.
AppendFails ==
    /\ faults < MaxFaults /\ faults' = faults + 1
    /\ connected /\ toSlave # <<>>
    /\ Expected(Head(toSlave))
    /\ slaveFile => slaveLog # <<>> /\ SlaveMax % FileSize = 0
    /\ toSlave' = Tail(toSlave)
    /\ Mark("failed", ~slaveFile /\ Head(toSlave).data # <<>>)
    /\ UNCHANGED <<masterVars, logVars, connected, currentReportedOffset, toMaster,
                   slaveRequestOffset, nextTransferFromWhere, reputVars, oldReports>>

-----------------------------------------------------------------------------
(* ReputMessageService on the slave                                        *)

\* An empty slave starts at 0, its log where the master's last file starts.
ReputStart == IF reputFromOffset = 0 THEN slaveBase ELSE reputFromOffset

\* Mutant of RollNextFile: the start of this file, not of the next.
RollNextFileBack(o) == FileStart(o)

RollNextFile(o) == FileStart(o) + FileSize

\* Where the next message starts: here, or behind the blank.
MessageAt(o) == IF AtBlank(o) THEN RollNextFile(o) ELSE o

\* A message is dispatched once all of it is there, nothing is where a message
\* does not start; the blank leads to the next file.
Reput ==
    LET o == ReputStart
        unit == slaveLog[o - slaveBase + 1]
    IN
    /\ slaveFile
    /\ IF AtBlank(o)
         THEN /\ o < SlaveMax
              /\ reputFromOffset' = RollNextFile(o)
              /\ UNCHANGED dispatched
         ELSE /\ o + MsgUnits <= SlaveMax
              /\ unit \in 1 .. MaxMessages
              /\ reputFromOffset' = o + MsgUnits
              /\ dispatched' = Append(dispatched, unit)
    /\ UNCHANGED <<masterVars, logVars, connVars, oldReports, gaps, faults>>

-----------------------------------------------------------------------------
(* Faults                                                                  *)

Fault == faults < MaxFaults /\ faults' = faults + 1

\* The connection is lost, or one side closes it after its housekeeping
\* interval.
Disconnect ==
    /\ Fault /\ connected
    /\ Close
    /\ oldReports' = oldReports \cup { toMaster[k] : k \in DOMAIN toMaster }
    /\ UNCHANGED <<masterVars, logVars, currentReportedOffset, reputVars, gaps>>

\* The slave starts again with its log up to end, dispatching goes on there.
SlaveStart(end) ==
    /\ Boundary(end)
    /\ Close
    /\ oldReports' = oldReports \cup { toMaster[k] : k \in DOMAIN toMaster }
    /\ slaveLog' = SubSeq(slaveLog, 1, end - slaveBase)
    /\ reputFromOffset' = IF slaveFile THEN end ELSE 0
    /\ currentReportedOffset' = 0
    /\ UNCHANGED <<masterVars, slaveFile, slaveBase, slaveHigh>>

\* After a shutdown recovery keeps every whole message.  What was not dispatched
\* by then never is: DispatchMessageService is stopped before the dispatching.
SlaveRestart ==
    /\ Fault
    /\ \E end \in slaveBase .. slaveBase + Len(slaveLog) :
          /\ MessageAt(end) + MsgUnits > slaveBase + Len(slaveLog)
          /\ SlaveStart(end)
          /\ Mark("skipped", slaveFile /\ MessageAt(ReputStart) < MessageAt(end))
    /\ UNCHANGED dispatched

\* A crash may cost the slave messages, and recovery dispatches again what is
\* left (module MessageStore).
SlaveCrash ==
    /\ Fault
    /\ \E end \in slaveBase .. slaveBase + Len(slaveLog) : SlaveStart(end)
    /\ dispatched' = <<>>
    /\ UNCHANGED gaps

\* The master restarts; what it knew of its slaves is gone, and a crash may have
\* cost it messages.
MasterRestart ==
    /\ Fault
    /\ Close
    /\ oldReports' = {}
    /\ push2SlaveMaxOffset' = 0
    /\ \E end \in 0 .. Len(master) :
          /\ end = Len(master) \/ Boundary(end)
          /\ master' = SubSeq(master, 1, end)
          /\ gaps' = gaps \cup (IF end < Len(master) THEN {"lost"} ELSE {})
                         \cup (IF end < SlaveMax THEN {"ahead"} ELSE {})
    /\ UNCHANGED <<puts, logVars, currentReportedOffset, reputVars>>

-----------------------------------------------------------------------------
MasterSteps == ReadReport \/ ReadOldReport \/ TransferFirst \/ TransferData \/ Heartbeat
SlaveSteps == ConnectMaster \/ ReportOffset \/ RejectFrame \/ AppendFrame \/ AppendFails
Faults == Disconnect \/ SlaveRestart \/ SlaveCrash \/ MasterRestart

Next == putMessage \/ MasterSteps \/ SlaveSteps \/ Reput \/ Faults

Spec == Init /\ [][Next]_vars

\* Each service thread goes on: the two of the connection, the slave's client
\* and its dispatching.  Heartbeats come at intervals; without them a failed
\* append of the last frame would stay unnoticed.  Faults and puts need not
\* happen.
Fairness ==
    /\ WF_vars(ReadReport) /\ WF_vars(TransferFirst) /\ WF_vars(TransferData)
    /\ WF_vars(Heartbeat)
    /\ WF_vars(ConnectMaster) /\ WF_vars(ReportOffset)
    /\ WF_vars(RejectFrame \/ AppendFrame)
    /\ WF_vars(Reput)

FairSpec == Spec /\ Fairness

-----------------------------------------------------------------------------
(* Properties                                                              *)

CopyOfMaster ==
    \A i \in DOMAIN slaveLog :
       /\ slaveBase + i \in DOMAIN master
       /\ slaveLog[i] = master[slaveBase + i]

\* Whatever breaks or restarts, the slave's log is a copy of the master's, from
\* the offset at which it joined and without gap, overlap or shift, also when a
\* heartbeat or a crash left the slave with an empty file, or the master lost
\* messages the slave had not got yet.  Not covered is what comes after one of
\* three events, because nothing in the protocol notices them: a slave whose
\* empty file is the master's first joins again when the master has gone on to
\* a later file; the append of the first frame fails; the master restarts with
\* less than the slave has.
SlaveIsCopy == gaps \cap Splits = {} => CopyOfMaster

\* push2SlaveMaxOffset, which releases producers, counts only what the slave
\* really stored: reports that are late, merged or of an old connection, and
\* appends that failed, never raise it above that.
AckedWasStored == push2SlaveMaxOffset <= slaveHigh

\* Once the faults are over the slave catches up and dispatching has come to the
\* end of its log, except after the events that SlaveIsCopy does not cover.
CatchesUp ==
    <>[](gaps \cap Splits = {} =>
            SlaveMax = Len(master) /\ (slaveLog # <<>> => ReputStart = SlaveMax))

Frames == [from : Nat, data : Seq(Nat)]

LogTypeOK ==
    /\ master \in Seq(Nat) /\ slaveLog \in Seq(Nat)
    /\ slaveBase \in Nat /\ slaveFile \in BOOLEAN
    /\ currentReportedOffset \in Nat
    /\ slaveRequestOffset \in Nat \cup {-1}
    /\ nextTransferFromWhere \in Nat \cup {-1}
    /\ toSlave \in Seq(Frames)
    /\ toMaster \in Seq(Nat)
    /\ puts \in Nat

TypeOK ==
    /\ LogTypeOK
    /\ connected \in BOOLEAN
    /\ push2SlaveMaxOffset \in Nat /\ oldReports \subseteq Nat /\ slaveHigh \in Nat
    /\ FileStart(slaveBase) = slaveBase
    /\ reputFromOffset \in Nat /\ Boundary(reputFromOffset)
    /\ dispatched \in Seq(Nat)
    /\ gaps \subseteq Gaps
    /\ faults \in Nat

InOrder == \A i \in 1 .. Len(dispatched) - 1 : dispatched[i + 1] = dispatched[i] + 1

\* Messages dispatched on the slave, hence consumed there, come in the order
\* of the master and none is left out or repeated, also across restarts.  Not
\* covered is what comes after one of Gaps: the events that SlaveIsCopy does
\* not cover, a master that lost messages, and a shutdown before everything
\* was dispatched.
DispatchedInOrder == TypeOK /\ (gaps = {} => InOrder)

-----------------------------------------------------------------------------
(* The inductive strengthening of SlaveIsCopy, which holds as long as none *)
(* of Splits has happened.                                                 *)

\* The frame is a piece of the master's log, of at most a file.
FrameIsCopy(frame) ==
    /\ Len(frame.data) <= FileSize
    /\ \A i \in DOMAIN frame.data :
          /\ frame.from + i \in DOMAIN master
          /\ frame.data[i] = master[frame.from + i]

\* The frames of a connection continue one another.
ChainInv ==
    /\ \A k \in 1 .. Len(toSlave) - 1 :
          toSlave[k + 1].from = toSlave[k].from + Len(toSlave[k].data)
    /\ toSlave # <<>> => LET frame == toSlave[Len(toSlave)] IN
          nextTransferFromWhere = frame.from + Len(frame.data)

\* The offset of the next frame to come.
NextFrom == IF toSlave # <<>> THEN toSlave[1].from ELSE nextTransferFromWhere

\* The first frame that reaches a slave without data starts a file, and the
\* first one of the log when the slave has that file already.
FirstFrameStartsFile ==
    /\ ~slaveFile => slaveBase = 0 /\ slaveLog = <<>>
    /\ SlaveMax = 0 =>
          /\ currentReportedOffset = 0
          /\ \A k \in DOMAIN toMaster : toMaster[k] = 0
          /\ slaveRequestOffset \in {-1, 0}
          /\ NextFrom # -1 => /\ FileStart(NextFrom) = NextFrom
                              /\ slaveFile => NextFrom = 0

\* Every frame on the way is a piece of the master's log and continues the one
\* before, and the first one an empty slave gets starts the file it goes to,
\* where the check of dispatchReadRequest sees nothing; so whatever the slave
\* appends continues its copy.
CopyInv ==
    /\ LogTypeOK
    /\ CopyOfMaster
    /\ \A k \in DOMAIN toSlave : FrameIsCopy(toSlave[k])
    /\ ChainInv
    /\ FirstFrameStartsFile

SplitInv == gaps \cap Splits = {} => CopyInv

-----------------------------------------------------------------------------
(* The inductive strengthening of AckedWasStored, whatever happens.        *)

\* Every report, on the way or still unread on an old connection, and the next
\* one the slave would send, is of something the slave once had.
AckInv ==
    /\ LogTypeOK
    /\ push2SlaveMaxOffset \in Nat /\ oldReports \subseteq Nat /\ slaveHigh \in Nat
    /\ AckedWasStored
    /\ \A k \in DOMAIN toMaster : toMaster[k] <= slaveHigh
    /\ \A offset \in oldReports : offset <= slaveHigh
    /\ currentReportedOffset <= slaveHigh
    /\ SlaveMax <= slaveHigh

-----------------------------------------------------------------------------
(* The inductive strengthening of DispatchedInOrder, which holds as long   *)
(* as none of Gaps has happened.                                           *)

\* Message n ends at o: the master's next message is n + 1, or n is its last.
EndsAt(n, o) ==
    /\ o <= Len(master)
    /\ IF MessageAt(o) < Len(master) THEN master[MessageAt(o) + 1] = n + 1
                                     ELSE n = puts

NumberedInv ==
    /\ Boundary(Len(master))
    /\ \A o \in 0 .. Len(master) - 1 :
          Boundary(o) /\ ~AtBlank(o) => EndsAt(master[o + 1], o + MsgUnits)

\* Dispatching stands behind the message it dispatched last, never before the
\* first file of the slave, and never beyond its log but for the end of a blank.
ReputInv ==
    /\ ~slaveFile => reputFromOffset = 0 /\ dispatched = <<>>
    /\ reputFromOffset = 0 \/ reputFromOffset >= slaveBase
    /\ \/ reputFromOffset <= SlaveMax
       \/ \E o \in slaveBase .. SlaveMax : AtBlank(o) /\ reputFromOffset = RollNextFile(o)
    /\ dispatched # <<>> =>
          /\ reputFromOffset # 0
          /\ EndsAt(dispatched[Len(dispatched)], reputFromOffset)

OrderedInv == TypeOK /\ (gaps = {} => CopyInv /\ NumberedInv /\ ReputInv /\ InOrder)

=============================================================================
