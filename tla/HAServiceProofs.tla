-------------------------- MODULE HAServiceProofs --------------------------
(***************************************************************************)
(* The slave's copy, its reports and its dispatch, for every size of       *)
(* messages, files and batches and any number of messages, frames,         *)
(* disconnects and restarts.  An acknowledged offset was stored by the     *)
(* slave whatever happens (AckInv); the log is a copy of the master's      *)
(* (CopyInv) as long as none of Splits has happened, and is dispatched in  *)
(* its order (OrderedInv) as long as none of Gaps has.                     *)
(***************************************************************************)
EXTENDS HAService, TLAPS, SequenceTheorems

\* What is left of a division by FileSize, as the code computes file starts.
LEMMA Division ==
    ASSUME NEW x \in Int
    PROVE  /\ x % FileSize \in 0 .. FileSize - 1
           /\ x \div FileSize \in Int
           /\ x = FileSize * (x \div FileSize) + (x % FileSize)
BY HAAssumption, SMT

\* A multiple of FileSize has remainder zero.
LEMMA MultipleHasNoRest ==
    ASSUME NEW a \in Int, NEW r \in 0 .. FileSize - 1, FileSize * a = r
    PROVE  r = 0
<1>1. FileSize \in Nat /\ FileSize > 0
  BY HAAssumption
<1>2. CASE a <= -1
  <2>1. FileSize * a <= FileSize * (-1)
    BY <1>1, <1>2, SMT
  <2>2. QED
    BY <2>1, <1>1, SMT
<1>3. CASE a >= 1
  <2>1. FileSize * a >= FileSize * 1
    BY <1>1, <1>3, SMT
  <2>2. QED
    BY <2>1, <1>1, SMT
<1>4. CASE a = 0
  BY <1>1, <1>4, SMT
<1>5. QED
  BY <1>2, <1>3, <1>4

\* FileStart gives the start of a file, at or before the offset and less than
\* a file away.
LEMMA FileStartFacts ==
    ASSUME NEW x \in Nat
    PROVE  /\ FileStart(x) \in Nat
           /\ FileStart(x) <= x /\ x < FileStart(x) + FileSize
           /\ FileStart(FileStart(x)) = FileStart(x)
<1> DEFINE y == FileStart(x)
<1>1. FileSize \in Nat /\ FileSize > 0
  BY HAAssumption
<1>2. /\ x % FileSize \in 0 .. FileSize - 1
      /\ x \div FileSize \in Int
      /\ x = FileSize * (x \div FileSize) + (x % FileSize)
  BY Division
<1>3. y = FileSize * (x \div FileSize) /\ y \in Int
  BY <1>1, <1>2 DEF FileStart
<1>4. y >= 0
  <2>1. CASE x \div FileSize >= 0
    BY <2>1, <1>1, <1>2, <1>3, SMT
  <2>2. CASE x \div FileSize <= -1
    <3>1. FileSize * (x \div FileSize) <= FileSize * (-1)
      BY <2>2, <1>1, <1>2, SMT
    <3>2. QED
      BY <3>1, <1>1, <1>2, SMT
  <2>3. QED
    BY <2>1, <2>2, <1>2
<1>5. y <= x /\ x < y + FileSize
  BY <1>1, <1>2, <1>3 DEF FileStart
<1>6. y % FileSize = 0
  <2> HIDE DEF y
  <2>1. /\ y % FileSize \in 0 .. FileSize - 1
        /\ y \div FileSize \in Int
        /\ y = FileSize * (y \div FileSize) + (y % FileSize)
    BY <1>3, Division
  <2>2. FileSize * ((x \div FileSize) - (y \div FileSize)) = y % FileSize
    BY <2>1, <1>1, <1>2, <1>3, SMT
  <2>3. QED
    BY <2>1, <2>2, <1>2, MultipleHasNoRest
<1>7. FileStart(y) = y - (y % FileSize)
  BY DEF FileStart
<1>8. QED
  BY <1>3, <1>4, <1>5, <1>6, <1>7

\* The head of a queue and what remains without it.
LEMMA Rest ==
    ASSUME NEW S, NEW q \in Seq(S), q # <<>>
    PROVE  /\ Head(q) = q[1] /\ q[1] \in S /\ 1 \in DOMAIN q
           /\ Tail(q) \in Seq(S)
           /\ \A k \in DOMAIN Tail(q) : k + 1 \in DOMAIN q /\ Tail(q)[k] = q[k + 1]
<1>1. Len(q) \in Nat /\ Len(q) > 0 /\ DOMAIN q = 1 .. Len(q)
  BY EmptySeq
<1>2. Head(q) = q[1]
  BY <1>1, SMT
<1>3. /\ Tail(q) \in Seq(S) /\ Len(Tail(q)) = Len(q) - 1
      /\ \A i \in 1 .. Len(Tail(q)) : Tail(q)[i] = q[i + 1]
  BY HeadTailProperties
<1>4. DOMAIN Tail(q) = 1 .. Len(q) - 1
  BY <1>3
<1>5. QED
  BY <1>1, <1>2, <1>3, <1>4

\* A piece of a sequence.
LEMMA Piece ==
    ASSUME NEW S, NEW q \in Seq(S), NEW m \in Nat, NEW n \in Nat, m <= n, n <= Len(q)
    PROVE  /\ SubSeq(q, m + 1, n) \in Seq(S) /\ Len(SubSeq(q, m + 1, n)) = n - m
           /\ \A i \in DOMAIN SubSeq(q, m + 1, n) :
                 m + i \in DOMAIN q /\ SubSeq(q, m + 1, n)[i] = q[m + i]
<1> DEFINE piece == SubSeq(q, m + 1, n)
<1>1. DOMAIN q = 1 .. Len(q) /\ Len(q) \in Nat /\ \A i \in 1 .. Len(q) : q[i] \in S
  OBVIOUS
<1>2. \A i \in m + 1 .. n : q[i] \in S
  BY <1>1
<1>3. /\ piece \in Seq(S)
      /\ Len(piece) = IF m + 1 <= n THEN n - (m + 1) + 1 ELSE 0
      /\ \A i \in 1 .. n - (m + 1) + 1 : piece[i] = q[m + 1 + i - 1]
  BY <1>2, SubSeqProperties
<1> HIDE DEF piece
<1>4. Len(piece) = n - m /\ DOMAIN piece = 1 .. n - m
  BY <1>3
<1>5. \A i \in 1 .. n - m : piece[i] = q[m + i]
  BY <1>3
<1>6. QED
  BY <1>1, <1>3, <1>4, <1>5 DEF piece

\* Frames stay pieces of the master's log while that does not change.
LEMMA FramesStayCopies ==
    ASSUME UNCHANGED master, \A k \in DOMAIN toSlave' : FrameIsCopy(toSlave'[k])
    PROVE  (\A k \in DOMAIN toSlave : FrameIsCopy(toSlave[k]))'
BY DEF FrameIsCopy

\* What has happened stays on record.
LEMMA GapsStay ==
    ASSUME [Next]_vars
    PROVE  gaps \subseteq gaps'
BY DEF Next, vars, MasterSteps, SlaveSteps, Faults, putMessage, ReadReport, ReadOldReport,
   TransferFirst, TransferData, Heartbeat, ConnectMaster, ReportOffset, RejectFrame,
   AppendFrame, AppendFails, Reput, Disconnect, SlaveRestart, SlaveCrash, MasterRestart, Mark

\* The master and the slave start with nothing.
LEMMA InitCopy == Init => CopyInv
<1> SUFFICES ASSUME Init PROVE CopyInv
  OBVIOUS
<1>1. LogTypeOK
  <2>1. /\ master \in Seq(Nat) /\ slaveLog \in Seq(Nat)
        /\ toSlave \in Seq(Frames) /\ toMaster \in Seq(Nat)
    BY EmptySeq DEF Init
  <2>2. QED
    BY <2>1 DEF Init, LogTypeOK
<1>2. CopyOfMaster /\ (\A k \in DOMAIN toSlave : FrameIsCopy(toSlave[k]))
  BY DEF Init, CopyOfMaster
<1>3. ChainInv
  <2>1. Len(toSlave) = 0 /\ toSlave = <<>>
    BY EmptySeq DEF Init
  <2>2. QED
    BY <2>1 DEF ChainInv
<1>4. FirstFrameStartsFile
  BY DEF Init, FirstFrameStartsFile, NextFrom
<1>5. QED
  BY <1>1, <1>2, <1>3, <1>4 DEF CopyInv

\* Putting a message leaves every offset written before as it is.
LEMMA MasterGrows ==
    ASSUME CopyInv, putMessage
    PROVE  /\ master' \in Seq(Nat)
           /\ \A i \in DOMAIN master : i \in DOMAIN master' /\ master'[i] = master[i]
<1> DEFINE blanks == IF AtBlank(Len(master)) THEN FileSize % MsgUnits ELSE 0
           blank == [i \in 1 .. blanks |-> Blank]
           message == [i \in 1 .. MsgUnits |-> Unit(puts + 1, i)]
<1>1. blanks \in Nat /\ MsgUnits \in Nat /\ puts \in Nat /\ master \in Seq(Nat)
  BY HAAssumption DEF CopyInv, LogTypeOK
<1>2. blank \in Seq(Nat) /\ message \in Seq(Nat)
  BY <1>1, HAAssumption DEF Blank, Unit
<1>3. master' = master \o blank \o message
  BY DEF putMessage
<1> HIDE DEF blanks, blank, message
<1>4. /\ master \o blank \in Seq(Nat)
      /\ \A i \in DOMAIN master : i \in DOMAIN (master \o blank)
                                  /\ (master \o blank)[i] = master[i]
  BY <1>1, <1>2
<1>5. QED
  BY <1>1, <1>2, <1>3, <1>4

\* Without frames on the way there is nothing to show of them.
LEMMA NothingChained ==
    ASSUME toSlave' = <<>>
    PROVE  ChainInv' /\ (\A k \in DOMAIN toSlave : FrameIsCopy(toSlave[k]))'
<1>1. Len(toSlave') = 0 /\ DOMAIN toSlave' = {}
  BY EmptySeq
<1>2. QED
  BY <1>1 DEF ChainInv

\* When the connection goes, nothing is on the way any more.
LEMMA CloseKeepsCopy ==
    ASSUME CopyInv, Close, master' = master, puts' = puts,
           UNCHANGED <<slaveFile, slaveBase, slaveLog>>,
           currentReportedOffset' \in {0, currentReportedOffset}
    PROVE  CopyInv'
<1>1. LogTypeOK'
  BY DEF CopyInv, LogTypeOK, Close
<1>2. CopyOfMaster'
  BY DEF CopyInv, CopyOfMaster
<1>3. ChainInv' /\ (\A k \in DOMAIN toSlave : FrameIsCopy(toSlave[k]))'
  BY NothingChained DEF Close
<1>4. FirstFrameStartsFile'
  BY DEF CopyInv, Close, FirstFrameStartsFile, SlaveMax, NextFrom
<1>5. QED
  BY <1>1, <1>2, <1>3, <1>4 DEF CopyInv

\* Where the frame that is appended belongs: it continues the slave's log, or
\* it is the first one and starts the slave's first file.
LEMMA FrameContinues ==
    ASSUME CopyInv, toSlave # <<>>, Expected(toSlave[1])
    PROVE  LET base == IF slaveFile THEN slaveBase ELSE FileStart(toSlave[1].from)
           IN  /\ base \in Nat
               /\ base + Len(slaveLog) = toSlave[1].from
               /\ slaveFile => base = slaveBase
               /\ ~slaveFile => slaveLog = <<>>
<1>1. toSlave[1] \in Frames /\ toSlave[1].from \in Nat /\ toSlave[1].data \in Seq(Nat)
  <2>1. toSlave[1] \in Frames
    BY Rest DEF CopyInv, LogTypeOK
  <2>2. QED
    BY <2>1 DEF Frames
<1>2. NextFrom = toSlave[1].from /\ NextFrom # -1
  BY <1>1 DEF NextFrom
<1>3. slaveBase \in Nat /\ Len(slaveLog) \in Nat /\ slaveFile \in BOOLEAN
  BY DEF CopyInv, LogTypeOK
<1>4. CASE SlaveMax # 0
  BY <1>1, <1>3, <1>4 DEF Expected, SlaveMax
<1>5. CASE SlaveMax = 0
  <2>1. FileStart(toSlave[1].from) = toSlave[1].from /\ (slaveFile => toSlave[1].from = 0)
    BY <1>2, <1>5 DEF CopyInv, FirstFrameStartsFile
  <2>2. ~slaveFile => slaveLog = <<>>
    BY DEF CopyInv, FirstFrameStartsFile
  <2>3. QED
    BY <1>1, <1>3, <1>5, <2>1, <2>2 DEF SlaveMax
<1>6. QED
  BY <1>4, <1>5

\* When the first frame is taken the next one continues it.
LEMMA FrameTaken ==
    ASSUME CopyInv, toSlave # <<>>, toSlave' = Tail(toSlave), UNCHANGED nextTransferFromWhere
    PROVE  /\ ChainInv'
           /\ NextFrom = toSlave[1].from
           /\ NextFrom' = toSlave[1].from + Len(toSlave[1].data)
<1>1. toSlave \in Seq(Frames)
  BY DEF CopyInv, LogTypeOK
<1>2. Len(toSlave) \in Nat /\ Len(toSlave) > 0
  BY <1>1, EmptySeq
<1>3. /\ toSlave' \in Seq(Frames) /\ Len(toSlave') = Len(toSlave) - 1
      /\ \A k \in 1 .. Len(toSlave') : toSlave'[k] = toSlave[k + 1]
  BY <1>1, HeadTailProperties
<1>4. /\ \A k \in 1 .. Len(toSlave) - 1 :
            toSlave[k + 1].from = toSlave[k].from + Len(toSlave[k].data)
      /\ nextTransferFromWhere = toSlave[Len(toSlave)].from + Len(toSlave[Len(toSlave)].data)
  BY DEF CopyInv, ChainInv
<1>5. NextFrom = toSlave[1].from
  BY DEF NextFrom
<1>6. CASE Len(toSlave) = 1
  <2>1. Len(toSlave') = 0
    BY <1>3, <1>6
  <2>2. toSlave' = <<>>
    BY <1>3, <2>1, EmptySeq
  <2>3. ChainInv'
    BY <2>2, NothingChained
  <2>4. NextFrom' = nextTransferFromWhere
    BY <2>2 DEF NextFrom
  <2>5. QED
    BY <1>4, <1>5, <1>6, <2>3, <2>4
<1>7. CASE Len(toSlave) > 1
  <2>1. Len(toSlave') > 0
    BY <1>2, <1>3, <1>7
  <2>2. toSlave' # <<>>
    <3>1. toSlave' = <<>> => Len(toSlave') = 0
      OBVIOUS
    <3>2. QED
      BY <2>1, <3>1
  <2>3. ASSUME NEW k \in 1 .. Len(toSlave') - 1
        PROVE  toSlave'[k + 1].from = toSlave'[k].from + Len(toSlave'[k].data)
    <3>1. /\ k \in 1 .. Len(toSlave') /\ k + 1 \in 1 .. Len(toSlave')
          /\ k + 1 \in 1 .. Len(toSlave) - 1
      BY <1>2, <1>3
    <3>2. toSlave'[k] = toSlave[k + 1] /\ toSlave'[k + 1] = toSlave[(k + 1) + 1]
      BY <1>3, <3>1
    <3>3. QED
      BY <1>4, <3>1, <3>2
  <2>4. toSlave'[Len(toSlave')] = toSlave[Len(toSlave)]
    <3>1. Len(toSlave') \in 1 .. Len(toSlave') /\ Len(toSlave') + 1 = Len(toSlave)
      BY <1>2, <1>3, <2>1
    <3>2. QED
      BY <1>3, <3>1
  <2>5. toSlave'[1].from = toSlave[1].from + Len(toSlave[1].data)
    <3>1. 1 \in 1 .. Len(toSlave') /\ 1 \in 1 .. Len(toSlave) - 1
      BY <1>2, <1>3, <1>7
    <3>2. toSlave'[1] = toSlave[1 + 1]
      BY <1>3, <3>1
    <3>3. QED
      BY <1>4, <3>1, <3>2
  <2>6. ChainInv'
    BY <1>4, <2>3, <2>4 DEF ChainInv
  <2>7. QED
    BY <1>5, <2>2, <2>5, <2>6 DEF NextFrom
<1>8. Len(toSlave) = 1 \/ Len(toSlave) > 1
  <2>1. \A l \in Nat : l > 0 => l = 1 \/ l > 1
    OBVIOUS
  <2>2. QED
    BY <1>2, <2>1
<1>9. QED
  BY <1>6, <1>7, <1>8

\* The slave starts again with the beginning of its log.
LEMMA StartKeepsCopy ==
    ASSUME CopyInv, NEW end \in slaveBase .. slaveBase + Len(slaveLog), SlaveStart(end)
    PROVE  /\ CopyInv'
           /\ slaveFile => SlaveMax' = end
<1>1. /\ Close /\ currentReportedOffset' = 0
      /\ slaveLog' = SubSeq(slaveLog, 1, end - slaveBase)
      /\ UNCHANGED <<masterVars, slaveFile, slaveBase>>
  BY DEF SlaveStart
<1>2. slaveBase \in Nat /\ slaveLog \in Seq(Nat) /\ Len(slaveLog) \in Nat
  BY DEF CopyInv, LogTypeOK
<1>3. /\ slaveLog' \in Seq(Nat) /\ Len(slaveLog') = end - slaveBase
      /\ \A i \in DOMAIN slaveLog' : i \in DOMAIN slaveLog /\ slaveLog'[i] = slaveLog[i]
  BY <1>1, <1>2
<1>4. LogTypeOK'
  BY <1>1, <1>3 DEF CopyInv, LogTypeOK, Close, masterVars
<1>5. CopyOfMaster'
  BY <1>1, <1>3 DEF CopyInv, CopyOfMaster, masterVars
<1>6. ~slaveFile => slaveBase = 0 /\ slaveLog' = <<>>
  <2>1. ASSUME ~slaveFile PROVE slaveBase = 0 /\ Len(slaveLog') = 0
    BY <1>2, <1>3, <2>1 DEF CopyInv, FirstFrameStartsFile
  <2>2. QED
    BY <1>3, <2>1, EmptySeq
<1>7. FirstFrameStartsFile'
  BY <1>1, <1>6 DEF FirstFrameStartsFile, NextFrom, Close
<1>8. ChainInv' /\ (\A k \in DOMAIN toSlave : FrameIsCopy(toSlave[k]))'
  BY <1>1, NothingChained DEF Close
<1>9. ASSUME slaveFile PROVE SlaveMax' = end
  <2>1. SlaveMax' = slaveBase + Len(slaveLog')
    BY <1>1, <1>9 DEF SlaveMax
  <2>2. QED
    BY <1>2, <1>3, <2>1
<1>10. QED
  BY <1>4, <1>5, <1>7, <1>8, <1>9 DEF CopyInv

\* Every step keeps the slave's log a copy of the master's.
LEMMA NextCopy ==
    ASSUME CopyInv, [Next]_vars, gaps' \cap Splits = {}
    PROVE  CopyInv'
<1>a. FileSize \in Nat \ {0} /\ Batch \in Nat \ {0}
  BY HAAssumption
<1>1. CASE putMessage
  <2>1. /\ master' \in Seq(Nat)
        /\ \A i \in DOMAIN master : i \in DOMAIN master' /\ master'[i] = master[i]
    BY <1>1, MasterGrows
  <2>2. UNCHANGED <<logVars, connVars>> /\ puts' \in Nat
    BY <1>1 DEF putMessage, CopyInv, LogTypeOK
  <2>3. LogTypeOK'
    BY <2>1, <2>2 DEF CopyInv, LogTypeOK, logVars, connVars
  <2>4. CopyOfMaster'
    BY <2>1, <2>2 DEF CopyInv, CopyOfMaster, logVars
  <2>5. (\A k \in DOMAIN toSlave : FrameIsCopy(toSlave[k]))'
    BY <2>1, <2>2 DEF CopyInv, FrameIsCopy, connVars
  <2>6. QED
    BY <2>2, <2>3, <2>4, <2>5 DEF CopyInv, FirstFrameStartsFile, SlaveMax, NextFrom, ChainInv,
                                 logVars, connVars
<1>2. CASE ReadReport
  <2>1. PICK k \in DOMAIN toMaster :
           /\ slaveRequestOffset' = IF slaveRequestOffset < 0 THEN toMaster[k]
                                    ELSE slaveRequestOffset
           /\ toMaster' = SubSeq(toMaster, k + 1, Len(toMaster))
    BY <1>2 DEF ReadReport
  <2>2. toMaster \in Seq(Nat) /\ k \in 1 .. Len(toMaster) /\ toMaster[k] \in Nat
    BY DEF CopyInv, LogTypeOK
  <2>3. /\ toMaster' \in Seq(Nat)
        /\ \A j \in DOMAIN toMaster' : k + j \in DOMAIN toMaster /\ toMaster'[j] = toMaster[k + j]
    BY <2>1, <2>2, Piece
  <2>4. UNCHANGED <<master, puts, logVars, currentReportedOffset, toSlave,
                    nextTransferFromWhere>>
    BY <1>2 DEF ReadReport
  <2>5. LogTypeOK'
    BY <2>1, <2>2, <2>3, <2>4 DEF CopyInv, LogTypeOK, logVars
  <2>6. FirstFrameStartsFile'
    BY <2>1, <2>2, <2>3, <2>4 DEF CopyInv, FirstFrameStartsFile, SlaveMax, NextFrom, logVars
  <2>7. QED
    BY <2>4, <2>5, <2>6 DEF CopyInv, CopyOfMaster, FrameIsCopy, ChainInv, logVars
<1>3. CASE ReadOldReport
  BY <1>3 DEF ReadOldReport, CopyInv, LogTypeOK, CopyOfMaster, FrameIsCopy, ChainInv,
              FirstFrameStartsFile, SlaveMax, NextFrom, logVars, connVars
<1>4. CASE TransferFirst
  <2>1. Len(master) \in Nat
    BY DEF CopyInv, LogTypeOK
  <2>2. UNCHANGED <<masterVars, logVars, currentReportedOffset, toSlave, toMaster,
                    slaveRequestOffset>>
    BY <1>4 DEF TransferFirst
  <2>3. /\ slaveRequestOffset \in Nat /\ nextTransferFromWhere = -1
        /\ nextTransferFromWhere' = IF slaveRequestOffset = 0 THEN FileStart(Len(master))
                                    ELSE slaveRequestOffset
        /\ ~(slaveRequestOffset = 0 /\ slaveFile /\ nextTransferFromWhere' # 0)
    BY <1>4 DEF TransferFirst, CopyInv, LogTypeOK, Mark, Splits
  <2>4. /\ nextTransferFromWhere' \in Nat
        /\ slaveRequestOffset = 0 => FileStart(nextTransferFromWhere') = nextTransferFromWhere'
    BY <2>1, <2>3, FileStartFacts
  <2>5. toSlave = <<>>
    <3>1. SUFFICES ASSUME toSlave # <<>> PROVE FALSE
      OBVIOUS
    <3>2. toSlave \in Seq(Frames) /\ Len(toSlave) \in DOMAIN toSlave
      BY <3>1, EmptySeq DEF CopyInv, LogTypeOK
    <3>3. PICK frame \in Frames : frame = toSlave[Len(toSlave)]
      BY <3>2
    <3>4. -1 = frame.from + Len(frame.data) /\ frame.from \in Nat /\ Len(frame.data) \in Nat
      BY <2>3, <3>1, <3>3 DEF CopyInv, ChainInv, Frames
    <3>5. QED
      BY <3>4
  <2>6. LogTypeOK'
    BY <2>2, <2>4 DEF CopyInv, LogTypeOK, masterVars, logVars
  <2>7. FirstFrameStartsFile'
    <3>1. SlaveMax = 0 => slaveRequestOffset = 0
      BY <2>3 DEF CopyInv, FirstFrameStartsFile
    <3>2. NextFrom' = nextTransferFromWhere' /\ SlaveMax' = SlaveMax
      BY <2>2, <2>5 DEF NextFrom, SlaveMax, logVars
    <3>3. FileStart(NextFrom)' = FileStart(NextFrom')
      BY DEF FileStart
    <3>4. QED
      BY <2>2, <2>3, <2>4, <3>1, <3>2, <3>3 DEF CopyInv, FirstFrameStartsFile, logVars
  <2>8. ChainInv'
    BY <2>2, <2>5, NothingChained
  <2>9. QED
    BY <2>2, <2>6, <2>7, <2>8 DEF CopyInv, CopyOfMaster, FrameIsCopy, masterVars, logVars
<1>5. CASE TransferData
  <2> DEFINE from == nextTransferFromWhere
             end == Lesser(Lesser(Len(master), FileStart(from) + FileSize), from + Batch)
             frame == [from |-> from, data |-> SubSeq(master, from + 1, end)]
  <2>1. /\ from \in Nat /\ from < Len(master) /\ master \in Seq(Nat)
        /\ toSlave' = Append(toSlave, frame) /\ nextTransferFromWhere' = end
        /\ UNCHANGED <<masterVars, logVars, currentReportedOffset, toMaster,
                       slaveRequestOffset>>
    BY <1>5 DEF TransferData, CopyInv, LogTypeOK
  <2>2. /\ end \in Nat /\ from < end /\ end <= Len(master)
        /\ end - from <= FileSize
    <3>1. /\ FileStart(from) \in Nat /\ FileStart(from) <= from
          /\ from < FileStart(from) + FileSize
      BY <2>1, FileStartFacts
    <3>2. Len(master) \in Nat
      BY <2>1
    <3>3. ASSUME NEW s \in Nat, NEW l \in Nat, NEW f \in Nat,
                 f < l, s <= f, f < s + FileSize
          PROVE  LET e == Lesser(Lesser(l, s + FileSize), f + Batch)
                 IN  e \in Nat /\ f < e /\ e <= l /\ e - f <= FileSize
      BY <3>3, <1>a, SMT DEF Lesser
    <3>4. QED
      BY <2>1, <3>1, <3>2, <3>3
  <2> HIDE DEF end
  <2>3. /\ frame.data \in Seq(Nat) /\ Len(frame.data) = end - from
        /\ \A i \in DOMAIN frame.data :
              from + i \in DOMAIN master /\ frame.data[i] = master[from + i]
    BY <2>1, <2>2, Piece
  <2>4. FrameIsCopy(frame) /\ frame \in Frames
    BY <2>1, <2>2, <2>3 DEF FrameIsCopy, Frames
  <2> HIDE DEF frame
  <2>5. /\ toSlave \in Seq(Frames)
        /\ toSlave' \in Seq(Frames)
        /\ toSlave' # <<>>
        /\ \A k \in DOMAIN toSlave' : toSlave'[k] = frame \/ (k \in DOMAIN toSlave
                                                             /\ toSlave'[k] = toSlave[k])
        /\ toSlave'[1] = IF toSlave = <<>> THEN frame ELSE toSlave[1]
    <3>1. toSlave \in Seq(Frames)
      BY DEF CopyInv, LogTypeOK
    <3>2. /\ toSlave' \in Seq(Frames) /\ toSlave' # <<>>
          /\ Len(toSlave') = Len(toSlave) + 1
          /\ \A k \in 1 .. Len(toSlave) : toSlave'[k] = toSlave[k]
          /\ toSlave'[Len(toSlave) + 1] = frame
      BY <3>1, <2>1, <2>4, AppendProperties
    <3>3. QED
      BY <3>1, <3>2, EmptySeq
  <2>6. LogTypeOK'
    BY <2>1, <2>2, <2>5 DEF CopyInv, LogTypeOK, masterVars, logVars
  <2>7. (\A k \in DOMAIN toSlave : FrameIsCopy(toSlave[k]))'
    <3>1. \A k \in DOMAIN toSlave' : FrameIsCopy(toSlave'[k])
      BY <2>4, <2>5 DEF CopyInv
    <3>2. QED
      BY <3>1, <2>1, FramesStayCopies DEF masterVars
  <2>8. frame.from = from /\ nextTransferFromWhere' = frame.from + Len(frame.data)
    BY <2>1, <2>2, <2>3 DEF frame
  <2>9. ChainInv' /\ NextFrom' = NextFrom
    <3>1. /\ toSlave \in Seq(Frames) /\ Len(toSlave) \in Nat
          /\ Len(toSlave') = Len(toSlave) + 1
          /\ \A k \in 1 .. Len(toSlave) : toSlave'[k] = toSlave[k]
          /\ toSlave'[Len(toSlave) + 1] = frame
      BY <2>1, <2>4, <2>5, AppendProperties
    <3>2. ASSUME NEW k \in 1 .. Len(toSlave') - 1
          PROVE  toSlave'[k + 1].from = toSlave'[k].from + Len(toSlave'[k].data)
      <4>1. CASE k = Len(toSlave)
        <5>1. toSlave # <<>> /\ k \in 1 .. Len(toSlave)
          BY <3>1, <4>1
        <5>2. nextTransferFromWhere = toSlave[k].from + Len(toSlave[k].data)
          BY <4>1, <5>1 DEF CopyInv, ChainInv
        <5>3. QED
          BY <2>8, <3>1, <4>1, <5>1, <5>2
      <4>2. CASE k # Len(toSlave)
        <5>1. k \in 1 .. Len(toSlave) - 1 /\ k \in 1 .. Len(toSlave) /\ k + 1 \in 1 .. Len(toSlave)
          BY <3>1, <4>2
        <5>2. QED
          BY <3>1, <5>1 DEF CopyInv, ChainInv
      <4>3. QED
        BY <4>1, <4>2
    <3>3. toSlave'[Len(toSlave')] = frame
      BY <3>1
    <3>4. ChainInv'
      BY <2>8, <3>2, <3>3 DEF ChainInv
    <3>5. NextFrom' = NextFrom
      BY <2>5, <2>8 DEF NextFrom
    <3>6. QED
      BY <3>4, <3>5
  <2>10. FirstFrameStartsFile'
    BY <2>1, <2>9 DEF CopyInv, FirstFrameStartsFile, SlaveMax, FileStart, logVars
  <2>11. QED
    BY <2>1, <2>6, <2>7, <2>9, <2>10 DEF CopyInv, CopyOfMaster, masterVars, logVars
<1>6. CASE Heartbeat
  <2>1. /\ toSlave = <<>>
        /\ toSlave' = <<[from |-> nextTransferFromWhere, data |-> <<>>]>>
        /\ nextTransferFromWhere \in Nat
        /\ UNCHANGED <<masterVars, logVars, currentReportedOffset, toMaster,
                       slaveRequestOffset, nextTransferFromWhere>>
    BY <1>6 DEF Heartbeat, CopyInv, LogTypeOK
  <2>2. LogTypeOK'
    BY <2>1 DEF CopyInv, LogTypeOK, Frames, masterVars, logVars
  <2>3. (\A k \in DOMAIN toSlave : FrameIsCopy(toSlave[k]))'
    BY <2>1, <1>a DEF FrameIsCopy
  <2>4. ChainInv'
    BY <2>1 DEF ChainInv
  <2>5. NextFrom' = NextFrom
    BY <2>1 DEF NextFrom
  <2>6. FirstFrameStartsFile'
    BY <2>1, <2>5 DEF CopyInv, FirstFrameStartsFile, SlaveMax, FileStart, logVars
  <2>7. QED
    BY <2>1, <2>2, <2>3, <2>4, <2>6 DEF CopyInv, CopyOfMaster, masterVars, logVars
<1>7. CASE ConnectMaster
  <2>1. SlaveMax \in Nat /\ (~slaveFile => SlaveMax = 0)
    BY DEF CopyInv, LogTypeOK, SlaveMax
  <2>2. QED
    BY <1>7, <2>1 DEF ConnectMaster, CopyInv, LogTypeOK, CopyOfMaster, FrameIsCopy, ChainInv,
                      FirstFrameStartsFile, SlaveMax, NextFrom, masterVars, logVars
<1>8. CASE ReportOffset
  BY <1>8 DEF ReportOffset, CopyInv, LogTypeOK, CopyOfMaster, FrameIsCopy, ChainInv,
              FirstFrameStartsFile, SlaveMax, NextFrom, masterVars, logVars
<1>9. CASE RejectFrame
  BY <1>9, CloseKeepsCopy DEF RejectFrame, masterVars, logVars
<1>10. CASE AppendFrame
  <2> DEFINE frame == toSlave[1]
             base == IF slaveFile THEN slaveBase ELSE FileStart(frame.from)
  <2>1. /\ toSlave # <<>> /\ toSlave \in Seq(Frames)
        /\ frame \in Frames
        /\ toSlave' = Tail(toSlave) /\ Expected(frame)
        /\ slaveLog \in Seq(Nat) /\ toMaster \in Seq(Nat)
        /\ frame.data \in Seq(Nat) /\ frame.from \in Nat
        /\ UNCHANGED <<masterVars, slaveRequestOffset, nextTransferFromWhere>>
    <3>1. /\ toSlave # <<>> /\ toSlave \in Seq(Frames)
          /\ slaveLog \in Seq(Nat) /\ toMaster \in Seq(Nat)
      BY <1>10 DEF AppendFrame, CopyInv, LogTypeOK
    <3>2. Head(toSlave) = frame /\ frame \in Frames
      BY <3>1, Rest
    <3>3. QED
      BY <1>10, <3>1, <3>2 DEF AppendFrame, Frames
  <2>2. /\ base \in Nat /\ base + Len(slaveLog) = frame.from
        /\ slaveFile => base = slaveBase
        /\ ~slaveFile => slaveLog = <<>>
    BY <2>1, FrameContinues
  <2>3. FrameIsCopy(frame) /\ Head(toSlave) = frame
    BY <2>1, Rest DEF CopyInv
  <2>4. /\ toSlave' \in Seq(Frames)
        /\ \A k \in DOMAIN toSlave' : k + 1 \in DOMAIN toSlave /\ toSlave'[k] = toSlave[k + 1]
    BY <2>1, Rest
  <2>5. (\A k \in DOMAIN toSlave : FrameIsCopy(toSlave[k]))'
    <3>1. \A k \in DOMAIN toSlave' : FrameIsCopy(toSlave'[k])
      BY <2>4 DEF CopyInv
    <3>2. QED
      BY <3>1, <2>1, FramesStayCopies DEF masterVars
  <2>6. slaveFile' = TRUE
    <3>1. CASE slaveFile
      BY <1>10, <3>1 DEF AppendFrame
    <3>2. CASE ~slaveFile
      <4>1. SlaveMax = 0 /\ SlaveMax % FileSize = 0
        BY <3>2, <1>a DEF SlaveMax
      <4>2. Len(frame.data) <= FileSize - (SlaveMax % FileSize)
        BY <4>1, <2>3, <2>1, <1>a DEF FrameIsCopy
      <4>3. QED
        BY <4>2, <2>3, <1>10 DEF AppendFrame
    <3>3. QED
      BY <3>1, <3>2 DEF CopyInv, LogTypeOK
  <2>7. \/ slaveBase' = base /\ slaveLog' = slaveLog \o frame.data
        \/ slaveFile /\ slaveBase' = slaveBase /\ slaveLog' = slaveLog
    <3>1. CASE Len(frame.data) <= FileSize - (SlaveMax % FileSize)
      BY <3>1, <1>10, <2>3 DEF AppendFrame
    <3>2. CASE ~(Len(frame.data) <= FileSize - (SlaveMax % FileSize))
      BY <3>2, <1>10, <2>3, <2>6 DEF AppendFrame
    <3>3. QED
      BY <3>1, <3>2
  <2> HIDE DEF base
  <2>8. slaveLog' \in Seq(Nat) /\ slaveBase' \in Nat
    <3>1. CASE slaveBase' = base /\ slaveLog' = slaveLog \o frame.data
      BY <3>1, <2>1, <2>2 DEF CopyInv, LogTypeOK
    <3>2. CASE slaveFile /\ slaveBase' = slaveBase /\ slaveLog' = slaveLog
      BY <3>2, <2>1 DEF CopyInv, LogTypeOK, SlaveMax
    <3>3. QED
      BY <3>1, <3>2, <2>7
  <2>9. SlaveMax' \in Nat
    BY <2>6, <2>8 DEF SlaveMax
  <2>10. currentReportedOffset' \in Nat /\ toMaster' \in Seq(Nat)
    <3>1. CASE SlaveMax' > currentReportedOffset
      <4>1. currentReportedOffset' = SlaveMax' /\ toMaster' = Append(toMaster, SlaveMax')
        BY <3>1, <1>10 DEF AppendFrame
      <4>2. QED
        BY <4>1, <2>1, <2>9, AppendProperties
    <3>2. CASE ~(SlaveMax' > currentReportedOffset)
      BY <3>2, <1>10 DEF AppendFrame, CopyInv, LogTypeOK
    <3>3. QED
      BY <3>1, <3>2
  <2>11. LogTypeOK'
    BY <2>1, <2>4, <2>6, <2>8, <2>10 DEF CopyInv, LogTypeOK, masterVars
  <2>12. CopyOfMaster'
    <3>1. CASE slaveBase' = base /\ slaveLog' = slaveLog \o frame.data
      <4>1. ASSUME NEW i \in DOMAIN slaveLog
            PROVE  base + i \in DOMAIN master /\ slaveLog[i] = master[base + i]
        <5>1. slaveFile
          BY <2>1, <2>2
        <5>2. QED
          BY <5>1, <2>2 DEF CopyInv, CopyOfMaster
      <4>2. ASSUME NEW i \in DOMAIN frame.data
            PROVE  frame.from + i \in DOMAIN master /\ frame.data[i] = master[frame.from + i]
        BY <2>3 DEF FrameIsCopy
      <4>3. ASSUME NEW i \in DOMAIN slaveLog'
            PROVE  base + i \in DOMAIN master /\ slaveLog'[i] = master[base + i]
        <5>1. i \in 1 .. Len(slaveLog) + Len(frame.data)
          BY <2>1, <3>1
        <5>2. CASE i <= Len(slaveLog)
          BY <5>1, <5>2, <4>1, <3>1, <2>1
        <5>3. CASE i > Len(slaveLog)
          <6>1. /\ i - Len(slaveLog) \in DOMAIN frame.data
                /\ slaveLog'[i] = frame.data[i - Len(slaveLog)]
            BY <5>1, <5>3, <3>1, <2>1
          <6>2. frame.from + (i - Len(slaveLog)) = base + i
            BY <5>1, <2>1, <2>2
          <6>3. QED
            BY <6>1, <6>2, <4>2
        <5>4. QED
          BY <5>1, <5>2, <5>3, <2>1
      <4>4. QED
        BY <4>3, <3>1, <2>1 DEF CopyOfMaster, masterVars
    <3>2. CASE slaveFile /\ slaveBase' = slaveBase /\ slaveLog' = slaveLog
      BY <3>2, <2>1 DEF CopyInv, CopyOfMaster, masterVars
    <3>3. QED
      BY <3>1, <3>2, <2>7
  <2>13. ChainInv' /\ NextFrom = frame.from /\ NextFrom' = frame.from + Len(frame.data)
    BY <2>1, FrameTaken
  <2>14. ASSUME SlaveMax' = 0
         PROVE  /\ currentReportedOffset' = 0 /\ toMaster' = toMaster
                /\ slaveRequestOffset' \in {-1, 0}
                /\ \A k \in DOMAIN toMaster : toMaster[k] = 0
                /\ NextFrom' = 0
    <3>1. SlaveMax = 0 /\ frame.from = 0 /\ Len(frame.data) = 0
      <4>1. slaveBase' = 0 /\ Len(slaveLog') = 0
        BY <2>6, <2>8, <2>14 DEF SlaveMax
      <4>2. CASE slaveBase' = base /\ slaveLog' = slaveLog \o frame.data
        <5>1. Len(slaveLog') = Len(slaveLog) + Len(frame.data)
          BY <2>1, <4>2
        <5>2. QED
          BY <2>1, <2>2, <4>1, <4>2, <5>1 DEF SlaveMax
      <4>3. CASE slaveFile /\ slaveBase' = slaveBase /\ slaveLog' = slaveLog
        <5>1. SlaveMax = 0
          BY <4>1, <4>3 DEF SlaveMax
        <5>2. SlaveMax % FileSize = 0
          BY <5>1, <1>a
        <5>3. Len(frame.data) <= FileSize - (SlaveMax % FileSize)
          BY <5>2, <2>3, <2>1, <1>a DEF FrameIsCopy
        <5>4. slaveLog' = slaveLog \o frame.data
          BY <5>3, <2>3, <1>10 DEF AppendFrame
        <5>5. Len(slaveLog') = Len(slaveLog) + Len(frame.data)
          BY <2>1, <5>4
        <5>6. QED
          BY <2>1, <2>2, <4>1, <4>3, <5>1, <5>5
      <4>4. QED
        BY <4>2, <4>3, <2>7
    <3>2. /\ currentReportedOffset = 0 /\ slaveRequestOffset \in {-1, 0}
          /\ \A k \in DOMAIN toMaster : toMaster[k] = 0
      BY <3>1 DEF CopyInv, FirstFrameStartsFile
    <3>3. currentReportedOffset' = 0 /\ toMaster' = toMaster
      BY <1>10, <2>14, <3>2 DEF AppendFrame
    <3>4. QED
      BY <2>1, <2>13, <3>1, <3>2, <3>3
  <2>15. FirstFrameStartsFile'
    <3>1. FileStart(0) = 0
      BY <1>a, SMT DEF FileStart
    <3>2. FileStart(NextFrom)' = FileStart(NextFrom')
      BY DEF FileStart
    <3>3. QED
      BY <2>6, <2>14, <3>1, <3>2 DEF FirstFrameStartsFile
  <2>16. QED
    BY <2>5, <2>11, <2>12, <2>13, <2>15 DEF CopyInv
<1>11. CASE AppendFails
  <2> DEFINE frame == toSlave[1]
  <2>1. /\ toSlave # <<>> /\ toSlave' = Tail(toSlave)
        /\ slaveFile => slaveLog # <<>>
        /\ ~(~slaveFile /\ Head(toSlave).data # <<>>)
        /\ UNCHANGED <<masterVars, logVars, currentReportedOffset, toMaster,
                       slaveRequestOffset, nextTransferFromWhere>>
    BY <1>11 DEF AppendFails, Mark, Splits
  <2>2. /\ toSlave \in Seq(Frames) /\ slaveLog \in Seq(Nat) /\ slaveBase \in Nat
        /\ slaveFile \in BOOLEAN
    BY DEF CopyInv, LogTypeOK
  <2>3. /\ toSlave' \in Seq(Frames) /\ Head(toSlave) = frame /\ frame \in Frames
        /\ \A k \in DOMAIN toSlave' : k + 1 \in DOMAIN toSlave /\ toSlave'[k] = toSlave[k + 1]
    BY <2>1, <2>2, Rest
  <2>4. (\A k \in DOMAIN toSlave : FrameIsCopy(toSlave[k]))'
    <3>1. \A k \in DOMAIN toSlave' : FrameIsCopy(toSlave'[k])
      BY <2>3 DEF CopyInv
    <3>2. QED
      BY <3>1, <2>1, FramesStayCopies DEF masterVars
  <2>5. LogTypeOK'
    BY <2>1, <2>3 DEF CopyInv, LogTypeOK, masterVars, logVars
  <2>6. ChainInv' /\ NextFrom = frame.from /\ NextFrom' = frame.from + Len(frame.data)
    BY <2>1, FrameTaken
  <2>7. ASSUME SlaveMax = 0 PROVE ~slaveFile /\ NextFrom' = NextFrom
    <3>1. ~slaveFile
      <4>1. SUFFICES ASSUME slaveFile PROVE FALSE
        BY <2>2
      <4>2. Len(slaveLog) \in Nat /\ Len(slaveLog) # 0
        BY <2>1, <2>2, <4>1, EmptySeq
      <4>3. QED
        BY <2>2, <2>7, <4>1, <4>2 DEF SlaveMax
    <3>2. Len(frame.data) = 0 /\ frame.from \in Nat
      BY <2>1, <2>3, <3>1 DEF Frames
    <3>3. QED
      BY <2>6, <3>1, <3>2
  <2>8. FirstFrameStartsFile'
    <3>1. FileStart(NextFrom)' = FileStart(NextFrom')
      BY DEF FileStart
    <3>2. SlaveMax' = SlaveMax
      BY <2>1 DEF SlaveMax, logVars
    <3>3. QED
      BY <2>1, <2>7, <3>1, <3>2 DEF CopyInv, FirstFrameStartsFile, logVars
  <2>9. QED
    BY <2>1, <2>4, <2>5, <2>6, <2>8 DEF CopyInv, CopyOfMaster, masterVars, logVars
<1>12. CASE Reput
  BY <1>12 DEF Reput, CopyInv, LogTypeOK, CopyOfMaster, FrameIsCopy, ChainInv,
               FirstFrameStartsFile, SlaveMax, NextFrom, masterVars, logVars, connVars
<1>13. CASE Disconnect
  BY <1>13, CloseKeepsCopy DEF Disconnect, masterVars, logVars
<1>14. CASE SlaveRestart \/ SlaveCrash
  <2>1. PICK end \in slaveBase .. slaveBase + Len(slaveLog) : SlaveStart(end)
    BY <1>14 DEF SlaveRestart, SlaveCrash
  <2>2. QED
    BY <2>1, StartKeepsCopy
<1>15. CASE MasterRestart
  <2>1. PICK end \in 0 .. Len(master) : master' = SubSeq(master, 1, end) /\ ~(end < SlaveMax)
    BY <1>15 DEF MasterRestart, Splits
  <2>2. Close /\ UNCHANGED <<puts, logVars, currentReportedOffset>>
    BY <1>15 DEF MasterRestart
  <2>3. /\ master \in Seq(Nat) /\ Len(master) \in Nat /\ slaveLog \in Seq(Nat)
        /\ slaveBase \in Nat /\ slaveFile \in BOOLEAN
    BY DEF CopyInv, LogTypeOK
  <2>4. /\ master' \in Seq(Nat) /\ DOMAIN master' = 1 .. end
        /\ \A i \in 1 .. end : master'[i] = master[i]
    BY <2>1, <2>3
  <2>5. CopyOfMaster'
    <3>1. ASSUME NEW i \in DOMAIN slaveLog
          PROVE  slaveBase + i \in 1 .. end /\ slaveLog[i] = master[slaveBase + i]
      <4>1. slaveFile
        BY <2>3 DEF CopyInv, FirstFrameStartsFile
      <4>2. i \in 1 .. Len(slaveLog) /\ SlaveMax = slaveBase + Len(slaveLog)
        BY <2>3, <4>1 DEF SlaveMax
      <4>3. QED
        BY <2>1, <2>3, <4>2 DEF CopyInv, CopyOfMaster
    <3>2. QED
      BY <2>2, <2>4, <3>1 DEF CopyOfMaster, logVars
  <2>6. LogTypeOK'
    BY <2>2, <2>4 DEF CopyInv, LogTypeOK, Close, logVars
  <2>7. ChainInv' /\ (\A k \in DOMAIN toSlave : FrameIsCopy(toSlave[k]))'
    BY <2>2, NothingChained DEF Close
  <2>8. FirstFrameStartsFile'
    BY <2>2 DEF CopyInv, Close, FirstFrameStartsFile, SlaveMax, NextFrom, logVars
  <2>9. QED
    BY <2>5, <2>6, <2>7, <2>8 DEF CopyInv
<1>16. CASE UNCHANGED vars
  BY <1>16 DEF CopyInv, LogTypeOK, CopyOfMaster, FrameIsCopy, FirstFrameStartsFile, ChainInv,
               SlaveMax, NextFrom, vars, masterVars, logVars, connVars
<1>17. QED
  BY <1>1, <1>2, <1>3, <1>4, <1>5, <1>6, <1>7, <1>8, <1>9, <1>10, <1>11, <1>12,
     <1>13, <1>14, <1>15, <1>16 DEF Next, MasterSteps, SlaveSteps, Faults

\* The inductive invariant, for every value of the sizes and bounds: until one
\* of Splits happens frames on the way are pieces of the master's log and the
\* slave's log continues it.
THEOREM CopyInductive == Spec => []SplitInv
<1>1. Init => SplitInv
  BY InitCopy DEF SplitInv
<1>2. SplitInv /\ [Next]_vars => SplitInv'
  BY NextCopy, GapsStay DEF SplitInv, Splits
<1>3. QED
  BY <1>1, <1>2, PTL DEF Spec

\* The slave's log is a copy of the master's whatever disconnects, failed
\* appends, heartbeats to an empty slave, crashes and restarts happen, until
\* one of Splits does (HAClient, HAConnection, appendToCommitLog).
THEOREM SlaveCopies == Spec => []SlaveIsCopy
<1>1. SplitInv => SlaveIsCopy
  BY DEF SplitInv, SlaveIsCopy, CopyInv
<1>2. QED
  BY CopyInductive, <1>1, PTL

-----------------------------------------------------------------------------
(* What the slave reported it had.                                         *)

LEMMA InitAck == Init => AckInv
<1> SUFFICES ASSUME Init PROVE AckInv
  OBVIOUS
<1>1. LogTypeOK
  BY InitCopy DEF CopyInv
<1>2. QED
  BY <1>1 DEF Init, AckInv, AckedWasStored, SlaveMax

\* The larger of two offsets.
LEMMA GreaterIs ==
    ASSUME NEW m \in Nat, NEW n \in Nat
    PROVE  /\ Greater(m, n) \in Nat /\ m <= Greater(m, n) /\ n <= Greater(m, n)
           /\ \A h \in Nat : m <= h /\ n <= h => Greater(m, n) <= h
BY DEF Greater

\* Unread reports outlive their connection.
LEMMA CloseKeepsAck ==
    ASSUME AckInv, Close, LogTypeOK', slaveHigh' = slaveHigh, SlaveMax' <= SlaveMax,
           push2SlaveMaxOffset' \in {0, push2SlaveMaxOffset},
           currentReportedOffset' \in {0, currentReportedOffset},
           oldReports' \subseteq oldReports \cup { toMaster[k] : k \in DOMAIN toMaster }
    PROVE  AckInv'
<1>1. toMaster \in Seq(Nat) /\ slaveHigh \in Nat /\ push2SlaveMaxOffset \in Nat
  BY DEF AckInv, LogTypeOK
<1>2. \A k \in DOMAIN toMaster : toMaster[k] \in Nat /\ toMaster[k] <= slaveHigh
  BY <1>1 DEF AckInv
<1>3. oldReports' \subseteq Nat /\ \A offset \in oldReports' : offset <= slaveHigh
  BY <1>2 DEF AckInv
<1>4. SlaveMax \in Int /\ SlaveMax' \in Int
  BY DEF AckInv, LogTypeOK, SlaveMax
<1>5. SlaveMax' <= slaveHigh'
  BY <1>1, <1>4 DEF AckInv
<1>6. toMaster' = <<>>
  BY DEF Close
<1>7. push2SlaveMaxOffset' \in Nat /\ push2SlaveMaxOffset' <= slaveHigh
      /\ currentReportedOffset' <= slaveHigh
  BY <1>1 DEF AckInv, AckedWasStored
<1>8. QED
  BY <1>1, <1>3, <1>5, <1>6, <1>7 DEF AckInv, AckedWasStored

\* Every step keeps the reports true.
LEMMA NextAck == AckInv /\ [Next]_vars => AckInv'
<1> SUFFICES ASSUME AckInv, [Next]_vars PROVE AckInv'
  OBVIOUS
<1> USE DEF masterVars, logVars, connVars, reputVars
<1>a. FileSize \in Nat \ {0} /\ Batch \in Nat \ {0}
  BY HAAssumption
<1>b. /\ LogTypeOK /\ push2SlaveMaxOffset \in Nat /\ slaveHigh \in Nat
      /\ toMaster \in Seq(Nat) /\ toSlave \in Seq(Frames) /\ slaveLog \in Seq(Nat)
      /\ slaveBase \in Nat /\ master \in Seq(Nat) /\ currentReportedOffset \in Nat
      /\ push2SlaveMaxOffset <= slaveHigh /\ slaveFile \in BOOLEAN
      /\ slaveRequestOffset \in Nat \cup {-1} /\ nextTransferFromWhere \in Nat \cup {-1}
  BY DEF AckInv, LogTypeOK, AckedWasStored
<1>c. /\ SlaveMax \in Nat /\ Len(master) \in Nat
      /\ \A k \in DOMAIN toMaster : toMaster[k] \in Nat /\ toMaster[k] <= slaveHigh
  BY <1>b DEF SlaveMax, AckInv
\* Steps that leave the slave and the reports alone.
<1>d. ASSUME UNCHANGED <<push2SlaveMaxOffset, logVars, currentReportedOffset, toMaster,
                         oldReports>>, LogTypeOK'
      PROVE  AckInv'
  BY <1>d DEF AckInv, AckedWasStored, SlaveMax
<1>1. CASE putMessage
  <2>1. master' \in Seq(Nat) /\ puts' \in Nat
    <3> DEFINE blanks == IF AtBlank(Len(master)) THEN FileSize % MsgUnits ELSE 0
               blank == [i \in 1 .. blanks |-> Blank]
               message == [i \in 1 .. MsgUnits |-> Unit(puts + 1, i)]
    <3>1. blanks \in Nat /\ MsgUnits \in Nat /\ puts \in Nat
      BY <1>b, HAAssumption DEF LogTypeOK
    <3>2. blank \in Seq(Nat) /\ message \in Seq(Nat)
      BY <3>1, HAAssumption DEF Blank, Unit
    <3>3. master' = master \o blank \o message /\ puts' = puts + 1
      BY <1>1 DEF putMessage
    <3> HIDE DEF blank, message
    <3>4. QED
      BY <1>b, <3>1, <3>2, <3>3
  <2>2. LogTypeOK'
    BY <1>1, <1>b, <2>1 DEF putMessage, LogTypeOK
  <2>3. QED
    BY <1>1, <1>d, <2>2 DEF putMessage
<1>2. CASE ReadReport
  <2>1. PICK k \in DOMAIN toMaster :
           /\ slaveRequestOffset' = IF slaveRequestOffset < 0 THEN toMaster[k]
                                    ELSE slaveRequestOffset
           /\ push2SlaveMaxOffset' = Greater(push2SlaveMaxOffset, toMaster[k])
           /\ toMaster' = SubSeq(toMaster, k + 1, Len(toMaster))
    BY <1>2 DEF ReadReport, notifyTransferSome
  <2>2. k \in Nat /\ k <= Len(toMaster) /\ Len(toMaster) \in Nat
    BY <1>b
  <2>3. /\ toMaster' \in Seq(Nat)
        /\ \A j \in DOMAIN toMaster' : k + j \in DOMAIN toMaster /\ toMaster'[j] = toMaster[k + j]
    <3>1. toMaster \in Seq(Nat) /\ Len(toMaster) <= Len(toMaster)
      BY <1>b, <2>2
    <3>2. QED
      BY <2>1, <2>2, <3>1, Piece
  <2>4. UNCHANGED <<master, puts, logVars, currentReportedOffset, toSlave,
                    nextTransferFromWhere, oldReports>>
    BY <1>2 DEF ReadReport
  <2>5. LogTypeOK'
    BY <1>b, <1>c, <2>1, <2>3, <2>4 DEF LogTypeOK
  <2>6. push2SlaveMaxOffset' \in Nat /\ push2SlaveMaxOffset' <= slaveHigh
    BY <1>b, <1>c, <2>1, GreaterIs
  <2>7. \A j \in DOMAIN toMaster' : toMaster'[j] <= slaveHigh
    BY <1>c, <2>3
  <2>8. QED
    BY <2>4, <2>5, <2>6, <2>7 DEF AckInv, AckedWasStored, SlaveMax
<1>3. CASE ReadOldReport
  <2>1. PICK offset \in oldReports :
           /\ oldReports' = oldReports \ {offset}
           /\ push2SlaveMaxOffset' = Greater(push2SlaveMaxOffset, offset)
    BY <1>3 DEF ReadOldReport, notifyTransferSome
  <2>2. offset \in Nat /\ offset <= slaveHigh
    BY DEF AckInv
  <2>3. push2SlaveMaxOffset' \in Nat /\ push2SlaveMaxOffset' <= slaveHigh
    BY <1>b, <2>1, <2>2, GreaterIs
  <2>4. UNCHANGED <<master, puts, logVars, connVars>> /\ LogTypeOK'
    BY <1>3, <1>b DEF ReadOldReport, LogTypeOK
  <2>5. QED
    BY <2>1, <2>3, <2>4 DEF AckInv, AckedWasStored, SlaveMax
<1>4. CASE TransferFirst
  <2>1. nextTransferFromWhere' \in Nat \cup {-1}
    BY <1>4, <1>b, <1>c, FileStartFacts DEF TransferFirst
  <2>2. LogTypeOK'
    BY <1>4, <1>b, <2>1 DEF TransferFirst, LogTypeOK
  <2>3. QED
    BY <1>4, <1>d, <2>2 DEF TransferFirst
<1>5. CASE TransferData
  <2> DEFINE from == nextTransferFromWhere
             end == Lesser(Lesser(Len(master), FileStart(from) + FileSize), from + Batch)
             frame == [from |-> from, data |-> SubSeq(master, from + 1, end)]
  <2>1. /\ from \in Nat /\ from < Len(master)
        /\ toSlave' = Append(toSlave, frame) /\ nextTransferFromWhere' = end
        /\ UNCHANGED <<masterVars, logVars, currentReportedOffset, toMaster,
                       slaveRequestOffset, oldReports>>
    BY <1>5, <1>b DEF TransferData
  <2>2. end \in Nat /\ from <= end /\ end <= Len(master)
    <3>1. /\ FileStart(from) \in Nat /\ from < FileStart(from) + FileSize
      BY <2>1, FileStartFacts
    <3>2. QED
      BY <1>a, <1>c, <2>1, <3>1 DEF Lesser
  <2> HIDE DEF end
  <2>3. frame \in Frames
    BY <1>b, <2>1, <2>2, Piece DEF Frames
  <2> HIDE DEF frame
  <2>4. toSlave' \in Seq(Frames)
    BY <1>b, <2>1, <2>3, AppendProperties
  <2>5. LogTypeOK'
    BY <1>b, <2>1, <2>2, <2>4 DEF LogTypeOK
  <2>6. QED
    BY <1>d, <2>1, <2>5
<1>6. CASE Heartbeat
  <2>1. toSlave' = <<[from |-> nextTransferFromWhere, data |-> <<>>]>>
        /\ nextTransferFromWhere \in Nat
    BY <1>6, <1>b DEF Heartbeat
  <2>2. toSlave' \in Seq(Frames)
    BY <2>1 DEF Frames
  <2>3. LogTypeOK'
    BY <1>6, <1>b, <2>2 DEF Heartbeat, LogTypeOK
  <2>4. QED
    BY <1>6, <1>d, <2>3 DEF Heartbeat
<1>7. CASE ConnectMaster
  BY <1>7, <1>b, <1>c DEF ConnectMaster, AckInv, LogTypeOK, AckedWasStored, SlaveMax
<1>8. CASE ReportOffset
  <2>1. toMaster' = <<currentReportedOffset>> /\ currentReportedOffset <= slaveHigh
    BY <1>8 DEF ReportOffset, AckInv
  <2>2. toMaster' \in Seq(Nat) /\ \A k \in DOMAIN toMaster' : toMaster'[k] <= slaveHigh
    BY <1>b, <2>1
  <2>3. QED
    BY <1>8, <1>b, <2>2 DEF ReportOffset, AckInv, LogTypeOK, AckedWasStored, SlaveMax
<1>9. CASE RejectFrame \/ Disconnect
  <2>1. /\ Close /\ UNCHANGED <<masterVars, logVars, currentReportedOffset>>
        /\ oldReports' = oldReports \cup { toMaster[k] : k \in DOMAIN toMaster }
    BY <1>9 DEF RejectFrame, Disconnect
  <2>2. LogTypeOK' /\ SlaveMax' = SlaveMax
    BY <1>b, <2>1 DEF LogTypeOK, Close, SlaveMax
  <2>3. QED
    BY <1>c, <2>1, <2>2, CloseKeepsAck
<1>10. CASE AppendFrame
  <2>1. /\ toSlave # <<>> /\ toSlave' = Tail(toSlave)
        /\ slaveHigh' = Greater(slaveHigh, SlaveMax')
        /\ UNCHANGED <<masterVars, slaveRequestOffset, nextTransferFromWhere, oldReports>>
    BY <1>10 DEF AppendFrame
  <2>2. /\ Head(toSlave) \in Frames /\ Head(toSlave).from \in Nat
        /\ Head(toSlave).data \in Seq(Nat) /\ toSlave' \in Seq(Frames)
    <3>1. Head(toSlave) \in Frames /\ toSlave' \in Seq(Frames)
      BY <1>b, <2>1, Rest
    <3>2. QED
      BY <3>1 DEF Frames
  <2>3. slaveFile' \in BOOLEAN /\ slaveBase' \in Nat /\ slaveLog' \in Seq(Nat)
    <3>1. FileStart(Head(toSlave).from) \in Nat
      BY <2>2, FileStartFacts
    <3>2. slaveLog \o Head(toSlave).data \in Seq(Nat)
      BY <1>b, <2>2
    <3>3. QED
      BY <1>10, <1>b, <3>1, <3>2 DEF AppendFrame
  <2>4. SlaveMax' \in Nat
    BY <2>3 DEF SlaveMax
  <2>5. slaveHigh' \in Nat /\ slaveHigh <= slaveHigh' /\ SlaveMax' <= slaveHigh'
    BY <1>b, <2>1, <2>4, GreaterIs
  <2>6. /\ currentReportedOffset' \in Nat /\ currentReportedOffset' <= slaveHigh'
        /\ toMaster' \in Seq(Nat)
        /\ \A k \in DOMAIN toMaster' : toMaster'[k] <= slaveHigh'
    <3>1. CASE SlaveMax' > currentReportedOffset
      <4>1. currentReportedOffset' = SlaveMax' /\ toMaster' = Append(toMaster, SlaveMax')
        BY <1>10, <3>1 DEF AppendFrame
      <4>2. PICK m \in Nat : m = SlaveMax'
        BY <2>4
      <4>3. /\ toMaster' \in Seq(Nat) /\ Len(toMaster') = Len(toMaster) + 1
            /\ \A k \in 1 .. Len(toMaster) : toMaster'[k] = toMaster[k]
            /\ toMaster'[Len(toMaster) + 1] = m
        BY <1>b, <4>1, <4>2, AppendProperties
      <4>4. \A k \in DOMAIN toMaster' : toMaster'[k] <= slaveHigh'
        <5>1. DOMAIN toMaster' = 1 .. Len(toMaster) + 1 /\ Len(toMaster) \in Nat
              /\ DOMAIN toMaster = 1 .. Len(toMaster)
          BY <1>b, <4>3
        <5>2. ASSUME NEW k \in 1 .. Len(toMaster) PROVE toMaster'[k] <= slaveHigh'
          <6>1. toMaster'[k] = toMaster[k]
            BY <4>3
          <6>2. toMaster[k] \in Nat /\ toMaster[k] <= slaveHigh
            BY <1>c, <5>1
          <6>3. slaveHigh \in Nat /\ slaveHigh' \in Nat /\ slaveHigh <= slaveHigh'
            BY <1>b, <2>5
          <6>4. QED
            BY <6>1, <6>2, <6>3
        <5>3. toMaster'[Len(toMaster) + 1] <= slaveHigh'
          BY <2>5, <4>2, <4>3
        <5>4. QED
          BY <5>1, <5>2, <5>3
      <4>5. QED
        BY <2>4, <2>5, <4>1, <4>3, <4>4
    <3>2. CASE ~(SlaveMax' > currentReportedOffset)
      <4>1. UNCHANGED <<currentReportedOffset, toMaster>> /\ currentReportedOffset <= slaveHigh
        BY <1>10, <3>2 DEF AppendFrame, AckInv
      <4>2. QED
        BY <1>b, <1>c, <2>5, <4>1
    <3>3. QED
      BY <3>1, <3>2
  <2>7. LogTypeOK'
    BY <1>b, <2>1, <2>2, <2>3, <2>6 DEF LogTypeOK
  <2>8. /\ push2SlaveMaxOffset' \in Nat /\ push2SlaveMaxOffset' <= slaveHigh'
        /\ oldReports' \subseteq Nat /\ \A offset \in oldReports' : offset <= slaveHigh'
    BY <1>b, <2>1, <2>5 DEF AckInv
  <2>9. QED
    BY <2>5, <2>6, <2>7, <2>8 DEF AckInv, AckedWasStored
<1>11. CASE AppendFails
  <2>1. toSlave # <<>> /\ toSlave' = Tail(toSlave)
    BY <1>11 DEF AppendFails
  <2>2. toSlave' \in Seq(Frames)
    BY <1>b, <2>1, Rest
  <2>3. LogTypeOK'
    BY <1>11, <1>b, <2>2 DEF AppendFails, LogTypeOK
  <2>4. QED
    BY <1>11, <1>d, <2>3 DEF AppendFails
<1>12. CASE Reput
  <2>1. LogTypeOK'
    BY <1>12, <1>b DEF Reput, LogTypeOK
  <2>2. QED
    BY <1>12, <1>d, <2>1 DEF Reput
<1>13. CASE SlaveRestart \/ SlaveCrash
  <2>1. PICK end \in slaveBase .. slaveBase + Len(slaveLog) : SlaveStart(end)
    BY <1>13 DEF SlaveRestart, SlaveCrash
  <2>2. /\ Close /\ currentReportedOffset' = 0
        /\ slaveLog' = SubSeq(slaveLog, 1, end - slaveBase)
        /\ oldReports' = oldReports \cup { toMaster[k] : k \in DOMAIN toMaster }
        /\ UNCHANGED <<masterVars, slaveFile, slaveBase, slaveHigh>>
    BY <2>1 DEF SlaveStart
  <2>3. end - slaveBase \in Nat /\ end - slaveBase <= Len(slaveLog) /\ Len(slaveLog) \in Nat
    BY <1>b, <2>1
  <2>4. slaveLog' \in Seq(Nat) /\ Len(slaveLog') <= Len(slaveLog)
    <3>1. PICK l \in Nat : l = end - slaveBase /\ l <= Len(slaveLog)
      BY <2>3
    <3>2. slaveLog' = SubSeq(slaveLog, 1, l) /\ slaveLog \in Seq(Nat)
      BY <1>b, <2>2, <3>1
    <3>3. QED
      BY <2>3, <3>1, <3>2
  <2>5. LogTypeOK'
    BY <1>b, <2>2, <2>4 DEF LogTypeOK, Close
  <2>6. SlaveMax' <= SlaveMax
    BY <1>b, <2>2, <2>3, <2>4 DEF SlaveMax
  <2>7. QED
    BY <2>2, <2>5, <2>6, CloseKeepsAck
<1>14. CASE MasterRestart
  <2>1. PICK end \in 0 .. Len(master) : master' = SubSeq(master, 1, end)
    BY <1>14 DEF MasterRestart
  <2>2. master' \in Seq(Nat)
    BY <1>b, <1>c, <2>1
  <2>3. /\ Close /\ oldReports' = {} /\ push2SlaveMaxOffset' = 0
        /\ UNCHANGED <<puts, logVars, currentReportedOffset>>
    BY <1>14 DEF MasterRestart
  <2>4. LogTypeOK' /\ SlaveMax' = SlaveMax
    BY <1>b, <2>2, <2>3 DEF LogTypeOK, Close, SlaveMax
  <2>5. QED
    BY <1>c, <2>3, <2>4, CloseKeepsAck
<1>15. CASE UNCHANGED vars
  <2>1. LogTypeOK'
    BY <1>15, <1>b DEF vars, LogTypeOK
  <2>2. QED
    BY <1>15, <1>d, <2>1 DEF vars
<1>16. QED
  BY <1>1, <1>2, <1>3, <1>4, <1>5, <1>6, <1>7, <1>8, <1>9, <1>10, <1>11, <1>12,
     <1>13, <1>14, <1>15 DEF Next, MasterSteps, SlaveSteps, Faults

\* The reports are true in every state, whatever the faults and losses.
THEOREM AckInductive == Spec => []AckInv
<1>1. QED
  BY InitAck, NextAck, PTL DEF Spec

\* HAService.push2SlaveMaxOffset, which releases the producers of a SYNC_MASTER,
\* never exceeds what the slave has stored: for all sizes and bounds, also
\* when an empty slave is hit by faults and when the master loses messages.
THEOREM AcknowledgedStored == Spec => []AckedWasStored
<1>1. AckInv => AckedWasStored
  BY DEF AckInv
<1>2. QED
  BY <1>1, AckInductive, PTL

-----------------------------------------------------------------------------
(* The offsets at which a message or the blank may start: a files and b    *)
(* messages from the beginning.                                            *)

LEMMA Monotone ==
    ASSUME NEW n \in Nat, NEW a \in Int, NEW b \in Int, a <= b
    PROVE  a * n \in Int /\ b * n \in Int /\ a * n <= b * n
<1>1. (b - a) * n >= 0
  BY SMT
<1>2. QED
  BY <1>1, SMT

LEMMA NextMultiple ==
    ASSUME NEW n \in Nat, NEW a \in Int
    PROVE  (a + 1) * n = a * n + n
BY SMT

\* Quotient and remainder are unique.
LEMMA Remainder ==
    ASSUME NEW n \in Nat \ {0}, NEW q \in Int, NEW r \in 0 .. n - 1
    PROVE  (q * n + r) % n = r
<1> DEFINE x == q * n + r
           k == x \div n
           s == x % n
<1>1. x \in Int /\ k \in Int /\ s \in 0 .. n - 1 /\ x = n * k + s
  BY SMT
<1> HIDE DEF k, s
<1>2. n * k = k * n
  BY <1>1, SMT
<1>3. CASE k = q
  BY <1>1, <1>2, <1>3 DEF s
<1>4. CASE k + 1 <= q
  <2>1. (k + 1) * n <= q * n /\ (k + 1) * n = k * n + n
    BY <1>1, <1>4, Monotone, NextMultiple
  <2>2. k * n \in Int /\ q * n \in Int
    BY <1>1, SMT
  <2>3. QED
    BY <1>1, <1>2, <2>1, <2>2
<1>5. CASE q + 1 <= k
  <2>1. (q + 1) * n <= k * n /\ (q + 1) * n = q * n + n
    BY <1>1, <1>5, Monotone, NextMultiple
  <2>2. k * n \in Int /\ q * n \in Int
    BY <1>1, SMT
  <2>3. QED
    BY <1>1, <1>2, <2>1, <2>2
<1>6. QED
  BY <1>1, <1>3, <1>4, <1>5

LEMMA Units ==
    /\ PerFile \in Nat /\ PerFile >= 1 /\ PerFile * MsgUnits \in Nat
    /\ FileSize % MsgUnits \in 1 .. MsgUnits - 1
    /\ FileSize = PerFile * MsgUnits + (FileSize % MsgUnits)
<1>1. /\ MsgUnits \in Nat /\ MsgUnits > 0 /\ FileSize \in Nat /\ FileSize > MsgUnits
      /\ FileSize % MsgUnits # 0
  BY HAAssumption
<1>2. /\ FileSize \div MsgUnits \in Int /\ FileSize % MsgUnits \in 0 .. MsgUnits - 1
      /\ FileSize = MsgUnits * (FileSize \div MsgUnits) + (FileSize % MsgUnits)
  BY <1>1, SMT
<1>3. MsgUnits * (FileSize \div MsgUnits) = PerFile * MsgUnits /\ PerFile \in Int
  BY <1>1, <1>2, SMT DEF PerFile
<1>4. PerFile >= 1
  <2>1. CASE PerFile <= 0
    <3>1. PerFile * MsgUnits <= 0 * MsgUnits /\ PerFile * MsgUnits \in Int
      BY <1>1, <1>3, <2>1, Monotone
    <3>2. 0 * MsgUnits = 0
      BY <1>1, SMT
    <3>3. QED
      BY <1>1, <1>2, <1>3, <3>1, <3>2
  <2>2. QED
    BY <1>3, <2>1
<1>5. 1 * MsgUnits <= PerFile * MsgUnits /\ 1 * MsgUnits = MsgUnits
  BY <1>1, <1>3, <1>4, Monotone
<1>6. PerFile * MsgUnits \in Nat
  BY <1>1, <1>3, <1>4, <1>5
<1>7. QED
  BY <1>1, <1>2, <1>3, <1>4, <1>6

LEMMA MakeBoundary ==
    ASSUME NEW a \in Nat, NEW b \in 0 .. PerFile
    PROVE  /\ a * FileSize + b * MsgUnits \in Nat
           /\ Boundary(a * FileSize + b * MsgUnits)
           /\ FileStart(a * FileSize + b * MsgUnits) = a * FileSize
           /\ AtBlank(a * FileSize + b * MsgUnits) <=> b = PerFile
<1> DEFINE x == a * FileSize
           y == b * MsgUnits
<1>1. /\ MsgUnits \in Nat \ {0} /\ FileSize \in Nat \ {0} /\ PerFile \in Nat
      /\ b \in Int
  BY HAAssumption, Units
<1>2. /\ y \in Int /\ y <= PerFile * MsgUnits /\ 0 * MsgUnits <= y
      /\ 0 * FileSize <= x /\ x \in Int
  BY <1>1, Monotone
<1>3. 0 * MsgUnits = 0 /\ 0 * FileSize = 0
  BY <1>1, SMT
<1>4. y \in 0 .. FileSize - 1 /\ x \in Nat
  BY <1>2, <1>3, Units, HAAssumption
<1>5. (x + y) % FileSize = y
  <2>1. a \in Int /\ FileSize \in Nat \ {0}
    BY <1>1
  <2> HIDE DEF y
  <2>2. QED
    BY <1>4, <2>1, Remainder
<1>6. y % MsgUnits = 0
  <2>1. (b * MsgUnits + 0) % MsgUnits = 0
    BY <1>1, Remainder
  <2>2. b * MsgUnits + 0 = y
    BY <1>2
  <2>3. QED
    BY <2>1, <2>2
<1>7. y = PerFile * MsgUnits <=> b = PerFile
  <2>1. CASE b = PerFile
    BY <2>1
  <2>2. CASE b + 1 <= PerFile
    <3>1. (b + 1) * MsgUnits <= PerFile * MsgUnits /\ (b + 1) * MsgUnits = y + MsgUnits
      BY <1>1, <2>2, Monotone, NextMultiple
    <3>2. QED
      BY <1>1, <1>2, <2>2, <3>1, Units
  <2>3. QED
    BY <1>1, <2>1, <2>2
<1>8. x + y \in Nat /\ FileStart(x + y) = x
  <2> HIDE DEF x, y
  <2>1. QED
    BY <1>4, <1>5, <1>1 DEF FileStart
<1>9. Boundary(x + y)
  BY <1>2, <1>5, <1>6 DEF Boundary
<1>10. AtBlank(x + y) <=> b = PerFile
  BY <1>5, <1>7 DEF AtBlank
<1>11. QED
  BY <1>8, <1>9, <1>10

LEMMA BoundaryIs ==
    ASSUME NEW o \in Nat, Boundary(o)
    PROVE  \E a \in Nat, b \in 0 .. PerFile : o = a * FileSize + b * MsgUnits
<1> DEFINE a == o \div FileSize
           y == o % FileSize
           b == y \div MsgUnits
<1>1. MsgUnits \in Nat /\ MsgUnits > 0 /\ FileSize \in Nat /\ FileSize > 0
  BY HAAssumption
<1>2. y \in Nat /\ a \in Int /\ o = FileSize * a + y /\ y < FileSize
  BY <1>1, Division
<1>3. y % MsgUnits = 0 /\ y <= PerFile * MsgUnits
  BY DEF Boundary
<1> HIDE DEF y, a
<1>4. b \in Int /\ y = MsgUnits * b
  <2>1. b \in Int /\ y = MsgUnits * b + (y % MsgUnits)
    BY <1>1, <1>2, SMT
  <2>2. MsgUnits * b \in Int
    BY <1>1, <2>1, SMT
  <2>3. QED
    BY <1>2, <1>3, <2>1, <2>2
<1> HIDE DEF b
<1>5. FileSize * a = a * FileSize /\ y = b * MsgUnits /\ a * FileSize \in Int
  BY <1>1, <1>2, <1>4, SMT
<1>6. a >= 0
  <2>1. CASE a + 1 <= 0
    <3>1. (a + 1) * FileSize <= 0 * FileSize /\ (a + 1) * FileSize = a * FileSize + FileSize
      BY <1>1, <1>2, <2>1, Monotone, NextMultiple
    <3>2. 0 * FileSize = 0
      BY <1>1, SMT
    <3>3. QED
      BY <1>1, <1>2, <1>5, <3>1, <3>2
  <2>2. QED
    BY <1>2, <2>1
<1>7. b >= 0
  <2>1. CASE b + 1 <= 0
    <3>1. (b + 1) * MsgUnits <= 0 * MsgUnits /\ (b + 1) * MsgUnits = b * MsgUnits + MsgUnits
      BY <1>1, <1>4, <2>1, Monotone, NextMultiple
    <3>2. 0 * MsgUnits = 0
      BY <1>1, SMT
    <3>3. QED
      BY <1>1, <1>2, <1>5, <3>1, <3>2
  <2>2. QED
    BY <1>4, <2>1
<1>8. b <= PerFile
  <2>1. CASE PerFile + 1 <= b
    <3>1. (PerFile + 1) * MsgUnits <= b * MsgUnits
          /\ (PerFile + 1) * MsgUnits = PerFile * MsgUnits + MsgUnits
      BY <1>1, <1>4, <2>1, Units, Monotone, NextMultiple
    <3>2. QED
      BY <1>1, <1>2, <1>3, <1>5, <3>1, Units
  <2>2. QED
    BY <1>4, <2>1, Units
<1>9. a \in Nat /\ b \in 0 .. PerFile /\ o = a * FileSize + b * MsgUnits
  BY <1>2, <1>4, <1>5, <1>6, <1>7, <1>8, Units
<1>10. QED
  BY <1>9

\* Between two boundaries there is a whole message, or the rest of the file.
LEMMA NextBoundary ==
    ASSUME NEW o \in Nat, NEW n \in Nat, Boundary(o), Boundary(n), o < n
    PROVE  /\ ~AtBlank(o) => o + MsgUnits <= n
           /\ AtBlank(o) => RollNextFile(o) <= n
<1>1. /\ MsgUnits \in Nat /\ MsgUnits > 0 /\ FileSize \in Nat /\ PerFile \in Nat
      /\ PerFile * MsgUnits \in Nat /\ PerFile * MsgUnits < FileSize
  BY HAAssumption, Units
<1>2. PICK a \in Nat, b \in 0 .. PerFile : o = a * FileSize + b * MsgUnits
  BY BoundaryIs
<1>3. PICK c \in Nat, d \in 0 .. PerFile : n = c * FileSize + d * MsgUnits
  BY BoundaryIs
<1>4. FileStart(o) = a * FileSize /\ (AtBlank(o) <=> b = PerFile)
  BY <1>2, MakeBoundary
<1>5. /\ a * FileSize \in Int /\ c * FileSize \in Int
      /\ b * MsgUnits \in Int /\ d * MsgUnits \in Int
      /\ b \in Int /\ d \in Int /\ b <= PerFile /\ d <= PerFile
  BY <1>1, SMT
<1>6. /\ b * MsgUnits <= PerFile * MsgUnits /\ 0 * MsgUnits <= b * MsgUnits
      /\ d * MsgUnits <= PerFile * MsgUnits /\ 0 * MsgUnits <= d * MsgUnits
  BY <1>1, <1>5, Monotone
<1>7. 0 * MsgUnits = 0
  BY <1>1, SMT
<1>8. CASE c < a
  <2>1. (c + 1) * FileSize <= a * FileSize /\ (c + 1) * FileSize = c * FileSize + FileSize
    BY <1>1, <1>8, Monotone, NextMultiple
  <2>2. QED
    BY <1>1, <1>2, <1>3, <1>5, <1>6, <1>7, <2>1
<1>9. CASE c > a
  <2>1. (a + 1) * FileSize <= c * FileSize /\ (a + 1) * FileSize = a * FileSize + FileSize
    BY <1>1, <1>9, Monotone, NextMultiple
  <2>2. AtBlank(o) => RollNextFile(o) <= n
    BY <1>1, <1>3, <1>4, <1>5, <1>6, <1>7, <2>1 DEF RollNextFile
  <2>3. ASSUME ~AtBlank(o) PROVE o + MsgUnits <= n
    <3>1. b + 1 <= PerFile
      BY <1>1, <1>4, <1>5, <2>3
    <3>2. (b + 1) * MsgUnits <= PerFile * MsgUnits /\ (b + 1) * MsgUnits = b * MsgUnits + MsgUnits
      BY <1>1, <1>5, <3>1, Monotone, NextMultiple
    <3>3. QED
      BY <1>1, <1>2, <1>3, <1>5, <1>6, <1>7, <2>1, <3>2
  <2>4. QED
    BY <2>2, <2>3
<1>10. CASE c = a
  <2>1. b < d
    <3>1. CASE d <= b
      <4>1. d * MsgUnits <= b * MsgUnits
        BY <1>1, <1>5, <3>1, Monotone
      <4>2. QED
        BY <1>2, <1>3, <1>5, <1>10, <4>1
    <3>2. QED
      BY <1>5, <3>1
  <2>2. (b + 1) * MsgUnits <= d * MsgUnits /\ (b + 1) * MsgUnits = b * MsgUnits + MsgUnits
    BY <1>1, <1>5, <2>1, Monotone, NextMultiple
  <2>3. o + MsgUnits <= n
    BY <1>1, <1>2, <1>3, <1>5, <1>10, <2>2
  <2>4. ~AtBlank(o)
    BY <1>1, <1>4, <1>5, <2>1
  <2>5. QED
    BY <2>3, <2>4
<1>11. QED
  BY <1>8, <1>9, <1>10

\* Behind a message there is a boundary.
LEMMA BehindMessage ==
    ASSUME NEW o \in Nat, Boundary(o), ~AtBlank(o)
    PROVE  o + MsgUnits \in Nat /\ o + MsgUnits > o /\ Boundary(o + MsgUnits)
<1>1. MsgUnits \in Nat /\ MsgUnits > 0 /\ PerFile \in Nat /\ FileSize \in Nat
  BY HAAssumption, Units
<1>2. PICK a \in Nat, b \in 0 .. PerFile : o = a * FileSize + b * MsgUnits
  BY BoundaryIs
<1>3. b # PerFile
  BY <1>2, MakeBoundary
<1>4. b + 1 \in 0 .. PerFile
  BY <1>1, <1>3
<1>5. Boundary(a * FileSize + (b + 1) * MsgUnits)
  BY <1>4, MakeBoundary
<1>6. /\ (b + 1) * MsgUnits = b * MsgUnits + MsgUnits
      /\ a * FileSize \in Int /\ b * MsgUnits \in Int
  BY <1>1, NextMultiple, SMT
<1>7. a * FileSize + (b + 1) * MsgUnits = o + MsgUnits
  BY <1>1, <1>2, <1>6
<1>8. QED
  BY <1>1, <1>5, <1>7

\* Behind the blank there is the next file, which starts with a message.
LEMMA BehindBlank ==
    ASSUME NEW o \in Nat, Boundary(o)
    PROVE  /\ RollNextFile(o) \in Nat /\ o < RollNextFile(o)
           /\ Boundary(RollNextFile(o)) /\ ~AtBlank(RollNextFile(o))
           /\ AtBlank(o) => RollNextFile(o) = o + (FileSize % MsgUnits)
<1>1. /\ MsgUnits \in Nat /\ PerFile \in Nat /\ PerFile >= 1 /\ FileSize \in Nat
      /\ PerFile * MsgUnits \in Nat
      /\ FileSize = PerFile * MsgUnits + (FileSize % MsgUnits)
      /\ FileSize % MsgUnits \in Nat
  BY HAAssumption, Units
<1>2. PICK a \in Nat, b \in 0 .. PerFile : o = a * FileSize + b * MsgUnits
  BY BoundaryIs
<1>3. FileStart(o) = a * FileSize /\ (AtBlank(o) <=> b = PerFile)
  BY <1>2, MakeBoundary
<1>4. FileStart(o) \in Nat /\ o < FileStart(o) + FileSize
  BY FileStartFacts
<1>5. (a + 1) * FileSize = a * FileSize + FileSize /\ 0 * MsgUnits = 0
  BY <1>1, NextMultiple, SMT
<1>6. RollNextFile(o) = (a + 1) * FileSize + 0 * MsgUnits /\ RollNextFile(o) \in Nat
  BY <1>1, <1>3, <1>4, <1>5 DEF RollNextFile
<1>7. a + 1 \in Nat /\ 0 \in 0 .. PerFile /\ 0 # PerFile
  BY <1>1
<1>8. Boundary(RollNextFile(o)) /\ ~AtBlank(RollNextFile(o))
  BY <1>6, <1>7, MakeBoundary
<1>9. AtBlank(o) => RollNextFile(o) = o + (FileSize % MsgUnits)
  BY <1>1, <1>2, <1>3, <1>4 DEF RollNextFile
<1>10. QED
  BY <1>1, <1>4, <1>6, <1>8, <1>9 DEF RollNextFile

\* The start of a file is a boundary.
LEMMA FileBoundary ==
    ASSUME NEW o \in Nat, FileStart(o) = o
    PROVE  Boundary(o)
<1>1. o % FileSize = 0
  BY Division DEF FileStart
<1>2. 0 % MsgUnits = 0
  BY HAAssumption, SMT
<1>3. QED
  BY <1>1, <1>2, Units DEF Boundary

-----------------------------------------------------------------------------
(* The master numbers its messages.                                        *)

LEMMA MessageIs ==
    ASSUME NEW o \in Nat, Boundary(o)
    PROVE  /\ MessageAt(o) \in Nat /\ o <= MessageAt(o)
           /\ Boundary(MessageAt(o)) /\ ~AtBlank(MessageAt(o))
<1>1. /\ RollNextFile(o) \in Nat /\ o < RollNextFile(o)
      /\ Boundary(RollNextFile(o)) /\ ~AtBlank(RollNextFile(o))
  BY BehindBlank
<1>2. QED
  BY <1>1 DEF MessageAt

\* One piece of the log behind another.
LEMMA Joined ==
    ASSUME NEW q \in Seq(Nat), NEW r \in Seq(Nat)
    PROVE  /\ q \o r \in Seq(Nat) /\ Len(q \o r) = Len(q) + Len(r)
           /\ \A i \in 1 .. Len(q) : (q \o r)[i] = q[i]
           /\ \A i \in 1 .. Len(r) : (q \o r)[Len(q) + i] = r[i]
<1>1. /\ q \o r \in Seq(Nat) /\ Len(q) \in Nat /\ Len(r) \in Nat
      /\ Len(q \o r) = Len(q) + Len(r)
      /\ \A i \in 1 .. Len(q) + Len(r) :
            (q \o r)[i] = IF i <= Len(q) THEN q[i] ELSE r[i - Len(q)]
  BY LenProperties, ConcatProperties
<1>2. ASSUME NEW i \in 1 .. Len(r) PROVE (q \o r)[Len(q) + i] = r[i]
  <2>1. Len(q) + i \in 1 .. Len(q) + Len(r) /\ ~(Len(q) + i <= Len(q)) /\ Len(q) + i - Len(q) = i
    BY <1>1
  <2>2. QED
    BY <1>1, <2>1
<1>3. QED
  BY <1>1, <1>2

\* What putMessage appends: the blank, if its turn has come, and the message.
LEMMA PutAppends ==
    ASSUME CopyInv, NumberedInv, putMessage
    PROVE  /\ Len(master) \in Nat /\ MessageAt(Len(master)) \in Nat
           /\ Len(master') = MessageAt(Len(master)) + MsgUnits
           /\ master'[MessageAt(Len(master)) + 1] = puts + 1
           /\ \A i \in 1 .. Len(master) : master'[i] = master[i]
<1> DEFINE blanks == IF AtBlank(Len(master)) THEN FileSize % MsgUnits ELSE 0
           blank == [i \in 1 .. blanks |-> Blank]
           message == [i \in 1 .. MsgUnits |-> Unit(puts + 1, i)]
<1>1. /\ blanks \in Nat /\ MsgUnits \in Nat /\ MsgUnits > 0 /\ puts \in Nat
      /\ master \in Seq(Nat) /\ Len(master) \in Nat /\ Boundary(Len(master))
  BY HAAssumption, Units DEF CopyInv, LogTypeOK, NumberedInv
<1>2. MessageAt(Len(master)) = Len(master) + blanks
  BY <1>1, BehindBlank DEF MessageAt
<1>3. /\ blank \in Seq(Nat) /\ Len(blank) = blanks
      /\ message \in Seq(Nat) /\ Len(message) = MsgUnits /\ message[1] = puts + 1
  BY <1>1, HAAssumption DEF Blank, Unit
<1>4. master' = master \o blank \o message
  BY DEF putMessage
<1> HIDE DEF blanks, blank, message
<1>5. /\ master \o blank \in Seq(Nat) /\ Len(master \o blank) = Len(master) + blanks
      /\ \A i \in 1 .. Len(master) : (master \o blank)[i] = master[i]
  BY <1>1, <1>3, Joined
<1>6. /\ Len(master') = Len(master) + blanks + MsgUnits
      /\ \A i \in 1 .. Len(master) : master'[i] = master[i]
      /\ master'[Len(master) + blanks + 1] = message[1]
  <2>1. PICK q \in Seq(Nat) : q = master \o blank
    BY <1>5
  <2>2. /\ Len(q \o message) = Len(q) + Len(message)
        /\ \A i \in 1 .. Len(q) : (q \o message)[i] = q[i]
        /\ \A i \in 1 .. Len(message) : (q \o message)[Len(q) + i] = message[i]
    BY <1>3, Joined
  <2>3. master' = q \o message /\ Len(q) = Len(master) + blanks
        /\ \A i \in 1 .. Len(master) : q[i] = master[i]
    BY <1>4, <1>5, <2>1
  <2>4. 1 \in 1 .. Len(message) /\ \A i \in 1 .. Len(master) : i \in 1 .. Len(q)
    BY <1>1, <1>3, <2>3
  <2>5. QED
    BY <1>3, <2>2, <2>3, <2>4
<1>7. QED
  BY <1>1, <1>2, <1>3, <1>6, MessageIs

\* A message that was followed by the next one, or was the last, still is when
\* another one is put.
LEMMA EndsStay ==
    ASSUME CopyInv, NumberedInv, putMessage, NEW n \in Nat, NEW o \in Nat, Boundary(o),
           EndsAt(n, o)
    PROVE  EndsAt(n, o)'
<1> DEFINE L == Len(master)
           s == MessageAt(L)
<1>1. /\ L \in Nat /\ s \in Nat /\ Len(master') = s + MsgUnits
      /\ master'[s + 1] = puts + 1 /\ \A i \in 1 .. L : master'[i] = master[i]
  BY PutAppends
<1>2. MsgUnits \in Nat /\ MsgUnits > 0 /\ Boundary(L) /\ L <= s /\ o <= L /\ puts' = puts + 1
  BY <1>1, HAAssumption, MessageIs DEF NumberedInv, EndsAt, putMessage
<1>3. MessageAt(o) \in Nat
  BY MessageIs
<1>4. CASE MessageAt(o) < L
  <2>1. master[MessageAt(o) + 1] = n + 1 /\ MessageAt(o) + 1 \in 1 .. L
    BY <1>1, <1>3, <1>4 DEF EndsAt
  <2> HIDE DEF s, L
  <2>2. o <= Len(master') /\ MessageAt(o) < Len(master') /\ master'[MessageAt(o) + 1] = n + 1
    BY <1>1, <1>2, <1>3, <1>4, <2>1
  <2>3. QED
    BY <2>2 DEF EndsAt
<1>5. CASE ~(MessageAt(o) < L)
  <2>1. n = puts
    BY <1>5 DEF EndsAt
  <2>2. MessageAt(o) = s
    <3>1. CASE o = L
      BY <3>1
    <3>2. CASE o < L
      <4>1. AtBlank(o)
        BY <1>5, <3>2 DEF MessageAt
      <4>2. RollNextFile(o) <= L /\ MessageAt(o) = RollNextFile(o)
        BY <1>1, <1>2, <3>2, <4>1, NextBoundary DEF MessageAt
      <4>3. MessageAt(o) = L
        BY <1>1, <1>3, <1>5, <4>2
      <4>4. ~AtBlank(L)
        BY <4>3, MessageIs
      <4>5. QED
        BY <4>3, <4>4 DEF MessageAt
    <3>3. QED
      BY <1>1, <1>2, <3>1, <3>2
  <2> HIDE DEF s, L
  <2>3. o <= Len(master') /\ MessageAt(o) < Len(master') /\ master'[MessageAt(o) + 1] = n + 1
    BY <1>1, <1>2, <2>1, <2>2
  <2>4. QED
    BY <2>3 DEF EndsAt
<1>6. QED
  BY <1>4, <1>5

\* Putting a message keeps the numbering.
LEMMA PutNumbers ==
    ASSUME CopyInv, NumberedInv, putMessage
    PROVE  NumberedInv'
<1> DEFINE L == Len(master)
           s == MessageAt(L)
<1>1. /\ L \in Nat /\ s \in Nat /\ Len(master') = s + MsgUnits
      /\ master'[s + 1] = puts + 1 /\ \A i \in 1 .. L : master'[i] = master[i]
  BY PutAppends
<1>2. /\ MsgUnits \in Nat /\ MsgUnits > 0 /\ Boundary(L) /\ puts' = puts + 1
      /\ master \in Seq(Nat)
  BY HAAssumption DEF NumberedInv, putMessage, CopyInv, LogTypeOK
<1>3. L <= s /\ Boundary(s) /\ ~AtBlank(s)
  BY <1>1, <1>2, MessageIs
<1>4. Boundary(Len(master')) /\ Len(master') \in Nat
  BY <1>1, <1>3, BehindMessage
<1>5. ASSUME NEW o \in 0 .. Len(master') - 1, Boundary(o), ~AtBlank(o)
      PROVE  EndsAt(master[o + 1], o + MsgUnits)'
  <2>1. o \in Nat /\ o + MsgUnits \in Nat /\ Boundary(o + MsgUnits)
    BY <1>4, <1>5, BehindMessage
  <2>2. CASE o < L
    <3>1. o \in 0 .. L - 1 /\ o + 1 \in 1 .. L
      BY <1>1, <2>1, <2>2
    <3>2. PICK n \in Nat : n = master[o + 1]
      BY <1>2, <3>1
    <3>3. EndsAt(n, o + MsgUnits)
      BY <1>5, <3>1, <3>2 DEF NumberedInv
    <3>4. EndsAt(n, o + MsgUnits)'
      BY <2>1, <3>3, EndsStay
    <3>5. master'[o + 1] = n
      BY <1>1, <3>1, <3>2
    <3>6. QED
      BY <3>4, <3>5 DEF EndsAt
  <2>3. CASE ~(o < L)
    <3>1. o = s
      <4>1. CASE o < s
        <5>1. AtBlank(L) /\ s = RollNextFile(L)
          BY <1>1, <2>1, <2>3, <4>1 DEF MessageAt
        <5>2. L < o
          BY <1>1, <1>5, <2>1, <2>3, <5>1
        <5>3. RollNextFile(L) <= o
          BY <1>1, <1>2, <1>5, <2>1, <5>1, <5>2, NextBoundary
        <5>4. QED
          BY <1>1, <2>1, <4>1, <5>1, <5>3
      <4>2. CASE s < o
        <5>1. s + MsgUnits <= o
          BY <1>1, <1>3, <1>5, <2>1, <4>2, NextBoundary
        <5>2. o < s + MsgUnits
          BY <1>1, <1>2, <1>4, <2>1
        <5>3. QED
          BY <1>1, <1>2, <2>1, <5>1, <5>2
      <4>3. QED
        BY <1>1, <2>1, <4>1, <4>2
    <3>2. PICK m \in Nat : m = Len(master')
      BY <1>4
    <3>3. m <= MessageAt(m) /\ MessageAt(m) \in Nat
      BY <1>4, <3>2, MessageIs
    <3>4. o + MsgUnits = m /\ master'[o + 1] = puts'
      BY <1>1, <1>2, <3>1, <3>2
    <3>5. ~(MessageAt(m) < m)
      BY <3>2, <3>3
    <3> HIDE DEF s, L
    <3>6. QED
      BY <3>2, <3>3, <3>4, <3>5 DEF EndsAt
  <2>4. QED
    BY <2>2, <2>3
<1>6. QED
  BY <1>4, <1>5 DEF NumberedInv

-----------------------------------------------------------------------------
(* Dispatching on the slave.                                               *)

\* An empty log begins at a boundary.
LEMMA ZeroBoundary == 0 \in Nat /\ Boundary(0) /\ FileStart(0) = 0
<1>1. 0 % FileSize = 0
  BY HAAssumption, SMT
<1>2. FileStart(0) = 0
  BY <1>1 DEF FileStart
<1>3. QED
  BY <1>2, FileBoundary

LEMMA InitOrdered == Init => OrderedInv
<1> SUFFICES ASSUME Init PROVE OrderedInv
  OBVIOUS
<1>1. CopyInv /\ AckInv
  BY InitCopy, InitAck
<1>2. Len(master) = 0 /\ Len(dispatched) = 0 /\ dispatched \in Seq(Nat)
  BY EmptySeq DEF Init
<1>3. NumberedInv
  BY <1>2, ZeroBoundary DEF NumberedInv
<1>4. ReputInv
  BY ZeroBoundary DEF Init, ReputInv, SlaveMax
<1>5. InOrder
  BY <1>2 DEF InOrder
<1>6. TypeOK
  BY <1>1, <1>2, ZeroBoundary DEF Init, TypeOK, AckInv
<1>7. QED
  BY <1>1, <1>3, <1>4, <1>5, <1>6 DEF OrderedInv

\* Where dispatching goes on is the start of a message or of the blank.
LEMMA StartBoundary ==
    ASSUME TypeOK
    PROVE  ReputStart \in Nat /\ Boundary(ReputStart)
<1>1. slaveBase \in Nat /\ FileStart(slaveBase) = slaveBase
  BY DEF TypeOK, LogTypeOK
<1>2. Boundary(slaveBase)
  BY <1>1, FileBoundary
<1>3. QED
  BY <1>1, <1>2 DEF TypeOK, ReputStart

\* The types, whatever happens.
LEMMA NextType ==
    ASSUME TypeOK, AckInv', [Next]_vars
    PROVE  TypeOK'
<1> USE DEF masterVars, logVars, connVars, reputVars
<1>1. /\ connected \in BOOLEAN /\ faults \in Nat /\ gaps \subseteq Gaps
      /\ slaveBase \in Nat /\ FileStart(slaveBase) = slaveBase
      /\ reputFromOffset \in Nat /\ Boundary(reputFromOffset) /\ dispatched \in Seq(Nat)
      /\ slaveLog \in Seq(Nat) /\ toSlave \in Seq(Frames)
  BY DEF TypeOK, LogTypeOK
<1>2. connected' \in BOOLEAN
  <2>1. connected' = connected \/ connected' = TRUE \/ connected' = FALSE
    BY DEF Next, vars, MasterSteps, SlaveSteps, Faults, putMessage, ReadReport, ReadOldReport,
       TransferFirst, TransferData, Heartbeat, ConnectMaster, ReportOffset, RejectFrame,
       AppendFrame, AppendFails, Reput, Disconnect, SlaveRestart, SlaveCrash, SlaveStart,
       MasterRestart, Close
  <2>2. QED
    BY <1>1, <2>1
<1>3. faults' \in Nat
  <2>1. faults' \in {faults, faults + 1}
    BY DEF Next, vars, MasterSteps, SlaveSteps, Faults, putMessage, ReadReport, ReadOldReport,
       TransferFirst, TransferData, Heartbeat, ConnectMaster, ReportOffset, RejectFrame,
       AppendFrame, AppendFails, Reput, Disconnect, SlaveRestart, SlaveCrash, MasterRestart, Fault
  <2>2. QED
    BY <1>1, <2>1
<1>4. gaps' \subseteq Gaps
  <2>1. gaps' \subseteq gaps \cup Gaps
    BY DEF Next, vars, MasterSteps, SlaveSteps, Faults, putMessage, ReadReport, ReadOldReport,
       TransferFirst, TransferData, Heartbeat, ConnectMaster, ReportOffset, RejectFrame,
       AppendFrame, AppendFails, Reput, Disconnect, SlaveRestart, SlaveCrash, MasterRestart,
       Mark, Gaps, Splits
  <2>2. QED
    BY <1>1, <2>1
<1>5. FileStart(slaveBase') = slaveBase'
  <2>1. CASE AppendFrame
    <3>1. toSlave # <<>>
      BY <2>1 DEF AppendFrame
    <3>2. Head(toSlave) \in Frames
      BY <1>1, <3>1, Rest
    <3>3. Head(toSlave).from \in Nat
      BY <3>2 DEF Frames
    <3>4. slaveBase' \in {slaveBase, FileStart(Head(toSlave).from)}
      BY <2>1 DEF AppendFrame
    <3>5. QED
      BY <1>1, <3>3, <3>4, FileStartFacts
  <2>2. CASE ~AppendFrame
    <3>1. slaveBase' = slaveBase
      BY <2>2 DEF Next, vars, MasterSteps, SlaveSteps, Faults, putMessage, ReadReport,
         ReadOldReport, TransferFirst, TransferData, Heartbeat, ConnectMaster, ReportOffset,
         RejectFrame, AppendFails, Reput, Disconnect, SlaveRestart, SlaveCrash, SlaveStart,
         MasterRestart
    <3>2. QED
      BY <1>1, <3>1
  <2>3. QED
    BY <2>1, <2>2
<1>6. reputFromOffset' \in Nat /\ Boundary(reputFromOffset') /\ dispatched' \in Seq(Nat)
  <2>1. CASE Reput
    <3> DEFINE o == ReputStart
    <3>1. o \in Nat /\ Boundary(o)
      BY StartBoundary
    <3>2. CASE AtBlank(o)
      <4>1. reputFromOffset' = RollNextFile(o) /\ dispatched' = dispatched
        BY <2>1, <3>2 DEF Reput
      <4>2. QED
        BY <1>1, <3>1, <4>1, BehindBlank
    <3>3. CASE ~AtBlank(o)
      <4>1. PICK unit \in 1 .. MaxMessages :
               reputFromOffset' = o + MsgUnits /\ dispatched' = Append(dispatched, unit)
        BY <2>1, <3>3 DEF Reput
      <4>2. unit \in Nat
        BY HAAssumption
      <4>3. QED
        BY <1>1, <3>1, <3>3, <4>1, <4>2, BehindMessage, AppendProperties
    <3>4. QED
      BY <3>2, <3>3
  <2>2. CASE SlaveRestart \/ SlaveCrash
    <3>1. PICK end \in slaveBase .. slaveBase + Len(slaveLog) : SlaveStart(end)
      BY <2>2 DEF SlaveRestart, SlaveCrash
    <3>2. Boundary(end) /\ reputFromOffset' \in {end, 0} /\ end \in Nat
      BY <1>1, <3>1 DEF SlaveStart
    <3>3. dispatched' \in {dispatched, <<>>}
      BY <2>2 DEF SlaveRestart, SlaveCrash
    <3>4. QED
      BY <1>1, <3>2, <3>3, ZeroBoundary, EmptySeq
  <2>3. CASE ~Reput /\ ~SlaveRestart /\ ~SlaveCrash
    <3>1. UNCHANGED <<reputFromOffset, dispatched>>
      BY <2>3 DEF Next, vars, MasterSteps, SlaveSteps, Faults, putMessage, ReadReport,
         ReadOldReport, TransferFirst, TransferData, Heartbeat, ConnectMaster, ReportOffset,
         RejectFrame, AppendFrame, AppendFails, Disconnect, MasterRestart
    <3>2. QED
      BY <1>1, <3>1
  <2>4. QED
    BY <2>1, <2>2, <2>3
<1>7. FileStart(slaveBase)' = slaveBase' /\ Boundary(reputFromOffset)'
  BY <1>5, <1>6 DEF FileStart, Boundary
<1>8. QED
  BY <1>2, <1>3, <1>4, <1>6, <1>7 DEF TypeOK, AckInv

\* The slave has no more than the master.
LEMMA SlaveBehind ==
    ASSUME CopyInv, slaveFile, NEW o \in Nat, slaveBase <= o, o < SlaveMax
    PROVE  /\ o < Len(master) /\ SlaveMax <= Len(master) /\ SlaveMax \in Nat
           /\ o - slaveBase + 1 \in 1 .. Len(slaveLog)
           /\ slaveLog[o - slaveBase + 1] = master[o + 1]
<1>1. /\ slaveLog \in Seq(Nat) /\ master \in Seq(Nat) /\ slaveBase \in Nat
      /\ Len(slaveLog) \in Nat /\ Len(master) \in Nat
      /\ DOMAIN slaveLog = 1 .. Len(slaveLog) /\ DOMAIN master = 1 .. Len(master)
      /\ SlaveMax = slaveBase + Len(slaveLog)
  BY DEF CopyInv, LogTypeOK, SlaveMax
<1>2. o - slaveBase + 1 \in 1 .. Len(slaveLog) /\ Len(slaveLog) \in 1 .. Len(slaveLog)
  BY <1>1
<1>3. /\ slaveBase + Len(slaveLog) \in 1 .. Len(master)
      /\ slaveLog[o - slaveBase + 1] = master[slaveBase + (o - slaveBase + 1)]
  BY <1>1, <1>2 DEF CopyInv, CopyOfMaster
<1>4. slaveBase + (o - slaveBase + 1) = o + 1
  BY <1>1
<1>5. QED
  BY <1>1, <1>2, <1>3, <1>4

\* The next message in the slave's log is the one after the last dispatched.
LEMMA ReputOrdered ==
    ASSUME OrderedInv, gaps = {}, Reput
    PROVE  NumberedInv' /\ ReputInv' /\ InOrder'
<1> USE DEF masterVars, logVars
<1> DEFINE o == ReputStart
           D == Len(dispatched)
<1>0. /\ CopyInv /\ NumberedInv /\ ReputInv /\ InOrder
      /\ reputFromOffset \in Nat /\ Boundary(reputFromOffset) /\ dispatched \in Seq(Nat)
      /\ slaveBase \in Nat /\ master \in Seq(Nat) /\ Len(master) \in Nat
      /\ MsgUnits \in Nat /\ MsgUnits > 0
  BY HAAssumption
     DEF OrderedInv, TypeOK, LogTypeOK
<1>1. slaveFile /\ UNCHANGED <<masterVars, logVars>>
  BY DEF Reput
<1>2. o \in Nat /\ Boundary(o) /\ slaveBase <= o
  <2>1. o \in Nat /\ Boundary(o)
    BY StartBoundary DEF OrderedInv
  <2>2. QED
    BY <1>0, <2>1 DEF ReputInv, ReputStart
<1>3. ASSUME dispatched # <<>> PROVE o = reputFromOffset /\ EndsAt(dispatched[D], o)
  BY <1>0, <1>3 DEF ReputInv, ReputStart
<1>4. NumberedInv'
  BY <1>0, <1>1 DEF NumberedInv, EndsAt
<1>5. ASSUME NEW n, NEW e, EndsAt(n, e) PROVE EndsAt(n, e)'
  BY <1>1, <1>5 DEF EndsAt
<1>6. CASE AtBlank(o)
  <2>1. o < SlaveMax /\ reputFromOffset' = RollNextFile(o) /\ dispatched' = dispatched
    BY <1>6 DEF Reput
  <2>2. o < Len(master)
    BY <1>0, <1>1, <1>2, <2>1, SlaveBehind
  <2>3. RollNextFile(o) <= Len(master)
    BY <1>0, <1>2, <1>6, <2>2, NextBoundary DEF NumberedInv
  <2>4. PICK e \in Nat : e = RollNextFile(o)
    BY <1>2, BehindBlank
  <2>5. o < e /\ Boundary(e) /\ MessageAt(e) = e /\ MessageAt(o) = e /\ e <= Len(master)
    BY <1>2, <1>6, <2>3, <2>4, BehindBlank DEF MessageAt
  <2>6. ASSUME dispatched # <<>> PROVE EndsAt(dispatched[D], e)
    BY <1>3, <2>5, <2>6 DEF EndsAt
  <2>7. reputFromOffset' = e /\ e # 0 /\ e >= slaveBase
    BY <1>0, <1>2, <2>1, <2>4, <2>5
  <2> HIDE DEF o
  <2>8. InOrder'
    BY <1>0, <2>1 DEF InOrder
  <2>9. ASSUME dispatched # <<>> PROVE EndsAt(dispatched[Len(dispatched)], reputFromOffset)'
    <3>1. PICK n : n = dispatched[Len(dispatched)]
      OBVIOUS
    <3>2. EndsAt(n, e)'
      BY <1>5, <2>6, <2>9, <3>1
    <3>3. QED
      BY <2>1, <2>7, <3>1, <3>2 DEF EndsAt
  <2>10. \E b \in slaveBase' .. SlaveMax' : AtBlank(b) /\ reputFromOffset' = RollNextFile(b)
    <3>1. SlaveMax' = SlaveMax /\ SlaveMax \in Int
      BY <1>0, <1>1 DEF SlaveMax, CopyInv, LogTypeOK
    <3>2. o \in slaveBase' .. SlaveMax'
      BY <1>0, <1>1, <1>2, <2>1, <3>1
    <3>3. QED
      BY <1>6, <2>1, <3>2
  <2>11. (\E b \in slaveBase .. SlaveMax : AtBlank(b) /\ reputFromOffset = RollNextFile(b))'
    BY <2>10 DEF AtBlank, RollNextFile, FileStart
  <2>12. ReputInv'
    BY <1>0, <1>1, <2>1, <2>7, <2>9, <2>11 DEF ReputInv
  <2>13. QED
    BY <1>4, <2>8, <2>12
<1>7. CASE ~AtBlank(o)
  <2>1. /\ o + MsgUnits <= SlaveMax /\ reputFromOffset' = o + MsgUnits
        /\ dispatched' = Append(dispatched, slaveLog[o - slaveBase + 1])
    BY <1>7 DEF Reput
  <2>2. o < SlaveMax
    <3>1. SlaveMax \in Int
      BY <1>0 DEF SlaveMax, CopyInv, LogTypeOK
    <3>2. QED
      BY <1>0, <1>2, <2>1, <3>1
  <2>3. o < Len(master) /\ slaveLog[o - slaveBase + 1] = master[o + 1]
    BY <1>0, <1>1, <1>2, <2>2, SlaveBehind
  <2>4. PICK m \in Nat : m = master[o + 1]
    <3>1. o + 1 \in 1 .. Len(master)
      BY <1>0, <1>2, <2>3
    <3>2. QED
      BY <1>0, <3>1
  <2>5. PICK e \in Nat : e = o + MsgUnits
    BY <1>0, <1>2
  <2>6. EndsAt(m, e)
    <3>1. o \in 0 .. Len(master) - 1
      BY <1>0, <1>2, <2>3
    <3>2. QED
      BY <1>0, <1>2, <1>7, <2>4, <2>5, <3>1 DEF NumberedInv
  <2>7. Boundary(e) /\ e # 0 /\ e >= slaveBase
    BY <1>0, <1>2, <1>7, <2>5, BehindMessage
  <2>8. ASSUME dispatched # <<>> PROVE m = dispatched[D] + 1
    <3>1. MessageAt(o) = o
      BY <1>7 DEF MessageAt
    <3>2. QED
      BY <1>3, <2>3, <2>4, <2>8, <3>1 DEF EndsAt
  <2>9. /\ dispatched' \in Seq(Nat) /\ Len(dispatched') = D + 1 /\ D \in Nat
        /\ \A i \in 1 .. D : dispatched'[i] = dispatched[i]
        /\ dispatched'[D + 1] = m /\ dispatched' # <<>>
    <3>1. dispatched' = Append(dispatched, m)
      BY <2>1, <2>3, <2>4
    <3>2. QED
      BY <1>0, <3>1, AppendProperties, LenProperties
  <2> HIDE DEF o
  <2>10. InOrder'
    <3> SUFFICES ASSUME NEW i \in 1 .. D PROVE dispatched'[i + 1] = dispatched'[i] + 1
      BY <2>9 DEF InOrder
    <3>1. CASE i = D
      <4>1. dispatched # <<>>
        BY <1>0, <2>9, <3>1, EmptySeq
      <4>2. QED
        BY <2>8, <2>9, <3>1, <4>1
    <3>2. CASE i # D
      <4>1. i \in 1 .. D - 1 /\ i + 1 \in 1 .. D
        BY <2>9, <3>2
      <4>2. QED
        BY <1>0, <2>9, <4>1 DEF InOrder
    <3>3. QED
      BY <3>1, <3>2
  <2>11. reputFromOffset' = e /\ EndsAt(m, e)'
    BY <1>5, <2>1, <2>5, <2>6
  <2>12. EndsAt(dispatched[Len(dispatched)], reputFromOffset)'
    BY <2>9, <2>11 DEF EndsAt
  <2>13. reputFromOffset' <= SlaveMax'
    BY <1>1, <2>1 DEF SlaveMax
  <2>14. ReputInv'
    BY <1>0, <1>1, <2>7, <2>9, <2>11, <2>12, <2>13 DEF ReputInv
  <2>15. QED
    BY <1>4, <2>10, <2>14
<1>8. QED
  BY <1>6, <1>7

\* The rest of a file behind the last message is blank.
LEMMA BlankBoundary ==
    ASSUME NEW o \in Nat, AtBlank(o)
    PROVE  Boundary(o)
<1>1. (PerFile * MsgUnits + 0) % MsgUnits = 0
  BY HAAssumption, Units, Remainder
<1>2. PerFile * MsgUnits + 0 = PerFile * MsgUnits
  BY Units
<1>3. QED
  BY <1>1, <1>2, Units DEF AtBlank, Boundary

\* Recovery that keeps every whole message below max comes at least as far as
\* the blank at p.
LEMMA WholeKept ==
    ASSUME NEW end \in Nat, NEW p \in Nat, NEW max \in Nat, Boundary(end), AtBlank(p),
           p <= max, MessageAt(end) + MsgUnits > max
    PROVE  ~(MessageAt(end) < RollNextFile(p))
<1>1. MsgUnits \in Nat /\ MsgUnits > 0 /\ Boundary(p)
  BY HAAssumption, BlankBoundary
<1>2. /\ MessageAt(end) \in Nat /\ end <= MessageAt(end)
      /\ Boundary(MessageAt(end)) /\ ~AtBlank(MessageAt(end))
  BY MessageIs
<1>3. RollNextFile(p) \in Nat
  BY <1>1, BehindBlank
<1>4. CASE end < p
  <2>1. MessageAt(end) <= p
    <3>1. CASE AtBlank(end)
      BY <1>1, <1>4, <3>1, NextBoundary DEF MessageAt
    <3>2. CASE ~AtBlank(end)
      BY <1>4, <3>2 DEF MessageAt
    <3>3. QED
      BY <3>1, <3>2
  <2>2. MessageAt(end) # p
    BY <1>2
  <2>3. MessageAt(end) < p
    BY <1>2, <2>1, <2>2
  <2>4. MessageAt(end) + MsgUnits <= p
    BY <1>1, <1>2, <2>3, NextBoundary
  <2>5. QED
    BY <1>1, <1>2, <2>4
<1>5. CASE end = p
  BY <1>3, <1>5 DEF MessageAt
<1>6. CASE p < end
  <2>1. RollNextFile(p) <= end
    BY <1>1, <1>6, NextBoundary
  <2>2. QED
    BY <1>2, <1>3, <2>1
<1>7. QED
  BY <1>4, <1>5, <1>6

\* After a shutdown that skipped nothing dispatching goes on with the message
\* it would have come to.
LEMMA GoesOn ==
    ASSUME OrderedInv, gaps = {}, slaveFile, reputFromOffset # 0,
           NEW end \in slaveBase .. SlaveMax, Boundary(end),
           MessageAt(end) + MsgUnits > SlaveMax,
           ~(MessageAt(ReputStart) < MessageAt(end))
    PROVE  MessageAt(end) = MessageAt(reputFromOffset) /\ end # 0
<1> DEFINE R == reputFromOffset
<1>1. /\ R \in Nat /\ Boundary(R) /\ ReputStart = R /\ slaveBase \in Nat
      /\ SlaveMax \in Nat /\ end \in Nat /\ MsgUnits \in Nat
  BY HAAssumption DEF OrderedInv, TypeOK, LogTypeOK, ReputStart, SlaveMax
<1>2. /\ MessageAt(end) \in Nat /\ Boundary(MessageAt(end)) /\ ~AtBlank(MessageAt(end))
      /\ MessageAt(R) \in Nat /\ Boundary(MessageAt(R)) /\ R <= MessageAt(R)
  BY <1>1, MessageIs
<1>3. ~(MessageAt(end) < MessageAt(R))
  <2>1. CASE AtBlank(R) /\ R <= SlaveMax
    BY <1>1, <2>1, WholeKept DEF MessageAt
  <2>2. CASE ~AtBlank(R) /\ R <= SlaveMax
    <3>1. MessageAt(R) = R
      BY <2>2 DEF MessageAt
    <3>2. ASSUME MessageAt(end) < MessageAt(R) PROVE MessageAt(end) + MsgUnits <= MessageAt(R)
      BY <1>2, <3>2, NextBoundary
    <3>3. QED
      BY <1>1, <1>2, <2>2, <3>1, <3>2
  <2>3. CASE ~(R <= SlaveMax)
    <3>1. PICK o \in slaveBase .. SlaveMax : AtBlank(o) /\ R = RollNextFile(o)
      BY <2>3 DEF OrderedInv, ReputInv
    <3>2. o \in Nat /\ o <= SlaveMax
      BY <1>1
    <3>3. ~AtBlank(R)
      BY <3>1, <3>2, BlankBoundary, BehindBlank
    <3>4. MessageAt(R) = R
      BY <3>3 DEF MessageAt
    <3>5. QED
      BY <1>1, <3>1, <3>2, <3>4, WholeKept
  <2>4. QED
    BY <2>1, <2>2, <2>3
<1>4. MessageAt(end) = MessageAt(R)
  BY <1>1, <1>2, <1>3
<1>5. end # 0
  <2>1. 0 % FileSize = 0 /\ PerFile * MsgUnits # 0
    <3>1. 1 * MsgUnits <= PerFile * MsgUnits /\ 1 * MsgUnits = MsgUnits /\ MsgUnits > 0
      BY HAAssumption, Units, Monotone
    <3>2. 0 % FileSize = 0
      BY HAAssumption, SMT
    <3>3. QED
      BY <1>1, <3>1, <3>2, Units
  <2>2. MessageAt(0) = 0
    BY <2>1 DEF MessageAt, AtBlank
  <2>3. QED
    BY <1>1, <1>2, <1>4, <2>2
<1>6. QED
  BY <1>4, <1>5

\* Every step keeps the order.
LEMMA NextOrdered ==
    ASSUME OrderedInv, AckInv', [Next]_vars
    PROVE  OrderedInv'
<1> USE DEF masterVars, logVars, connVars, reputVars
<1>1. TypeOK'
  BY NextType DEF OrderedInv
<1>2. SUFFICES ASSUME gaps' = {}
      PROVE  CopyInv' /\ NumberedInv' /\ ReputInv' /\ InOrder'
  BY <1>1 DEF OrderedInv
<1>3. gaps = {}
  BY <1>2, GapsStay
<1>4. /\ CopyInv /\ NumberedInv /\ ReputInv /\ InOrder
      /\ reputFromOffset \in Nat /\ Boundary(reputFromOffset) /\ dispatched \in Seq(Nat)
      /\ slaveBase \in Nat /\ master \in Seq(Nat) /\ slaveLog \in Seq(Nat)
      /\ slaveFile \in BOOLEAN
  BY <1>3 DEF OrderedInv, TypeOK, LogTypeOK
<1>5. CopyInv'
  BY <1>2, <1>4, NextCopy
<1>6. ASSUME UNCHANGED <<master, puts>> PROVE NumberedInv'
  BY <1>4, <1>6 DEF NumberedInv, EndsAt
<1>7. ASSUME UNCHANGED dispatched PROVE InOrder'
  BY <1>4, <1>7 DEF InOrder
\* Steps of the connection.
<1>8. ASSUME UNCHANGED <<master, puts, logVars, reputVars>>
      PROVE  CopyInv' /\ NumberedInv' /\ ReputInv' /\ InOrder'
  <2>1. ReputInv'
    BY <1>4, <1>8 DEF ReputInv, EndsAt, SlaveMax
  <2>2. QED
    BY <1>5, <1>6, <1>7, <1>8, <2>1
<1>9. CASE putMessage
  <2>1. NumberedInv'
    BY <1>4, <1>9, PutNumbers
  <2>2. UNCHANGED <<logVars, reputVars>>
    BY <1>9 DEF putMessage
  <2>3. ASSUME dispatched # <<>> PROVE EndsAt(dispatched[Len(dispatched)], reputFromOffset)'
    <3>1. Len(dispatched) \in DOMAIN dispatched /\ dispatched[Len(dispatched)] \in Nat
      BY <1>4, <2>3, EmptySeq
    <3>2. PICK n \in Nat, e \in Nat : n = dispatched[Len(dispatched)] /\ e = reputFromOffset
      BY <1>4, <3>1
    <3>3. EndsAt(n, e)
      BY <1>4, <2>3, <3>2 DEF ReputInv
    <3>4. EndsAt(n, e)'
      BY <1>4, <1>9, <3>2, <3>3, EndsStay
    <3>5. QED
      BY <2>2, <3>2, <3>4 DEF EndsAt
  <2>4. ReputInv'
    BY <1>4, <2>2, <2>3 DEF ReputInv, SlaveMax
  <2>5. QED
    BY <1>5, <1>7, <2>1, <2>2, <2>4
<1>10. CASE Reput
  BY <1>3, <1>5, <1>10, ReputOrdered
<1>11. CASE AppendFrame
  <2>1. UNCHANGED <<master, puts, reputVars>>
    BY <1>11 DEF AppendFrame
  <2>2. toSlave # <<>> /\ toSlave \in Seq(Frames)
    BY <1>4, <1>11 DEF AppendFrame, CopyInv, LogTypeOK
  <2>3. Head(toSlave) \in Frames
    BY <2>2, Rest
  <2>4. CASE slaveFile
    <3>1. slaveFile' = TRUE /\ slaveBase' = slaveBase
      BY <1>11, <2>4 DEF AppendFrame, CopyInv, LogTypeOK
    <3>2. SlaveMax \in Int /\ SlaveMax' \in Int /\ SlaveMax <= SlaveMax'
      <4>1. slaveLog' \in {slaveLog, slaveLog \o Head(toSlave).data}
        BY <1>11, <2>4 DEF AppendFrame
      <4>2. Head(toSlave).data \in Seq(Nat)
        BY <2>3 DEF Frames
      <4>3. Len(slaveLog) \in Nat /\ Len(slaveLog') \in Nat /\ Len(slaveLog) <= Len(slaveLog')
        BY <1>4, <4>1, <4>2
      <4>4. QED
        BY <1>4, <2>4, <3>1, <4>3 DEF SlaveMax
    <3>3. (\/ reputFromOffset <= SlaveMax
           \/ \E o \in slaveBase .. SlaveMax : AtBlank(o) /\ reputFromOffset = RollNextFile(o))'
      <4>1. CASE reputFromOffset <= SlaveMax
        BY <1>4, <2>1, <3>2, <4>1
      <4>2. CASE ~(reputFromOffset <= SlaveMax)
        <5>1. PICK o \in slaveBase .. SlaveMax : AtBlank(o) /\ reputFromOffset = RollNextFile(o)
          BY <1>4, <4>2 DEF ReputInv
        <5>2. o \in slaveBase' .. SlaveMax' /\ reputFromOffset' = RollNextFile(o)
          BY <1>4, <2>1, <3>1, <3>2, <5>1
        <5>3. \E b \in slaveBase' .. SlaveMax' : AtBlank(b) /\ reputFromOffset' = RollNextFile(b)
          BY <5>1, <5>2
        <5>4. QED
          BY <5>3 DEF AtBlank, RollNextFile, FileStart
      <4>3. QED
        BY <4>1, <4>2
    <3>4. ReputInv'
      BY <1>4, <2>1, <2>4, <3>1, <3>3 DEF ReputInv, EndsAt
    <3>5. QED
      BY <1>5, <1>6, <1>7, <2>1, <3>4
  <2>5. CASE ~slaveFile
    <3>1. reputFromOffset' = 0 /\ dispatched' = <<>>
      BY <1>4, <2>1, <2>5 DEF ReputInv
    <3>2. SlaveMax' \in Nat
      BY <1>1 DEF TypeOK, LogTypeOK, SlaveMax
    <3>3. ReputInv'
      BY <3>1, <3>2 DEF ReputInv
    <3>4. QED
      BY <1>5, <1>6, <1>7, <2>1, <3>3
  <2>6. QED
    BY <2>4, <2>5
<1>12. CASE SlaveCrash
  <2>1. PICK end \in slaveBase .. slaveBase + Len(slaveLog) : SlaveStart(end)
    BY <1>12 DEF SlaveCrash
  <2>2. /\ reputFromOffset' = IF slaveFile THEN end ELSE 0
        /\ UNCHANGED <<master, puts, slaveFile, slaveBase>>
    BY <2>1 DEF SlaveStart
  <2>3. dispatched' = <<>> /\ Len(dispatched') = 0
    BY <1>12, EmptySeq DEF SlaveCrash
  <2>4. end \in Nat /\ slaveBase <= end
    BY <1>4, <2>1
  <2>5. (slaveFile => SlaveMax' = end) /\ (~slaveFile => SlaveMax' = 0)
    BY <1>4, <2>1, <2>2, StartKeepsCopy DEF SlaveMax
  <2>6. ReputInv'
    BY <1>4, <2>2, <2>3, <2>4, <2>5 DEF ReputInv
  <2>7. InOrder'
    BY <2>3 DEF InOrder
  <2>8. QED
    BY <1>5, <1>6, <2>2, <2>6, <2>7
<1>13. CASE SlaveRestart
  <2>1. PICK end \in slaveBase .. slaveBase + Len(slaveLog) :
           /\ MessageAt(end) + MsgUnits > slaveBase + Len(slaveLog)
           /\ SlaveStart(end)
           /\ Mark("skipped", slaveFile /\ MessageAt(ReputStart) < MessageAt(end))
    BY <1>13 DEF SlaveRestart
  <2>2. /\ reputFromOffset' = (IF slaveFile THEN end ELSE 0) /\ Boundary(end)
        /\ UNCHANGED <<master, puts, slaveFile, slaveBase>>
    BY <2>1 DEF SlaveStart
  <2>3. dispatched' = dispatched
    BY <1>13 DEF SlaveRestart
  <2>4. end \in Nat /\ slaveBase <= end
    BY <1>4, <2>1
  <2>5. (slaveFile => SlaveMax' = end) /\ (~slaveFile => SlaveMax' = 0)
    BY <1>4, <2>1, <2>2, StartKeepsCopy DEF SlaveMax
  <2>6. ~(slaveFile /\ MessageAt(ReputStart) < MessageAt(end))
    BY <1>2, <2>1 DEF Mark
  <2>7. ASSUME dispatched # <<>>
        PROVE  slaveFile /\ end # 0 /\ EndsAt(dispatched[Len(dispatched)], end)
    <3>1. /\ slaveFile /\ reputFromOffset # 0
          /\ EndsAt(dispatched[Len(dispatched)], reputFromOffset)
      BY <1>4, <2>7 DEF ReputInv
    <3>2. SlaveMax = slaveBase + Len(slaveLog) /\ end \in slaveBase .. SlaveMax
      BY <2>1, <3>1 DEF SlaveMax
    <3>3. MessageAt(end) = MessageAt(reputFromOffset) /\ end # 0
      BY <1>3, <2>1, <2>2, <2>6, <3>1, <3>2, GoesOn
    <3>4. end <= Len(master)
      <4>1. CASE Len(slaveLog) = 0
        <5>1. end = slaveBase /\ slaveBase <= reputFromOffset
          BY <1>4, <2>1, <3>1, <4>1 DEF ReputInv
        <5>2. QED
          BY <1>4, <2>4, <3>1, <5>1 DEF EndsAt
      <4>2. CASE Len(slaveLog) # 0
        <5>1. slaveBase < SlaveMax
          BY <1>4, <3>2, <4>2
        <5>2. SlaveMax <= Len(master) /\ SlaveMax \in Nat
          BY <1>4, <3>1, <5>1, SlaveBehind
        <5>3. QED
          BY <1>4, <2>4, <3>2, <5>2
      <4>3. QED
        BY <4>1, <4>2
    <3>5. EndsAt(dispatched[Len(dispatched)], end)
      BY <3>1, <3>3, <3>4 DEF EndsAt
    <3>6. QED
      BY <3>1, <3>3, <3>5
  <2>8. ASSUME dispatched # <<>> PROVE EndsAt(dispatched[Len(dispatched)], reputFromOffset)'
    BY <2>2, <2>3, <2>7, <2>8 DEF EndsAt, MessageAt, AtBlank, RollNextFile, FileStart
  <2>9. ReputInv'
    BY <1>4, <2>2, <2>3, <2>4, <2>5, <2>7, <2>8 DEF ReputInv
  <2>10. QED
    BY <1>5, <1>6, <1>7, <2>2, <2>3, <2>9
<1>14. CASE MasterRestart
  <2>1. PICK end \in 0 .. Len(master) : master' = SubSeq(master, 1, end) /\ ~(end < Len(master))
    BY <1>2, <1>14 DEF MasterRestart
  <2>2. end = Len(master)
    BY <1>4, <2>1
  <2>3. master' = master
    BY <1>4, <2>1, <2>2
  <2>4. QED
    BY <1>8, <1>14, <2>3 DEF MasterRestart
<1>15. CASE MasterSteps \/ ConnectMaster \/ ReportOffset \/ RejectFrame \/ AppendFails
            \/ Disconnect \/ UNCHANGED vars
  BY <1>8, <1>15 DEF MasterSteps, ReadReport, ReadOldReport, TransferFirst, TransferData,
     Heartbeat, ConnectMaster, ReportOffset, RejectFrame, AppendFails, Disconnect, vars
<1>16. QED
  BY <1>9, <1>10, <1>11, <1>12, <1>13, <1>14, <1>15 DEF Next, SlaveSteps, Faults

\* The strengthened invariant holds throughout.
THEOREM OrderedInductive == Spec => []OrderedInv
<1>1. OrderedInv /\ AckInv' /\ [Next]_vars => OrderedInv'
  BY NextOrdered
<1>2. QED
  BY InitOrdered, AckInductive, <1>1, PTL DEF Spec

\* ReputMessageService dispatches the messages the slave received in the order
\* of the master, none left out and none twice, for all sizes of messages and
\* files, until one of Gaps happens: it waits for whole messages, steps over the
\* blank at the end of each file, and goes on where recovery ended.
THEOREM InMasterOrder == Spec => []DispatchedInOrder
<1>1. OrderedInv => DispatchedInOrder
  BY DEF OrderedInv, DispatchedInOrder
<1>2. QED
  BY OrderedInductive, <1>1, PTL

=============================================================================
