-------------------------- MODULE CommitLogProofs --------------------------
(***************************************************************************)
(* For any number of files, producers and messages: everything below       *)
(* committedWhere is on disk, messages lie one behind the other, a flush   *)
(* service that answers true tells the truth, and no request is forgotten. *)
(***************************************************************************)
EXTENDS CommitLog, SequenceTheorems, TLAPS

\* Files lie one behind the other.
LEMMA FromNext ==
    ASSUME NEW f \in Int
    PROVE  From(f) \in Int /\ From(f + 1) = From(f) + FileSize
BY SizesAssumption DEF From

LEMMA FromMono ==
    ASSUME NEW f \in Int, NEW g \in Int, f < g
    PROVE  From(f) + FileSize <= From(g)
<1>1. PICK d \in Nat : g = f + 1 + d
  <2>1. g - f - 1 \in Nat /\ g = f + 1 + (g - f - 1)
    OBVIOUS
  <2>2. QED
    BY <2>1
<1>2. d * FileSize >= 0 /\ d * FileSize \in Int
  BY SizesAssumption
<1>3. From(g) = From(f) + FileSize + d * FileSize
  BY <1>1, SizesAssumption DEF From
<1>4. From(f) \in Int /\ FileSize \in Int
  BY SizesAssumption DEF From
<1>5. QED
  BY <1>2, <1>3, <1>4

\* An offset lies in the file that findMapedFileByOffset computes for it.
LEMMA OffsetFile ==
    ASSUME NEW offset \in Nat
    PROVE  /\ offset \div FileSize \in Nat
           /\ From(offset \div FileSize) <= offset
<1>1. FileSize \in Nat /\ FileSize > 0
  BY SizesAssumption
<1>2. QED
  BY <1>1 DEF From

\* What a commit of file f may move committedWhere to: a position that is
\* forced in f, with all files below f on disk.
LEMMA DurableUpTo ==
    ASSUME LogTypeOK, NEW h \in Files, NEW pos \in 0 .. FileSize,
           available[h] => pos <= forced[h],
           \A g \in first .. last : g < h /\ available[g] => forced[g] = FileSize
    PROVE  Durable(From(h) + pos)
<1> DEFINE o == From(h) + pos
<1>o. o \in Int /\ o = From(h) + pos
  <2>1. From(h) \in Int /\ pos \in Int
    BY FromNext, SizesAssumption DEF Files
  <2>2. QED
    BY <2>1
<1> HIDE DEF o
<1> SUFFICES ASSUME NEW g \in first .. last, available[g]
             PROVE  forced[g] = FileSize \/ o - From(g) <= forced[g]
  BY <1>o, Zenon DEF Durable
<1>1. g \in Files /\ g \in Int /\ h \in Int /\ forced[g] \in 0 .. FileSize
  BY SizesAssumption DEF LogTypeOK, Files
<1>2. From(g) \in Int /\ From(h) \in Int /\ From(g + 1) = From(g) + FileSize
  BY <1>1, FromNext
<1>3. CASE g > h
  BY <1>o, <1>1, <1>2, <1>3, FromMono, SizesAssumption
<1>4. CASE g < h
  BY <1>o, <1>1, <1>2, <1>4, SizesAssumption
<1>5. CASE g = h
  BY <1>o, <1>1, <1>2, <1>5, SizesAssumption
<1>6. QED
  BY <1>1, <1>3, <1>4, <1>5

\* An empty log satisfies the invariant.
LEMMA InitDurable == Init => DurableInv
<1> SUFFICES ASSUME Init PROVE DurableInv
  OBVIOUS
<1> USE SizesAssumption
<1>1. LogTypeOK
  <2>1. flush \in FlushState
    BY DEF Init, FlushState, Files
  <2>2. available \in [Files -> BOOLEAN]
    BY DEF Init
  <2>3. QED
    BY <2>1, <2>2 DEF Init, LogTypeOK, Files
<1>2. PositionsInv /\ CommitInv
  BY DEF Init, PositionsInv, CommitInv, Files
<1>3. committedWhere <= From(last + 1)
  BY DEF Init, From
<1>4. CommittedIsDurable
  BY DEF Init, CommittedIsDurable, Durable
<1>5. QED
  BY <1>1, <1>2, <1>3, <1>4 DEF DurableInv

\* A step that touches neither the files nor the progress of the flush thread
\* keeps the invariant.
LEMMA FrameDurable ==
    ASSUME DurableInv, UNCHANGED <<fileVars, committedWhere>>,
           flush' \in FlushState,
           flush'.pc \in {"find", "read", "force"} => flush'.tries <= 2,
           \/ flush' = flush
           \/ flush'.pc \notin {"read", "force"}
    PROVE  DurableInv'
<1>1. LogTypeOK'
  BY DEF DurableInv, LogTypeOK, fileVars
<1>2. PositionsInv' /\ (committedWhere <= From(last + 1))'
  BY DEF DurableInv, PositionsInv, fileVars
<1>3. CommitInv'
  BY DEF DurableInv, CommitInv, fileVars
<1>4. CommittedIsDurable'
  BY DEF DurableInv, CommittedIsDurable, Durable, fileVars
<1>5. QED
  BY <1>1, <1>2, <1>3, <1>4 DEF DurableInv

\* The producers' steps on the files: appending, filling up and adding a file
\* put nothing below committedWhere.
LEMMA PutDurable ==
    ASSUME DurableInv, NEW p \in Producers,
           CreateFile(p) \/ EndOfFile(p) \/ AppendMessage(p)
    PROVE  DurableInv'
<1> USE SizesAssumption
<1>1. CASE CreateFile(p)
  <2>1. /\ last' = last + 1 /\ last' \in Files /\ last \in Int /\ first \in Nat
        /\ first' = first /\ committedWhere' = committedWhere /\ flush' = flush
        /\ wrote' = wrote /\ committed' = committed /\ forced' = forced
        /\ available' = available
    BY <1>1 DEF CreateFile, fileVars, flushVars, DurableInv, LogTypeOK
  <2>2. LogTypeOK'
    BY <2>1 DEF DurableInv, LogTypeOK, Files
  <2>3. PositionsInv'
    BY <2>1 DEF DurableInv, LogTypeOK, PositionsInv, Files
  <2>4. CommitInv'
    <3>1. flush.pc \in {"read", "force"} => flush.file <= last /\ flush.file \in Int
      BY DEF DurableInv, LogTypeOK, CommitInv, Files, FlushState
    <3>2. ASSUME NEW g \in first .. last + 1, flush.pc \in {"read", "force"},
                 g < flush.file
          PROVE  g \in first .. last
      BY <2>1, <3>1, <3>2
    <3>3. QED
      BY <2>1, <3>1, <3>2 DEF DurableInv, CommitInv
  <2>5. committedWhere <= From(last + 1) /\ From(last + 1) \in Int
        /\ committedWhere \in Int /\ forced[last + 1] \in 0 .. FileSize
    BY <2>1, FromNext DEF DurableInv, LogTypeOK
  <2>6. (committedWhere <= From(last + 1))'
    BY <2>1, <2>5, FromNext
  <2>7. CommittedIsDurable'
    <3> SUFFICES ASSUME NEW g \in first .. last + 1, available[g]
                 PROVE  \/ forced[g] = FileSize
                        \/ committedWhere - From(g) <= forced[g]
      BY <2>1 DEF CommittedIsDurable, Durable
    <3>1. CASE g = last + 1
      BY <3>1, <2>5
    <3>2. CASE g # last + 1
      <4>1. g \in first .. last
        BY <2>1, <3>2
      <4>2. QED
        BY <4>1 DEF DurableInv, CommittedIsDurable, Durable
    <3>3. QED
      BY <3>1, <3>2
  <2>8. QED
    BY <2>2, <2>3, <2>4, <2>6, <2>7 DEF DurableInv
<1>2. CASE EndOfFile(p) \/ AppendMessage(p)
  <2>1. /\ last' = last /\ first' = first /\ committedWhere' = committedWhere
        /\ flush' = flush /\ committed' = committed /\ forced' = forced
        /\ available' = available
    BY <1>2 DEF EndOfFile, AppendMessage, flushVars
  <2>2. PICK pos \in 0 .. FileSize : /\ wrote' = [wrote EXCEPT ![last] = pos]
                                    /\ last \in Files
                                    /\ wrote[last] <= pos
    <3>1. last \in Files /\ wrote[last] \in 0 .. FileSize
      BY <1>2 DEF EndOfFile, AppendMessage, NeedFile, DurableInv, LogTypeOK,
                  Files
    <3>2. CASE EndOfFile(p)
      <4>1. FileSize \in 0 .. FileSize /\ wrote[last] <= FileSize
        BY <3>1
      <4>2. wrote' = [wrote EXCEPT ![last] = FileSize]
        BY <3>2 DEF EndOfFile
      <4>3. QED
        BY <3>1, <4>1, <4>2
    <3>3. CASE AppendMessage(p)
      <4>1. wrote' = [wrote EXCEPT ![last] = wrote[last] + MsgSize] /\ Fits
        BY <3>3 DEF AppendMessage
      <4>2. /\ wrote[last] + MsgSize \in 0 .. FileSize
            /\ wrote[last] <= wrote[last] + MsgSize
        BY <3>1, <4>1 DEF Fits
      <4>3. QED
        BY <3>1, <4>1, <4>2
    <3>4. QED
      BY <1>2, <3>2, <3>3
  <2>3. LogTypeOK'
    BY <2>1, <2>2 DEF DurableInv, LogTypeOK, Files
  <2>4. \A f \in Files : wrote'[f] >= wrote[f] /\ (f # last => wrote'[f] = wrote[f])
    BY <2>2 DEF DurableInv, LogTypeOK
  <2>5. PositionsInv'
    BY <2>1, <2>2, <2>3, <2>4 DEF DurableInv, LogTypeOK, PositionsInv, Files
  <2>6. CommitInv'
    BY <2>1, <2>3, <2>4 DEF DurableInv, LogTypeOK, CommitInv, FlushState, Files
  <2>7. (committedWhere <= From(last + 1))' /\ CommittedIsDurable'
    BY <2>1 DEF DurableInv, CommittedIsDurable, Durable
  <2>8. QED
    BY <2>3, <2>5, <2>6, <2>7 DEF DurableInv
<1>3. QED
  BY <1>1, <1>2

\* Expiring files only takes obligations away.
LEMMA CleanDurable ==
    ASSUME DurableInv, DestroyFile \/ RemoveFile
    PROVE  DurableInv'
<1> USE SizesAssumption
<1>1. CASE DestroyFile
  <2>1. PICK h \in first .. last - 1 :
           available' = [available EXCEPT ![h] = FALSE]
    BY <1>1 DEF DestroyFile
  <2>2. /\ last' = last /\ first' = first /\ committedWhere' = committedWhere
        /\ flush' = flush /\ committed' = committed /\ forced' = forced
        /\ wrote' = wrote
    BY <1>1 DEF DestroyFile, flushVars
  <2>3. available' \in [Files -> BOOLEAN]
    BY <2>1 DEF DurableInv, LogTypeOK
  <2>4. \A g \in Files : available'[g] => available[g]
    BY <2>1 DEF DurableInv, LogTypeOK
  <2>5. first .. last \subseteq Files
    BY DEF DurableInv, LogTypeOK, Files
  <2>6. LogTypeOK'
    BY <2>2, <2>3 DEF DurableInv, LogTypeOK
  <2>7. PositionsInv'
    BY <2>2, <2>4 DEF DurableInv, PositionsInv
  <2>8. CommitInv'
    BY <2>2, <2>4, <2>5 DEF DurableInv, CommitInv
  <2>9. (committedWhere <= From(last + 1))' /\ CommittedIsDurable'
    BY <2>2, <2>4, <2>5 DEF DurableInv, CommittedIsDurable, Durable
  <2>10. QED
    BY <2>6, <2>7, <2>8, <2>9 DEF DurableInv
<1>2. CASE RemoveFile
  <2>1. /\ first' = first + 1 /\ first < last /\ first \in Nat /\ last \in Int
        /\ last' = last /\ committedWhere' = committedWhere
        /\ flush' = flush /\ committed' = committed /\ forced' = forced
        /\ wrote' = wrote /\ available' = available
    BY <1>2 DEF RemoveFile, flushVars, DurableInv, LogTypeOK
  <2>2. first' .. last' \subseteq first .. last
    BY <2>1
  <2>3. LogTypeOK'
    BY <2>1 DEF DurableInv, LogTypeOK
  <2>4. PositionsInv'
    BY <2>1 DEF DurableInv, PositionsInv
  <2>5. CommitInv'
    BY <2>1, <2>2 DEF DurableInv, CommitInv
  <2>6. (committedWhere <= From(last + 1))' /\ CommittedIsDurable'
    BY <2>1, <2>2 DEF DurableInv, CommittedIsDurable, Durable
  <2>7. QED
    BY <2>3, <2>4, <2>5, <2>6 DEF DurableInv
<1>3. QED
  BY <1>1, <1>2

\* After a commit the flush thread works on no file.
LEMMA AfterCommitState ==
    ASSUME DurableInv, flush.pc \in {"find", "read", "force"}, NEW where,
           AfterCommit(where)
    PROVE  /\ flush' \in FlushState
           /\ flush'.pc \in {"find", "read", "force"} => flush'.tries <= 2
           /\ flush'.pc \notin {"read", "force"}
<1> USE SizesAssumption
<1>1. flush \in FlushState /\ flush.tries \in 0 .. 2
  BY DEF DurableInv, LogTypeOK, FlushState
<1>2. PICK where2 \in {"serve", "wait", "ended", "find"} :
         /\ flush' = [flush EXCEPT !.file = 0, !.value = 0, !.tries = @ + 1,
                                   !.pc = where2]
         /\ where2 = "find" => flush.tries # 2
  BY DEF AfterCommit
<1>3. /\ flush'.pc = where2 /\ flush'.tries = flush.tries + 1
      /\ flush' \in FlushState
  <2> DEFINE r1 == [flush EXCEPT !.file = 0]
             r2 == [r1 EXCEPT !.value = 0]
             r3 == [r2 EXCEPT !.tries = flush.tries + 1]
             r4 == [r3 EXCEPT !.pc = where2]
  <2>0. 0 \in Files /\ 0 \in 0 .. FileSize /\ flush.tries + 1 \in 0 .. 3
    BY <1>1 DEF Files
  <2>1. r1 \in FlushState
    BY <1>1, <2>0 DEF FlushState
  <2>2. r2 \in FlushState
    BY <2>1, <2>0 DEF FlushState
  <2>3. r3 \in FlushState /\ r3.tries = flush.tries + 1
    BY <2>2, <2>0 DEF FlushState
  <2>4. r4 \in FlushState /\ r4.tries = flush.tries + 1 /\ r4.pc = where2
    BY <2>3 DEF FlushState
  <2>5. flush' = r4
    BY <1>2
  <2> HIDE DEF r4
  <2>6. QED
    BY <2>4, <2>5
<1>4. QED
  BY <1>1, <1>2, <1>3

\* Finding the file: everything below it is on disk, because it is below
\* committedWhere or because there is no file below the first one.
LEMMA FindDurable ==
    ASSUME DurableInv, CommitFind
    PROVE  DurableInv'
<1> USE SizesAssumption
<1>1. flush.pc = "find" /\ UNCHANGED <<fileVars, committedWhere>>
  BY DEF CommitFind
<1>2. CASE last < first
  BY <1>1, <1>2, AfterCommitState, FrameDurable DEF CommitFind
<1>3. CASE ~(last < first)
  <2> DEFINE h == findMapedFileByOffset(committedWhere)
  <2>1. /\ first \in Nat /\ last \in Int /\ first <= last /\ last < MaxFiles
        /\ committedWhere \in Nat /\ flush \in FlushState
    BY <1>3 DEF DurableInv, LogTypeOK
  <2>2. h \in first .. last
    BY <2>1 DEF findMapedFileByOffset
  <2>3. flush' = [flush EXCEPT !.pc = "read", !.file = h]
    BY <1>3 DEF CommitFind
  <2>4. h = first \/ From(h) <= committedWhere
    BY <2>1, OffsetFile DEF findMapedFileByOffset
  <2> HIDE DEF h
  <2>5. flush'.pc = "read" /\ flush'.file = h /\ flush'.tries = flush.tries
        /\ flush' \in FlushState
    <3>1. h \in Files
      BY <2>1, <2>2 DEF Files
    <3>2. QED
      BY <2>1, <2>3, <3>1 DEF FlushState
  <2>6. LogTypeOK'
    BY <1>1, <2>5 DEF DurableInv, LogTypeOK, fileVars
  <2>7. ASSUME NEW g \in first .. last, g < h, available[g]
        PROVE  forced[g] = FileSize
    <3>1. From(h) <= committedWhere
      BY <2>1, <2>4, <2>7
    <3>2. From(g) + FileSize <= From(h) /\ From(g) \in Int /\ From(h) \in Int
      BY <2>1, <2>2, <2>7, FromMono, FromNext
    <3>3. forced[g] = FileSize \/ committedWhere - From(g) <= forced[g]
      BY <2>7 DEF DurableInv, CommittedIsDurable, Durable
    <3>4. forced[g] \in 0 .. FileSize
      BY <2>1 DEF DurableInv, LogTypeOK, Files
    <3>5. QED
      BY <2>1, <3>1, <3>2, <3>3, <3>4
  <2>8. CommitInv'
    BY <1>1, <2>1, <2>2, <2>5, <2>7 DEF CommitInv, fileVars
  <2>9. PositionsInv' /\ (committedWhere <= From(last + 1))'
        /\ CommittedIsDurable'
    BY <1>1 DEF DurableInv, PositionsInv, CommittedIsDurable, Durable, fileVars
  <2>10. QED
    BY <2>6, <2>8, <2>9 DEF DurableInv
<1>4. QED
  BY <1>2, <1>3

\* The end of a commit of file h at position pos.
LEMMA CommitDone ==
    ASSUME DurableInv, NEW h \in Files, NEW pos \in 0 .. FileSize,
           h <= last, flush.pc \in {"read", "force"}, h = flush.file,
           pos <= wrote[h],
           available[h] => pos <= forced'[h],
           committed' = [committed EXCEPT ![h] = pos],
           forced' = forced \/ forced' = [forced EXCEPT ![h] = wrote[h]],
           committedWhere' = From(h) + pos,
           AfterCommit(committedWhere'),
           UNCHANGED <<first, last, wrote, available>>
    PROVE  DurableInv'
<1> USE SizesAssumption
<1>1. /\ flush' \in FlushState
      /\ flush'.pc \in {"find", "read", "force"} => flush'.tries <= 2
      /\ flush'.pc \notin {"read", "force"}
  BY AfterCommitState
<1>2. /\ last \in Int /\ h \in Nat /\ From(h) \in Nat /\ From(h) + pos \in Nat
      /\ From(h + 1) = From(h) + FileSize
  <2>1. last \in Int /\ h \in Nat
    BY DEF DurableInv, LogTypeOK, Files
  <2>2. From(h) \in Nat
    BY <2>1 DEF From
  <2>3. QED
    BY <2>1, <2>2, FromNext
<1>3. /\ committed' \in [Files -> 0 .. FileSize]
      /\ forced' \in [Files -> 0 .. FileSize]
      /\ \A f \in Files : /\ forced'[f] <= wrote[f]
                          /\ forced[f] <= forced'[f]
      /\ committed'[h] = pos
      /\ \A f \in Files : f # h => committed'[f] = committed[f]
  BY DEF DurableInv, LogTypeOK, PositionsInv
<1>4. LogTypeOK'
  BY <1>1, <1>2, <1>3 DEF DurableInv, LogTypeOK
<1>5. PositionsInv'
  <2> SUFFICES ASSUME NEW f \in Files
               PROVE  /\ forced'[f] <= wrote[f]
                      /\ committed'[f] <= wrote[f]
                      /\ available[f] => committed'[f] <= forced'[f]
                      /\ f > last => wrote[f] = 0
    BY DEF PositionsInv
  <2>1. /\ forced[f] \in Int /\ committed[f] \in Int /\ wrote[f] \in Int
        /\ forced'[f] \in Int
    BY <1>3 DEF DurableInv, LogTypeOK
  <2>2. CASE f = h
    BY <1>3, <2>2 DEF DurableInv, PositionsInv
  <2>3. CASE f # h
    BY <1>3, <2>1, <2>3 DEF DurableInv, PositionsInv
  <2>4. QED
    BY <2>2, <2>3
<1>6. CommitInv'
  BY <1>1 DEF CommitInv
<1>7. (committedWhere <= From(last + 1))'
  <2>1. From(h + 1) <= From(last + 1)
    <3>1. CASE h = last
      BY <3>1, <1>2, FromNext
    <3>2. CASE h # last
      <4>1. h + 1 < last + 1 /\ h + 1 \in Int /\ last + 1 \in Int
        BY <3>2, <1>2
      <4>2. From(h + 1) + FileSize <= From(last + 1)
        BY <4>1, FromMono
      <4>3. From(h + 1) \in Int /\ From(last + 1) \in Int
        BY <4>1, FromNext
      <4>4. QED
        BY <4>2, <4>3
    <3>3. QED
      BY <3>1, <3>2
  <2>2. From(last + 1) \in Int
    BY <1>2, FromNext
  <2>3. QED
    BY <1>2, <2>1, <2>2
<1>8. CommittedIsDurable'
  <2>1. LogTypeOK' /\ h \in Files
    BY <1>4
  <2>2. ASSUME NEW g \in first .. last, g < h, available[g]
        PROVE  forced'[g] = FileSize
    <3>1. forced[g] = FileSize /\ g \in Files
      BY <2>2 DEF DurableInv, CommitInv, LogTypeOK, Files
    <3>2. forced[g] <= forced'[g] /\ forced'[g] \in 0 .. FileSize
      BY <1>3, <3>1
    <3>3. QED
      BY <3>1, <3>2
  <2>3. ASSUME NEW g \in first' .. last', available'[g]
        PROVE  forced'[g] = FileSize \/ committedWhere' - From(g) <= forced'[g]
    <3>0. g \in first .. last /\ available[g] /\ committedWhere' = From(h) + pos
      BY <2>3
    <3>1. /\ g \in Int /\ g \in Files /\ From(g) \in Int
          /\ forced'[g] \in 0 .. FileSize
      <4>1. g \in Int /\ g \in Files
        BY <3>0 DEF DurableInv, LogTypeOK, Files
      <4>2. QED
        BY <1>3, <4>1, FromNext
    <3>2. CASE g < h
      BY <2>2, <3>0, <3>2
    <3>3. CASE g = h
      BY <3>0, <3>1, <3>3, <1>2
    <3>4. CASE g > h
      <4>1. From(h) + FileSize <= From(g)
        BY <3>1, <3>4, <1>2, FromMono
      <4>2. QED
        BY <3>0, <3>1, <1>2, <4>1
    <3>5. QED
      BY <3>1, <3>2, <3>3, <3>4, <1>2
  <2>4. QED
    BY <2>3, Zenon DEF CommittedIsDurable, Durable
<1>9. QED
  BY <1>4, <1>5, <1>6, <1>7, <1>8 DEF DurableInv

\* MapedFile.commit keeps the invariant, forced or not.
LEMMA CommitDurable ==
    ASSUME DurableInv, CommitRead \/ CommitForce
    PROVE  DurableInv'
<1> USE SizesAssumption
<1> DEFINE h == flush.file
<1>1. /\ flush \in FlushState /\ h \in Files /\ wrote[h] \in 0 .. FileSize
      /\ committed[h] \in 0 .. FileSize /\ forced[h] \in 0 .. FileSize
      /\ h <= last /\ flush.pc \in {"read", "force"}
  <2>1. flush \in FlushState /\ h \in Files /\ flush.pc \in {"read", "force"}
    BY DEF DurableInv, LogTypeOK, FlushState, CommitRead, CommitForce
  <2>2. QED
    BY <2>1 DEF DurableInv, LogTypeOK, CommitInv
<1>2. CASE CommitForce
  <2>1. flush.value \in 0 .. FileSize /\ flush.value <= wrote[h]
    BY <1>1, <1>2 DEF DurableInv, CommitInv, CommitForce, FlushState
  <2>2. /\ forced' = [forced EXCEPT ![h] = wrote[h]]
        /\ committed' = [committed EXCEPT ![h] = flush.value]
        /\ committedWhere' = From(h) + flush.value
        /\ AfterCommit(committedWhere')
        /\ UNCHANGED <<first, last, wrote, available>>
    BY <1>2 DEF CommitForce
  <2>3. forced'[h] = wrote[h]
    BY <1>1, <2>2 DEF DurableInv, LogTypeOK
  <2> HIDE DEF h
  <2>4. QED
    BY <1>1, <2>1, <2>2, <2>3, CommitDone DEF h
<1>3. CASE CommitRead /\ isAbleToFlush(h) /\ available[h]
  <2>1. /\ flush' = [flush EXCEPT !.pc = "force", !.value = wrote[h]]
        /\ flush.pc = "read" /\ UNCHANGED <<fileVars, committedWhere>>
    BY <1>3 DEF CommitRead, fileVars
  <2>2. /\ flush' \in FlushState /\ flush'.pc = "force" /\ flush'.file = h
        /\ flush'.value = wrote[h] /\ flush'.tries = flush.tries
    BY <1>1, <2>1 DEF FlushState
  <2>3. LogTypeOK'
    BY <2>1, <2>2 DEF DurableInv, LogTypeOK, fileVars
  <2>4. CommitInv'
    BY <1>1, <2>1, <2>2 DEF DurableInv, CommitInv, fileVars
  <2>5. PositionsInv' /\ (committedWhere <= From(last + 1))'
        /\ CommittedIsDurable'
    BY <2>1 DEF DurableInv, PositionsInv, CommittedIsDurable, Durable, fileVars
  <2>6. QED
    BY <2>3, <2>4, <2>5 DEF DurableInv
<1>4. CASE CommitRead /\ ~(isAbleToFlush(h) /\ available[h])
  <2>1. PICK pos \in {wrote[h], committed[h]} :
           /\ committed' = [committed EXCEPT ![h] = pos]
           /\ available[h] => pos = committed[h]
    <3>1. CASE isAbleToFlush(h)
      BY <1>4, <3>1 DEF CommitRead
    <3>2. CASE ~isAbleToFlush(h)
      <4>1. committed' = committed
        BY <1>4, <3>2 DEF CommitRead
      <4>2. committed = [committed EXCEPT ![h] = committed[h]]
        BY <1>1 DEF DurableInv, LogTypeOK
      <4>3. QED
        BY <4>1, <4>2
    <3>3. QED
      BY <3>1, <3>2
  <2>2. committed'[h] = pos
    BY <1>1, <2>1 DEF DurableInv, LogTypeOK
  <2>3. /\ committedWhere' = From(h) + pos
        /\ AfterCommit(committedWhere')
        /\ UNCHANGED <<first, last, wrote, forced, available>>
    BY <1>4, <2>2 DEF CommitRead
  <2>4. pos \in 0 .. FileSize /\ pos <= wrote[h] /\ (available[h] => pos <= forced[h])
    BY <1>1, <2>1 DEF DurableInv, PositionsInv
  <2> HIDE DEF h
  <2>5. QED
    BY <1>1, <2>1, <2>3, <2>4, CommitDone DEF h
<1>5. QED
  BY <1>2, <1>3, <1>4

\* The flush thread's other steps start a turn or answer a request.
LEMMA TurnDurable ==
    ASSUME DurableInv,
           \/ SwapRequests \/ ServeRequest \/ FlushRealTime \/ FinalFlush
    PROVE  DurableInv'
<1> USE SizesAssumption
<1>0. 0 \in 0 .. 3
  OBVIOUS
<1>1. flush \in FlushState /\ UNCHANGED <<fileVars, committedWhere>>
  BY DEF DurableInv, LogTypeOK, SwapRequests, ServeRequest, Serve,
         FlushRealTime, FinalFlush
<1>2. CASE SwapRequests \/ FinalFlush
  <2>1. PICK final \in BOOLEAN : DoCommit(final)
    BY <1>2 DEF SwapRequests, FinalFlush
  <2>2. PICK where \in {"find", "serve"} :
          flush' = [flush EXCEPT !.tries = 0, !.least = 0, !.final = final,
                                 !.pc = where]
    BY <2>1 DEF DoCommit
  <2>3. flush' \in FlushState /\ flush'.tries = 0 /\ flush'.pc = where
    BY <1>0, <1>1, <2>2 DEF FlushState
  <2>4. QED
    BY <1>1, <2>3, FrameDurable
<1>3. CASE FlushRealTime
  <2>1. PICK least \in {0, LeastPages} :
          flush' = [flush EXCEPT !.pc = "find", !.tries = 0, !.least = least]
    BY <1>3 DEF FlushRealTime
  <2>2. flush' \in FlushState /\ flush'.tries = 0 /\ flush'.pc = "find"
    BY <1>0, <1>1, <2>1 DEF FlushState
  <2>3. QED
    BY <1>1, <2>2, FrameDurable
<1>4. CASE ServeRequest
  <2>1. \/ flush.tries < 2 /\ flush' = [flush EXCEPT !.pc = "find"]
        \/ \E where \in {"serve", "ended", "wait"} :
              flush' = [flush EXCEPT !.tries = 0, !.pc = where]
    BY <1>4 DEF ServeRequest, Serve
  <2>2. CASE flush.tries < 2 /\ flush' = [flush EXCEPT !.pc = "find"]
    <3>1. flush' \in FlushState /\ flush'.tries = flush.tries /\ flush'.pc = "find"
      BY <1>1, <2>2 DEF FlushState
    <3>2. flush.tries \in Int
      BY <1>1 DEF FlushState
    <3>3. QED
      BY <1>1, <2>2, <3>1, <3>2, FrameDurable
  <2>3. ASSUME NEW where \in {"serve", "ended", "wait"},
               flush' = [flush EXCEPT !.tries = 0, !.pc = where]
        PROVE  DurableInv'
    <3>1. flush' \in FlushState /\ flush'.tries = 0 /\ flush'.pc = where
      BY <1>0, <1>1, <2>3 DEF FlushState
    <3>2. QED
      BY <1>1, <3>1, FrameDurable
  <2>4. QED
    BY <2>1, <2>2, <2>3
<1>5. QED
  BY <1>2, <1>3, <1>4

\* Every step keeps the invariant.
LEMMA NextDurable == DurableInv /\ [Next]_vars => DurableInv'
<1> SUFFICES ASSUME DurableInv, [Next]_vars PROVE DurableInv'
  OBVIOUS
<1>1. ASSUME UNCHANGED <<fileVars, committedWhere, flush>> PROVE DurableInv'
  <2>1. flush \in FlushState
        /\ (flush.pc \in {"find", "read", "force"} => flush.tries <= 2)
    BY DEF DurableInv, LogTypeOK
  <2>2. QED
    BY <1>1, <2>1, FrameDurable
<1>2. ASSUME NEW p \in Producers, Put(p) PROVE DurableInv'
  <2>1. CASE CreateFile(p) \/ EndOfFile(p) \/ AppendMessage(p)
    BY <2>1, PutDurable
  <2>2. CASE PutBegin(p) \/ PutFails(p) \/ PutRequest(p) \/ WakeupFlush(p)
    BY <1>1, <2>2 DEF PutBegin, PutFails, PutRequest, WakeupFlush, flushVars
  <2>3. CASE \/ WaitForFlush(p) \/ WaitForFlushTimeout(p) \/ PutReturns(p)
             \/ SlaveNotAvailable(p) \/ PutTransferRequest(p)
             \/ WaitForSlave(p) \/ WaitForSlaveTimeout(p)
    BY <1>1, <2>3 DEF WaitForFlush, WaitForFlushTimeout, PutReturns,
       SlaveNotAvailable, PutTransferRequest, WaitForSlave,
       WaitForSlaveTimeout, flushVars
  <2>4. QED
    BY <1>2, <2>1, <2>2, <2>3 DEF Put
<1>3. ASSUME FlushThread PROVE DurableInv'
  BY <1>3, FindDurable, CommitDurable, TurnDurable DEF FlushThread
<1>4. ASSUME \/ TransferThread \/ Shutdown \/ StopFlush
             \/ SlaveConnection \/ NotifyTransferSome
      PROVE  DurableInv'
  BY <1>1, <1>4 DEF TransferThread, SwapTransferRequests, WaitTransfer,
     AnswerTransfer, TransferEnds, Shutdown, StopFlush, SlaveConnection, NotifyTransferSome,
     flushVars
<1>5. ASSUME DestroyFile \/ RemoveFile PROVE DurableInv'
  BY <1>5, CleanDurable
<1>6. ASSUME UNCHANGED vars PROVE DurableInv'
  BY <1>1, <1>6 DEF vars, flushVars
<1>7. QED
  BY <1>2, <1>3, <1>4, <1>5, <1>6 DEF Next

\* The strengthened invariant holds throughout.
THEOREM DurableInductive == Spec => []DurableInv
<1>1. QED
  BY InitDurable, NextDurable, PTL DEF Spec

\* Everything below MapedFileQueue.committedWhere has been forced, for any
\* number of files, producers and messages, in either flush mode.
THEOREM CommittedDurable == Spec => []CommittedIsDurable
<1>1. DurableInv => CommittedIsDurable
  BY DEF DurableInv
<1>2. QED
  BY <1>1, DurableInductive, PTL

-----------------------------------------------------------------------------
(* Requests in a list.                                                     *)

LEMMA ContainsEmpty ==
    ASSUME NEW i
    PROVE  ~Contains(<<>>, i)
BY EmptySeq DEF Contains

LEMMA ContainsAppend ==
    ASSUME NEW list \in Seq(Nat), NEW x \in Nat, NEW i
    PROVE  Contains(Append(list, x), i) <=> Contains(list, i) \/ i = x
<1>1. /\ Len(list) \in Nat /\ Len(Append(list, x)) = Len(list) + 1
      /\ \A k \in 1 .. Len(list) : Append(list, x)[k] = list[k]
      /\ Append(list, x)[Len(list) + 1] = x
  BY LenProperties, AppendProperties
<1>2. QED
  BY <1>1 DEF Contains

LEMMA ContainsTail ==
    ASSUME NEW list \in Seq(Nat), list # <<>>, NEW i
    PROVE  Contains(list, i) <=> i = Head(list) \/ Contains(Tail(list), i)
<1>1. /\ Len(list) \in Nat \ {0} /\ Len(Tail(list)) = Len(list) - 1
      /\ \A k \in 1 .. Len(Tail(list)) : Tail(list)[k] = list[k + 1]
      /\ Head(list) = list[1]
  BY EmptySeq, LenProperties, HeadTailProperties
<1>2. ASSUME Contains(list, i) PROVE i = Head(list) \/ Contains(Tail(list), i)
  <2>1. PICK k \in 1 .. Len(list) : list[k] = i
    BY <1>2 DEF Contains
  <2>2. CASE k = 1
    BY <1>1, <2>1, <2>2
  <2>3. CASE k # 1
    <3>1. k - 1 \in 1 .. Len(Tail(list)) /\ Tail(list)[k - 1] = i
      BY <1>1, <2>1, <2>3
    <3>2. QED
      BY <3>1 DEF Contains
  <2>4. QED
    BY <2>2, <2>3
<1>3. ASSUME Contains(Tail(list), i) PROVE Contains(list, i)
  <2>1. PICK k \in 1 .. Len(Tail(list)) : Tail(list)[k] = i
    BY <1>3 DEF Contains
  <2>2. k + 1 \in 1 .. Len(list) /\ list[k + 1] = i
    BY <1>1, <2>1
  <2>3. QED
    BY <2>2 DEF Contains
<1>4. ASSUME i = Head(list) PROVE Contains(list, i)
  BY <1>1, <1>4 DEF Contains
<1>5. QED
  BY <1>2, <1>3, <1>4

LEMMA ContainsConcat ==
    ASSUME NEW a \in Seq(Nat), NEW b \in Seq(Nat), NEW i
    PROVE  /\ a \o b \in Seq(Nat)
           /\ Contains(a \o b, i) <=> Contains(a, i) \/ Contains(b, i)
<1>1. /\ a \o b \in Seq(Nat) /\ Len(a) \in Nat /\ Len(b) \in Nat
      /\ Len(a \o b) = Len(a) + Len(b)
      /\ \A k \in 1 .. Len(a) + Len(b) :
            (a \o b)[k] = IF k <= Len(a) THEN a[k] ELSE b[k - Len(a)]
  BY LenProperties, ConcatProperties
<1>2. ASSUME Contains(a \o b, i) PROVE Contains(a, i) \/ Contains(b, i)
  <2>1. PICK k \in 1 .. Len(a) + Len(b) : (a \o b)[k] = i
    BY <1>1, <1>2 DEF Contains
  <2>2. CASE k <= Len(a)
    BY <1>1, <2>1, <2>2 DEF Contains
  <2>3. CASE k > Len(a)
    <3>1. k - Len(a) \in 1 .. Len(b) /\ b[k - Len(a)] = i
      BY <1>1, <2>1, <2>3
    <3>2. QED
      BY <3>1 DEF Contains
  <2>4. QED
    BY <1>1, <2>1, <2>2, <2>3
<1>3. ASSUME Contains(a, i) PROVE Contains(a \o b, i)
  BY <1>1, <1>3 DEF Contains
<1>4. ASSUME Contains(b, i) PROVE Contains(a \o b, i)
  <2>1. PICK k \in 1 .. Len(b) : b[k] = i
    BY <1>4 DEF Contains
  <2>2. /\ k + Len(a) \in 1 .. Len(a) + Len(b) /\ ~(k + Len(a) <= Len(a))
        /\ k + Len(a) - Len(a) = k
    BY <1>1, <2>1
  <2>3. (a \o b)[k + Len(a)] = i
    BY <1>1, <2>1, <2>2
  <2>4. QED
    BY <1>1, <2>2, <2>3 DEF Contains
<1>5. QED
  BY <1>1, <1>2, <1>3, <1>4

-----------------------------------------------------------------------------
(* The parts of LogInv.                                                    *)

\* The types of what DurableInv does not speak about.
BookTypeOK ==
    /\ lock \in Producers \cup {NoProducer}
    /\ pc \in [Producers -> {"idle", "enter", "append", "flush", "waitDisk", "ha", "waitSlave"}]
    /\ cur \in [Producers -> Nat]
    /\ puts \in Seq(PutRecord)
    /\ requestsWrite \in Seq(Nat) /\ requestsRead \in Seq(Nat)
    /\ haWrite \in Seq(Nat) /\ haRead \in Seq(Nat)
    /\ hasNotified \in BOOLEAN /\ haStoped \in BOOLEAN /\ stoped \in BOOLEAN
    /\ haNotified \in BOOLEAN /\ haEnded \in BOOLEAN /\ connected \in BOOLEAN
    /\ haRounds \in 0 .. WaitRounds
    /\ slaveMax \in Nat

\* NoOverlap without the types.
Layout ==
    \A i \in 1 .. Len(puts) :
       /\ puts[i].start \div FileSize = (puts[i].next - 1) \div FileSize
       /\ \A j \in 1 .. i - 1 : puts[j].next <= puts[i].start

\* A request waits in one of the lists.
Queued(i) == \/ Contains(requestsWrite, i) \/ Contains(requestsRead, i)
             \/ Contains(haWrite, i) \/ Contains(haRead, i)

\* The requests and the lists they are in.
ProducersInv ==
    \A p \in Producers : pc[p] \notin {"idle", "enter", "append"} => cur[p] \in 1 .. Len(puts)

QueuedInv ==
    /\ \A i : Queued(i) => i \in 1 .. Len(puts)
    /\ \A i \in 1 .. Len(puts) : puts[i].made /\ ~puts[i].done => Queued(i)

ModesInv ==
    /\ SyncFlush \/ (requestsWrite = <<>> /\ requestsRead = <<>>)
    /\ SyncMaster \/ (haWrite = <<>> /\ haRead = <<>>)

BookInv == BookTypeOK /\ ProducersInv /\ QueuedInv /\ ModesInv /\ TurnInv /\ LateInv

LEMMA QueuedIs ==
    ASSUME BookTypeOK, NEW i
    PROVE  Contains(requestsWrite \o requestsRead \o haWrite \o haRead, i) <=> Queued(i)
<1>1. /\ requestsWrite \o requestsRead \in Seq(Nat)
      /\ Contains(requestsWrite \o requestsRead, i) <=>
            Contains(requestsWrite, i) \/ Contains(requestsRead, i)
  BY ContainsConcat DEF BookTypeOK
<1>2. /\ requestsWrite \o requestsRead \o haWrite \in Seq(Nat)
      /\ Contains(requestsWrite \o requestsRead \o haWrite, i) <=>
            Contains(requestsWrite \o requestsRead, i) \/ Contains(haWrite, i)
  BY <1>1, ContainsConcat DEF BookTypeOK
<1>3. Contains(requestsWrite \o requestsRead \o haWrite \o haRead, i) <=>
            Contains(requestsWrite \o requestsRead \o haWrite, i) \/ Contains(haRead, i)
  BY <1>2, ContainsConcat DEF BookTypeOK
<1>4. QED
  BY <1>1, <1>2, <1>3 DEF Queued

LEMMA PartsAre ==
    LogInv <=> DurableInv /\ BookInv /\ Layout /\ OrderInv /\ FlushOkHonest
<1>1. ASSUME LogTypeOK PROVE TypeOK <=> BookTypeOK
  BY <1>1 DEF LogTypeOK, TypeOK, BookTypeOK
<1>2. ASSUME BookTypeOK
      PROVE  ListsInv /\ TurnInv /\ LateInv /\ NothingForgotten <=>
                ProducersInv /\ QueuedInv /\ ModesInv /\ TurnInv /\ LateInv
  <2>1. (\A i \in 1 .. Len(puts) :
            puts[i].made /\ ~puts[i].done =>
               Contains(requestsWrite \o requestsRead \o haWrite \o haRead, i))
        <=> (\A i \in 1 .. Len(puts) : puts[i].made /\ ~puts[i].done => Queued(i))
    BY <1>2, QueuedIs
  <2>2. TurnInv /\ LateInv =>
           /\ flush.pc = "wait" /\ requestsWrite # <<>> => hasNotified
           /\ haRead = <<>> /\ haWrite # <<>> => haNotified
           /\ flush.pc = "ended" =>
                 /\ requestsRead = <<>>
                 /\ \A k \in 1 .. Len(requestsWrite) : puts[requestsWrite[k]].late
           /\ haEnded => haRead = <<>>
    BY DEF TurnInv, LateInv
  <2>3. (\A i : Queued(i) => i \in 1 .. Len(puts)) <=>
           /\ \A k \in 1 .. Len(requestsRead) : requestsRead[k] \in 1 .. Len(puts)
           /\ \A k \in 1 .. Len(requestsWrite) : requestsWrite[k] \in 1 .. Len(puts)
           /\ \A k \in 1 .. Len(haRead) : haRead[k] \in 1 .. Len(puts)
           /\ \A k \in 1 .. Len(haWrite) : haWrite[k] \in 1 .. Len(puts)
    BY DEF Queued, Contains
  <2>4. QED
    BY <2>1, <2>2, <2>3 DEF ListsInv, NothingForgotten, ProducersInv, QueuedInv, ModesInv
<1>3. QED
  BY <1>1, <1>2 DEF LogInv, DurableInv, BookInv, NoOverlap, Layout

LEMMA PartsAreNext ==
    LogInv' <=> DurableInv' /\ BookInv' /\ Layout' /\ OrderInv' /\ FlushOkHonest'
BY PartsAre, PTL

-----------------------------------------------------------------------------
(* The files grow at the end and go from the front.                        *)

FilesGrow ==
    /\ first <= first' /\ last' \in {last, last + 1}
    /\ last' >= 0 => first' <= last'
    /\ \A f \in Files : /\ wrote[f] <= wrote'[f] /\ forced[f] <= forced'[f]
                        /\ available'[f] => available[f]

LEMMA FilesStep ==
    ASSUME DurableInv, DurableInv', last >= 0 => first <= last, [Next]_vars
    PROVE  FilesGrow
<1> USE SizesAssumption DEF fileVars
<1>0. /\ first \in Nat /\ last \in Int /\ last >= -1 /\ last < MaxFiles /\ first <= last + 1
      /\ \A f \in Files : /\ wrote[f] \in 0 .. FileSize /\ forced[f] \in 0 .. FileSize
                          /\ forced[f] <= wrote[f]
  BY DEF DurableInv, LogTypeOK, PositionsInv
<1>1. ASSUME UNCHANGED fileVars PROVE FilesGrow
  BY <1>0, <1>1 DEF FilesGrow
<1>2. ASSUME NEW p \in Producers, CreateFile(p) PROVE FilesGrow
  BY <1>0, <1>2 DEF CreateFile, FilesGrow
<1>3. ASSUME NEW p \in Producers, EndOfFile(p) \/ AppendMessage(p) PROVE FilesGrow
  <2>1. /\ UNCHANGED <<first, last, committed, forced, available>>
        /\ last \in Files
    BY <1>0, <1>3 DEF EndOfFile, AppendMessage, NeedFile, Files
  <2>2. PICK pos : wrote[last] <= pos /\ wrote' = [wrote EXCEPT ![last] = pos]
    <3>1. \/ wrote' = [wrote EXCEPT ![last] = FileSize]
          \/ wrote' = [wrote EXCEPT ![last] = wrote[last] + MsgSize]
      BY <1>3 DEF EndOfFile, AppendMessage
    <3>2. wrote[last] <= FileSize /\ wrote[last] <= wrote[last] + MsgSize
      BY <1>0, <2>1
    <3>3. QED
      BY <3>1, <3>2
  <2>3. \A f \in Files : wrote[f] <= wrote'[f]
    BY <1>0, <2>1, <2>2 DEF DurableInv, LogTypeOK
  <2>4. QED
    BY <1>0, <2>1, <2>3 DEF FilesGrow
<1>4. CASE CommitFind \/ SwapRequests \/ ServeRequest \/ FlushRealTime \/ FinalFlush
  BY <1>1, <1>4 DEF CommitFind, SwapRequests, ServeRequest, Serve, FlushRealTime, FinalFlush
<1>5. CASE CommitRead
  BY <1>0, <1>5 DEF CommitRead, FilesGrow
<1>6. CASE CommitForce
  <2>1. /\ UNCHANGED <<first, last, wrote, available>>
        /\ forced' = [forced EXCEPT ![flush.file] = wrote[flush.file]]
    BY <1>6 DEF CommitForce
  <2>2. \A f \in Files : forced[f] <= forced'[f]
    BY <1>0, <2>1 DEF DurableInv, LogTypeOK
  <2>3. QED
    BY <1>0, <2>1, <2>2 DEF FilesGrow
<1>7. CASE DestroyFile
  <2>1. /\ UNCHANGED <<first, last, wrote, forced>>
        /\ \E f : available' = [available EXCEPT ![f] = FALSE]
    BY <1>7 DEF DestroyFile
  <2>2. \A f \in Files : available'[f] => available[f]
    BY <2>1 DEF DurableInv, LogTypeOK
  <2>3. QED
    BY <1>0, <2>1, <2>2 DEF FilesGrow
<1>8. CASE RemoveFile
  BY <1>0, <1>8 DEF RemoveFile, FilesGrow
<1>9. ASSUME NEW p \in Producers, Put(p), ~CreateFile(p), ~EndOfFile(p), ~AppendMessage(p)
      PROVE  UNCHANGED fileVars
  BY <1>9 DEF Put, PutBegin, PutFails, PutRequest, WakeupFlush, WaitForFlush,
     WaitForFlushTimeout, PutReturns, SlaveNotAvailable, PutTransferRequest, WaitForSlave,
     WaitForSlaveTimeout
<1>10. CASE TransferThread \/ Shutdown \/ StopFlush \/ SlaveConnection \/ NotifyTransferSome
  BY <1>1, <1>10 DEF TransferThread, SwapTransferRequests, WaitTransfer, AnswerTransfer,
     TransferEnds, Shutdown, StopFlush, SlaveConnection, NotifyTransferSome
<1>11. CASE UNCHANGED vars
  BY <1>1, <1>11 DEF vars
<1>12. CASE \E p \in Producers : Put(p)
  BY <1>1, <1>2, <1>3, <1>9, <1>12
<1>13. CASE FlushThread
  BY <1>4, <1>5, <1>6, <1>13 DEF FlushThread
<1>14. QED
  BY <1>7, <1>8, <1>10, <1>11, <1>12, <1>13 DEF Next

\* The end of the log only grows.
LEMMA EndGrows ==
    ASSUME LogTypeOK, LogTypeOK', FilesGrow, last >= 0
    PROVE  /\ last' >= 0
           /\ From(last) + wrote[last] <= From(last') + wrote'[last']
           /\ From(last) + wrote[last] <= From(last + 1)
<1> USE SizesAssumption
<1>1. /\ last \in Files /\ last' \in Files /\ last \in Int
      /\ wrote[last] \in 0 .. FileSize /\ wrote'[last'] \in 0 .. FileSize
  <2>1. last \in Files /\ last' \in Files /\ last \in Int
    BY DEF LogTypeOK, FilesGrow, Files
  <2>2. QED
    BY <2>1 DEF LogTypeOK
<1>2. From(last) \in Int /\ From(last + 1) = From(last) + FileSize /\ From(last') \in Int
  BY <1>1, FromNext DEF Files
<1>3. CASE last' = last
  BY <1>1, <1>2, <1>3 DEF FilesGrow
<1>4. CASE last' = last + 1
  BY <1>1, <1>2, <1>4
<1>5. QED
  BY <1>3, <1>4 DEF FilesGrow

\* What is on disk stays there.
LEMMA DurableStays ==
    ASSUME LogTypeOK, LogTypeOK', FilesGrow,
           NEW o \in Nat, o <= From(last + 1), Durable(o)
    PROVE  Durable(o)'
<1> USE SizesAssumption
<1> SUFFICES ASSUME NEW f \in first' .. last', available'[f]
             PROVE  forced'[f] = FileSize \/ o - From(f) <= forced'[f]
  BY DEF Durable
<1>1. /\ f \in Files /\ f \in Int /\ first \in Nat /\ last \in Int /\ From(f) \in Int
      /\ forced[f] \in 0 .. FileSize /\ forced'[f] \in 0 .. FileSize
      /\ forced[f] <= forced'[f] /\ available[f] /\ first <= f
  <2>1. f \in Files /\ f \in Int /\ first <= f
    BY DEF LogTypeOK, FilesGrow, Files
  <2>2. QED
    BY <2>1, FromNext DEF LogTypeOK, FilesGrow
<1>2. CASE f <= last
  <2>1. forced[f] = FileSize \/ o - From(f) <= forced[f]
    BY <1>1, <1>2 DEF Durable
  <2>2. QED
    BY <1>1, <2>1
<1>3. CASE f = last + 1
  BY <1>1, <1>3
<1>4. QED
  BY <1>1, <1>2, <1>3 DEF FilesGrow

\* What is below a durable offset is durable.
LEMMA DurableBelow ==
    ASSUME LogTypeOK, NEW o \in Nat, NEW n \in Nat, n <= o, Durable(o)
    PROVE  Durable(n)
<1> USE SizesAssumption
<1> SUFFICES ASSUME NEW f \in first .. last, available[f]
             PROVE  forced[f] = FileSize \/ n - From(f) <= forced[f]
  BY DEF Durable
<1>1. f \in Int /\ From(f) \in Int /\ forced[f] \in 0 .. FileSize
  <2>1. f \in Files /\ f \in Int
    BY DEF LogTypeOK, Files
  <2>2. QED
    BY <2>1, FromNext DEF LogTypeOK
<1>2. forced[f] = FileSize \/ o - From(f) <= forced[f]
  BY DEF Durable
<1>3. QED
  BY <1>1, <1>2

-----------------------------------------------------------------------------
(* The messages and what is said about them.                               *)

\* Nothing is appended; the messages stay where they are.
SameMessages ==
    /\ Len(puts') = Len(puts)
    /\ \A i \in 1 .. Len(puts) : /\ puts'[i].start = puts[i].start
                                 /\ puts'[i].next = puts[i].next

LEMMA PutIs ==
    ASSUME BookTypeOK, NEW i \in 1 .. Len(puts)
    PROVE  /\ puts[i] \in PutRecord
           /\ puts[i].start \in Nat /\ puts[i].next \in Nat
           /\ puts[i].flushOK \in BOOLEAN /\ puts[i].made \in BOOLEAN
           /\ puts[i].done \in BOOLEAN /\ puts[i].wait \in BOOLEAN
           /\ puts[i].late \in BOOLEAN
<1>1. puts[i] \in PutRecord
  BY ElementOfSeq DEF BookTypeOK
<1>2. QED
  BY <1>1 DEF PutRecord

LEMMA MessagesStay ==
    ASSUME LogInv, LogTypeOK', FilesGrow, SameMessages
    PROVE  Layout' /\ OrderInv'
<1>0. LogTypeOK /\ BookTypeOK /\ Layout /\ OrderInv
  BY PartsAre DEF DurableInv, BookInv
<1>1. Layout'
  <2>1. Len(puts) \in Nat
    BY <1>0, LenProperties DEF BookTypeOK
  <2>2. QED
    BY <1>0, <2>1 DEF Layout, SameMessages
<1>2. ASSUME NEW i \in 1 .. Len(puts)
      PROVE  last' >= 0 /\ puts'[i].next <= From(last') + wrote'[last']
  <2>1. last >= 0 /\ puts[i].next <= From(last) + wrote[last]
    BY <1>0 DEF OrderInv
  <2>2. last' >= 0 /\ From(last) + wrote[last] <= From(last') + wrote'[last']
    BY <1>0, <2>1, EndGrows
  <2>3. /\ puts[i].next \in Nat
        /\ From(last) + wrote[last] \in Int /\ From(last') + wrote'[last'] \in Int
    <3>1. last \in Files /\ last' \in Files /\ last \in Int /\ last' \in Int
      BY <1>0, <2>1, <2>2, SizesAssumption DEF LogTypeOK, Files
    <3>2. wrote[last] \in Int /\ wrote'[last'] \in Int
      BY <1>0, <3>1, SizesAssumption DEF LogTypeOK
    <3>3. From(last) \in Int /\ From(last') \in Int
      BY <3>1, FromNext
    <3>4. QED
      BY <1>0, <3>2, <3>3, PutIs
  <2>4. QED
    BY <2>1, <2>2, <2>3 DEF SameMessages
<1>3. OrderInv'
  BY <1>2 DEF OrderInv, SameMessages, FilesGrow
<1>4. QED
  BY <1>1, <1>3

\* An answer of true is honest when it is given, and stays so.
LEMMA HonestStays ==
    ASSUME LogInv, LogTypeOK', FilesGrow, SameMessages, slaveMax' \in Nat,
           slaveMax <= slaveMax',
           \A i \in 1 .. Len(puts) :
              puts'[i].flushOK =>
                 \/ puts[i].flushOK
                 \/ /\ SyncFlush /\ ~SyncMaster => puts[i].next <= committedWhere
                    /\ SyncMaster /\ ~SyncFlush => puts[i].next <= slaveMax
    PROVE  FlushOkHonest'
<1>0. LogTypeOK /\ BookTypeOK /\ OrderInv /\ FlushOkHonest /\ Durable(committedWhere)
  BY PartsAre DEF DurableInv, BookInv, CommittedIsDurable
<1>1. ASSUME NEW i \in 1 .. Len(puts), puts'[i].flushOK
      PROVE  /\ SyncFlush /\ ~SyncMaster => Durable(puts[i].next)
             /\ SyncMaster /\ ~SyncFlush => puts[i].next <= slaveMax
  <2>1. CASE puts[i].flushOK
    BY <1>0, <2>1, PutIs DEF FlushOkHonest, BookTypeOK
  <2>2. CASE ~puts[i].flushOK
    <3>1. committedWhere \in Nat /\ puts[i].next \in Nat
      BY <1>0, PutIs DEF LogTypeOK
    <3>2. QED
      BY <1>0, <1>1, <2>2, <3>1, DurableBelow
  <2>3. QED
    BY <2>1, <2>2
<1>2. ASSUME NEW o \in Nat, o <= From(last + 1), Durable(o) PROVE Durable(o)'
  BY <1>0, <1>2, DurableStays
<1>3. ASSUME NEW i \in 1 .. Len(puts), Durable(puts[i].next) PROVE Durable(puts[i].next)'
  <2>1. PICK o \in Nat : o = puts[i].next
    BY <1>0, PutIs
  <2>2. o <= From(last + 1)
    <3>1. last >= 0 /\ o <= From(last) + wrote[last]
      BY <1>0, <2>1 DEF OrderInv
    <3>2. From(last) + wrote[last] <= From(last + 1)
      BY <1>0, <3>1, EndGrows
    <3>3. last \in Files /\ last \in Int
      BY <1>0, <3>1, SizesAssumption DEF LogTypeOK, Files
    <3>4. wrote[last] \in Int /\ From(last) \in Int /\ From(last + 1) \in Int
      BY <1>0, <3>3, FromNext, SizesAssumption DEF LogTypeOK
    <3>5. QED
      BY <3>1, <3>2, <3>4
  <2>3. Durable(o)'
    BY <1>2, <1>3, <2>1, <2>2
  <2>4. puts'[i].next = o
    BY <2>1 DEF SameMessages
  <2>5. QED
    BY <2>3, <2>4 DEF Durable
<1>4. ASSUME NEW i \in 1 .. Len(puts), puts'[i].flushOK
      PROVE  /\ SyncFlush /\ ~SyncMaster => Durable(puts[i].next)'
             /\ SyncMaster /\ ~SyncFlush => slaveMax' >= puts'[i].next
  <2>1. puts'[i].next = puts[i].next /\ puts[i].next \in Nat /\ slaveMax \in Nat
    BY <1>0, PutIs DEF SameMessages, BookTypeOK
  <2>2. QED
    BY <1>1, <1>3, <1>4, <2>1
<1>5. QED
  BY <1>4 DEF FlushOkHonest, SameMessages

-----------------------------------------------------------------------------
(* The requests.                                                           *)

Lists == <<requestsWrite, requestsRead, haWrite, haRead>>

\* One message's record changes, not its place.
LEMMA RecordChanges ==
    ASSUME BookTypeOK, NEW i \in 1 .. Len(puts), NEW r \in PutRecord,
           puts' = [puts EXCEPT ![i] = r], r.start = puts[i].start, r.next = puts[i].next
    PROVE  /\ puts' \in Seq(PutRecord) /\ SameMessages
           /\ puts'[i] = r /\ \A j \in 1 .. Len(puts) : j # i => puts'[j] = puts[j]
<1>1. /\ puts' \in Seq(PutRecord) /\ Len(puts') = Len(puts)
      /\ \A j \in 1 .. Len(puts) : puts'[j] = IF j = i THEN r ELSE puts[j]
  BY ExceptSeq DEF BookTypeOK
<1>2. QED
  BY <1>1 DEF SameMessages

\* putMessage sets the status of its message ...
LEMMA StatusChanges ==
    ASSUME BookTypeOK, NEW i \in 1 .. Len(puts), NEW s \in Statuses,
           puts' = [puts EXCEPT ![i].status = s]
    PROVE  /\ puts' \in Seq(PutRecord) /\ SameMessages
           /\ \A j \in 1 .. Len(puts) : /\ puts'[j].made = puts[j].made
                                        /\ puts'[j].late = puts[j].late
                                        /\ puts'[j].done = puts[j].done
                                        /\ puts'[j].flushOK = puts[j].flushOK
<1> DEFINE r == [puts[i] EXCEPT !.status = s]
<1>1. /\ r \in PutRecord /\ r.start = puts[i].start /\ r.next = puts[i].next
      /\ r.made = puts[i].made /\ r.late = puts[i].late
      /\ r.done = puts[i].done /\ r.flushOK = puts[i].flushOK
  BY PutIs DEF PutRecord
<1>2. puts' = [puts EXCEPT ![i] = r]
  OBVIOUS
<1> HIDE DEF r
<1>3. /\ puts' \in Seq(PutRecord) /\ SameMessages
      /\ puts'[i] = r /\ \A j \in 1 .. Len(puts) : j # i => puts'[j] = puts[j]
  BY <1>1, <1>2, RecordChanges
<1>4. QED
  BY <1>1, <1>3

\* ... or makes a request for it ...
LEMMA MadeChanges ==
    ASSUME BookTypeOK, NEW i \in 1 .. Len(puts), NEW l \in BOOLEAN,
           puts' = [puts EXCEPT ![i].made = TRUE, ![i].late = l]
    PROVE  /\ puts' \in Seq(PutRecord) /\ SameMessages /\ puts'[i].late = l
           /\ \A j \in 1 .. Len(puts) : /\ j # i => /\ puts'[j].made = puts[j].made
                                                  /\ puts'[j].late = puts[j].late
                                        /\ puts'[j].done = puts[j].done
                                        /\ puts'[j].flushOK = puts[j].flushOK
<1> DEFINE r1 == [puts[i] EXCEPT !.made = TRUE]
           r == [r1 EXCEPT !.late = l]
<1>1. /\ r1 \in PutRecord /\ r1.start = puts[i].start /\ r1.next = puts[i].next
      /\ r1.done = puts[i].done /\ r1.flushOK = puts[i].flushOK
  BY PutIs DEF PutRecord
<1>2. /\ r \in PutRecord /\ r.start = puts[i].start /\ r.next = puts[i].next
      /\ r.done = puts[i].done /\ r.flushOK = puts[i].flushOK /\ r.late = l
  <2> HIDE DEF r1
  <2>1. QED
    BY <1>1 DEF PutRecord
<1>3. puts' = [puts EXCEPT ![i] = r]
  <2>1. puts \in [1 .. Len(puts) -> PutRecord]
    BY LenProperties DEF BookTypeOK
  <2>2. QED
    BY <2>1
<1> HIDE DEF r
<1>4. /\ puts' \in Seq(PutRecord) /\ SameMessages
      /\ puts'[i] = r /\ \A j \in 1 .. Len(puts) : j # i => puts'[j] = puts[j]
  BY <1>2, <1>3, RecordChanges
<1>5. QED
  BY <1>2, <1>4

\* ... and a service answers it.
LEMMA WakeupChanges ==
    ASSUME BookTypeOK, NEW i \in 1 .. Len(puts), NEW ok \in BOOLEAN, puts' = Wakeup(i, ok)
    PROVE  /\ puts' \in Seq(PutRecord) /\ SameMessages
           /\ puts'[i].done /\ puts'[i].flushOK = ok /\ puts'[i].late = puts[i].late
           /\ \A j \in 1 .. Len(puts) : j # i => puts'[j] = puts[j]
<1> DEFINE r1 == [puts[i] EXCEPT !.done = TRUE]
           r == [r1 EXCEPT !.flushOK = ok]
<1>1. /\ r1 \in PutRecord /\ r1.start = puts[i].start /\ r1.next = puts[i].next
      /\ r1.done /\ r1.late = puts[i].late
  BY PutIs DEF PutRecord
<1>2. /\ r \in PutRecord /\ r.start = puts[i].start /\ r.next = puts[i].next
      /\ r.done /\ r.flushOK = ok /\ r.late = puts[i].late
  <2> HIDE DEF r1
  <2>1. QED
    BY <1>1 DEF PutRecord
<1>3. puts' = [puts EXCEPT ![i] = r]
  <2>1. puts \in [1 .. Len(puts) -> PutRecord]
    BY LenProperties DEF BookTypeOK
  <2>2. QED
    BY <2>1 DEF Wakeup
<1> HIDE DEF r
<1>4. QED
  BY <1>2, <1>3, RecordChanges

\* The lists stay as they are and no request is made or reopened.
LEMMA QueuedSame ==
    ASSUME QueuedInv, UNCHANGED Lists, SameMessages,
           \A i \in 1 .. Len(puts) : puts'[i].made /\ ~puts'[i].done =>
                                        puts[i].made /\ ~puts[i].done
    PROVE  QueuedInv'
<1>1. ASSUME NEW i PROVE Queued(i)' <=> Queued(i)
  BY DEF Queued, Lists, Contains
<1>2. QED
  BY <1>1 DEF QueuedInv, SameMessages

\* After the last swap of the flush service no early request joins its list.
LEMMA LateSame ==
    ASSUME LateInv, QueuedInv, requestsWrite' = requestsWrite, flush'.final => flush.final,
           \A i \in 1 .. Len(puts) : puts[i].late => puts'[i].late
    PROVE  LateInv'
<1>1. ASSUME NEW k \in 1 .. Len(requestsWrite) PROVE requestsWrite[k] \in 1 .. Len(puts)
  BY <1>1 DEF QueuedInv, Queued, Contains
<1>2. QED
  BY <1>1 DEF LateInv

\* A step of a producer that queues nothing and appends nothing.
LEMMA PutQuiet ==
    ASSUME LogInv, NEW p \in Producers, Put(p),
           ~AppendMessage(p), ~PutRequest(p), ~PutTransferRequest(p)
    PROVE  /\ BookInv' /\ SameMessages /\ slaveMax' = slaveMax
           /\ \A i \in 1 .. Len(puts) : puts'[i].flushOK = puts[i].flushOK
<1> USE DEF fileVars, putVars, flushVars, stopVars, haVars, Goto
<1>0. BookTypeOK /\ ProducersInv /\ QueuedInv /\ ModesInv /\ TurnInv /\ LateInv
  BY PartsAre DEF BookInv
<1>1. /\ UNCHANGED <<requestsWrite, requestsRead, flush, stopVars, haVars>>
      /\ hasNotified' \in {hasNotified, TRUE}
      /\ UNCHANGED cur
  BY DEF Put, PutBegin, CreateFile, PutFails, EndOfFile, WakeupFlush, WaitForFlush,
     WaitForFlushTimeout, PutReturns, SlaveNotAvailable, WaitForSlave, WaitForSlaveTimeout
<1>3. /\ lock' \in Producers \cup {NoProducer}
      /\ pc' \in [Producers -> {"idle", "enter", "append", "flush", "waitDisk", "ha", "waitSlave"}]
      /\ \A q \in Producers : pc'[q] \notin {"idle", "enter", "append"}
            => pc[q] \notin {"idle", "enter", "append"}
  BY <1>0 DEF BookTypeOK, Put, PutBegin, CreateFile, PutFails, EndOfFile, WakeupFlush,
     WaitForFlush, WaitForFlushTimeout, PutReturns, SlaveNotAvailable, WaitForSlave,
     WaitForSlaveTimeout
<1>4. \/ puts' = puts
      \/ /\ cur[p] \in 1 .. Len(puts)
         /\ \E s \in Statuses : puts' = [puts EXCEPT ![cur[p]].status = s]
  <2>1. CASE PutBegin(p) \/ CreateFile(p) \/ PutFails(p) \/ EndOfFile(p) \/ WakeupFlush(p)
             \/ WaitForFlush(p)
    BY <2>1 DEF PutBegin, CreateFile, PutFails, EndOfFile, WakeupFlush, WaitForFlush
  <2>2. CASE \/ WaitForFlushTimeout(p) \/ PutReturns(p) \/ SlaveNotAvailable(p)
             \/ WaitForSlave(p) \/ WaitForSlaveTimeout(p)
    <3>1. cur[p] \in 1 .. Len(puts)
      BY <1>0, <2>2 DEF ProducersInv, WaitForFlushTimeout, PutReturns, SlaveNotAvailable,
         WaitForSlave, WaitForSlaveTimeout
    <3>2. puts[cur[p]].status \in Statuses
      BY <1>0, <3>1, PutIs DEF PutRecord
    <3>3. \E s \in Statuses : puts' = [puts EXCEPT ![cur[p]].status = s]
      <4>1. CASE WaitForFlushTimeout(p)
        BY <4>1 DEF WaitForFlushTimeout, Statuses
      <4>2. ASSUME NEW x \in {"none", "SLAVE_NOT_AVAILABLE", "FLUSH_SLAVE_TIMEOUT"},
                   puts' = Finished(cur[p], x)
            PROVE  <3>3!:
        <5> DEFINE s == IF x # "none" THEN x
                        ELSE IF puts[cur[p]].status = "none" THEN "PUT_OK"
                        ELSE puts[cur[p]].status
        <5>1. s \in Statuses
          BY <3>2 DEF Statuses
        <5>2. puts' = [puts EXCEPT ![cur[p]].status = s]
          BY <4>2 DEF Finished
        <5> HIDE DEF s
        <5>3. QED
          BY <5>1, <5>2
      <4>3. QED
        BY <2>2, <4>1, <4>2 DEF PutReturns, SlaveNotAvailable, WaitForSlave,
           WaitForSlaveTimeout
    <3>4. QED
      BY <3>1, <3>3
  <2>3. QED
    BY <2>1, <2>2 DEF Put
<1>5. /\ puts' \in Seq(PutRecord) /\ SameMessages
      /\ \A j \in 1 .. Len(puts) : /\ puts'[j].made = puts[j].made
                                   /\ puts'[j].late = puts[j].late
                                   /\ puts'[j].done = puts[j].done
                                   /\ puts'[j].flushOK = puts[j].flushOK
  <2>1. CASE puts' = puts
    BY <1>0, <2>1 DEF BookTypeOK, SameMessages
  <2>2. CASE puts' # puts
    BY <1>0, <1>4, <2>2, StatusChanges
  <2>3. QED
    BY <2>1, <2>2
<1>6. BookTypeOK'
  BY <1>0, <1>1, <1>3, <1>5 DEF BookTypeOK
<1>7. ProducersInv'
  BY <1>0, <1>1, <1>3, <1>5 DEF ProducersInv, SameMessages
<1>8. QueuedInv'
  BY <1>0, <1>1, <1>5, QueuedSame DEF Lists
<1>9. ModesInv' /\ TurnInv'
  BY <1>0, <1>1 DEF ModesInv, TurnInv
<1>10. LateInv'
  BY <1>0, <1>1, <1>5, LateSame
<1>11. QED
  BY <1>1, <1>5, <1>6, <1>7, <1>8, <1>9, <1>10 DEF BookInv

\* A request goes into a list and its service is notified.
LEMMA PutQueues ==
    ASSUME LogInv, NEW p \in Producers, PutRequest(p) \/ PutTransferRequest(p)
    PROVE  /\ BookInv' /\ SameMessages /\ slaveMax' = slaveMax
           /\ \A i \in 1 .. Len(puts) : puts'[i].flushOK = puts[i].flushOK
<1> USE DEF fileVars, putVars, flushVars, stopVars, haVars, Goto
<1>0. /\ BookTypeOK /\ ProducersInv /\ QueuedInv /\ ModesInv /\ TurnInv /\ LateInv
      /\ flush.final \in BOOLEAN
  BY PartsAre DEF BookInv, DurableInv, LogTypeOK, FlushState
<1> DEFINE c == cur[p]
<1>1. c \in 1 .. Len(puts) /\ c \in Nat /\ puts[c].late \in BOOLEAN
  <2>1. c \in 1 .. Len(puts) /\ c \in Nat
    BY <1>0 DEF ProducersInv, PutRequest, PutTransferRequest, BookTypeOK
  <2>2. QED
    BY <1>0, <2>1, PutIs
<1>2. /\ UNCHANGED <<lock, cur, requestsRead, flush, stopVars, haRead, haRounds, haEnded,
                     slaveMax, connected>>
      /\ \E where \in {"waitDisk", "waitSlave"} : pc' = [pc EXCEPT ![p] = where]
      /\ \/ /\ requestsWrite' = Append(requestsWrite, c) /\ hasNotified' = TRUE
            /\ UNCHANGED <<haWrite, haNotified>> /\ SyncFlush
            /\ puts' = [puts EXCEPT ![c].made = TRUE, ![c].late = flush.final]
         \/ /\ haWrite' = Append(haWrite, c) /\ haNotified' = TRUE
            /\ UNCHANGED <<requestsWrite, hasNotified>> /\ SyncMaster
            /\ puts' = [puts EXCEPT ![c].made = TRUE]
  BY DEF PutRequest, PutTransferRequest
<1>3. pc[p] \notin {"idle", "enter", "append"}
  BY DEF PutRequest, PutTransferRequest
<1> HIDE DEF c
<1>4. PICK l \in BOOLEAN :
         /\ puts' = [puts EXCEPT ![c].made = TRUE, ![c].late = l]
         /\ \/ requestsWrite' = Append(requestsWrite, c) /\ l = flush.final
            \/ requestsWrite' = requestsWrite /\ l = puts[c].late
  <2>1. CASE puts' = [puts EXCEPT ![c].made = TRUE, ![c].late = flush.final]
             /\ requestsWrite' = Append(requestsWrite, c)
    BY <1>0, <2>1
  <2>2. CASE puts' = [puts EXCEPT ![c].made = TRUE] /\ requestsWrite' = requestsWrite
    <3>1. puts \in [1 .. Len(puts) -> PutRecord]
      BY <1>0, LenProperties DEF BookTypeOK
    <3>2. [puts EXCEPT ![c].made = TRUE] =
             [puts EXCEPT ![c].made = TRUE, ![c].late = puts[c].late]
      BY <1>1, <3>1 DEF PutRecord
    <3>3. QED
      BY <1>1, <2>2, <3>2
  <2>3. QED
    BY <1>2, <2>1, <2>2
<1>4a. /\ puts' \in Seq(PutRecord) /\ SameMessages /\ puts'[c].late = l
       /\ \A j \in 1 .. Len(puts) : /\ j # c => /\ puts'[j].made = puts[j].made
                                               /\ puts'[j].late = puts[j].late
                                    /\ puts'[j].done = puts[j].done
                                    /\ puts'[j].flushOK = puts[j].flushOK
  BY <1>0, <1>1, <1>4, MadeChanges
<1>5. requestsWrite' \in Seq(Nat) /\ haWrite' \in Seq(Nat)
  <2>1. requestsWrite \in Seq(Nat) /\ haWrite \in Seq(Nat)
    BY <1>0 DEF BookTypeOK
  <2>2. Append(requestsWrite, c) \in Seq(Nat) /\ Append(haWrite, c) \in Seq(Nat)
    BY <1>1, <2>1, AppendProperties
  <2>3. QED
    BY <1>2, <2>1, <2>2
<1>6. BookTypeOK'
  BY <1>0, <1>2, <1>4a, <1>5 DEF BookTypeOK
<1>7. ProducersInv'
  BY <1>0, <1>2, <1>3, <1>4a DEF ProducersInv, BookTypeOK, SameMessages
<1>8. ASSUME NEW i PROVE Queued(i)' <=> Queued(i) \/ i = c
  <2>1. CASE requestsWrite' = Append(requestsWrite, c) /\ haWrite' = haWrite
    <3>1. Contains(requestsWrite', i) <=> Contains(requestsWrite, i) \/ i = c
      BY <1>0, <1>1, <2>1, ContainsAppend DEF BookTypeOK
    <3>2. QED
      BY <1>2, <2>1, <3>1 DEF Queued, Contains
  <2>2. CASE haWrite' = Append(haWrite, c) /\ requestsWrite' = requestsWrite
    <3>1. Contains(haWrite', i) <=> Contains(haWrite, i) \/ i = c
      BY <1>0, <1>1, <2>2, ContainsAppend DEF BookTypeOK
    <3>2. QED
      BY <1>2, <2>2, <3>1 DEF Queued, Contains
  <2>3. QED
    BY <1>2, <2>1, <2>2
<1>9. QueuedInv'
  BY <1>0, <1>1, <1>4a, <1>8 DEF QueuedInv, SameMessages
<1>10. ModesInv' /\ TurnInv'
  BY <1>0, <1>2 DEF ModesInv, TurnInv
<1>11. LateInv'
  <2>1. CASE requestsWrite' = requestsWrite /\ l = puts[c].late
    BY <1>0, <1>2, <1>4a, <2>1, LateSame
  <2>2. CASE requestsWrite' = Append(requestsWrite, c) /\ l = flush.final
    <3>1. /\ Len(requestsWrite) \in Nat /\ Len(requestsWrite') = Len(requestsWrite) + 1
          /\ \A k \in 1 .. Len(requestsWrite) : requestsWrite'[k] = requestsWrite[k]
          /\ requestsWrite'[Len(requestsWrite) + 1] = c
      BY <1>0, <1>1, <2>2, LenProperties, AppendProperties DEF BookTypeOK
    <3>2. ASSUME NEW k \in 1 .. Len(requestsWrite) + 1, flush.final
          PROVE  puts'[requestsWrite'[k]].late
      <4>1. CASE requestsWrite'[k] = c
        BY <1>4a, <2>2, <3>2, <4>1
      <4>2. CASE requestsWrite'[k] # c
        <5>1. k \in 1 .. Len(requestsWrite) /\ requestsWrite'[k] = requestsWrite[k]
          BY <3>1, <4>2
        <5>2. requestsWrite[k] \in 1 .. Len(puts)
          BY <1>0, <5>1 DEF QueuedInv, Queued, Contains
        <5>3. QED
          BY <1>0, <1>4a, <3>2, <4>2, <5>1, <5>2 DEF LateInv
      <4>3. QED
        BY <4>1, <4>2
    <3>3. QED
      BY <1>2, <3>1, <3>2 DEF LateInv
  <2>3. QED
    BY <1>4, <2>1, <2>2
<1>12. QED
  BY <1>2, <1>4a, <1>6, <1>7, <1>9, <1>10, <1>11 DEF BookInv

\* An offset in file f lies f files behind the start of the log.
LEMMA FileOf ==
    ASSUME NEW f \in Nat, NEW r \in 0 .. FileSize - 1
    PROVE  (From(f) + r) \div FileSize = f
<1> USE SizesAssumption
<1>0. FileSize \in Nat /\ FileSize > 0
  OBVIOUS
<1>1. From(f) \in Nat
  BY <1>0 DEF From
<1>2. PICK o \in Nat : o = From(f) + r
  BY <1>0, <1>1
<1> DEFINE q == o \div FileSize
<1>3. q \in Int /\ From(q) <= o /\ o < From(q) + FileSize
  <2>1. q \in Nat /\ From(q) <= o
    BY OffsetFile
  <2>2. o < From(q) + FileSize
    BY <1>0 DEF From
  <2>3. QED
    BY <2>1, <2>2
<1> HIDE DEF q
<1>4. From(q) \in Int /\ From(f) \in Int
  BY <1>1, <1>3, FromNext
<1>5. ~(q < f)
  <2>1. q < f => From(q) + FileSize <= From(f)
    BY <1>3, FromMono
  <2>2. QED
    BY <1>0, <1>2, <1>3, <1>4, <2>1
<1>6. ~(f < q)
  <2>1. f < q => From(f) + FileSize <= From(q)
    BY <1>3, FromMono
  <2>2. QED
    BY <1>0, <1>2, <1>3, <1>4, <2>1
<1>7. q = f
  BY <1>3, <1>5, <1>6
<1>8. QED
  BY <1>2, <1>7 DEF q

\* The new message begins where the log ended and stays in the last file.
LEMMA AppendHolds ==
    ASSUME LogInv, DurableInv', FilesGrow, NEW p \in Producers, AppendMessage(p)
    PROVE  BookInv' /\ Layout' /\ OrderInv' /\ FlushOkHonest'
<1> USE SizesAssumption DEF fileVars, putVars, flushVars, stopVars, haVars, Goto
<1>0. /\ BookTypeOK /\ ProducersInv /\ QueuedInv /\ ModesInv /\ TurnInv /\ LateInv
      /\ LogTypeOK /\ LogTypeOK' /\ OrderInv /\ Layout /\ FlushOkHonest
  BY PartsAre DEF BookInv, DurableInv
<1>1. /\ last \in Files /\ last \in Nat /\ last >= first /\ Fits
      /\ UNCHANGED <<first, last, forced, available>>
      /\ wrote' = [wrote EXCEPT ![last] = wrote[last] + MsgSize]
      /\ cur' = [cur EXCEPT ![p] = Len(puts) + 1] /\ lock' = NoProducer
      /\ pc' = [pc EXCEPT ![p] = "flush"] /\ pc[p] = "append"
      /\ UNCHANGED <<committedWhere, flushVars, haVars>>
  BY <1>0 DEF AppendMessage, NeedFile, LogTypeOK, Files
<1>2. /\ wrote[last] \in Nat /\ wrote[last] + MsgSize + BlankLength <= FileSize
      /\ wrote'[last] = wrote[last] + MsgSize
  BY <1>0, <1>1 DEF LogTypeOK, Fits
<1> DEFINE n == Len(puts) + 1
<1>3. From(last) \in Nat /\ LogEnd = From(last) + wrote[last] /\ LogEnd \in Nat
  <2>1. From(last) \in Nat
    BY <1>1 DEF From
  <2>2. QED
    BY <1>0, <1>1, <1>2, <2>1 DEF LogEnd, LogTypeOK
<1>4. PICK w \in BOOLEAN :
         puts' = Append(puts, [start |-> LogEnd, next |-> LogEnd + MsgSize, wait |-> w,
                               status |-> "none", made |-> FALSE, late |-> FALSE,
                               done |-> FALSE, flushOK |-> FALSE])
  BY ModesAssumption DEF AppendMessage
<1>5. PICK m \in PutRecord :
         /\ puts' = Append(puts, m) /\ m.start = LogEnd /\ m.next = LogEnd + MsgSize
         /\ m.made = FALSE /\ m.flushOK = FALSE
  <2> DEFINE m == [start |-> LogEnd, next |-> LogEnd + MsgSize, wait |-> w,
                   status |-> "none", made |-> FALSE, late |-> FALSE, done |-> FALSE,
                   flushOK |-> FALSE]
  <2>1. LogEnd + MsgSize \in Nat /\ "none" \in Statuses
    BY <1>3 DEF Statuses
  <2>2. m \in PutRecord
    BY <1>3, <2>1 DEF PutRecord
  <2>3. QED
    BY <1>4, <2>2
<1>6. /\ puts' \in Seq(PutRecord) /\ Len(puts) \in Nat /\ Len(puts') = n
      /\ \A i \in 1 .. Len(puts) : puts'[i] = puts[i]
      /\ puts'[n] = m
  BY <1>0, <1>5, AppendProperties, LenProperties DEF BookTypeOK
<1> HIDE DEF n
<1>7. n = Len(puts) + 1
  BY DEF n
<1>8. BookTypeOK'
  <2>1. cur' \in [Producers -> Nat]
    BY <1>0, <1>1, <1>6 DEF BookTypeOK
  <2>2. QED
    BY <1>0, <1>1, <1>6, <2>1 DEF BookTypeOK
<1>9. ProducersInv'
  <2> SUFFICES ASSUME NEW q \in Producers, pc'[q] \notin {"idle", "enter", "append"}
               PROVE  cur'[q] \in 1 .. n
    BY <1>6 DEF ProducersInv
  <2>1. CASE q = p
    BY <1>0, <1>1, <1>6, <1>7, <2>1 DEF BookTypeOK
  <2>2. CASE q # p
    <3>1. cur'[q] = cur[q] /\ cur[q] \in 1 .. Len(puts)
      BY <1>0, <1>1, <2>2 DEF BookTypeOK, ProducersInv
    <3>2. QED
      BY <1>6, <1>7, <3>1
  <2>3. QED
    BY <2>1, <2>2
<1>10. QueuedInv'
  <2>1. ASSUME NEW i PROVE Queued(i)' <=> Queued(i)
    BY <1>1 DEF Queued, Contains
  <2>2. ASSUME NEW i \in 1 .. n, puts'[i].made, ~puts'[i].done PROVE Queued(i)
    <3>1. i # n
      BY <1>5, <1>6, <2>2
    <3>2. i \in 1 .. Len(puts) /\ puts'[i] = puts[i]
      BY <1>6, <1>7, <3>1
    <3>3. QED
      BY <1>0, <2>2, <3>2 DEF QueuedInv
  <2>3. \A i : Queued(i) => i \in 1 .. n
    <3>1. 1 .. Len(puts) \subseteq 1 .. n
      BY <1>6, <1>7
    <3>2. QED
      BY <1>0, <3>1 DEF QueuedInv
  <2>4. QED
    BY <1>6, <2>1, <2>2, <2>3 DEF QueuedInv
<1>11. ModesInv' /\ TurnInv'
  BY <1>0, <1>1 DEF ModesInv, TurnInv
<1>11a. LateInv'
  BY <1>0, <1>1, <1>6, LateSame
<1>12. ASSUME NEW i \in 1 .. Len(puts)
       PROVE  puts[i].next \in Nat /\ puts[i].next <= LogEnd
  BY <1>0, <1>3, PutIs DEF OrderInv
<1>13. Layout'
  <2> SUFFICES ASSUME NEW i \in 1 .. n
               PROVE  /\ puts'[i].start \div FileSize = (puts'[i].next - 1) \div FileSize
                      /\ \A j \in 1 .. i - 1 : puts'[j].next <= puts'[i].start
    BY <1>6 DEF Layout
  <2>1. CASE i = n
    <3>1. \A j \in 1 .. n - 1 : puts'[j].next <= m.start
      BY <1>5, <1>6, <1>7, <1>12
    <3>2. m.start \div FileSize = last
      <4>1. wrote[last] \in 0 .. FileSize - 1
        BY <1>2
      <4>2. QED
        BY <1>1, <1>3, <1>5, <4>1, FileOf
    <3>3. (m.next - 1) \div FileSize = last
      <4>1. wrote[last] + MsgSize - 1 \in 0 .. FileSize - 1
        BY <1>2
      <4>2. m.next - 1 = From(last) + (wrote[last] + MsgSize - 1)
        BY <1>2, <1>3, <1>5
      <4>3. QED
        BY <1>1, <4>1, <4>2, FileOf
    <3>4. QED
      BY <1>6, <2>1, <3>1, <3>2, <3>3
  <2>2. CASE i # n
    <3>1. i \in 1 .. Len(puts) /\ \A j \in 1 .. i : puts'[j] = puts[j]
      BY <1>6, <1>7, <2>2
    <3>2. QED
      BY <1>0, <3>1 DEF Layout
  <2>3. QED
    BY <2>1, <2>2
<1>14. OrderInv'
  <2> SUFFICES ASSUME NEW i \in 1 .. n
               PROVE  puts'[i].next <= From(last) + wrote'[last]
    BY <1>1, <1>6 DEF OrderInv
  <2>1. LogEnd + MsgSize = From(last) + wrote'[last]
    BY <1>2, <1>3
  <2>2. CASE i = n
    BY <1>2, <1>3, <1>5, <1>6, <2>1, <2>2
  <2>3. CASE i # n
    <3>1. i \in 1 .. Len(puts) /\ puts'[i] = puts[i]
      BY <1>6, <1>7, <2>3
    <3>2. QED
      BY <1>2, <1>3, <1>12, <2>1, <3>1
  <2>4. QED
    BY <2>2, <2>3
<1>15. FlushOkHonest'
  <2> SUFFICES ASSUME NEW i \in 1 .. n, puts'[i].flushOK
               PROVE  /\ SyncFlush /\ ~SyncMaster => Durable(puts[i].next)'
                      /\ SyncMaster /\ ~SyncFlush => slaveMax' >= puts'[i].next
    BY <1>6 DEF FlushOkHonest
  <2>1. i # n
    BY <1>5, <1>6
  <2>2. i \in 1 .. Len(puts) /\ puts'[i] = puts[i]
    BY <1>6, <1>7, <2>1
  <2>3. QED
    BY <1>0, <1>1, <2>2 DEF FlushOkHonest, Durable
<1>16. QED
  BY <1>8, <1>9, <1>10, <1>11, <1>11a, <1>13, <1>14, <1>15 DEF BookInv

\* Steps that leave the producers and the requests alone.
LEMMA BookFrame ==
    ASSUME LogInv, UNCHANGED <<putVars, requestsWrite, requestsRead, haWrite, haRead>>,
           hasNotified' \in BOOLEAN, haNotified' \in BOOLEAN,
           haStoped' \in BOOLEAN, stoped' \in BOOLEAN, haEnded' \in BOOLEAN,
           connected' \in BOOLEAN, haRounds' \in 0 .. WaitRounds, slaveMax' \in Nat,
           flush'.final => flush.final, TurnInv'
    PROVE  /\ BookInv' /\ SameMessages
           /\ \A i \in 1 .. Len(puts) : puts'[i].flushOK = puts[i].flushOK
<1> USE DEF putVars
<1>0. BookTypeOK /\ ProducersInv /\ QueuedInv /\ ModesInv /\ LateInv
  BY PartsAre DEF BookInv
<1>1. SameMessages
  BY DEF SameMessages
<1>2. BookTypeOK' /\ ProducersInv' /\ ModesInv'
  BY <1>0 DEF BookTypeOK, ProducersInv, ModesInv
<1>3. QueuedInv' /\ LateInv'
  BY <1>0, <1>1, QueuedSame, LateSame DEF Lists
<1>4. QED
  BY <1>1, <1>2, <1>3 DEF BookInv

\* After a commit the flush thread goes on with its requests, or its turn ends.
LEMMA AfterCommitTurn ==
    ASSUME flush \in FlushState, NEW where, AfterCommit(where)
    PROVE  /\ flush'.final = flush.final
           /\ \/ flush'.pc = "serve" /\ requestsRead # <<>>
              \/ flush'.pc = "wait" /\ requestsRead = <<>> /\ ~flush.final
              \/ flush'.pc \in {"ended", "find"} /\ requestsRead = <<>> /\ flush.final
<1>1. PICK to : /\ flush' = [flush EXCEPT !.file = 0, !.value = 0, !.tries = @ + 1, !.pc = to]
                /\ \/ to = "serve" /\ requestsRead # <<>>
                   \/ to = "wait" /\ requestsRead = <<>> /\ ~flush.final
                   \/ to \in {"ended", "find"} /\ requestsRead = <<>> /\ flush.final
  BY DEF AfterCommit
<1>2. flush'.final = flush.final /\ flush'.pc = to
  BY <1>1 DEF FlushState
<1>3. QED
  BY <1>1, <1>2

LEMMA CommitBook ==
    ASSUME LogInv, CommitFind \/ CommitRead \/ CommitForce
    PROVE  /\ BookInv' /\ SameMessages /\ slaveMax' = slaveMax
           /\ \A i \in 1 .. Len(puts) : puts'[i].flushOK = puts[i].flushOK
<1> USE DEF fileVars, putVars, flushVars, stopVars, haVars
<1>0. BookTypeOK /\ TurnInv /\ flush \in FlushState /\ flush.final \in BOOLEAN
  BY PartsAre DEF BookInv, DurableInv, LogTypeOK, FlushState
<1>1. UNCHANGED <<putVars, requestsWrite, requestsRead, hasNotified, stopVars, haVars>>
  BY DEF CommitFind, CommitRead, CommitForce
<1>2. /\ flush'.final = flush.final
      /\ \/ flush'.pc \in {"read", "force"}
         \/ flush'.pc = "serve" /\ requestsRead # <<>>
         \/ flush'.pc = "wait" /\ requestsRead = <<>> /\ ~flush.final
         \/ flush'.pc \in {"ended", "find"} /\ requestsRead = <<>> /\ flush.final
  <2>1. CASE \E where : AfterCommit(where)
    BY <1>0, <2>1, AfterCommitTurn
  <2>2. CASE \E f : flush' = [flush EXCEPT !.pc = "read", !.file = f]
    BY <1>0, <2>2 DEF FlushState
  <2>3. CASE \E v : flush' = [flush EXCEPT !.pc = "force", !.value = v]
    BY <1>0, <2>3 DEF FlushState
  <2>4. QED
    BY <2>1, <2>2, <2>3 DEF CommitFind, CommitRead, CommitForce
<1>3. TurnInv'
  BY <1>0, <1>1, <1>2 DEF TurnInv
<1>4. QED
  BY <1>0, <1>1, <1>2, <1>3, BookFrame DEF BookTypeOK

\* The lists are swapped when the one to be read is empty.
LEMMA SwapBook ==
    ASSUME LogInv, SwapRequests \/ FinalFlush \/ FlushRealTime
    PROVE  /\ BookInv' /\ SameMessages /\ slaveMax' = slaveMax
           /\ \A i \in 1 .. Len(puts) : puts'[i].flushOK = puts[i].flushOK
<1> USE DEF fileVars, putVars, flushVars, stopVars, haVars
<1>0. /\ BookTypeOK /\ TurnInv /\ ProducersInv /\ ModesInv /\ QueuedInv
      /\ flush \in FlushState
  BY PartsAre DEF BookInv, DurableInv, LogTypeOK
<1>1. UNCHANGED <<putVars, stopVars, haVars>>
  BY DEF SwapRequests, FinalFlush, FlushRealTime
<1>2. requestsRead = <<>> /\ ~flush.final
  BY <1>0 DEF TurnInv, SwapRequests, FinalFlush, FlushRealTime
<1>3. CASE FlushRealTime
  <2>1. /\ UNCHANGED <<requestsWrite, requestsRead>> /\ hasNotified' = FALSE
        /\ requestsWrite = <<>>
    BY <1>0, <1>3 DEF FlushRealTime, ModesInv
  <2>2. flush'.pc = "find" /\ flush'.final = flush.final
    BY <1>0, <1>3 DEF FlushRealTime, FlushState
  <2>3. TurnInv'
    BY <1>0, <1>1, <1>2, <2>1, <2>2 DEF TurnInv
  <2>4. QED
    BY <1>0, <1>1, <2>1, <2>2, <2>3, BookFrame DEF BookTypeOK
<1>4. CASE SwapRequests \/ FinalFlush
  <2>1. /\ requestsRead' = requestsWrite /\ requestsWrite' = <<>>
        /\ hasNotified' \in {FALSE, hasNotified}
        /\ UNCHANGED <<haWrite, haRead, haNotified>>
    BY <1>4 DEF SwapRequests, FinalFlush
  <2>2. /\ flush'.pc = IF requestsWrite = <<>> THEN "find" ELSE "serve"
        /\ flush'.final => stoped
    <3>1. CASE SwapRequests
      BY <1>0, <3>1 DEF SwapRequests, DoCommit, FlushState
    <3>2. CASE FinalFlush
      BY <1>0, <3>2 DEF FinalFlush, DoCommit, FlushState
    <3>3. QED
      BY <1>4, <3>1, <3>2
  <2>3. TurnInv'
    BY <1>0, <1>1, <2>1, <2>2 DEF TurnInv
  <2>4. BookTypeOK' /\ ProducersInv' /\ ModesInv'
    BY <1>0, <1>1, <2>1, EmptySeq DEF BookTypeOK, ProducersInv, ModesInv
  <2>5. ASSUME NEW i PROVE Queued(i)' <=> Queued(i)
    <3>1. ~Contains(<<>>, i)
      BY ContainsEmpty
    <3>2. /\ Contains(requestsWrite', i) <=> Contains(<<>>, i)
          /\ Contains(requestsRead', i) <=> Contains(requestsWrite, i)
          /\ Contains(requestsRead, i) <=> Contains(<<>>, i)
      BY <1>2, <2>1
    <3>3. QED
      BY <2>1, <3>1, <3>2 DEF Queued
  <2>6. QueuedInv' /\ SameMessages
    BY <1>0, <1>1, <2>5 DEF QueuedInv, SameMessages
  <2>7. LateInv'
    BY <2>1, EmptySeq DEF LateInv
  <2>8. QED
    BY <1>1, <2>3, <2>4, <2>6, <2>7 DEF BookInv
<1>5. QED
  BY <1>3, <1>4

\* Answering the first request of a list.
LEMMA AnswerQueued ==
    ASSUME LogInv, NEW i \in 1 .. Len(puts), NEW ok \in BOOLEAN, puts' = Wakeup(i, ok),
           \A j : Queued(j)' => Queued(j), \A j : Queued(j) => j = i \/ Queued(j)'
    PROVE  /\ puts' \in Seq(PutRecord) /\ SameMessages /\ QueuedInv'
           /\ \A j \in 1 .. Len(puts) :
                 /\ puts'[j].flushOK => puts[j].flushOK \/ (j = i /\ ok)
                 /\ puts'[j].late = puts[j].late
<1>0. BookTypeOK /\ QueuedInv
  BY PartsAre DEF BookInv
<1>1. /\ puts' \in Seq(PutRecord) /\ SameMessages
      /\ puts'[i].done /\ puts'[i].flushOK = ok /\ puts'[i].late = puts[i].late
      /\ \A j \in 1 .. Len(puts) : j # i => puts'[j] = puts[j]
  BY <1>0, WakeupChanges
<1>2. QueuedInv'
  BY <1>0, <1>1 DEF QueuedInv, SameMessages
<1>3. QED
  BY <1>1, <1>2

LEMMA ServeBook ==
    ASSUME LogInv, ServeRequest
    PROVE  /\ BookInv' /\ SameMessages /\ slaveMax' = slaveMax
           /\ \A i \in 1 .. Len(puts) :
                 puts'[i].flushOK =>
                    puts[i].flushOK \/ (SyncFlush /\ puts[i].next <= committedWhere)
<1> USE DEF fileVars, putVars, flushVars, stopVars, haVars
<1>0. /\ BookTypeOK /\ TurnInv /\ ProducersInv /\ ModesInv /\ QueuedInv /\ LateInv
      /\ flush \in FlushState /\ flush.final \in BOOLEAN /\ flush.tries \in 0 .. 3
      /\ committedWhere \in Nat
  BY PartsAre DEF BookInv, DurableInv, LogTypeOK, FlushState
<1>1. /\ UNCHANGED <<lock, pc, cur, requestsWrite, hasNotified, stopVars, haVars>>
      /\ flush.pc = "serve" /\ requestsRead # <<>> /\ requestsRead \in Seq(Nat) /\ SyncFlush
  BY <1>0 DEF ServeRequest, Serve, TurnInv, ModesInv, BookTypeOK
<1> DEFINE i == Head(requestsRead)
           ok == flush.tries < 2 /\ committedWhere >= puts[i].next
<1>2. CASE flush.tries < 2 /\ ~ok
  <2>1. flush' = [flush EXCEPT !.pc = "find"] /\ UNCHANGED <<puts, requestsRead>>
    BY <1>2 DEF ServeRequest, Serve
  <2>2. flush'.pc = "find" /\ flush'.final = flush.final
    BY <1>0, <2>1 DEF FlushState
  <2>3. TurnInv'
    BY <1>0, <1>1, <2>1, <2>2 DEF TurnInv
  <2>4. QED
    BY <1>0, <1>1, <2>1, <2>2, <2>3, BookFrame DEF BookTypeOK
<1>3. CASE ~(flush.tries < 2 /\ ~ok)
  <2>1. /\ puts' = Wakeup(i, ok) /\ requestsRead' = Tail(requestsRead)
        /\ flush' = [flush EXCEPT !.tries = 0,
                       !.pc = IF Tail(requestsRead) # <<>> THEN "serve"
                              ELSE IF flush.final THEN "ended" ELSE "wait"]
    <3>1. puts' = Wakeup(i, ok \/ FALSE)
      BY <1>3 DEF ServeRequest, Serve
    <3>2. (ok \/ FALSE) = ok
      OBVIOUS
    <3>3. QED
      BY <1>3, <3>1, <3>2 DEF ServeRequest, Serve
  <2>2. /\ flush'.final = flush.final
        /\ flush'.pc = IF Tail(requestsRead) # <<>> THEN "serve"
                       ELSE IF flush.final THEN "ended" ELSE "wait"
    BY <1>0, <2>1 DEF FlushState
  <2>3. Tail(requestsRead) \in Seq(Nat)
    BY <1>1, HeadTailProperties
  <2>4. TurnInv' /\ ModesInv'
    BY <1>0, <1>1, <2>1, <2>2 DEF TurnInv, ModesInv
  <2>5. ASSUME NEW j
        PROVE  /\ Contains(requestsRead, j) <=> j = i \/ Contains(requestsRead', j)
               /\ Queued(j)' => Queued(j)
               /\ Queued(j) => j = i \/ Queued(j)'
    <3>1. Contains(requestsRead, j) <=> j = i \/ Contains(requestsRead', j)
      BY <1>1, <2>1, ContainsTail
    <3>2. QED
      BY <1>1, <3>1 DEF Queued
  <2>6. i \in 1 .. Len(puts)
    BY <1>0, <2>5 DEF QueuedInv, Queued
  <2>7. PICK k \in 1 .. Len(puts) : k = i
    BY <2>6
  <2>8. PICK b \in BOOLEAN : b = ok
    OBVIOUS
  <2>9. puts' = Wakeup(k, b)
    BY <2>1, <2>7, <2>8
  <2>10. /\ puts' \in Seq(PutRecord) /\ SameMessages /\ QueuedInv'
         /\ \A j \in 1 .. Len(puts) :
               /\ puts'[j].flushOK => puts[j].flushOK \/ (j = k /\ b)
               /\ puts'[j].late = puts[j].late
    BY <2>5, <2>7, <2>9, AnswerQueued
  <2>11. b => puts[k].next <= committedWhere
    BY <1>0, <2>7, <2>8, PutIs
  <2>12. BookTypeOK' /\ ProducersInv'
    BY <1>0, <1>1, <2>1, <2>3, <2>10 DEF BookTypeOK, ProducersInv, SameMessages
  <2>13. LateInv'
    BY <1>0, <1>1, <2>2, <2>10, LateSame
  <2> HIDE DEF i, ok
  <2>14. QED
    BY <1>1, <2>4, <2>10, <2>11, <2>12, <2>13 DEF BookInv
<1>4. QED
  BY <1>2, <1>3

\* The transfer service: its lists are swapped when the one it reads is empty,
\* and it answers the first request of it.
LEMMA TransferBook ==
    ASSUME LogInv, TransferThread
    PROVE  /\ BookInv' /\ SameMessages /\ slaveMax' = slaveMax
           /\ \A i \in 1 .. Len(puts) :
                 puts'[i].flushOK =>
                    puts[i].flushOK \/ (SyncMaster /\ puts[i].next <= slaveMax)
<1> USE DEF fileVars, putVars, flushVars, stopVars, haVars
<1>0. /\ BookTypeOK /\ TurnInv /\ ProducersInv /\ ModesInv /\ QueuedInv /\ LateInv
      /\ slaveMax \in Nat
  BY PartsAre DEF BookInv, BookTypeOK
<1>1. UNCHANGED <<lock, pc, cur, flushVars, slaveMax, connected>>
  BY DEF TransferThread, SwapTransferRequests, WaitTransfer, AnswerTransfer, TransferEnds
<1>2. CASE WaitTransfer
  <2>1. /\ UNCHANGED <<putVars, haWrite, haRead, haNotified, haEnded>>
        /\ haRounds' \in 0 .. WaitRounds
    BY <1>0, <1>2, SizesAssumption DEF WaitTransfer, BookTypeOK
  <2>2. TurnInv'
    BY <1>0, <1>1, <2>1 DEF TurnInv
  <2>3. QED
    BY <1>0, <1>1, <2>1, <2>2, BookFrame DEF BookTypeOK
<1>3. CASE SwapTransferRequests
  <2>1. /\ haRead = <<>> /\ haRead' = haWrite /\ haWrite' = <<>> /\ haNotified' = FALSE
        /\ UNCHANGED <<putVars, haRounds, haEnded>> /\ ~haEnded
    BY <1>3 DEF SwapTransferRequests
  <2>2. TurnInv' /\ ModesInv'
    BY <1>0, <1>1, <2>1 DEF TurnInv, ModesInv
  <2>3. BookTypeOK' /\ ProducersInv'
    BY <1>0, <1>1, <2>1, EmptySeq DEF BookTypeOK, ProducersInv
  <2>4. ASSUME NEW i PROVE Queued(i)' <=> Queued(i)
    <3>1. ~Contains(<<>>, i)
      BY ContainsEmpty
    <3>2. /\ Contains(haWrite', i) <=> Contains(<<>>, i)
          /\ Contains(haRead', i) <=> Contains(haWrite, i)
          /\ Contains(haRead, i) <=> Contains(<<>>, i)
      BY <2>1
    <3>3. QED
      BY <1>1, <3>1, <3>2 DEF Queued
  <2>5. QueuedInv' /\ SameMessages
    BY <1>0, <2>1, <2>4 DEF QueuedInv, SameMessages
  <2>6. LateInv'
    BY <1>0, <1>1, <2>1, LateSame
  <2>7. QED
    BY <1>1, <2>1, <2>2, <2>3, <2>5, <2>6 DEF BookInv
<1>4. CASE AnswerTransfer
  <2> DEFINE i == Head(haRead)
             ok == slaveMax >= puts[i].next
  <2>1. /\ haRead # <<>> /\ haRead \in Seq(Nat) /\ puts' = Wakeup(i, ok)
        /\ haRead' = Tail(haRead) /\ haRounds' = 0
        /\ UNCHANGED <<haWrite, haNotified, haEnded>>
    BY <1>0, <1>4 DEF AnswerTransfer, BookTypeOK
  <2>2. SyncMaster
    BY <1>0, <2>1 DEF ModesInv
  <2>3. Tail(haRead) \in Seq(Nat)
    BY <2>1, HeadTailProperties
  <2>4. TurnInv' /\ ModesInv'
    BY <1>0, <1>1, <2>1, <2>2 DEF TurnInv, ModesInv
  <2>5. ASSUME NEW j
        PROVE  /\ Contains(haRead, j) <=> j = i \/ Contains(haRead', j)
               /\ Queued(j)' => Queued(j)
               /\ Queued(j) => j = i \/ Queued(j)'
    <3>1. Contains(haRead, j) <=> j = i \/ Contains(haRead', j)
      BY <2>1, ContainsTail
    <3>2. QED
      BY <1>1, <2>1, <3>1 DEF Queued
  <2>6. PICK k \in 1 .. Len(puts) : k = i
    BY <1>0, <2>5 DEF QueuedInv, Queued
  <2>7. PICK b \in BOOLEAN : b <=> slaveMax >= puts[k].next
    <3>1. CASE slaveMax >= puts[k].next
      BY <3>1
    <3>2. CASE ~(slaveMax >= puts[k].next)
      BY <3>2
    <3>3. QED
      BY <3>1, <3>2
  <2>8. puts' = Wakeup(k, b)
    <3>1. (slaveMax >= puts[k].next) \in BOOLEAN
      BY <1>0, <2>6, PutIs
    <3>2. b = (slaveMax >= puts[k].next)
      BY <2>7, <3>1
    <3>3. QED
      BY <2>1, <2>6, <3>2
  <2>9. /\ puts' \in Seq(PutRecord) /\ SameMessages /\ QueuedInv'
        /\ \A j \in 1 .. Len(puts) :
              /\ puts'[j].flushOK => puts[j].flushOK \/ (j = k /\ b)
              /\ puts'[j].late = puts[j].late
    BY <2>5, <2>6, <2>8, AnswerQueued
  <2>10. b => puts[k].next <= slaveMax
    BY <1>0, <2>6, <2>7, PutIs
  <2>11. 0 \in 0 .. WaitRounds
    BY SizesAssumption
  <2>12. BookTypeOK' /\ ProducersInv'
    BY <1>0, <1>1, <2>1, <2>3, <2>9, <2>11 DEF BookTypeOK, ProducersInv, SameMessages
  <2>13. LateInv'
    BY <1>0, <1>1, <2>9, LateSame
  <2> HIDE DEF i, ok
  <2>14. QED
    BY <1>1, <2>2, <2>4, <2>9, <2>10, <2>12, <2>13 DEF BookInv
<1>5. CASE TransferEnds
  <2>1. /\ UNCHANGED <<putVars, haWrite, haRead, haNotified, haRounds>>
        /\ haEnded' = TRUE /\ haRead = <<>>
    BY <1>5 DEF TransferEnds
  <2>2. TurnInv'
    BY <1>0, <1>1, <2>1 DEF TurnInv
  <2>3. QED
    BY <1>0, <1>1, <2>1, <2>2, BookFrame DEF BookTypeOK
<1>6. QED
  BY <1>2, <1>3, <1>4, <1>5 DEF TransferThread

\* The stop of the flush service, the connection of the slave, its reports and
\* the clean-up service leave the producers and the requests alone.
LEMMA OtherBook ==
    ASSUME LogInv, \/ StopFlush \/ SlaveConnection \/ NotifyTransferSome
                   \/ DestroyFile \/ RemoveFile
    PROVE  /\ BookInv' /\ SameMessages /\ slaveMax' \in Nat /\ slaveMax <= slaveMax'
           /\ \A i \in 1 .. Len(puts) : puts'[i].flushOK = puts[i].flushOK
<1> USE DEF fileVars, putVars, flushVars, stopVars, haVars
<1>0. /\ BookTypeOK /\ TurnInv /\ LogTypeOK
      /\ slaveMax \in Nat /\ connected \in BOOLEAN /\ stoped \in BOOLEAN
  BY PartsAre DEF BookInv, DurableInv, BookTypeOK
<1>1. /\ UNCHANGED <<putVars, requestsWrite, requestsRead, haWrite, haRead, haNotified,
                     haRounds, haEnded, haStoped, flush>>
      /\ \/ hasNotified' = hasNotified /\ stoped' = stoped
         \/ hasNotified' = TRUE /\ stoped' = TRUE
  BY DEF StopFlush, SlaveConnection, NotifyTransferSome, DestroyFile, RemoveFile
<1>2. connected' \in BOOLEAN
  <2>1. connected' = connected \/ connected' = ~connected
    BY DEF StopFlush, SlaveConnection, NotifyTransferSome, DestroyFile, RemoveFile
  <2>2. QED
    BY <1>0, <2>1
<1>3. slaveMax' \in Nat /\ slaveMax <= slaveMax'
  <2>1. CASE NotifyTransferSome
    <3>1. LogEnd \in Int
      <4>1. CASE last < first
        BY <4>1 DEF LogEnd
      <4>2. CASE ~(last < first)
        <5>1. last \in Files /\ last \in Int
          BY <1>0, <4>2, SizesAssumption DEF LogTypeOK, Files
        <5>2. wrote[last] \in Int /\ From(last) \in Int
          BY <1>0, <5>1, FromNext, SizesAssumption DEF LogTypeOK
        <5>3. QED
          BY <4>2, <5>2 DEF LogEnd
      <4>3. QED
        BY <4>1, <4>2
    <3>2. QED
      BY <1>0, <2>1, <3>1 DEF NotifyTransferSome
  <2>2. CASE ~NotifyTransferSome
    BY <1>0, <2>2 DEF StopFlush, SlaveConnection, DestroyFile, RemoveFile
  <2>3. QED
    BY <2>1, <2>2
<1>4. TurnInv'
  <2>1. CASE hasNotified' = hasNotified /\ stoped' = stoped
    BY <1>0, <1>1, <2>1 DEF TurnInv
  <2>2. CASE hasNotified' = TRUE /\ stoped' = TRUE
    BY <1>0, <1>1, <2>2 DEF TurnInv
  <2>3. QED
    BY <1>1, <2>1, <2>2
<1>5. hasNotified' \in BOOLEAN /\ stoped' \in BOOLEAN
  BY <1>0, <1>1 DEF BookTypeOK
<1>6. /\ haNotified' \in BOOLEAN /\ haRounds' \in 0 .. WaitRounds
      /\ haStoped' \in BOOLEAN /\ haEnded' \in BOOLEAN
  BY <1>0, <1>1 DEF BookTypeOK
<1>7. QED
  BY <1>1, <1>2, <1>3, <1>4, <1>5, <1>6, BookFrame

\* A shutdown notifies the transfer service and leaves some producers before
\* their put.
LEMMA ShutdownBook ==
    ASSUME LogInv, Shutdown
    PROVE  /\ BookInv' /\ SameMessages /\ slaveMax' = slaveMax
           /\ \A i \in 1 .. Len(puts) : puts'[i].flushOK = puts[i].flushOK
<1> USE DEF fileVars, putVars, flushVars, stopVars, haVars
<1>0. BookTypeOK /\ TurnInv /\ ProducersInv /\ ModesInv /\ QueuedInv /\ LateInv
  BY PartsAre DEF BookInv
<1>1. /\ UNCHANGED <<lock, cur, puts, requestsWrite, requestsRead, hasNotified, flush, stoped,
                     haWrite, haRead, haRounds, haEnded, slaveMax, connected>>
      /\ haStoped' = TRUE /\ haNotified' = TRUE
  BY DEF Shutdown
<1>2. /\ pc' \in [Producers -> {"idle", "enter", "append", "flush", "waitDisk", "ha",
                               "waitSlave"}]
      /\ \A p \in Producers : pc'[p] \notin {"idle", "enter", "append"} => pc'[p] = pc[p]
  <2>1. PICK under \in SUBSET Producers :
           pc' = [p \in Producers |-> IF p \in under THEN "enter" ELSE pc[p]]
    BY DEF Shutdown
  <2>2. QED
    BY <1>0, <2>1 DEF BookTypeOK
<1>3. BookTypeOK' /\ ModesInv' /\ TurnInv'
  BY <1>0, <1>1, <1>2 DEF BookTypeOK, ModesInv, TurnInv
<1>4. ProducersInv'
  BY <1>0, <1>1, <1>2 DEF ProducersInv
<1>5. SameMessages
  BY <1>1 DEF SameMessages
<1>6. QueuedInv' /\ LateInv'
  BY <1>0, <1>1, <1>5, QueuedSame, LateSame DEF Lists
<1>7. QED
  BY <1>1, <1>3, <1>4, <1>5, <1>6 DEF BookInv

-----------------------------------------------------------------------------
(* The invariant.                                                          *)

LEMMA InitLog == Init => LogInv
<1> SUFFICES ASSUME Init PROVE LogInv
  OBVIOUS
<1> USE SizesAssumption
<1>1. DurableInv
  BY InitDurable
<1>2. Len(puts) = 0 /\ Len(requestsWrite) = 0 /\ puts \in Seq(PutRecord) /\ <<>> \in Seq(Nat)
  BY EmptySeq DEF Init
<1>3. BookTypeOK
  <2>1. pc \in [Producers -> {"idle", "enter", "append", "flush", "waitDisk", "ha", "waitSlave"}]
        /\ cur \in [Producers -> Nat] /\ 0 \in 0 .. WaitRounds
    BY DEF Init
  <2>2. /\ hasNotified \in BOOLEAN /\ stoped \in BOOLEAN /\ haNotified \in BOOLEAN
        /\ haStoped \in BOOLEAN /\ haEnded \in BOOLEAN /\ connected \in BOOLEAN
        /\ lock \in Producers \cup {NoProducer}
    BY ModesAssumption DEF Init
  <2>3. QED
    BY <1>2, <2>1, <2>2 DEF Init, BookTypeOK
<1>4. ProducersInv /\ ModesInv /\ TurnInv /\ LateInv
  BY DEF Init, ProducersInv, ModesInv, TurnInv, LateInv
<1>5. QueuedInv
  <2>1. ASSUME NEW i PROVE ~Queued(i)
    BY ContainsEmpty DEF Queued, Init
  <2>2. QED
    BY <1>2, <2>1 DEF QueuedInv
<1>6. Layout /\ OrderInv /\ FlushOkHonest
  BY <1>2 DEF Init, Layout, OrderInv, FlushOkHonest
<1>7. QED
  BY <1>1, <1>3, <1>4, <1>5, <1>6, PartsAre DEF BookInv

LEMMA NextLog == LogInv /\ [Next]_vars => LogInv'
<1> SUFFICES ASSUME LogInv, [Next]_vars PROVE LogInv'
  OBVIOUS
<1>0. DurableInv /\ BookTypeOK /\ TurnInv /\ OrderInv /\ slaveMax \in Nat
  BY PartsAre DEF BookInv, BookTypeOK
<1>1. DurableInv'
  BY <1>0, NextDurable
<1>2. FilesGrow
  BY <1>0, <1>1, FilesStep DEF OrderInv
\* It is enough to account for the requests and for the answers given.
<1>3. ASSUME BookInv', SameMessages, slaveMax' \in Nat, slaveMax <= slaveMax',
             \A i \in 1 .. Len(puts) :
                puts'[i].flushOK => \/ puts[i].flushOK
                                    \/ SyncFlush /\ puts[i].next <= committedWhere
                                    \/ SyncMaster /\ puts[i].next <= slaveMax
      PROVE  LogInv'
  <2>1. LogTypeOK'
    BY <1>1 DEF DurableInv
  <2>2. Layout' /\ OrderInv'
    BY <1>2, <1>3, <2>1, MessagesStay
  <2>3. FlushOkHonest'
    BY <1>2, <1>3, <2>1, HonestStays
  <2>4. QED
    BY <1>1, <1>3, <2>2, <2>3, PartsAreNext
<1>4. slaveMax' = slaveMax => slaveMax' \in Nat /\ slaveMax <= slaveMax'
  BY <1>0
<1>5. ASSUME NEW p \in Producers, Put(p) PROVE LogInv'
  <2>1. CASE AppendMessage(p)
    BY <1>1, <1>2, <2>1, AppendHolds, PartsAreNext
  <2>2. CASE PutRequest(p) \/ PutTransferRequest(p)
    BY <1>3, <1>4, <2>2, PutQueues
  <2>3. CASE ~AppendMessage(p) /\ ~PutRequest(p) /\ ~PutTransferRequest(p)
    BY <1>3, <1>4, <1>5, <2>3, PutQuiet
  <2>4. QED
    BY <2>1, <2>2, <2>3
<1>6. CASE FlushThread
  <2>1. CASE CommitFind \/ CommitRead \/ CommitForce
    BY <1>3, <1>4, <2>1, CommitBook
  <2>2. CASE SwapRequests \/ FinalFlush \/ FlushRealTime
    BY <1>3, <1>4, <2>2, SwapBook
  <2>3. CASE ServeRequest
    BY <1>3, <1>4, <2>3, ServeBook
  <2>4. QED
    BY <1>6, <2>1, <2>2, <2>3 DEF FlushThread
<1>7. CASE TransferThread
  BY <1>3, <1>4, <1>7, TransferBook
<1>8. CASE StopFlush \/ SlaveConnection \/ NotifyTransferSome \/ DestroyFile \/ RemoveFile
  BY <1>3, <1>8, OtherBook
<1>8a. CASE Shutdown
  BY <1>3, <1>4, <1>8a, ShutdownBook
<1>9. CASE UNCHANGED vars
  <2>1. UNCHANGED <<putVars, requestsWrite, requestsRead, haWrite, haRead, haNotified,
                    hasNotified, haStoped, stoped, haEnded, connected, haRounds, slaveMax,
                    flush, pc>>
    BY <1>9 DEF vars, putVars, flushVars, stopVars, haVars
  <2>2. TurnInv'
    BY <1>0, <2>1 DEF TurnInv
  <2>3. /\ BookInv' /\ SameMessages
        /\ \A i \in 1 .. Len(puts) : puts'[i].flushOK = puts[i].flushOK
    BY <1>0, <2>1, <2>2, BookFrame DEF BookTypeOK
  <2>4. QED
    BY <1>3, <1>4, <2>1, <2>3
<1>10. QED
  BY <1>5, <1>6, <1>7, <1>8, <1>8a, <1>9 DEF Next

\* The strengthened invariant holds throughout.
THEOREM LogInductive == Spec => []LogInv
<1>1. QED
  BY InitLog, NextLog, PTL DEF Spec

\* CommitLog.putMessage lays messages one behind the other, each inside one
\* file, for any number of producers, files and messages and whatever the sizes:
\* also when the file is rolled over between the end-of-file record and the
\* append, and when the creation of the next file fails half-way.
THEOREM MessagesApart == Spec => []NoOverlap
<1>1. LogInv => NoOverlap
  BY DEF LogInv
<1>2. QED
  BY <1>1, LogInductive, PTL

\* A flush service that calls wakeupCustomer(true) tells the truth: the message
\* is on disk under SYNC_FLUSH, the slave has it on a SYNC_MASTER, although
\* GroupCommitService gives up after two commits and files go meanwhile.
THEOREM HonestAnswers == Spec => []FlushOkHonest
<1>1. LogInv => FlushOkHonest
  BY DEF LogInv
<1>2. QED
  BY <1>1, LogInductive, PTL

\* No GroupCommitRequest is forgotten: until it is answered it is in one of the
\* four lists of GroupCommitService and GroupTransferService, and a list nobody
\* is about to read has its hasNotified set.  At a shutdown, which waits for no
\* put, GroupCommitService.run ends with nothing left but requests that came
\* after its last swap, and GroupTransferService.run with an empty requestsRead.
THEOREM RequestsKept == Spec => []NothingForgotten
<1>1. LogInv => NothingForgotten
  BY DEF LogInv
<1>2. QED
  BY <1>1, LogInductive, PTL

=============================================================================
