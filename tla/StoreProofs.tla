---------------------------- MODULE StoreProofs ----------------------------
(***************************************************************************)
(* Proofs about the local store: one mapped file under its readers and its *)
(* cleaner, and the store of log, consume queues and checkpoint across     *)
(* shutdowns, crashes and recoveries.                                      *)
(*                                                                         *)
(* 1. The reference count of a mapped file is safe for any number of       *)
(*    reader threads: IndInv is inductive.                                 *)
(* 2. SurvivesInv: what was reported as flushed is in the log after every  *)
(*    crash.                                                               *)
(* 3. IndexInv: the consume queues index the log.                          *)
(* 4. CheckpointInv: what the checkpoint covers is on disk.  The last two  *)
(*    need each other and are proved together, on top of the second.       *)
(***************************************************************************)
EXTENDS MapedFile, MessageStore, TLAPS, FiniteSetTheorems, SequenceTheorems,
        WellFoundedInduction

-----------------------------------------------------------------------------
(* The reference count of a mapped file.                                   *)

\* The number of holders is a natural number, zero exactly when nobody holds
\* the file: Held is a part of the finite set of readers.
LEMMA HeldCount ==
    /\ IsFiniteSet(Held)
    /\ Cardinality(Held) \in Nat
    /\ Cardinality(Held) = 0 <=> Held = {}
<1>1. IsFiniteSet(Held)
  BY FS_Subset, ThreadsAssumption DEF Held
<1>2. QED
  BY <1>1, FS_CardinalityType, FS_EmptySet

\* A step that leaves no reader entering or leaving "held" keeps the holders.
LEMMA HeldSame ==
    ASSUME \A r \in Readers : pc'[r] = "held" <=> pc[r] = "held"
    PROVE  Held' = Held
BY DEF Held

\* A granted hold adds one holder.
LEMMA HeldAdd ==
    ASSUME FileTypeOK, NEW r \in Readers, pc[r] # "held", Goto(r, "held")
    PROVE  Held' = Held \cup {r} /\ Cardinality(Held') = Cardinality(Held) + 1
<1>1. Held' = Held \cup {r}
  BY DEF Held, Goto, FileTypeOK, Threads
<1>2. r \notin Held
  BY DEF Held
<1>3. QED
  BY <1>1, <1>2, HeldCount, FS_AddElement

\* A release takes one holder away.
LEMMA HeldRemove ==
    ASSUME FileTypeOK, NEW r \in Readers, pc[r] = "held", NEW where,
           where # "held", Goto(r, where)
    PROVE  Held' = Held \ {r} /\ Cardinality(Held') = Cardinality(Held) - 1
<1>1. Held' = Held \ {r}
  BY DEF Held, Goto, FileTypeOK, Threads
<1>2. r \in Held
  BY DEF Held
<1>3. QED
  BY <1>1, <1>2, HeldCount, FS_RemoveElement

\* A fresh file satisfies the inductive invariant: one reference, its own.
LEMMA InitFile == FileInit => IndInv
<1> SUFFICES ASSUME FileInit PROVE IndInv
  OBVIOUS
<1>1. Held = {} /\ Cardinality(Held) = 0
  BY HeldCount DEF FileInit, Held, Threads
<1>2. UndoRef = 0 /\ OwnRef = 1 /\ ~CleanupPending
  BY ThreadsAssumption DEF FileInit, UndoRef, OwnRef, CleanupPending, Threads
<1>3. FileTypeOK
  <2>1. /\ refCount \in Int /\ seenRef \in Nat /\ unmapped \in Nat
        /\ monitor \in Readers \cup {NoThread}
    BY DEF FileInit
  <2>2. /\ pc \in [Threads -> ReaderPC \cup CleanerPC]
        /\ \A r \in Readers : pc[r] \in ReaderPC
        /\ pc[Cleaner] \in CleanerPC
    BY DEF FileInit, Threads, ReaderPC, CleanerPC
  <2>3. /\ available \in BOOLEAN /\ cleanupOver \in BOOLEAN
        /\ expired \in BOOLEAN /\ forced \in BOOLEAN /\ deleted \in BOOLEAN
    BY Zenon DEF FileInit
  <2>4. QED
    BY <2>1, <2>2, <2>3 DEF FileTypeOK
<1>4. MonitorInv
  BY ThreadsAssumption DEF FileInit, MonitorInv, Threads
<1>5. QED
  BY <1>1, <1>2, <1>3, <1>4
  DEF FileInit, IndInv, CountInv, GivenUpInv, UnmapInv, Threads

\* The steps of hold() keep the invariant: a hold is granted only while some
\* reference is left, so never once a cleanup is on its way.
LEMMA HoldInv ==
    ASSUME IndInv, NEW r \in Readers,
           \/ HoldEnter(r)
           \/ HoldIncrement(r)
           \/ HoldUndo(r)
    PROVE  IndInv'
<1> USE ThreadsAssumption
<1>1. CASE HoldEnter(r)
  <2>1. FileTypeOK'
    BY <1>1 DEF IndInv, FileTypeOK, HoldEnter, Goto, Threads, ReaderPC, CleanerPC
  <2>2. MonitorInv'
    BY <1>1 DEF IndInv, FileTypeOK, MonitorInv, HoldEnter, Goto, Threads
  <2>3. Held' = Held /\ UndoRef' = UndoRef /\ OwnRef' = OwnRef
        /\ CleanupPending' = CleanupPending /\ pc'[Cleaner] = pc[Cleaner]
    BY <1>1 DEF IndInv, FileTypeOK, HoldEnter, Goto, Threads, Held, UndoRef,
                OwnRef, CleanupPending
  <2>4. QED
    BY <1>1, <2>1, <2>2, <2>3
    DEF IndInv, HoldEnter, CountInv, GivenUpInv, UnmapInv
<1>2. CASE HoldIncrement(r)
  <2>1. FileTypeOK'
    BY <1>2 DEF IndInv, FileTypeOK, HoldIncrement, Goto, Threads, ReaderPC, CleanerPC
  <2>2. MonitorInv'
    BY <1>2 DEF IndInv, FileTypeOK, MonitorInv, HoldIncrement, Goto, Threads
  <2>3. UndoRef = 0
    BY <1>2 DEF IndInv, FileTypeOK, MonitorInv, HoldIncrement, UndoRef
  <2>4. OwnRef' = OwnRef /\ CleanupPending' = CleanupPending
        /\ pc'[Cleaner] = pc[Cleaner] /\ OwnRef \in {0, 1}
    BY <1>2 DEF IndInv, FileTypeOK, HoldIncrement, Goto, Threads, OwnRef,
                CleanupPending
  <2>5. CASE refCount > 0
    <3>1. Goto(r, "held") /\ pc[r] = "holding" /\ refCount' = refCount + 1
      BY <1>2, <2>5 DEF HoldIncrement
    <3>2. UndoRef' = 0
      BY <3>1, <2>3 DEF Goto, UndoRef, IndInv, FileTypeOK, Threads
    <3>3. Cardinality(Held') = Cardinality(Held) + 1
      BY <3>1, HeldAdd DEF IndInv
    <3>4. ~forced
      BY <2>5, <2>3 DEF IndInv, GivenUpInv, FileTypeOK
    <3>5. CountInv'
      BY <1>2, <3>1, <3>2, <3>3, <3>4, <2>3, <2>4, HeldCount
      DEF IndInv, CountInv, HoldIncrement, FileTypeOK, OwnRef
    <3>6. ~(CleanupPending \/ unmapped > 0)
      BY <2>5, <2>3, <3>4, HeldCount DEF IndInv, CountInv, UnmapInv
    <3>7. QED
      BY <1>2, <2>1, <2>2, <2>4, <3>4, <3>5, <3>6
      DEF IndInv, HoldIncrement, GivenUpInv, UnmapInv
  <2>6. CASE ~(refCount > 0)
    <3>1. Goto(r, "undo") /\ pc[r] = "holding" /\ refCount' = refCount + 1
      BY <1>2, <2>6 DEF HoldIncrement
    <3>2. UndoRef' = 1
      BY <3>1 DEF Goto, UndoRef, IndInv, FileTypeOK, Threads
    <3>3. Held' = Held
      BY <3>1 DEF Held, Goto, IndInv, FileTypeOK, Threads
    <3>4. CountInv' /\ GivenUpInv'
      BY <1>2, <3>1, <3>2, <3>3, <2>3, <2>4, HeldCount
      DEF IndInv, CountInv, GivenUpInv, HoldIncrement, FileTypeOK
    <3>5. QED
      BY <1>2, <2>1, <2>2, <2>4, <3>3, <3>4
      DEF IndInv, HoldIncrement, UnmapInv
  <2>7. QED
    BY <2>5, <2>6
<1>3. CASE HoldUndo(r)
  <2>1. FileTypeOK'
    BY <1>3 DEF IndInv, FileTypeOK, HoldUndo, Goto, Threads, ReaderPC, CleanerPC
  <2>2. MonitorInv'
    BY <1>3 DEF IndInv, FileTypeOK, MonitorInv, HoldUndo, Goto, Threads
  <2>3. UndoRef = 1 /\ UndoRef' = 0
    BY <1>3 DEF IndInv, FileTypeOK, MonitorInv, HoldUndo, UndoRef, Goto, Threads
  <2>4. OwnRef' = OwnRef /\ CleanupPending' = CleanupPending
        /\ pc'[Cleaner] = pc[Cleaner] /\ OwnRef \in {0, 1} /\ Held' = Held
    BY <1>3 DEF IndInv, FileTypeOK, HoldUndo, Goto, Threads, OwnRef, Held,
                CleanupPending
  <2>5. CountInv' /\ GivenUpInv'
    BY <1>3, <2>3, <2>4, HeldCount
    DEF IndInv, CountInv, GivenUpInv, HoldUndo, FileTypeOK
  <2>6. QED
    BY <1>3, <2>1, <2>2, <2>4, <2>5 DEF IndInv, HoldUndo, UnmapInv
<1>4. QED
  BY <1>1, <1>2, <1>3

\* A release keeps the invariant: the thread that brings the count to zero
\* knows that nobody holds the file and that its own reference is gone.
LEMMA ReleaseInv ==
    ASSUME IndInv,
           \/ \E r \in Readers : ReaderRelease(r)
           \/ CleanerRelease
    PROVE  IndInv'
<1> USE ThreadsAssumption
<1>1. ASSUME NEW r \in Readers, ReaderRelease(r)
      PROVE  IndInv'
  <2> DEFINE where == IF refCount - 1 > 0 THEN "idle" ELSE "cleanup"
  <2>1. pc[r] = "held" /\ Goto(r, where) /\ refCount' = refCount - 1
        /\ where \in {"idle", "cleanup"}
    BY <1>1 DEF ReaderRelease, Release
  <2> HIDE DEF where
  <2>2. FileTypeOK'
    BY <1>1, <2>1 DEF IndInv, FileTypeOK, ReaderRelease, Release, Goto, Threads,
                      ReaderPC, CleanerPC
  <2>3. MonitorInv'
    BY <1>1, <2>1 DEF IndInv, FileTypeOK, MonitorInv, ReaderRelease, Release,
                      Goto, Threads
  <2>4. Held' = Held \ {r} /\ Cardinality(Held') = Cardinality(Held) - 1
    BY <2>1, HeldRemove DEF IndInv
  <2>5. /\ UndoRef' = UndoRef /\ OwnRef' = OwnRef /\ OwnRef \in {0, 1}
        /\ UndoRef \in {0, 1} /\ pc'[Cleaner] = pc[Cleaner]
    BY <1>1, <2>1 DEF IndInv, FileTypeOK, ReaderRelease, Release, Goto, Threads,
                      UndoRef, OwnRef
  <2>6. CountInv' /\ GivenUpInv'
    BY <1>1, <2>1, <2>4, <2>5, HeldCount
    DEF IndInv, CountInv, GivenUpInv, ReaderRelease, Release, FileTypeOK
  <2>7. ~forced => ~(CleanupPending \/ unmapped > 0)
    BY <2>1 DEF IndInv, UnmapInv, Held
  <2>8. ~forced /\ CleanupPending' => Held' = {} /\ OwnRef' = 0
    <3>1. SUFFICES ASSUME ~forced, CleanupPending'
                   PROVE  Held' = {} /\ OwnRef' = 0
      OBVIOUS
    <3>2. where = "cleanup"
      BY <2>1, <2>7, <3>1 DEF CleanupPending, Goto, IndInv, FileTypeOK, Threads
    <3>3. refCount <= 1
      BY <3>2 DEF where, IndInv, FileTypeOK
    <3>4. Cardinality(Held) = 1 /\ OwnRef = 0
      BY <3>1, <3>3, <2>1, <2>5, HeldCount DEF IndInv, CountInv, Held
    <3>5. Held' = {}
      BY <3>4, <2>4, HeldCount, FS_Subset, FS_EmptySet
    <3>6. QED
      BY <3>4, <3>5, <2>5
  <2>9. UnmapInv'
    BY <1>1, <2>7, <2>8 DEF IndInv, UnmapInv, ReaderRelease, Release
  <2>10. QED
    BY <2>2, <2>3, <2>6, <2>9 DEF IndInv
<1>2. ASSUME CleanerRelease
      PROVE  IndInv'
  <2> DEFINE where == IF refCount - 1 > 0 THEN "destroy" ELSE "cleanup"
  <2>1. /\ pc[Cleaner] = "release" /\ Goto(Cleaner, where)
        /\ refCount' = refCount - 1 /\ where \in {"destroy", "cleanup"}
        /\ ~available /\ ~available'
    BY <1>2 DEF CleanerRelease, Release, IndInv, GivenUpInv
  <2> HIDE DEF where
  <2>2. FileTypeOK'
    BY <1>2, <2>1 DEF IndInv, FileTypeOK, CleanerRelease, Release, Goto, Threads,
                      ReaderPC, CleanerPC
  <2>3. MonitorInv'
    BY <1>2, <2>1 DEF IndInv, FileTypeOK, MonitorInv, CleanerRelease, Release,
                      Goto, Threads
  <2>4. Held' = Held
    BY <2>1 DEF Held, Goto, IndInv, FileTypeOK, Threads
  <2>5. /\ UndoRef' = UndoRef /\ OwnRef = 1 /\ OwnRef' = 0
        /\ UndoRef \in {0, 1} /\ pc'[Cleaner] = where
    BY <2>1 DEF IndInv, FileTypeOK, Goto, Threads, UndoRef, OwnRef
  <2>6. CountInv' /\ GivenUpInv'
    BY <1>2, <2>1, <2>4, <2>5, HeldCount
    DEF IndInv, CountInv, GivenUpInv, CleanerRelease, Release, FileTypeOK
  <2>7. ~forced => ~(CleanupPending \/ unmapped > 0)
    BY <2>5 DEF IndInv, UnmapInv
  <2>8. ~forced /\ CleanupPending' => Held' = {}
    <3>1. SUFFICES ASSUME ~forced, CleanupPending' PROVE Held' = {}
      OBVIOUS
    <3>2. where = "cleanup"
      BY <2>1, <2>7, <3>1 DEF CleanupPending, Goto, IndInv, FileTypeOK, Threads
    <3>3. refCount <= 1
      BY <3>2 DEF where, IndInv, FileTypeOK
    <3>4. QED
      BY <3>1, <3>3, <2>4, <2>5, HeldCount DEF IndInv, CountInv
  <2>9. UnmapInv'
    BY <1>2, <2>5, <2>7, <2>8 DEF IndInv, UnmapInv, CleanerRelease, Release
  <2>10. QED
    BY <2>2, <2>3, <2>6, <2>9 DEF IndInv
<1>3. QED
  BY <1>1, <1>2

\* The synchronized cleanup keeps the invariant: nobody is inside hold(), so
\* after the first unmapping the count is not positive and cleanupOver is
\* seen by every later thread.
LEMMA CleanupInv ==
    ASSUME IndInv, NEW t \in Threads, NEW after, Cleanup(t, after),
           \/ t \in Readers /\ after = "idle"
           \/ t = Cleaner /\ after = "destroy"
    PROVE  IndInv'
<1> USE ThreadsAssumption
<1>1. pc[t] = "cleanup" /\ monitor = NoThread /\ Goto(t, after) /\ ~available
  <2>1. CleanupPending
    BY DEF Cleanup, CleanupPending
  <2>2. QED
    BY <2>1 DEF Cleanup, IndInv, GivenUpInv, UnmapInv, OwnRef
<1>2. cleanupOver' /\ ~available'
  BY <1>1 DEF Cleanup
<1>3. UndoRef = 0 /\ UndoRef' = 0 /\ Held' = Held /\ OwnRef' = OwnRef
  BY <1>1 DEF IndInv, FileTypeOK, MonitorInv, UndoRef, Held, OwnRef, Cleanup,
              Goto, Threads
<1>4. unmapped = 1 => isCleanupOver
  BY <1>3, HeldCount
  DEF IndInv, UnmapInv, CountInv, GivenUpInv, isCleanupOver, FileTypeOK
<1>5. unmapped' = 1
  <2>1. CASE unmapped = 1
    BY <2>1, <1>4 DEF Cleanup
  <2>2. CASE unmapped = 0
    BY <2>2, <1>1 DEF Cleanup, isCleanupOver, IndInv, UnmapInv
  <2>3. QED
    BY <2>1, <2>2 DEF IndInv, UnmapInv
<1>6. FileTypeOK'
  <2>1. cleanupOver' \in BOOLEAN
    BY <1>2
  <2>2. QED
    BY <1>1, <1>5, <2>1
    DEF IndInv, FileTypeOK, Cleanup, Goto, Threads, ReaderPC, CleanerPC
<1>7. MonitorInv'
  BY <1>1 DEF IndInv, FileTypeOK, MonitorInv, Cleanup, Goto, Threads
<1>8. CountInv'
  BY <1>3 DEF IndInv, CountInv, Cleanup
<1>9. GivenUpInv'
  BY <1>1, <1>2, <1>3 DEF IndInv, GivenUpInv, Cleanup, Goto, FileTypeOK, Threads
<1>10. UnmapInv'
  <2>1. ~forced => Held = {} /\ OwnRef = 0
    BY <1>1 DEF IndInv, UnmapInv, CleanupPending
  <2>2. QED
    BY <2>1, <1>2, <1>3, <1>5 DEF UnmapInv, Cleanup
<1>11. QED
  BY <1>6, <1>7, <1>8, <1>9, <1>10 DEF IndInv

\* The cleaner's own steps and the clock keep the invariant: in particular
\* the forced shutdown drives the count so far below zero that no hold in
\* flight can bring it back.
LEMMA CleanerInv ==
    ASSUME IndInv,
           \/ shutdown \/ ShutdownAgain \/ ForceRead \/ ForceSet
           \/ Destroy \/ Expire
    PROVE  IndInv'
<1> USE ThreadsAssumption
<1>1. CASE shutdown
  <2>1. FileTypeOK'
    BY <1>1 DEF IndInv, FileTypeOK, shutdown, Goto, Threads, ReaderPC, CleanerPC
  <2>2. MonitorInv'
    BY <1>1 DEF IndInv, FileTypeOK, MonitorInv, shutdown, Goto, Threads
  <2>3. /\ Held' = Held /\ UndoRef' = UndoRef /\ OwnRef = 1 /\ OwnRef' = 1
        /\ CleanupPending' = CleanupPending
    BY <1>1 DEF IndInv, FileTypeOK, shutdown, Goto, Threads, Held, UndoRef,
                OwnRef, CleanupPending
  <2>4. QED
    BY <1>1, <2>1, <2>2, <2>3
    DEF IndInv, shutdown, CountInv, GivenUpInv, UnmapInv, Goto, FileTypeOK, Threads
<1>2. CASE ShutdownAgain
  <2>1. FileTypeOK'
    BY <1>2 DEF IndInv, FileTypeOK, ShutdownAgain, Goto, Threads, ReaderPC,
                CleanerPC
  <2>2. MonitorInv'
    BY <1>2 DEF IndInv, FileTypeOK, MonitorInv, ShutdownAgain, Goto, Threads
  <2>3. /\ Held' = Held /\ UndoRef' = UndoRef /\ OwnRef' = OwnRef
        /\ CleanupPending' = CleanupPending
    BY <1>2 DEF IndInv, FileTypeOK, ShutdownAgain, Goto, Threads, Held, UndoRef,
                OwnRef, CleanupPending
  <2>4. GivenUpInv'
    BY <1>2, <2>3 DEF IndInv, FileTypeOK, ShutdownAgain, GivenUpInv, Goto, Threads,
                      UndoRef
  <2>5. QED
    BY <1>2, <2>1, <2>2, <2>3, <2>4
    DEF IndInv, ShutdownAgain, CountInv, UnmapInv
<1>3. CASE ForceRead
  <2>1. /\ Held' = Held /\ UndoRef' = UndoRef /\ OwnRef' = OwnRef
        /\ CleanupPending' = CleanupPending
    BY <1>3 DEF ForceRead, Held, UndoRef, OwnRef, CleanupPending
  <2>2. refCount >= 0
    BY <1>3, HeldCount DEF IndInv, CountInv, GivenUpInv, ForceRead, UndoRef,
                           OwnRef
  <2>3. QED
    BY <1>3, <2>1, <2>2
    DEF IndInv, FileTypeOK, MonitorInv, CountInv, GivenUpInv, UnmapInv, ForceRead
<1>4. CASE ForceSet
  <2>1. FileTypeOK'
    BY <1>4 DEF IndInv, FileTypeOK, ForceSet, Goto, Threads, ReaderPC, CleanerPC
  <2>2. MonitorInv'
    BY <1>4 DEF IndInv, FileTypeOK, MonitorInv, ForceSet, Goto, Threads
  <2>3. GivenUpInv'
    BY <1>4 DEF IndInv, FileTypeOK, ForceSet, GivenUpInv, Goto, Threads, UndoRef
  <2>4. QED
    BY <1>4, <2>1, <2>2, <2>3 DEF IndInv, CountInv, UnmapInv, ForceSet
<1>5. CASE Destroy
  <2>1. FileTypeOK'
    <3>1. deleted' \in BOOLEAN
      BY <1>5 DEF Destroy, isCleanupOver
    <3>2. QED
      BY <1>5, <3>1 DEF IndInv, FileTypeOK, Destroy, Goto, Threads, ReaderPC,
                        CleanerPC
  <2>2. MonitorInv'
    BY <1>5 DEF IndInv, FileTypeOK, MonitorInv, Destroy, Goto, Threads
  <2>3. /\ Held' = Held /\ UndoRef' = UndoRef /\ OwnRef' = OwnRef
        /\ CleanupPending' = CleanupPending
    BY <1>5 DEF IndInv, FileTypeOK, Destroy, Goto, Threads, Held, UndoRef,
                OwnRef, CleanupPending
  <2>4. GivenUpInv'
    BY <1>5, <2>3 DEF IndInv, FileTypeOK, Destroy, GivenUpInv, Goto, Threads
  <2>5. UnmapInv'
    BY <1>5, <2>3 DEF IndInv, UnmapInv, Destroy, isCleanupOver
  <2>6. QED
    BY <1>5, <2>1, <2>2, <2>3, <2>4, <2>5 DEF IndInv, CountInv, Destroy
<1>6. CASE Expire
  <2>1. expired' \in BOOLEAN
    BY <1>6 DEF Expire
  <2>2. QED
    BY <1>6, <2>1
    DEF IndInv, Expire, FileTypeOK, MonitorInv, CountInv, GivenUpInv, UnmapInv,
        Held, UndoRef, OwnRef, CleanupPending
<1>7. QED
  BY <1>1, <1>2, <1>3, <1>4, <1>5, <1>6

\* Every step keeps the inductive invariant.
LEMMA NextFile == IndInv /\ [FileNext]_fileVars => IndInv'
<1> SUFFICES ASSUME IndInv, [FileNext]_fileVars PROVE IndInv'
  OBVIOUS
<1>1. ASSUME NEW r \in Readers, HoldEnter(r) \/ HoldIncrement(r) \/ HoldUndo(r)
      PROVE  IndInv'
  BY <1>1, HoldInv
<1>2. ASSUME UNCHANGED fileVars PROVE IndInv'
  BY <1>2 DEF fileVars, IndInv, FileTypeOK, MonitorInv, CountInv, GivenUpInv, UnmapInv,
              Held, UndoRef, OwnRef, CleanupPending
<1>3. ASSUME NEW r \in Readers, HoldRefused(r) PROVE IndInv'
  BY <1>2, <1>3 DEF HoldRefused
<1>4. ASSUME (\E r \in Readers : ReaderRelease(r)) \/ CleanerRelease
      PROVE  IndInv'
  BY <1>4, ReleaseInv
<1>5. ASSUME NEW r \in Readers, ReaderCleanup(r) PROVE IndInv'
  BY <1>5, CleanupInv DEF ReaderCleanup, Threads
<1>6. ASSUME CleanerCleanup PROVE IndInv'
  BY <1>6, CleanupInv DEF CleanerCleanup, Threads
<1>7. ASSUME \/ shutdown \/ ShutdownAgain \/ ForceRead \/ ForceSet
             \/ Destroy \/ Expire
      PROVE  IndInv'
  BY <1>7, CleanerInv
<1>8. QED
  BY <1>1, <1>2, <1>3, <1>4, <1>5, <1>6, <1>7 DEF FileNext

\* The inductive invariant holds throughout, for any finite set of readers.
THEOREM FileInductive == FileSpec => []IndInv
<1>1. QED
  BY InitFile, NextFile, PTL DEF FileSpec

\* The variables keep their types.
THEOREM FileTypeCorrect == FileSpec => []FileTypeOK
<1>1. IndInv => FileTypeOK
  BY DEF IndInv
<1>2. QED
  BY <1>1, FileInductive, PTL

\* No reader that the cleaner has not given up on ever works on an unmapped
\* buffer, whatever the interleaving of hold, release and shutdown.
THEOREM Mapped == FileSpec => []NoUnmapWhileHeld
<1>1. IndInv => NoUnmapWhileHeld
  BY DEF IndInv, UnmapInv, NoUnmapWhileHeld
<1>2. QED
  BY <1>1, FileInductive, PTL

\* The buffer is unmapped at most once, the forced shutdown included.
THEOREM UnmappedOnce == FileSpec => []UnmapOnce
<1>1. IndInv => UnmapOnce
  BY DEF IndInv, UnmapInv, UnmapOnce
<1>2. QED
  BY <1>1, FileInductive, PTL

\* A deleted file was unmapped and can never be held again.
THEOREM Deleted == FileSpec => []DeletedIsFinal
<1>1. IndInv => DeletedIsFinal
  <2> SUFFICES ASSUME IndInv, deleted
               PROVE  /\ unmapped = 1
                      /\ \A r \in Readers : pc[r] # "holding" \/ refCount <= 0
    BY DEF DeletedIsFinal
  <2>1. unmapped = 1
    BY DEF IndInv, UnmapInv
  <2>2. ASSUME NEW r \in Readers, pc[r] = "holding" PROVE refCount <= 0
    <3>1. UndoRef = 0
      BY <2>2 DEF IndInv, MonitorInv, UndoRef
    <3>2. QED
      BY <2>1, <3>1, HeldCount
      DEF IndInv, FileTypeOK, UnmapInv, CountInv, GivenUpInv
  <2>3. QED
    BY <2>1, <2>2
<1>2. QED
  BY <1>1, FileInductive, PTL


-----------------------------------------------------------------------------
(* Arithmetic of files, and the smaller operators.                         *)

\* What is left of a division by the size of a file.
LEMMA Division ==
    ASSUME NEW x \in Nat, NEW d \in Nat \ {0}
    PROVE  /\ x \div d \in Nat /\ x % d \in 0 .. d - 1
           /\ x = d * (x \div d) + (x % d)
           /\ d * (x \div d) <= x /\ x < d * (x \div d) + d
<1>1. /\ x \div d \in Nat /\ x % d \in 0 .. d - 1
      /\ x = d * (x \div d) + (x % d)
  BY SMT
<1> DEFINE p == d * (x \div d)
<1>2. p \in Nat /\ x = p + (x % d)
  BY <1>1
<1> HIDE DEF p
<1>3. p <= x /\ x < p + d
  BY <1>1, <1>2
<1>4. QED
  BY <1>1, <1>3 DEF p

\* The quotient is determined by where the number lies.
LEMMA Quotient ==
    ASSUME NEW x \in Nat, NEW d \in Nat \ {0}, NEW f \in Nat,
           f * d <= x, x < (f + 1) * d
    PROVE  x \div d = f
<1> DEFINE y == x \div d
<1>1. y \in Nat /\ d * y <= x /\ x < d * y + d
  BY Division
<1> HIDE DEF y
<1>2. ASSUME y < f PROVE FALSE
  <2>1. y + 1 <= f
    BY <1>1, <1>2
  <2>2. d * (y + 1) <= d * f
    BY <1>1, <2>1
  <2>3. QED
    BY <1>1, <2>2
<1>3. ASSUME f < y PROVE FALSE
  <2>1. f + 1 <= y
    BY <1>1, <1>3
  <2>2. d * (f + 1) <= d * y
    BY <1>1, <2>1
  <2>3. QED
    BY <1>1, <2>2
<1>4. QED
  BY <1>1, <1>2, <1>3 DEF y

\* The smaller of two numbers and the greater are one of the two.
LEMMA Choice ==
    ASSUME NEW m \in Int, NEW n \in Int
    PROVE  /\ Lesser(m, n) \in Int /\ Lesser(m, n) <= m /\ Lesser(m, n) <= n
           /\ Lesser(m, n) = m \/ Lesser(m, n) = n
           /\ Greater(m, n) \in Int /\ Greater(m, n) >= m /\ Greater(m, n) >= n
           /\ Greater(m, n) = m \/ Greater(m, n) = n
BY DEF Lesser, Greater

\* A hole is not a message.
LEMMA HoleIsNone == Hole \notin Message
BY StoreAssumption DEF Hole, Message

\* A set of naturals has a least element, a bounded one a greatest.
LEMMA LeastExists ==
    ASSUME NEW S, S \subseteq Nat, S # {}
    PROVE  \E x \in S : \A y \in S : x <= y
<1>1. PICK x \in S : \A y \in S : ~ (<<y, x>> \in OpToRel(<, Nat))
  BY WFMin, NatLessThanWellFounded
<1>2. ASSUME NEW y \in S, ~(x <= y) PROVE FALSE
  <2>1. x \in Nat /\ y \in Nat /\ y < x
    BY <1>2
  <2>2. <<y, x>> \in Nat \X Nat /\ <<y, x>>[1] = y /\ <<y, x>>[2] = x
    BY <2>1
  <2>3. <<y, x>> \in OpToRel(<, Nat)
    BY <2>1, <2>2, Zenon DEF OpToRel
  <2>4. QED
    BY <1>1, <2>3
<1>3. QED
  BY <1>2

\* A bounded set of naturals has a greatest element.
LEMMA GreatestExists ==
    ASSUME NEW n \in Nat, NEW S, S \subseteq 0 .. n, S # {}
    PROVE  \E x \in S : \A y \in S : y <= x
<1> DEFINE T == { i \in 0 .. n : n - i \in S }
<1>1. \A x \in S : n - x \in T /\ n - (n - x) = x
  OBVIOUS
<1>2. T \subseteq Nat /\ T # {}
  <2>1. PICK x \in S : TRUE
    OBVIOUS
  <2>2. n - x \in T
    BY <1>1
  <2>3. T \subseteq Nat
    OBVIOUS
  <2>4. QED
    BY <2>2, <2>3
<1>3. PICK t \in T : \A y \in T : t <= y
  BY <1>2, LeastExists
<1>4. n - t \in S /\ \A y \in S : y <= n - t
  <2>1. \A y \in S : t <= n - y
    BY <1>1, <1>3
  <2>2. QED
    BY <2>1
<1>5. QED
  BY <1>4

-----------------------------------------------------------------------------
(* Types.                                                                  *)

\* What the types say of the log and its messages.
LEMMA LogFacts ==
    ASSUME LogTypeOK
    PROVE  /\ Len(log) \in Nat /\ DOMAIN log = 1 .. Len(log)
           /\ \A i \in 1 .. Len(log) : log[i] \in Message \cup {Hole}
           /\ \A i \in 1 .. Len(log) : log[i] # Hole =>
                 log[i].queue \in Queues /\ log[i].at \in Nat /\ log[i].ts \in Nat
           /\ \A i \in 1 .. Len(log) : log[i].ts \in Nat
           /\ \A i \in 1 .. Len(log) : log[i].queue \in Queues <=> log[i] # Hole
<1>1. Len(log) \in Nat /\ DOMAIN log = 1 .. Len(log)
  BY DEF LogTypeOK
<1>2. \A i \in 1 .. Len(log) : log[i] \in Message \cup {Hole}
  BY <1>1 DEF LogTypeOK
<1>3. QED
  BY <1>1, <1>2, StoreAssumption DEF Message, Hole

\* What the types say of one consume queue.
LEMMA QueueFacts ==
    ASSUME QueueTypeOK, NEW q \in Queues
    PROVE  /\ cq[q] \in Seq(Int) /\ Len(cq[q]) \in Nat /\ DOMAIN cq[q] = 1 .. Len(cq[q])
           /\ cqFiles[q] \in Nat /\ cqWhere[q] \in Nat /\ cqPosition[q] \in Nat
           /\ cqForced[q] \in 0 .. Len(cq[q]) /\ maxPhysicOffset[q] \in Int
           /\ topicQueueTable[q] \in Nat
           /\ \A k \in 1 .. Len(cq[q]) : cq[q][k] \in Int
BY DEF QueueTypeOK

\* What taking a request leaves on the list.
LEMMA TakeRequest ==
    ASSUME LogTypeOK, dispatch # <<>>
    PROVE  /\ Head(dispatch) \in 1 .. Len(log) /\ Head(dispatch) = dispatch[1]
           /\ Request = log[dispatch[1]] /\ Request # Hole
           /\ Request.queue \in Queues /\ Request.at \in Nat /\ Request.ts \in Nat
           /\ Tail(dispatch) \in Seq(Nat) /\ Len(Tail(dispatch)) = Len(dispatch) - 1
           /\ Len(dispatch) \in Nat \ {0}
           /\ \A k \in 1 .. Len(dispatch) - 1 : Tail(dispatch)[k] = dispatch[k + 1]
           /\ \A k \in DOMAIN Tail(dispatch) :
                 Tail(dispatch)[k] \in DOMAIN log /\ log[Tail(dispatch)[k]] # Hole
<1>1. dispatch \in Seq(Nat) /\ Len(dispatch) \in Nat \ {0} /\ DOMAIN dispatch = 1 .. Len(dispatch)
  BY EmptySeq DEF LogTypeOK
<1>2. Head(dispatch) = dispatch[1] /\ dispatch[1] \in 1 .. Len(log) /\ log[dispatch[1]] # Hole
  BY <1>1, LogFacts DEF LogTypeOK
<1>3. /\ Tail(dispatch) \in Seq(Nat) /\ Len(Tail(dispatch)) = Len(dispatch) - 1
      /\ \A k \in 1 .. Len(dispatch) - 1 : Tail(dispatch)[k] = dispatch[k + 1]
  BY <1>1
<1>4. \A k \in DOMAIN Tail(dispatch) : k \in 1 .. Len(dispatch) - 1 /\ k + 1 \in DOMAIN dispatch
  BY <1>1, <1>3
<1>5. QED
  BY <1>1, <1>2, <1>3, <1>4, LogFacts DEF LogTypeOK, Request

\* Which file is committed.
LEMMA FileOfFacts ==
    ASSUME NEW where \in Nat, NEW perFile \in Nat \ {0}, NEW files \in Nat
    PROVE  /\ FileOf(where, perFile, files) \in Nat
           /\ FileOf(where, perFile, files) < files \/ FileOf(where, perFile, files) = 0
           /\ (FileOf(where, perFile, files) + 1) * perFile \in Nat \ {0}
           /\ (FileOf(where, perFile, files) + 3) * perFile \in Nat \ {0}
           /\ FileOf(where, perFile, files) * perFile <= where
<1>1. /\ where \div perFile \in Nat /\ perFile * (where \div perFile) <= where
  BY Division
<1>2. FileOf(where, perFile, files) \in {where \div perFile, 0}
  BY DEF FileOf
<1> DEFINE f == FileOf(where, perFile, files)
<1>3. f \in Nat /\ f * perFile <= where /\ (f < files \/ f = 0)
  BY <1>1, <1>2 DEF FileOf
<1> HIDE DEF f
<1>4. (f + 1) * perFile \in Nat \ {0} /\ (f + 3) * perFile \in Nat \ {0}
  BY <1>3
<1>5. QED
  BY <1>3, <1>4 DEF f

\* ConsumeQueue.recover keeps a prefix.
LEMMA RecoveredFacts ==
    ASSUME QueueTypeOK, NEW q \in Queues
    PROVE  RecoveredEntries(q) \in 0 .. Len(cq[q])
<1> DEFINE from == Greater(0, cqFiles[q] - 3) * CqPerFile + 1
           bad == { k \in from .. Len(cq[q]) : cq[q][k] = Zero }
<1>1. /\ Len(cq[q]) \in Nat /\ cqFiles[q] \in Nat /\ CqPerFile \in Nat
  BY QueueFacts, StoreAssumption
<1>2. from \in Nat \ {0}
  BY <1>1 DEF Greater
<1>3. CASE bad = {}
  BY <1>1, <1>3 DEF RecoveredEntries
<1>4. CASE bad # {}
  <2> DEFINE x == CHOOSE k \in bad : \A m \in bad : k <= m
  <2>1. bad \subseteq Nat
    BY <1>1, <1>2
  <2>2. x \in bad
    BY <1>4, <2>1, LeastExists
  <2>3. RecoveredEntries(q) = x - 1
    BY <1>4 DEF RecoveredEntries
  <2>4. x \in 1 .. Len(cq[q])
    BY <1>1, <1>2, <2>2
  <2> HIDE DEF x
  <2>5. QED
    BY <1>1, <2>3, <2>4
<1>5. QED
  BY <1>3, <1>4

\* What truncateDirtyLogicFiles keeps is a queue, and not empty.
LEMMA KeptFacts ==
    ASSUME QueueTypeOK, NEW q \in Queues, NEW n \in Int, NEW f \in Nat
    PROVE  /\ KeptEntries(q, f, n) \in Seq(Int)
           /\ Len(KeptEntries(q, f, n)) \in Nat \ {0}
<1> DEFINE base == f * CqPerFile
           bad == { k \in base + 2 .. Len(cq[q]) : cq[q][k] = Zero \/ Physical(cq[q][k]) > n }
           end == IF bad = {} THEN Lesser(Len(cq[q]), base + CqPerFile)
                  ELSE (CHOOSE k \in bad : \A m \in bad : k <= m) - 1
<1>1. Len(cq[q]) \in Nat /\ cq[q] \in Seq(Int) /\ CqPerFile \in Nat \ {0}
  BY QueueFacts, StoreAssumption
<1>2. base \in Nat
  BY <1>1
<1>3. end \in 0 .. Len(cq[q])
  <2>1. CASE bad = {}
    BY <1>1, <1>2, <2>1 DEF Lesser
  <2>2. CASE bad # {}
    <3> DEFINE x == CHOOSE k \in bad : \A m \in bad : k <= m
    <3>1. bad \subseteq Nat
      BY <1>1, <1>2
    <3>2. x \in bad
      BY <2>2, <3>1, LeastExists
    <3>3. end = x - 1
      BY <2>2
    <3>0. \A k \in bad : k \in 1 .. Len(cq[q])
      BY <1>1, <1>2
    <3> HIDE DEF x, end, bad
    <3>4. x \in 1 .. Len(cq[q])
      BY <3>0, <3>2
    <3>5. QED
      BY <1>1, <3>3, <3>4
  <2>3. QED
    BY <2>1, <2>2
<1>4. KeptEntries(q, f, n) =
        IF end <= base THEN Append(cq[q], Zero) ELSE SubSeq(cq[q], 1, Lesser(end, base + CqPerFile))
  BY DEF KeptEntries
<1> HIDE DEF end, base
<1>5. CASE end <= base
  BY <1>1, <1>4, <1>5 DEF Zero
<1>6. CASE ~(end <= base)
  <2>1. Lesser(end, base + CqPerFile) \in 1 .. Len(cq[q])
    BY <1>1, <1>2, <1>3, <1>6 DEF Lesser
  <2>2. QED
    BY <1>1, <1>4, <1>6, <2>1
<1>7. QED
  BY <1>5, <1>6

\* The types of the queues are kept by every step.
LEMMA QueueTypes ==
    ASSUME LogTypeOK, QueueTypeOK, Next
    PROVE  QueueTypeOK'
<1> USE DEF QueueTypeOK
<1>1. ASSUME NEW q \in Queues, putMessage(q) PROVE QueueTypeOK'
  BY <1>1 DEF putMessage, cqVars
<1>2. ASSUME DispatchSkip \/ DispatchFails PROVE QueueTypeOK'
  BY <1>2 DEF DispatchSkip, DispatchFails, cqVars, logVars
<1>3. ASSUME DispatchCreate PROVE QueueTypeOK'
  <2> DEFINE q == Request.queue
  <2>1. dispatch # <<>>
    BY <1>3 DEF DispatchCreate
  <2>2. q \in Queues /\ Request.at \in Nat
    BY <2>1, TakeRequest
  <2>3. UNCHANGED <<topicQueueTable, writeable, cqForced, cqWhere, cqPosition, maxPhysicOffset>>
        /\ created' = TRUE
    BY <1>3 DEF DispatchCreate, logVars
  <2>4. Request.at \div CqPerFile + 1 \in Nat
    <3>1. Request.at \div CqPerFile \in Nat
      BY <2>2, StoreAssumption, Division
    <3>2. QED
      BY <3>1
  <2>5. CASE cqFiles[q] = 0
    <3>1. /\ cqFiles' = [cqFiles EXCEPT ![q] = Request.at \div CqPerFile + 1]
          /\ cq' = [cq EXCEPT ![q] = [k \in 1 .. Request.at |-> Blank]]
          /\ CqFull(q)
      BY <1>3, <2>5 DEF DispatchCreate
    <3>2. [k \in 1 .. Request.at |-> Blank] \in Seq(Int)
      BY <2>2 DEF Blank
    <3>3. Len(cq[q]) = 0 /\ cqForced[q] = 0
      BY <2>2, <2>5, <3>1, QueueFacts, StoreAssumption DEF CqFull
    <3>4. Len([k \in 1 .. Request.at |-> Blank]) = Request.at
      BY <2>2, LenProperties, <3>2
    <3>5. QED
      BY <2>2, <2>3, <2>4, <3>1, <3>2, <3>3, <3>4, SMTT(30)
  <2>6. CASE cqFiles[q] # 0
    <3>1. cq' = cq /\ cqFiles' = [cqFiles EXCEPT ![q] = cqFiles[q] + 1]
      BY <1>3, <2>6 DEF DispatchCreate
    <3>2. cqFiles[q] + 1 \in Nat
      BY <2>2, QueueFacts
    <3> HIDE DEF q
    <3>3. QED
      BY <2>2, <2>3, <3>1, <3>2
  <2>7. QED
    BY <2>5, <2>6
<1>4. ASSUME DispatchAppend PROVE QueueTypeOK'
  <2> DEFINE q == Request.queue
  <2>1. dispatch # <<>>
    BY <1>4 DEF DispatchAppend
  <2>2. q \in Queues /\ Head(dispatch) \in Int
    BY <2>1, TakeRequest
  <2>3. /\ UNCHANGED <<topicQueueTable, writeable, cqForced, cqWhere, cqPosition, cqFiles>>
        /\ created' = FALSE
        /\ cq' = [cq EXCEPT ![q] = Append(cq[q], Head(dispatch))]
        /\ maxPhysicOffset' = [maxPhysicOffset EXCEPT ![q] = Head(dispatch)]
    BY <1>4 DEF DispatchAppend, logVars
  <2>4. Append(cq[q], Head(dispatch)) \in Seq(Int) /\ Len(Append(cq[q], Head(dispatch))) = Len(cq[q]) + 1
    BY <2>2
  <2> HIDE DEF q
  <2>5. cq' \in [Queues -> Seq(Int)] /\ maxPhysicOffset' \in [Queues -> Int]
    BY <2>2, <2>3, <2>4
  <2>6. ASSUME NEW p \in Queues PROVE cqForced'[p] <= Len(cq'[p])
    BY <2>2, <2>3, <2>4, QueueFacts
  <2>7. QED
    BY <2>3, <2>5, <2>6
<1>5. ASSUME FlushLog \/ CrashProcess \/ RecoverMessage \/ RecoverTruncate
             \/ FlushBegin \/ FlushSet \/ FlushWrite
      PROVE  QueueTypeOK'
  BY <1>5 DEF FlushLog, CrashProcess, RecoverMessage, RecoverTruncate, FlushBegin,
              FlushSet, FlushWrite, GoDown, cqVars, logVars, dispatchVars
<1>6. ASSUME NEW q \in Queues, FlushQueue(q) PROVE QueueTypeOK'
  <2> DEFINE f == FileOf(cqWhere[q], CqPerFile, cqFiles[q])
             end == Lesser(Len(cq[q]), (f + 1) * CqPerFile)
  <2>1. end \in 0 .. Len(cq[q])
    <3>1. (f + 1) * CqPerFile \in Nat
      BY QueueFacts, FileOfFacts, StoreAssumption
    <3>2. QED
      BY <3>1, QueueFacts DEF Lesser
  <2>2. /\ UNCHANGED <<topicQueueTable, created, writeable, cq, cqFiles, maxPhysicOffset>>
        /\ cqForced' = cqForced \/ cqForced' = [cqForced EXCEPT ![q] = Greater(cqForced[q], end)]
        /\ cqWhere' = [cqWhere EXCEPT ![q] = end]
        /\ cqPosition' = cqPosition \/ cqPosition' = [cqPosition EXCEPT ![q] = end]
    BY <1>6 DEF FlushQueue, logVars, dispatchVars
  <2> HIDE DEF end
  <2> DEFINE top == Greater(cqForced[q], end)
  <2>3. top \in Nat /\ top <= Len(cq[q]) /\ end \in Nat
    BY <2>1, QueueFacts DEF Greater
  <2>0. cqForced' = cqForced \/ cqForced' = [cqForced EXCEPT ![q] = top]
    BY <2>2
  <2> HIDE DEF top
  <2>4. /\ cqForced' \in [Queues -> Nat] /\ cqWhere' \in [Queues -> Nat]
        /\ cqPosition' \in [Queues -> Nat]
    BY <2>0, <2>2, <2>3
  <2>5. ASSUME NEW p \in Queues PROVE cqForced'[p] <= Len(cq'[p])
    BY <2>0, <2>2, <2>3
  <2>6. QED
    BY <2>2, <2>4, <2>5
<1>7. ASSUME Shutdown PROVE QueueTypeOK'
  <2> DEFINE end(q) == Lesser(Len(cq[q]), (FileOf(cqWhere[q], CqPerFile, cqFiles[q]) + 3) * CqPerFile)
  <2>1. ASSUME NEW q \in Queues PROVE Greater(cqForced[q], end(q)) \in 0 .. Len(cq[q])
    <3>1. (FileOf(cqWhere[q], CqPerFile, cqFiles[q]) + 3) * CqPerFile \in Nat
      BY QueueFacts, FileOfFacts, StoreAssumption
    <3>2. end(q) \in 0 .. Len(cq[q])
      BY <3>1, QueueFacts DEF Lesser
    <3> HIDE DEF end
    <3>3. QED
      BY <3>2, QueueFacts DEF Greater
  <2>2. /\ UNCHANGED <<topicQueueTable, cq, cqFiles, cqWhere, cqPosition, maxPhysicOffset>>
        /\ created' = FALSE /\ writeable' = TRUE
        /\ cqForced' = [q \in Queues |-> Greater(cqForced[q], end(q))]
    BY <1>7 DEF Shutdown, GoDown
  <2> HIDE DEF end
  <2>3. ASSUME NEW q \in Queues
        PROVE  Greater(cqForced[q], end(q)) \in Nat /\ Greater(cqForced[q], end(q)) <= Len(cq[q])
    BY <2>1, QueueFacts
  <2>4. cqForced' \in [Queues -> Nat] /\ \A q \in Queues : cqForced'[q] <= Len(cq[q])
    BY <2>2, <2>3
  <2>5. QED
    BY <2>2, <2>4
<1>8. ASSUME CrashMachine PROVE QueueTypeOK'
  <2>1. /\ UNCHANGED <<topicQueueTable, cqWhere, cqPosition, maxPhysicOffset>>
        /\ created' = FALSE /\ writeable' = TRUE
    BY <1>8 DEF CrashMachine, GoDown
  <2>2. PICK kept \in [Queues -> 0 .. MaxPuts] :
          /\ \A q \in Queues : kept[q] \in cqForced[q] .. Len(cq[q])
          /\ cq' = [q \in Queues |-> SubSeq(cq[q], 1, kept[q])]
          /\ cqForced' = kept
          /\ \E files \in [Queues -> 0 .. MaxPuts] : cqFiles' = files
    BY <1>8 DEF CrashMachine
  <2>3. ASSUME NEW q \in Queues
        PROVE  /\ SubSeq(cq[q], 1, kept[q]) \in Seq(Int)
               /\ Len(SubSeq(cq[q], 1, kept[q])) = kept[q]
               /\ kept[q] \in Nat
    BY <2>2, QueueFacts, SMTT(30)
  <2>4. cq' \in [Queues -> Seq(Int)] /\ cqForced' \in [Queues -> Nat]
    BY <2>2, <2>3
  <2>5. cqFiles' \in [Queues -> Nat]
    BY <2>2
  <2>6. \A q \in Queues : cqForced'[q] <= Len(cq'[q])
    BY <2>2, <2>3
  <2>7. QED
    BY <2>1, <2>4, <2>5, <2>6
<1>9. ASSUME Load PROVE /\ cq' \in [Queues -> Seq(Int)]
                        /\ cqFiles' \in [Queues -> Nat] /\ cqForced' \in [Queues -> Nat]
                        /\ cqWhere' \in [Queues -> Nat] /\ cqPosition' \in [Queues -> Nat]
                        /\ maxPhysicOffset' \in [Queues -> Int]
                        /\ \A q \in Queues : cqForced'[q] <= Len(cq'[q])
                        /\ created' \in BOOLEAN /\ writeable' \in BOOLEAN
  <2>1. ASSUME NEW q \in Queues
        PROVE  /\ SubSeq(cq[q], 1, RecoveredEntries(q)) \in Seq(Int)
               /\ Len(SubSeq(cq[q], 1, RecoveredEntries(q))) = RecoveredEntries(q)
               /\ RecoveredEntries(q) \in Nat
               /\ Lesser(cqFiles[q], RecoveredEntries(q) \div CqPerFile + 1) \in Nat
               /\ Lesser(cqForced[q], RecoveredEntries(q)) \in Nat
               /\ Lesser(cqForced[q], RecoveredEntries(q)) <= RecoveredEntries(q)
               /\ RecoveredEntries(q) # 0 => Physical(cq[q][RecoveredEntries(q)]) \in Int
    <3>1. RecoveredEntries(q) \in 0 .. Len(cq[q])
      BY RecoveredFacts
    <3> DEFINE n == RecoveredEntries(q)
    <3>2. n \in Nat /\ n <= Len(cq[q])
      BY <3>1, QueueFacts
    <3>3. n \div CqPerFile \in Nat
      BY <3>2, Division, StoreAssumption
    <3>4. n # 0 => cq[q][n] \in Int
      BY <3>2, QueueFacts
    <3> HIDE DEF n
    <3>5. Lesser(cqFiles[q], n \div CqPerFile + 1) \in Nat
      BY <3>3, QueueFacts DEF Lesser
    <3>6. Lesser(cqForced[q], n) \in Nat /\ Lesser(cqForced[q], n) <= n
      BY <3>2, QueueFacts DEF Lesser
    <3>7. SubSeq(cq[q], 1, n) \in Seq(Int) /\ Len(SubSeq(cq[q], 1, n)) = n
      BY <3>2, QueueFacts
    <3>8. n # 0 => Physical(cq[q][n]) \in Int
      BY <3>4 DEF Physical
    <3>9. QED
      BY <3>2, <3>5, <3>6, <3>7, <3>8 DEF n
  <2>2. ASSUME NEW q \in Queues
        PROVE  (LET n == RecoveredEntries(q)
                IN IF n = 0 THEN 0 ELSE Physical(cq[q][n])) \in Int
    BY <2>1
  <2>3. /\ cq' = [q \in Queues |-> SubSeq(cq[q], 1, RecoveredEntries(q))]
        /\ cqFiles' = [q \in Queues |->
                     Lesser(cqFiles[q], RecoveredEntries(q) \div CqPerFile + 1)]
        /\ cqForced' = [q \in Queues |-> Lesser(cqForced[q], RecoveredEntries(q))]
        /\ cqWhere' = [q \in Queues |-> 0]
        /\ cqPosition' = [q \in Queues |-> RecoveredEntries(q)]
        /\ maxPhysicOffset' = [q \in Queues |->
                             LET n == RecoveredEntries(q)
                             IN IF n = 0 THEN 0 ELSE Physical(cq[q][n])]
        /\ UNCHANGED <<created, writeable>>
    BY <1>9 DEF Load, dispatchVars
  <2>4. QED
    BY <2>1, <2>2, <2>3
<1>10. ASSUME LoadNormally PROVE QueueTypeOK'
  <2>1. Load /\ topicQueueTable' = [q \in Queues |-> RecoveredEntries(q)]
    BY <1>10 DEF LoadNormally, Start
  <2>2. ASSUME NEW q \in Queues PROVE RecoveredEntries(q) \in Nat
    BY RecoveredFacts, QueueFacts
  <2>3. QED
    BY <1>9, <2>1, <2>2
<1>11. ASSUME LoadAbnormally PROVE QueueTypeOK'
  BY <1>9, <1>11 DEF LoadAbnormally, logVars
<1>12. ASSUME NEW q \in Queues, TruncateBegin(q) PROVE QueueTypeOK'
  <2>1. recovery.pos - 1 \in Int
    BY DEF LogTypeOK
  <2>2. QED
    BY <1>12, <2>1 DEF TruncateBegin, logVars, dispatchVars
<1>13. ASSUME TruncateQueue PROVE QueueTypeOK'
  <2> DEFINE q == recovery.queue
             n == recovery.pos - 1
             files == KeptFiles(q, n)
             last == CHOOSE f \in files : \A g \in files : g <= f
             kept == IF files = {} THEN <<>> ELSE KeptEntries(q, last, n)
  <2>1. q \in Queues /\ n \in Int
    BY <1>13 DEF TruncateQueue, LogTypeOK
  <2>2. files # {} => last \in Nat
    <3>1. \A f \in files : f \in Nat /\ f <= cqFiles[q]
      BY <2>1, QueueFacts DEF KeptFiles
    <3>2. files \subseteq 0 .. cqFiles[q]
      BY <2>1, <3>1, QueueFacts
    <3> HIDE DEF files
    <3>3. ASSUME files # {} PROVE last \in files
      BY <2>1, <3>2, <3>3, QueueFacts, GreatestExists
    <3>4. QED
      BY <3>1, <3>3
  <2>3. /\ kept \in Seq(Int) /\ Len(kept) \in Nat
        /\ files # {} => Physical(kept[Len(kept)]) \in Int
    <3> HIDE DEF q, n, files, last
    <3>1. CASE files = {}
      BY <3>1
    <3>2. CASE files # {}
      <4>1. kept \in Seq(Int) /\ Len(kept) \in Nat \ {0}
        BY <2>1, <2>2, <3>2, KeptFacts
      <4> HIDE DEF kept
      <4>2. kept[Len(kept)] \in Int
        BY <4>1
      <4>3. QED
        BY <4>1, <4>2 DEF Physical
    <3>3. QED
      BY <3>1, <3>2
  <2>4. /\ UNCHANGED <<topicQueueTable, created, writeable, cqWhere>>
        /\ cq' = [cq EXCEPT ![q] = kept]
        /\ cqFiles' = [cqFiles EXCEPT ![q] = IF files = {} THEN 0 ELSE last + 1]
        /\ cqForced' = [cqForced EXCEPT ![q] = Lesser(cqForced[q], Len(kept))]
        /\ cqPosition' = [cqPosition EXCEPT ![q] = Len(kept)]
        /\ maxPhysicOffset' = IF files = {} THEN maxPhysicOffset
                          ELSE [maxPhysicOffset EXCEPT ![q] = Physical(kept[Len(kept)])]
    BY <1>13 DEF TruncateQueue, logVars, dispatchVars
  <2> HIDE DEF q, n, files, last, kept
  <2>5. Lesser(cqForced[q], Len(kept)) \in Nat /\ Lesser(cqForced[q], Len(kept)) <= Len(kept)
    BY <2>1, <2>3, QueueFacts DEF Lesser
  <2>6. /\ cq' \in [Queues -> Seq(Int)] /\ cqFiles' \in [Queues -> Nat]
        /\ cqForced' \in [Queues -> Nat] /\ cqPosition' \in [Queues -> Nat]
        /\ \A p \in Queues : cqForced'[p] <= Len(cq'[p])
    BY <2>1, <2>2, <2>3, <2>4, <2>5
  <2>7. maxPhysicOffset' \in [Queues -> Int]
    BY <2>1, <2>3, <2>4
  <2>8. QED
    BY <2>4, <2>6, <2>7
<1>14. ASSUME RecoverEnd PROVE QueueTypeOK'
  <2>1. /\ UNCHANGED <<created, writeable, cqVars>>
        /\ topicQueueTable' = [q \in Queues |-> Len(cq[q])]
    BY <1>14 DEF RecoverEnd, Start, dispatchVars
  <2>2. QED
    BY <2>1, QueueFacts DEF cqVars
<1>15. QED
  BY <1>1, <1>2, <1>3, <1>4, <1>5, <1>6, <1>7, <1>8, <1>10, <1>11, <1>12, <1>13, <1>14
     DEF Next, Dispatch, FlushQueues, Recover

-----------------------------------------------------------------------------
(* What was reported as flushed survives.                                  *)

\* What has happened so far is not forgotten.
LEMMA HistoryKept ==
    ASSUME HistoryInv, [Next]_vars
    PROVE  HistoryInv' /\ exits \subseteq exits' /\ gaps \subseteq gaps'
<1> USE DEF HistoryInv, Gaps, Lapses, Disorders, Since, histVars, dispatchVars, vars
<1>1. CASE \E q \in Queues : putMessage(q)
  BY <1>1 DEF putMessage
<1>2. CASE Dispatch
  BY <1>2 DEF Dispatch, DispatchSkip, DispatchCreate, DispatchAppend, DispatchFails, InWindow
<1>3. CASE FlushLog \/ FlushQueues
  BY <1>3 DEF FlushLog, FlushQueues, FlushBegin, FlushQueue, FlushSet, FlushWrite
<1>4. CASE Shutdown
  BY <1>4 DEF Shutdown, GoDown
<1>5. CASE CrashProcess
  BY <1>5 DEF CrashProcess, GoDown
<1>6. CASE CrashMachine
  BY <1>6 DEF CrashMachine, GoDown
<1>7. CASE Recover
  BY <1>7 DEF Recover, LoadNormally, LoadAbnormally, Load, RecoverMessage, RecoverTruncate,
              TruncateBegin, TruncateQueue, RecoverEnd
<1>8. QED
  BY <1>1, <1>2, <1>3, <1>4, <1>5, <1>6, <1>7 DEF Next

\* A store that was just created.
LEMMA InitSurvives == Init => SurvivesInv
<1> SUFFICES ASSUME Init PROVE SurvivesInv
  OBVIOUS
<1>1. Len(log) = 0 /\ DOMAIN log = {} /\ Len(dispatch) = 0 /\ DOMAIN dispatch = {}
  BY DEF Init
<1>2. LogTypeOK
  BY <1>1, StoreAssumption DEF Init, LogTypeOK, Idle, NoRecovery
<1>5. QueueTypeOK
  <2>1. <<>> \in Seq(Int) /\ Len(<<>>) = 0
    OBVIOUS
  <2>2. cq \in [Queues -> Seq(Int)] /\ \A q \in Queues : cqForced[q] <= Len(cq[q])
    BY <2>1 DEF Init
  <2>3. /\ cqFiles \in [Queues -> Nat] /\ cqForced \in [Queues -> Nat]
        /\ cqWhere \in [Queues -> Nat] /\ cqPosition \in [Queues -> Nat]
        /\ maxPhysicOffset \in [Queues -> Int] /\ topicQueueTable \in [Queues -> Nat]
    BY DEF Init
  <2>4. created \in BOOLEAN /\ writeable \in BOOLEAN
    BY DEF Init
  <2>5. QED
    BY <2>2, <2>3, <2>4 DEF QueueTypeOK
<1>3. StampInv /\ HoleInv /\ KeptInv /\ ForcedInv /\ FreshInv
  BY <1>1 DEF Init, StampInv, HoleInv, KeptInv, ForcedInv, FreshInv, Whole, NoRecovery
<1>4. QED
  BY <1>2, <1>3, <1>5 DEF SurvivesInv

\* What going down means for the types.
LEMMA DownTypes ==
    ASSUME LogTypeOK, dispatch' = <<>>, flush' = Idle, recovery' = NoRecovery,
           phase' = "down", restarts' = restarts + 1, restarts < MaxRestarts, puts' = puts
    PROVE  /\ dispatch' \in Seq(Nat) /\ DOMAIN dispatch' = {}
           /\ flush' \in [pc : {"idle", "queues", "write"}, ts : 0 .. puts',
                           left : SUBSET Queues, late : Nat]
           /\ recovery' \in [pos : Nat, left : SUBSET Queues, queue : Queues \cup {NoQueue}]
           /\ phase' \in {"running", "down", "scan", "truncate"}
           /\ restarts' \in 0 .. MaxRestarts
<1>1. dispatch' \in Seq(Nat) /\ DOMAIN dispatch' = {}
  OBVIOUS
<1>2. restarts' \in 0 .. MaxRestarts /\ 0 \in 0 .. puts
  BY StoreAssumption DEF LogTypeOK
<1>3. QED
  BY <1>1, <1>2 DEF Idle, NoRecovery

\* Steps that leave the log alone, and at most copy a timestamp of it.
LEMMA QuietLog ==
    ASSUME SurvivesInv, LogTypeOK', QueueTypeOK',
           UNCHANGED <<log, logForced, committedWhere, started, phase, abort,
                       puts, restarts, reported, exits>>,
           physicMsgTimestamp' \in {physicMsgTimestamp, checkpoint.physic},
           checkpoint'.physic \in {physicMsgTimestamp, checkpoint.physic},
           recovery'.pos = recovery.pos,
           phase # "truncate" => recovery' = recovery,
           phase # "running" => flush' = Idle,
           phase = "down" => dispatch' = dispatch,
           \A k \in DOMAIN dispatch' : \E m \in DOMAIN dispatch : dispatch'[k] = dispatch[m]
    PROVE  SurvivesInv'
<1> USE DEF SurvivesInv
<1>1. \A i : Whole(i)' <=> Whole(i)
  BY DEF Whole
<1>2. StampInv'
  BY DEF StampInv
<1>3. HoleInv'
  BY <1>1 DEF HoleInv
<1>4. KeptInv'
  BY <1>1 DEF KeptInv
<1>5. ForcedInv'
  BY DEF ForcedInv, Exposed
<1>6. FreshInv'
  BY DEF FreshInv
<1>7. QED
  BY <1>2, <1>3, <1>4, <1>5, <1>6

\* The dispatch thread leaves the log and what of it is forced alone.
LEMMA DispatchSurvives ==
    ASSUME SurvivesInv, QueueTypeOK', Dispatch
    PROVE  SurvivesInv'
<1> USE DEF SurvivesInv
<1>1. dispatch # <<>>
  BY DEF Dispatch, DispatchSkip, DispatchCreate, DispatchAppend, DispatchFails
<1>2. dispatch' = dispatch \/ dispatch' = Tail(dispatch)
  BY DEF Dispatch, DispatchSkip, DispatchCreate, DispatchAppend, DispatchFails, dispatchVars
<1>3. /\ UNCHANGED <<log, logForced, committedWhere, started, phase, abort,
                       puts, restarts, reported, exits, physicMsgTimestamp, checkpoint, recovery>>
      /\ logicsMsgTimestamp' = Request.ts \/ logicsMsgTimestamp' = logicsMsgTimestamp
      /\ InWindow \/ flush' = flush
  BY DEF Dispatch, DispatchSkip, DispatchCreate, DispatchAppend, DispatchFails,
         logVars, runVars, pointVars, histVars, InWindow
<1>4. Request.ts \in 0 .. puts
  <2>1. Head(dispatch) \in 1 .. Len(log)
    BY <1>1, TakeRequest
  <2>2. CASE log[Head(dispatch)] = Hole
    BY <2>2 DEF Hole, Request, LogTypeOK
  <2>3. CASE log[Head(dispatch)] # Hole
    BY <2>1, <2>3, LogFacts, SMTT(30) DEF StampInv, Request, LogTypeOK
  <2>4. QED
    BY <2>2, <2>3
<1>5. /\ flush' \in [pc : {"idle", "queues", "write"}, ts : 0 .. puts,
                     left : SUBSET Queues, late : Nat]
      /\ phase # "running" => flush' = Idle
  <2>1. flush \in [pc : {"idle", "queues", "write"}, ts : 0 .. puts,
                   left : SUBSET Queues, late : Nat]
    BY DEF LogTypeOK
  <2>2. flush' = flush \/ flush' = [flush EXCEPT !.late = flush.late + 1]
    BY <1>3 DEF InWindow
  <2>3. flush' \in [pc : {"idle", "queues", "write"}, ts : 0 .. puts,
                    left : SUBSET Queues, late : Nat]
    BY <2>1, <2>2
  <2>4. phase # "running" => flush.pc = "idle" /\ flush = Idle
    BY DEF HoleInv, Idle
  <2>5. QED
    BY <1>3, <2>3, <2>4 DEF InWindow
<1>6. LogTypeOK'
  BY <1>1, <1>2, <1>3, <1>4, <1>5, TakeRequest DEF LogTypeOK
<1>7. QED
  <2>1. \A k \in DOMAIN dispatch' : \E m \in DOMAIN dispatch : dispatch'[k] = dispatch[m]
    <3>1. CASE dispatch' = dispatch
      BY <3>1
    <3>2. CASE dispatch' = Tail(dispatch)
      <4>1. dispatch \in Seq(Nat) /\ DOMAIN dispatch = 1 .. Len(dispatch)
            /\ DOMAIN Tail(dispatch) = 1 .. Len(dispatch) - 1
        BY <1>1, TakeRequest DEF LogTypeOK
      <4>2. \A k \in DOMAIN Tail(dispatch) :
              k + 1 \in DOMAIN dispatch /\ Tail(dispatch)[k] = dispatch[k + 1]
        BY <1>1, <4>1, TakeRequest
      <4>3. QED
        BY <3>2, <4>2
    <3>3. QED
      BY <1>2, <3>1, <3>2
  <2>2. phase # "down"
    BY DEF Dispatch, DispatchSkip, DispatchCreate, DispatchAppend, DispatchFails
  <2>3. QED
    BY <1>3, <1>5, <1>6, <2>1, <2>2, QuietLog

\* A round of doFlush writes timestamps that were there before.
LEMMA FlushQueuesSurvives ==
    ASSUME SurvivesInv, QueueTypeOK', FlushQueues
    PROVE  SurvivesInv'
<1> USE DEF SurvivesInv
<1>1. /\ UNCHANGED <<log, logForced, committedWhere, started, phase, abort, dispatch,
                       puts, restarts, reported, exits, physicMsgTimestamp, recovery>>
      /\ logicsMsgTimestamp' = flush.ts \/ logicsMsgTimestamp' = logicsMsgTimestamp
      /\ \/ checkpoint' = checkpoint
         \/ checkpoint' = [physic |-> physicMsgTimestamp, logics |-> logicsMsgTimestamp]
  BY DEF FlushQueues, FlushBegin, FlushQueue, FlushSet, FlushWrite, dispatchVars,
         logVars, runVars, pointVars, histVars
<1>2. phase = "running" \/ flush.pc # "idle"
  BY DEF FlushQueues, FlushBegin, FlushQueue, FlushSet, FlushWrite
<1>3. phase = "running"
  BY <1>2 DEF HoleInv, Idle
<1>4. flush' \in [pc : {"idle", "queues", "write"}, ts : 0 .. puts,
                  left : SUBSET Queues, late : Nat]
  <2>1. flush \in [pc : {"idle", "queues", "write"}, ts : 0 .. puts,
                   left : SUBSET Queues, late : Nat]
    BY DEF LogTypeOK
  <2>2. \/ flush' = [pc |-> "queues", ts |-> logicsMsgTimestamp, left |-> Queues, late |-> 0]
        \/ \E q \in Queues : flush' = [flush EXCEPT !.left = flush.left \ {q}]
        \/ flush' = [flush EXCEPT !.pc = "write"]
        \/ flush' = Idle
    BY DEF FlushQueues, FlushBegin, FlushQueue, FlushSet, FlushWrite
  <2>3. 0 \in 0 .. puts /\ logicsMsgTimestamp \in 0 .. puts
    BY DEF LogTypeOK
  <2>4. \A q \in Queues : flush.left \ {q} \in SUBSET Queues
    BY <2>1
  <2>5. QED
    BY <2>1, <2>2, <2>3, <2>4 DEF Idle
<1>5. LogTypeOK'
  BY <1>1, <1>4, SMTT(30) DEF LogTypeOK
<1>6. QED
  BY <1>1, <1>3, <1>5, QuietLog

\* A message is put: the log as it was, and one more.
LEMMA PutLog ==
    ASSUME LogTypeOK, NEW q \in Queues, putMessage(q)
    PROVE  /\ Len(log') = Len(log) + 1 /\ DOMAIN log' = 1 .. Len(log) + 1
           /\ \A i \in 1 .. Len(log) : log'[i] = log[i]
           /\ log'[Len(log) + 1] = [queue |-> q, at |-> topicQueueTable[q], ts |-> puts + 1]
           /\ log'[Len(log) + 1] # Hole
           /\ puts' = puts + 1 /\ puts < MaxPuts /\ phase = "running"
<1>1. log' = Append(log, [queue |-> q, at |-> topicQueueTable[q], ts |-> puts + 1])
  BY DEF putMessage
<1>2. [queue |-> q, at |-> topicQueueTable[q], ts |-> puts + 1] # Hole
  BY StoreAssumption DEF Hole
<1>3. log \in Seq(Message \cup {Hole})
  BY DEF LogTypeOK
<1>4. QED
  BY <1>1, <1>2, <1>3 DEF putMessage

\* A new message has no hole before it and is younger than every timestamp.
LEMMA PutSurvives ==
    ASSUME SurvivesInv, QueueTypeOK', NEW q \in Queues, putMessage(q)
    PROVE  SurvivesInv'
<1> USE DEF SurvivesInv
<1> DEFINE m == [queue |-> q, at |-> topicQueueTable[q], ts |-> puts + 1]
<1>1. topicQueueTable[q] \in Nat
  BY DEF QueueTypeOK
<1>2. /\ Len(log') = Len(log) + 1 /\ DOMAIN log' = 1 .. Len(log) + 1
      /\ \A i \in 1 .. Len(log) : log'[i] = log[i]
      /\ log'[Len(log) + 1] = m /\ log'[Len(log) + 1] # Hole
      /\ puts' = puts + 1 /\ puts < MaxPuts /\ phase = "running"
  BY PutLog
<1>3. /\ UNCHANGED <<logForced, committedWhere, started, physicMsgTimestamp,
                     logicsMsgTimestamp, checkpoint, flush, phase, abort, recovery,
                     restarts, reported, exits>>
      /\ log' = Append(log, m) /\ dispatch' = Append(dispatch, Len(log) + 1)
  BY DEF putMessage, pointVars, histVars
<1>4. m \in Message /\ m.ts = puts + 1 /\ puts \in Nat /\ MaxPuts \in Nat
  BY <1>1, StoreAssumption DEF Message, LogTypeOK
<1> HIDE DEF m
<1>5. Len(log) \in Nat /\ DOMAIN log = 1 .. Len(log) /\ Whole(Len(log)) /\ Whole(Len(log))'
  BY <1>2, LogFacts DEF HoleInv, Whole
<1>6. \A i \in 0 .. Len(log) : Whole(i)' <=> Whole(i)
  BY <1>2, <1>5 DEF Whole
<1>7. LogTypeOK'
  <2>1. log' \in Seq(Message \cup {Hole}) /\ logForced' \subseteq DOMAIN log'
    BY <1>2, <1>3, <1>4, <1>5, SMTT(30) DEF LogTypeOK
  <2>2. dispatch \in Seq(Nat) /\ \A k \in DOMAIN dispatch :
                dispatch[k] \in 1 .. Len(log) /\ log[dispatch[k]] # Hole
    BY <1>5 DEF LogTypeOK
  <2>3. dispatch' \in Seq(Nat) /\ \A k \in DOMAIN dispatch' :
                dispatch'[k] \in DOMAIN log' /\ log'[dispatch'[k]] # Hole
    BY <1>2, <1>3, <1>5, <2>2
  <2>4. puts' \in 0 .. MaxPuts /\ 0 .. puts \subseteq 0 .. puts'
    BY <1>2, <1>4 DEF LogTypeOK
  <2>5. /\ physicMsgTimestamp' \in 0 .. puts' /\ logicsMsgTimestamp' \in 0 .. puts'
        /\ checkpoint' \in [physic : 0 .. puts', logics : 0 .. puts']
        /\ flush' \in [pc : {"idle", "queues", "write"}, ts : 0 .. puts',
                  left : SUBSET Queues, late : Nat]
    BY <1>3, <2>4 DEF LogTypeOK
  <2>6. QED
    BY <1>3, <2>1, <2>3, <2>4, <2>5 DEF LogTypeOK
<1>8. StampInv'
  <2>1. \A i \in 1 .. Len(log) : log[i] # Hole => log[i].ts \in 1 .. puts
    BY <1>5 DEF StampInv
  <2>2. started \in Nat
    BY DEF LogTypeOK
  <2>3. \A i \in DOMAIN log' : log'[i] # Hole => log'[i].ts \in 1 .. puts'
    BY <1>2, <1>4, <1>5, <2>1
  <2>4. \A i, j \in DOMAIN log' :
          i < j /\ log'[i] # Hole /\ log'[j] # Hole => log'[i].ts < log'[j].ts
    <3> SUFFICES ASSUME NEW i \in 1 .. Len(log) + 1, NEW j \in 1 .. Len(log) + 1,
                        i < j, log'[i] # Hole, log'[j] # Hole
                 PROVE  log'[i].ts < log'[j].ts
      BY <1>2
    <3>1. i \in 1 .. Len(log) /\ log'[i] = log[i] /\ log[i].ts \in 1 .. puts
      BY <1>2, <1>5, <2>1
    <3>2. CASE j = Len(log) + 1
      BY <1>2, <1>4, <3>1, <3>2
    <3>3. CASE j \in 1 .. Len(log)
      BY <1>2, <1>5, <3>1, <3>3 DEF StampInv
    <3>4. QED
      BY <1>5, <3>2, <3>3
  <2>5. \A i \in started + 1 .. Len(log') : log'[i].ts = puts' - Len(log') + i
    <3> SUFFICES ASSUME NEW i \in started + 1 .. Len(log) + 1
                 PROVE  log'[i].ts = puts - Len(log) + i
      BY <1>2, <1>4, <1>5, <2>2
    <3>1. CASE i = Len(log) + 1
      BY <1>2, <1>4, <1>5, <3>1
    <3>2. CASE i \in started + 1 .. Len(log)
      BY <1>2, <2>2, <3>2 DEF StampInv
    <3>3. QED
      BY <1>5, <2>2, <3>1, <3>2
  <2>6. QED
    <3>1. Len(log') <= puts'
      BY <1>2, <1>4, <1>5 DEF StampInv
    <3>2. QED
      BY <1>2, <1>3, <2>3, <2>4, <2>5, <3>1 DEF StampInv
<1>9. HoleInv'
  BY <1>2, <1>3, <1>5 DEF HoleInv, LogTypeOK
<1>10. \A i \in DOMAIN log' : log'[i].ts <= physicMsgTimestamp \/ log'[i].ts <= checkpoint.physic
          => i \in 1 .. Len(log)
  <2>1. physicMsgTimestamp \in 0 .. puts /\ checkpoint.physic \in 0 .. puts
    BY DEF LogTypeOK
  <2>2. ~(m.ts <= physicMsgTimestamp) /\ ~(m.ts <= checkpoint.physic)
    BY <1>4, <2>1
  <2>3. QED
    BY <1>2, <1>5, <2>2
<1>11. KeptInv'
  <2>1. \A i \in reported : i \in 1 .. Len(log)
    <3>1. \A i \in reported : i \in Nat \ {0} /\ i <= Len(log)
      BY DEF KeptInv, LogTypeOK
    <3>2. QED
      BY <1>5, <3>1
  <2>2. QED
  BY <1>2, <1>3, <1>5, <1>6, <1>10, <2>1 DEF KeptInv
<1>12. ForcedInv'
  BY <1>2, <1>3, <1>5, <1>10 DEF ForcedInv, Exposed
<1>13. FreshInv'
  <2>1. started \in Nat
    BY DEF LogTypeOK
  <2>2. QED
    BY <1>2, <1>3, <1>5, <1>10, <2>1 DEF FreshInv
<1>14. QED
  BY <1>7, <1>8, <1>9, <1>11, <1>12, <1>13

\* The file of the log that a commit forces, and where it ends.
LEMMA LogFileFacts ==
    ASSUME LogTypeOK, log # <<>>
    PROVE  LET f == FileOf(committedWhere, LogPerFile, LogFiles)
               end == Lesser(Len(log), (f + 1) * LogPerFile)
           IN  /\ end \in 1 .. Len(log)
               /\ LogFile(f) \subseteq 1 .. end
               /\ \A i \in 1 .. end : i <= committedWhere \/ i \in LogFile(f)
<1> DEFINE f == FileOf(committedWhere, LogPerFile, LogFiles)
           end == Lesser(Len(log), (f + 1) * LogPerFile)
<1>1. Len(log) \in Nat \ {0} /\ DOMAIN log = 1 .. Len(log) /\ committedWhere \in Nat
  BY EmptySeq DEF LogTypeOK
<1>2. LogPerFile \in Nat \ {0}
  BY StoreAssumption
<1>3. /\ LogFiles \in Nat /\ LogPerFile * LogFiles <= Len(log) + LogPerFile - 1
      /\ Len(log) + LogPerFile - 1 < LogPerFile * LogFiles + LogPerFile
  <2>1. Len(log) + LogPerFile - 1 \in Nat
    BY <1>1, <1>2
  <2>2. QED
    BY <1>2, <2>1, Division DEF LogFiles
<1>4. LogFiles # 0
  BY <1>1, <1>2, <1>3
<1>5. f \in Nat /\ f < LogFiles /\ f * LogPerFile <= committedWhere
  <2>1. f \in Nat /\ (f < LogFiles \/ f = 0) /\ f * LogPerFile <= committedWhere
    BY <1>1, <1>2, <1>3, FileOfFacts
  <2> HIDE DEF f
  <2>2. f < LogFiles
    BY <1>3, <1>4, <2>1
  <2>3. QED
    BY <2>1, <2>2
<1> HIDE DEF f
<1>6. f * LogPerFile < Len(log) /\ f * LogPerFile \in Nat
  <2>1. LogFiles - 1 \in Nat /\ f <= LogFiles - 1
    BY <1>3, <1>4, <1>5
  <2>2. LogPerFile * f <= LogPerFile * (LogFiles - 1)
    BY <1>2, <1>5, <2>1
  <2>3. QED
    BY <1>1, <1>2, <1>3, <1>5, <2>2
<1>7. end \in 1 .. Len(log) /\ end <= (f + 1) * LogPerFile /\ (f + 1) * LogPerFile \in Nat
  BY <1>1, <1>2, <1>5, <1>6 DEF Lesser
<1>8. LogFile(f) \subseteq 1 .. end
  <2> SUFFICES ASSUME NEW i \in 1 .. Len(log), (i - 1) \div LogPerFile = f
               PROVE  i <= end
    BY <1>1, <1>7 DEF LogFile
  <2>0. i - 1 \in Nat
    BY <1>1
  <2>1. i - 1 \in Nat /\ i - 1 < LogPerFile * f + LogPerFile
    BY <1>2, <2>0, Division
  <2>2. i <= (f + 1) * LogPerFile
    BY <1>2, <1>5, <2>1
  <2>3. QED
    BY <1>1, <1>7, <2>2 DEF Lesser
<1>9. ASSUME NEW i \in 1 .. end, ~(i <= committedWhere) PROVE i \in LogFile(f)
  <2>1. i \in 1 .. Len(log) /\ i - 1 \in Nat /\ f * LogPerFile <= i - 1
        /\ i - 1 < (f + 1) * LogPerFile
    BY <1>1, <1>5, <1>6, <1>7, <1>9
  <2>2. (i - 1) \div LogPerFile = f
    BY <1>2, <1>5, <2>1, Quotient
  <2>3. QED
    BY <1>1, <2>1, <2>2 DEF LogFile
<1>10. QED
  BY <1>7, <1>8, <1>9 DEF f

\* A commit of the log forces all up to the position it reports.
LEMMA FlushLogSurvives ==
    ASSUME SurvivesInv, QueueTypeOK', FlushLog
    PROVE  SurvivesInv'
<1> USE DEF SurvivesInv
<1> DEFINE f == FileOf(committedWhere, LogPerFile, LogFiles)
           end == Lesser(Len(log), (f + 1) * LogPerFile)
<1>1. /\ end \in 1 .. Len(log) /\ LogFile(f) \subseteq 1 .. end
      /\ \A i \in 1 .. end : i <= committedWhere \/ i \in LogFile(f)
  BY LogFileFacts DEF FlushLog
<1>2. /\ phase = "running"
      /\ logForced' = logForced \cup LogFile(f) /\ committedWhere' = end
      /\ reported' = reported \cup started + 1 .. end
      /\ UNCHANGED <<log, started, dispatch, logicsMsgTimestamp, checkpoint, flush,
                     phase, abort, recovery, puts, restarts, exits>>
  BY DEF FlushLog, dispatchVars, histVars
<1>14. \/ physicMsgTimestamp' = physicMsgTimestamp
       \/ physicMsgTimestamp' = log[end].ts
  <2>1. physicMsgTimestamp' = IF StoreTimestamp(f) > 0 THEN StoreTimestamp(f)
                              ELSE physicMsgTimestamp
    BY DEF FlushLog
  <2>2. StoreTimestamp(f) = IF end > started THEN log[end].ts ELSE 0
    BY DEF StoreTimestamp
  <2> HIDE DEF f, end
  <2>3. QED
    BY <2>1, <2>2
<1> HIDE DEF f, end
<1>3. Len(log) \in Nat /\ DOMAIN log = 1 .. Len(log) /\ started \in Nat /\ committedWhere \in Nat
  BY LogFacts DEF LogTypeOK
<1>4. Whole(Len(log)) /\ Whole(Len(log))' /\ \A i \in 1 .. Len(log) : log[i] # Hole /\ Whole(i)'
  BY <1>2, <1>3 DEF HoleInv, Whole
<1>5. log[end].ts \in 0 .. puts
  <2>1. end \in DOMAIN log /\ log[end] # Hole /\ puts \in Nat
    BY <1>1, <1>3, <1>4 DEF LogTypeOK
  <2>2. log[end].ts \in 1 .. puts
    BY <2>1 DEF StampInv
  <2>3. QED
    BY <2>1, <2>2
<1>6. LogTypeOK'
  <2>1. physicMsgTimestamp' \in 0 .. puts
    BY <1>2, <1>5, <1>14 DEF LogTypeOK
  <2>2. logForced' \subseteq DOMAIN log' /\ reported' \subseteq Nat \ {0} /\ committedWhere' \in Nat
    BY <1>1, <1>2, <1>3 DEF LogTypeOK
  <2>3. QED
    BY <1>2, <2>1, <2>2 DEF LogTypeOK
<1>7. StampInv'
  BY <1>2 DEF StampInv
<1>8. HoleInv'
  BY <1>1, <1>2, <1>3, <1>4 DEF HoleInv
<1>9. KeptInv'
  <2>1. \A i \in reported' : i \in 1 .. Len(log)
    <3>1. \A i \in reported : i \in Nat \ {0} /\ i <= Len(log)
      BY DEF KeptInv, LogTypeOK
    <3>2. QED
      BY <1>1, <1>2, <1>3, <3>1
  <2>2. QED
    BY <1>2, <1>3, <1>4, <2>1 DEF KeptInv
<1>10. ASSUME NEW i \in 1 .. Len(log), log[i].ts <= log[end].ts PROVE i <= end
  BY <1>1, <1>3, <1>4, <1>5, <1>10, LogFacts, SMTT(30) DEF StampInv
<1>11. ForcedInv'
  <2> SUFFICES ASSUME Exposed
               PROVE  /\ 1 .. end \subseteq logForced'
                      /\ \A i \in reported' : 1 .. i \subseteq logForced'
                      /\ \A i \in DOMAIN log :
                            log[i].ts <= physicMsgTimestamp' \/ log[i].ts <= checkpoint.physic
                            => 1 .. i \subseteq logForced'
    BY <1>2 DEF ForcedInv, Exposed
  <2>1. 1 .. end \subseteq logForced'
    BY <1>1, <1>2, <1>3 DEF ForcedInv
  <2>2. \A i \in reported' : 1 .. i \subseteq logForced'
    <3>1. \A i \in reported : 1 .. i \subseteq logForced'
      BY <1>2 DEF ForcedInv
    <3>2. \A i \in started + 1 .. end : 1 .. i \subseteq logForced'
      BY <1>1, <1>3, <2>1
    <3>3. QED
      BY <1>2, <3>1, <3>2
  <2>3. ASSUME NEW i \in 1 .. Len(log),
               log[i].ts <= physicMsgTimestamp' \/ log[i].ts <= checkpoint.physic
        PROVE  1 .. i \subseteq logForced'
    <3>1. CASE log[i].ts <= physicMsgTimestamp \/ log[i].ts <= checkpoint.physic
      BY <1>2, <1>3, <1>4, <3>1 DEF ForcedInv
    <3>2. CASE log[i].ts <= log[end].ts
      BY <1>1, <1>10, <2>1, <3>2
    <3>3. QED
      BY <1>2, <1>14, <2>3, <3>1, <3>2
  <2>4. QED
    BY <1>3, <2>1, <2>2, <2>3
<1>12. FreshInv'
  <2>1. started + 1 .. end \subseteq logForced'
    <3> SUFFICES ASSUME NEW i \in started + 1 .. end PROVE i \in logForced'
      OBVIOUS
    <3>1. i \in 1 .. end
      BY <1>1, <1>3
    <3>2. CASE i <= committedWhere
      BY <1>2, <1>3, <3>1, <3>2 DEF FreshInv
    <3>3. CASE i \in LogFile(f)
      BY <1>2, <3>3
    <3>4. QED
      BY <1>1, <3>1, <3>2, <3>3
  <2>2. ASSUME NEW i \in started + 1 .. Len(log),
               log[i].ts <= physicMsgTimestamp' \/ log[i].ts <= checkpoint.physic
        PROVE  i \in logForced'
    <3>1. CASE log[i].ts <= physicMsgTimestamp \/ log[i].ts <= checkpoint.physic
      BY <1>2, <1>3, <1>4, <3>1 DEF FreshInv
    <3>2. CASE log[i].ts <= log[end].ts
      BY <1>1, <1>3, <1>10, <2>1, <3>2
    <3>3. QED
      BY <1>2, <1>14, <2>2, <3>1, <3>2
  <2>3. QED
    BY <1>2, <2>1, <2>2 DEF FreshInv
<1>13. QED
  BY <1>6, <1>7, <1>8, <1>9, <1>11, <1>12

\* A shutdown reports no more than its commits have forced.
LEMMA ShutdownSurvives ==
    ASSUME SurvivesInv, QueueTypeOK', Shutdown
    PROVE  SurvivesInv'
<1> USE DEF SurvivesInv
<1> DEFINE end == Lesser(Len(log), (FileOf(committedWhere, LogPerFile, LogFiles) + 3) * LogPerFile)
<1>1. /\ phase = "running" /\ exits' = exits \cup {"normal"} /\ restarts < MaxRestarts
      /\ phase' = "down" /\ dispatch' = <<>> /\ flush' = Idle /\ recovery' = NoRecovery
      /\ restarts' = restarts + 1 /\ abort' = FALSE
      /\ logForced' = logForced \cup 1 .. end
      /\ reported' = reported \cup started + 1 .. end
      /\ checkpoint' = [physic |-> physicMsgTimestamp, logics |-> logicsMsgTimestamp]
      /\ UNCHANGED <<log, committedWhere, started, physicMsgTimestamp,
                     logicsMsgTimestamp, puts>>
  BY DEF Shutdown, GoDown
<1>2. Len(log) \in Nat /\ DOMAIN log = 1 .. Len(log) /\ started \in Nat
  BY LogFacts DEF LogTypeOK
<1>3. end \in 0 .. Len(log)
  <2>1. LogFiles \in Nat
    <3>1. Len(log) + LogPerFile - 1 \in Nat
      BY <1>2, StoreAssumption
    <3>2. QED
      BY <3>1, Division, StoreAssumption DEF LogFiles
  <2>2. (FileOf(committedWhere, LogPerFile, LogFiles) + 3) * LogPerFile \in Nat
    BY <2>1, FileOfFacts, StoreAssumption DEF LogTypeOK
  <2>3. QED
    BY <1>2, <2>2 DEF Lesser
<1> HIDE DEF end
<1>4. Whole(Len(log)) /\ Whole(Len(log))' /\ \A i \in 1 .. Len(log) : Whole(i)'
  BY <1>1, <1>2 DEF HoleInv, Whole
<1>5. ~Exposed'
  BY <1>1 DEF Exposed
<1>6. LogTypeOK'
  <2>1. logForced' \subseteq DOMAIN log' /\ reported' \subseteq Nat \ {0}
    BY <1>1, <1>2, <1>3 DEF LogTypeOK
  <2>2. checkpoint' \in [physic : 0 .. puts', logics : 0 .. puts']
    BY <1>1 DEF LogTypeOK
  <2>3. QED
    BY <1>1, <2>1, <2>2, DownTypes DEF LogTypeOK
<1>7. StampInv'
  BY <1>1 DEF StampInv
<1>8. HoleInv'
  BY <1>1, <1>4 DEF HoleInv, NoRecovery, LogTypeOK
<1>9. KeptInv'
  <2>1. \A i \in reported' : i \in 1 .. Len(log)
    <3>1. \A i \in reported : i \in Nat \ {0} /\ i <= Len(log)
      BY DEF KeptInv, LogTypeOK
    <3>2. QED
      BY <1>1, <1>2, <1>3, <3>1
  <2>2. QED
    BY <1>1, <1>2, <1>4, <2>1 DEF KeptInv
<1>10. FreshInv'
  BY <1>1, <1>2 DEF FreshInv
<1>11. QED
  BY <1>5, <1>6, <1>7, <1>8, <1>9, <1>10 DEF ForcedInv

\* A crash of the process loses nothing of the log.
LEMMA CrashProcessSurvives ==
    ASSUME SurvivesInv, QueueTypeOK', CrashProcess
    PROVE  SurvivesInv'
<1> USE DEF SurvivesInv
<1>1. /\ phase # "down" /\ exits' = exits \cup {"process"} /\ restarts < MaxRestarts
      /\ phase' = "down" /\ dispatch' = <<>> /\ flush' = Idle /\ recovery' = NoRecovery
      /\ restarts' = restarts + 1
      /\ UNCHANGED <<log, logForced, committedWhere, started, physicMsgTimestamp,
                     logicsMsgTimestamp, checkpoint, abort, puts, reported>>
  BY DEF CrashProcess, GoDown, logVars
<1>2. \A i : Whole(i)' <=> Whole(i)
  BY <1>1 DEF Whole
<1>3. ~Exposed'
  BY <1>1 DEF Exposed
<1>4. LogTypeOK'
  BY <1>1, DownTypes DEF LogTypeOK
<1>5. StampInv' /\ KeptInv' /\ FreshInv'
  BY <1>1, <1>2 DEF StampInv, KeptInv, FreshInv
<1>6. HoleInv'
  BY <1>1, <1>2 DEF HoleInv, NoRecovery, LogTypeOK
<1>7. QED
  BY <1>3, <1>4, <1>5, <1>6 DEF ForcedInv

\* A crash of the machine makes holes behind what was reported only.
LEMMA CrashMachineSurvives ==
    ASSUME HistoryInv, SurvivesInv, QueueTypeOK', CrashMachine, "mixed" \notin gaps'
    PROVE  SurvivesInv'
<1> USE DEF SurvivesInv
<1>1. /\ phase # "down" /\ exits' = exits \cup {"machine"} /\ restarts < MaxRestarts
      /\ phase' = "down" /\ dispatch' = <<>> /\ flush' = Idle /\ recovery' = NoRecovery
      /\ restarts' = restarts + 1
      /\ UNCHANGED <<committedWhere, started, physicMsgTimestamp,
                     logicsMsgTimestamp, checkpoint, abort, puts, reported>>
  BY DEF CrashMachine, GoDown
<1>2. PICK lost \in SUBSET (DOMAIN log \ logForced) :
          /\ log' = [i \in DOMAIN log |-> IF i \in lost THEN Hole ELSE log[i]]
          /\ logForced' = DOMAIN log \ lost
  BY DEF CrashMachine
<1>3. Len(log) \in Nat /\ DOMAIN log = 1 .. Len(log) /\ started \in Nat
  BY LogFacts DEF LogTypeOK
<1>4. /\ log' \in Seq(Message \cup {Hole}) /\ Len(log') = Len(log) /\ DOMAIN log' = 1 .. Len(log)
      /\ \A i \in 1 .. Len(log) : log'[i] = IF i \in lost THEN Hole ELSE log[i]
  <2>1. \A i \in 1 .. Len(log) : log[i] \in Message \cup {Hole}
    BY LogFacts
  <2>2. log' \in [1 .. Len(log) -> Message \cup {Hole}]
    BY <1>2, <1>3, <2>1
  <2>3. QED
    BY <1>2, <1>3, <2>2, LenProperties
<1>5. ASSUME NEW i \in 1 .. Len(log), log'[i] # Hole
      PROVE  i \notin lost /\ i \in logForced' /\ log'[i] = log[i] /\ log[i] # Hole
  BY <1>2, <1>3, <1>4, <1>5
<1>6. ASSUME NEW i \in 1 .. Len(log), Whole(i), 1 .. i \subseteq logForced
      PROVE  Whole(i)' /\ 1 .. i \subseteq logForced'
  BY <1>2, <1>3, <1>4, <1>6 DEF Whole
<1>7. Exposed
  BY DEF CrashMachine, Since, Exposed, HistoryInv
<1>8. LogTypeOK'
  BY <1>1, <1>2, <1>3, <1>4, DownTypes DEF LogTypeOK
<1>9. StampInv'
  BY <1>1, <1>3, <1>4, <1>5 DEF StampInv
<1>10. HoleInv'
  BY <1>1 DEF HoleInv, NoRecovery, LogTypeOK
<1>11. ASSUME NEW i \in reported
       PROVE  i <= Len(log') /\ Whole(i)' /\ 1 .. i \subseteq logForced'
  <2>1. i \in 1 .. Len(log)
    BY <1>3, <1>11 DEF KeptInv, LogTypeOK
  <2>2. QED
    BY <1>4, <1>6, <1>7, <1>11, <2>1 DEF KeptInv, ForcedInv
<1>12. ASSUME NEW i \in 1 .. Len(log), log'[i] # Hole,
              log'[i].ts <= physicMsgTimestamp \/ log'[i].ts <= checkpoint.physic
       PROVE  Whole(i)' /\ 1 .. i \subseteq logForced'
  <2>1. log[i] # Hole /\ log'[i] = log[i]
    BY <1>5, <1>12
  <2>2. Whole(i) /\ 1 .. i \subseteq logForced
    BY <1>3, <1>7, <1>12, <2>1 DEF KeptInv, ForcedInv
  <2>3. QED
    BY <1>6, <2>2
<1>13. KeptInv'
  BY <1>1, <1>4, <1>11, <1>12 DEF KeptInv
<1>14. ForcedInv'
  BY <1>1, <1>4, <1>5, <1>11, <1>12 DEF ForcedInv
<1>15. FreshInv'
  BY <1>1, <1>3, <1>4, <1>5 DEF FreshInv
<1>16. QED
  BY <1>8, <1>9, <1>10, <1>13, <1>14, <1>15

\* The number of files of the log.
LEMMA LogFilesFacts ==
    ASSUME LogTypeOK
    PROVE  /\ LogFiles \in Nat
           /\ \A f \in Nat : f < LogFiles => f * LogPerFile < Len(log)
<1>1. Len(log) \in Nat /\ LogPerFile \in Nat \ {0}
  BY LogFacts, StoreAssumption
<1>2. Len(log) + LogPerFile - 1 \in Nat
  BY <1>1
<1>3. LogFiles \in Nat /\ LogPerFile * LogFiles <= Len(log) + LogPerFile - 1
  BY <1>1, <1>2, Division DEF LogFiles
<1>4. ASSUME NEW f \in Nat, f < LogFiles PROVE f * LogPerFile < Len(log)
  <2>1. LogFiles - 1 \in Nat /\ f <= LogFiles - 1
    BY <1>3, <1>4
  <2>2. LogPerFile * f <= LogPerFile * (LogFiles - 1)
    BY <1>1, <2>1
  <2>3. QED
    BY <1>1, <1>3, <2>2
<1>5. QED
  BY <1>3, <1>4

\* A log without holes is read to its end.
LEMMA ValidWhole ==
    ASSUME LogTypeOK, Whole(Len(log))
    PROVE  ValidFrom(Greater(0, LogFiles - 3) * LogPerFile + 1) = Len(log)
<1> DEFINE i == Greater(0, LogFiles - 3) * LogPerFile + 1
<1>1. Len(log) \in Nat /\ LogPerFile \in Nat \ {0} /\ LogFiles \in Nat
  BY LogFacts, LogFilesFacts, StoreAssumption
<1>2. i \in 1 .. Len(log) + 1
  <2>1. CASE LogFiles <= 3
    BY <1>1, <2>1 DEF Greater
  <2>2. CASE ~(LogFiles <= 3)
    <3>1. LogFiles - 3 \in Nat /\ Greater(0, LogFiles - 3) = LogFiles - 3
      BY <1>1, <2>2 DEF Greater
    <3>2. (LogFiles - 3) * LogPerFile < Len(log)
      BY <1>1, <3>1, LogFilesFacts
    <3>3. (LogFiles - 3) * LogPerFile \in Nat
      BY <1>1, <3>1
    <3>4. QED
      BY <1>1, <3>1, <3>2, <3>3
  <2>3. QED
    BY <2>1, <2>2
<1> HIDE DEF i
<1>3. \A j \in 1 .. Len(log) : log[j] # Hole
  BY DEF Whole
<1>4. \E n \in i - 1 .. Len(log) :
         (\A j \in i .. n : log[j] # Hole) /\ (n < Len(log) => log[n + 1] = Hole)
  <2>1. Len(log) \in i - 1 .. Len(log) /\ \A j \in i .. Len(log) : log[j] # Hole
    BY <1>1, <1>2, <1>3
  <2>2. ~(Len(log) < Len(log))
    BY <1>1
  <2>3. QED
    BY <2>1, <2>2
<1>5. \A n \in i - 1 .. Len(log) : (n < Len(log) => log[n + 1] = Hole) => n = Len(log)
  BY <1>1, <1>2, <1>3
<1> DEFINE v == ValidFrom(i)
<1>6. v \in i - 1 .. Len(log) /\ (v < Len(log) => log[v + 1] = Hole)
  BY <1>4 DEF ValidFrom
<1>7. v = Len(log)
  BY <1>5, <1>6
<1>8. QED
  BY <1>7 DEF i

\* Where recovery begins: at the start, or at a message that the checkpoint
\* covers.
LEMMA RecoverFromFacts ==
    ASSUME LogTypeOK, StampInv
    PROVE  /\ RecoverFrom * LogPerFile \in 0 .. Len(log)
           /\ \/ RecoverFrom * LogPerFile = 0
              \/ /\ RecoverFrom * LogPerFile + 1 \in 1 .. Len(log)
                 /\ log[RecoverFrom * LogPerFile + 1] # Hole
                 /\ log[RecoverFrom * LogPerFile + 1].ts + Backoff <= checkpoint.physic
                 /\ log[RecoverFrom * LogPerFile + 1].ts + Backoff <= checkpoint.logics
<1> DEFINE matched == { f \in 0 .. LogFiles - 1 :
                          /\ log[f * LogPerFile + 1] # Hole
                          /\ log[f * LogPerFile + 1].ts <= MinTimestamp }
<1>1. /\ Len(log) \in Nat /\ DOMAIN log = 1 .. Len(log) /\ LogPerFile \in Nat \ {0}
      /\ LogFiles \in Nat /\ Backoff \in Nat
  BY LogFacts, LogFilesFacts, StoreAssumption
<1>2. CASE matched = {}
  <2>1. RecoverFrom = 0
    BY <1>2 DEF RecoverFrom
  <2>2. QED
    BY <1>1, <2>1
<1>3. CASE matched # {}
  <2>1. matched \subseteq 0 .. LogFiles
    BY <1>1
  <2>2. RecoverFrom = CHOOSE f \in matched : \A g \in matched : g <= f
    BY <1>3 DEF RecoverFrom
  <2>3. \E f \in matched : \A g \in matched : g <= f
    BY <1>1, <1>3, <2>1, GreatestExists
  <2>4. RecoverFrom \in matched
    BY <2>2, <2>3
  <2> DEFINE r == RecoverFrom
             i == r * LogPerFile + 1
  <2>5. r \in Nat /\ r < LogFiles /\ log[i] # Hole /\ log[i].ts <= MinTimestamp
    BY <1>1, <2>4
  <2> HIDE DEF r
  <2>6. r * LogPerFile \in Nat /\ r * LogPerFile < Len(log)
    BY <1>1, <2>5, LogFilesFacts
  <2>7. i \in 1 .. Len(log)
    BY <1>1, <2>6
  <2>8. log[i].ts \in Nat \ {0}
    BY <1>1, <2>5, <2>7, LogFacts DEF StampInv
  <2> HIDE DEF i
  <2>9. checkpoint.physic \in Int /\ checkpoint.logics \in Int
    BY DEF LogTypeOK
  <2>10. log[i].ts + Backoff <= checkpoint.physic /\ log[i].ts + Backoff <= checkpoint.logics
    BY <1>1, <2>5, <2>8, <2>9, SMTT(30) DEF MinTimestamp, Greater, Lesser
  <2>11. QED
    BY <1>1, <2>5, <2>6, <2>7, <2>10 DEF r, i
<1>4. QED
  BY <1>2, <1>3

\* What both kinds of recovery begin with, for the log.
LEMMA LoadFacts ==
    ASSUME Load
    PROVE  /\ phase = "down" /\ physicMsgTimestamp' = checkpoint.physic
           /\ logicsMsgTimestamp' = checkpoint.logics
           /\ UNCHANGED <<dispatch, created, writeable, checkpoint, flush, puts,
                          restarts, reported, exits>>
BY DEF Load, dispatchVars, histVars

\* After a normal exit the whole log is valid.
LEMMA LoadNormallySurvives ==
    ASSUME SurvivesInv, QueueTypeOK', LoadNormally
    PROVE  SurvivesInv' /\ log' = log /\ started' = Len(log)
<1> USE DEF SurvivesInv
<1>1. ~abort /\ phase = "down"
  BY LoadFacts DEF LoadNormally
<1>2. Whole(Len(log)) /\ Len(log) \in Nat /\ DOMAIN log = 1 .. Len(log) /\ log \in Seq(Message \cup {Hole})
  BY <1>1, LogFacts DEF HoleInv, LogTypeOK
<1>3. /\ log' = SubSeq(log, 1, Len(log)) /\ logForced' = logForced \cap 1 .. Len(log)
      /\ committedWhere' = Len(log) /\ phase' = "running" /\ abort' = TRUE
      /\ recovery' = NoRecovery /\ started' = Len(log)
  BY <1>2, ValidWhole DEF LoadNormally, Start
<1>4. log' = log /\ logForced' = logForced
  BY <1>2, <1>3 DEF LogTypeOK
<1>5. /\ physicMsgTimestamp' = checkpoint.physic /\ logicsMsgTimestamp' = checkpoint.logics
      /\ UNCHANGED <<dispatch, checkpoint, flush, puts, restarts, reported, exits>>
  BY LoadFacts DEF LoadNormally
<1>6. ~Exposed'
  BY <1>1, <1>5 DEF HoleInv, Exposed
<1>7. \A i : Whole(i)' <=> Whole(i)
  BY <1>4 DEF Whole
<1>8. LogTypeOK'
  BY <1>2, <1>3, <1>4, <1>5 DEF LogTypeOK, NoRecovery
<1>9. StampInv'
  BY <1>2, <1>3, <1>4, <1>5 DEF StampInv
<1>10. HoleInv'
  BY <1>1, <1>2, <1>3, <1>4, <1>5, <1>7 DEF HoleInv, NoRecovery
<1>11. KeptInv'
  BY <1>4, <1>5, <1>7 DEF KeptInv
<1>12. FreshInv'
  BY <1>2, <1>3, <1>4 DEF FreshInv
<1>13. QED
  BY <1>3, <1>4, <1>6, <1>8, <1>9, <1>10, <1>11, <1>12 DEF ForcedInv

\* Recovery begins at a message with no hole before it.
LEMMA LoadAbnormallySurvives ==
    ASSUME SurvivesInv, QueueTypeOK', LoadAbnormally
    PROVE  SurvivesInv'
<1> USE DEF SurvivesInv
<1>1. /\ phase = "down" /\ abort /\ phase' = "scan"
      /\ recovery' = [NoRecovery EXCEPT !.pos = RecoverFrom * LogPerFile + 1]
      /\ UNCHANGED <<log, logForced, committedWhere, started, abort>>
  BY LoadFacts DEF LoadAbnormally, logVars
<1>2. /\ physicMsgTimestamp' = checkpoint.physic /\ logicsMsgTimestamp' = checkpoint.logics
      /\ UNCHANGED <<dispatch, checkpoint, flush, puts, restarts, reported, exits>>
  BY LoadFacts DEF LoadAbnormally
<1> DEFINE n == RecoverFrom * LogPerFile
<1>3. Len(log) \in Nat /\ DOMAIN log = 1 .. Len(log) /\ n \in 0 .. Len(log)
  BY LogFacts, RecoverFromFacts
<1>4. Whole(n)
  <2>1. CASE n = 0
    BY <2>1 DEF Whole
  <2>2. CASE n # 0
    <3>1. n + 1 \in 1 .. Len(log) /\ log[n + 1] # Hole /\ log[n + 1].ts + Backoff <= checkpoint.physic
      BY <2>2, RecoverFromFacts
    <3> HIDE DEF n
    <3>2. log[n + 1].ts <= checkpoint.physic
      BY <3>1, LogFacts, StoreAssumption DEF LogTypeOK
    <3>3. Whole(n + 1)
      BY <1>3, <3>1, <3>2 DEF KeptInv
    <3>4. QED
      BY <1>3, <3>3 DEF Whole
  <2>3. QED
    BY <2>1, <2>2
<1>5. recovery' = [pos |-> n + 1, left |-> {}, queue |-> NoQueue]
  BY <1>1 DEF NoRecovery
<1> HIDE DEF n
<1>6. \A i : Whole(i)' <=> Whole(i)
  BY <1>1 DEF Whole
<1>7. LogTypeOK'
  <2>1. n + 1 \in Nat
    BY <1>3
  <2>2. recovery' \in [pos : Nat, left : SUBSET Queues, queue : Queues \cup {NoQueue}]
    BY <1>5, <2>1
  <2>3. /\ checkpoint \in [physic : 0 .. puts, logics : 0 .. puts]
        /\ checkpoint.physic \in 0 .. puts /\ checkpoint.logics \in 0 .. puts
    BY DEF LogTypeOK
  <2>4. QED
    BY <1>1, <1>2, <2>2, <2>3 DEF LogTypeOK
<1>8. StampInv' /\ KeptInv' /\ FreshInv'
  BY <1>1, <1>2, <1>6 DEF StampInv, KeptInv, FreshInv
<1>9. ForcedInv'
  BY <1>1, <1>2 DEF ForcedInv, Exposed
<1>10. HoleInv'
  <2>1. recovery'.pos = n + 1 /\ recovery'.left = {} /\ recovery'.queue = NoQueue
        /\ recovery'.pos - 1 = n
    BY <1>3, <1>5
  <2>2. dispatch' = <<>> /\ DOMAIN dispatch' = {}
    BY <1>1, <1>2 DEF HoleInv
  <2>3. QED
    BY <1>1, <1>2, <1>3, <1>4, <1>6, <2>1, <2>2 DEF HoleInv
<1>11. QED
  BY <1>7, <1>8, <1>9, <1>10

\* Reading a valid message goes on without a hole.
LEMMA RecoverMessageSurvives ==
    ASSUME SurvivesInv, QueueTypeOK', RecoverMessage
    PROVE  SurvivesInv'
<1> USE DEF SurvivesInv
<1> DEFINE n == recovery.pos
<1>1. /\ phase = "scan" /\ n <= Len(log) /\ log[n] # Hole
      /\ dispatch' = Append(dispatch, n) /\ recovery' = [recovery EXCEPT !.pos = n + 1]
      /\ UNCHANGED <<log, logForced, committedWhere, started, physicMsgTimestamp,
                     logicsMsgTimestamp, checkpoint, flush, phase, abort, puts,
                     restarts, reported, exits>>
  BY DEF RecoverMessage, logVars, pointVars, histVars
<1>2. Len(log) \in Nat /\ DOMAIN log = 1 .. Len(log) /\ n \in 1 .. Len(log) /\ Whole(n - 1)
  BY <1>1, LogFacts DEF HoleInv
<1>3. recovery'.pos = n + 1 /\ recovery'.left = recovery.left /\ recovery'.queue = recovery.queue
      /\ recovery' \in [pos : Nat, left : SUBSET Queues, queue : Queues \cup {NoQueue}]
  <2>1. recovery \in [pos : Nat, left : SUBSET Queues, queue : Queues \cup {NoQueue}]
    BY DEF LogTypeOK
  <2>2. n + 1 \in Nat
    BY <1>2
  <2> HIDE DEF n
  <2>3. QED
    BY <1>1, <2>1, <2>2
<1>4. /\ dispatch' \in Seq(Nat)
      /\ \A k \in DOMAIN dispatch' :
           dispatch'[k] \in DOMAIN log' /\ log'[dispatch'[k]] # Hole /\ dispatch'[k] < n + 1
  <2>1. dispatch \in Seq(Nat) /\ \A k \in DOMAIN dispatch :
           dispatch[k] \in 1 .. Len(log) /\ log[dispatch[k]] # Hole /\ dispatch[k] < n
    BY <1>1, <1>2 DEF LogTypeOK, HoleInv
  <2> HIDE DEF n
  <2>2. QED
    BY <1>1, <1>2, <2>1
<1>5. Whole(n)
  BY <1>1, <1>2 DEF Whole
<1> HIDE DEF n
<1>6. \A i : Whole(i)' <=> Whole(i)
  BY <1>1 DEF Whole
<1>7. LogTypeOK'
  BY <1>1, <1>3, <1>4 DEF LogTypeOK
<1>8. StampInv' /\ KeptInv' /\ FreshInv'
  BY <1>1, <1>6 DEF StampInv, KeptInv, FreshInv
<1>9. ForcedInv'
  BY <1>1 DEF ForcedInv, Exposed
<1>10. HoleInv'
  <2>1. recovery'.pos - 1 = n /\ recovery'.pos \in 1 .. Len(log) + 1
    BY <1>2, <1>3
  <2>2. QED
    BY <1>1, <1>2, <1>3, <1>4, <1>5, <1>6, <2>1 DEF HoleInv
<1>11. QED
  BY <1>7, <1>8, <1>9, <1>10

\* What is left of the log when it is cut off behind message n.
LEMMA CutLog ==
    ASSUME SurvivesInv, RecoverTruncate
    PROVE  LET n == recovery.pos - 1 IN
           /\ n \in 0 .. Len(log) /\ Len(log') = n /\ DOMAIN log' = 1 .. n
           /\ log' \in Seq(Message \cup {Hole})
           /\ \A i \in 1 .. n : log'[i] = log[i]
           /\ \A i \in 1 .. n : log'[i] # Hole /\ Whole(i) /\ Whole(i)'
           /\ Whole(n) /\ Whole(Len(log))'
           /\ \A i \in 1 .. Len(log) : Whole(i) => i <= n
<1> USE DEF SurvivesInv
<1> DEFINE n == recovery.pos - 1
<1>1. /\ phase = "scan" /\ (n < Len(log) => log[n + 1] = Hole) /\ log' = SubSeq(log, 1, n)
  BY DEF RecoverTruncate
<1>2. Len(log) \in Nat /\ n \in 0 .. Len(log) /\ Whole(n) /\ log \in Seq(Message \cup {Hole})
  BY <1>1, LogFacts DEF HoleInv, LogTypeOK
<1> HIDE DEF n
<1>3. /\ Len(log') = n /\ DOMAIN log' = 1 .. n /\ log' \in Seq(Message \cup {Hole})
      /\ \A i \in 1 .. n : log'[i] = log[i]
  BY <1>1, <1>2
<1>4. \A i \in 1 .. n : log'[i] # Hole /\ Whole(i) /\ Whole(i)'
  BY <1>2, <1>3 DEF Whole
<1>5. Whole(Len(log))'
  BY <1>3, <1>4 DEF Whole
<1>6. \A i \in 1 .. Len(log) : Whole(i) => i <= n
  BY <1>1, <1>2 DEF Whole
<1>7. QED
  BY <1>2, <1>3, <1>4, <1>5, <1>6 DEF n

\* What recovery cuts off of the log was never reported.
LEMMA RecoverTruncateSurvives ==
    ASSUME SurvivesInv, QueueTypeOK', RecoverTruncate
    PROVE  SurvivesInv'
<1> USE DEF SurvivesInv
<1> DEFINE n == recovery.pos - 1
<1>1. /\ n \in 0 .. Len(log) /\ Len(log') = n /\ DOMAIN log' = 1 .. n
      /\ log' \in Seq(Message \cup {Hole})
      /\ \A i \in 1 .. n : log'[i] = log[i]
      /\ \A i \in 1 .. n : log'[i] # Hole /\ Whole(i) /\ Whole(i)'
      /\ Whole(n) /\ Whole(Len(log))'
      /\ \A i \in 1 .. Len(log) : Whole(i) => i <= n
  BY CutLog
<1>2. /\ phase = "scan" /\ phase' = "truncate"
      /\ logForced' = logForced \cap 1 .. n /\ committedWhere' = n
      /\ recovery' = [recovery EXCEPT !.left = { q \in Queues : cqFiles[q] > 0 }]
      /\ UNCHANGED <<started, dispatch, physicMsgTimestamp, logicsMsgTimestamp,
                     checkpoint, flush, abort, puts, restarts, reported, exits>>
  BY DEF RecoverTruncate, dispatchVars, pointVars
<1>3. /\ Len(log) \in Nat /\ DOMAIN log = 1 .. Len(log) /\ started \in Nat
      /\ recovery.pos \in Nat /\ n + 1 = recovery.pos
  BY LogFacts DEF LogTypeOK
<1>4. recovery'.pos = recovery.pos
      /\ recovery' \in [pos : Nat, left : SUBSET Queues, queue : Queues \cup {NoQueue}]
  BY <1>2 DEF LogTypeOK
<1>5. \A k \in DOMAIN dispatch : dispatch[k] \in 1 .. n
  BY <1>2, <1>3 DEF LogTypeOK, HoleInv
<1> HIDE DEF n
<1>6. LogTypeOK'
  <2>1. log' \in Seq(Message \cup {Hole}) /\ logForced' \subseteq DOMAIN log' /\ committedWhere' \in Nat
    BY <1>1, <1>2
  <2>2. \A k \in DOMAIN dispatch' : dispatch'[k] \in DOMAIN log' /\ log'[dispatch'[k]] # Hole
    BY <1>1, <1>2, <1>5
  <2>3. QED
    BY <1>2, <1>4, <2>1, <2>2 DEF LogTypeOK
<1>7. StampInv'
  <2>1. \A i \in 1 .. n : i \in 1 .. Len(log) /\ log[i] # Hole
    BY <1>1, <1>3
  <2>2. Len(log') <= puts
    BY <1>1, <1>3 DEF StampInv, LogTypeOK
  <2>3. QED
    BY <1>1, <1>2, <1>3, <2>1, <2>2 DEF StampInv
<1>8. HoleInv'
  BY <1>1, <1>2, <1>3, <1>4 DEF HoleInv
<1>9. \A i \in reported : i \in 1 .. n
  <2>1. \A i \in reported : i \in 1 .. Len(log) /\ Whole(i)
    BY <1>3 DEF KeptInv, LogTypeOK
  <2>2. QED
    BY <1>1, <1>3, <2>1
<1>10. KeptInv'
  BY <1>1, <1>2, <1>3, <1>9 DEF KeptInv
<1>11. ForcedInv'
  <2> SUFFICES ASSUME Exposed
               PROVE  /\ \A i \in reported : 1 .. i \subseteq logForced'
                      /\ \A i \in 1 .. n :
                            log[i].ts <= physicMsgTimestamp \/ log[i].ts <= checkpoint.physic
                            => 1 .. i \subseteq logForced'
                      /\ \A i \in 1 .. n : i \in logForced'
    BY <1>1, <1>2 DEF ForcedInv, Exposed
  <2>1. \A i \in 1 .. n : i \in DOMAIN log /\ log[i] # Hole
    BY <1>1, <1>3
  <2>2. \A i \in 1 .. n : i \in logForced'
    BY <1>1, <1>2, <2>1 DEF ForcedInv
  <2>3. \A i \in 1 .. n : 1 .. i \subseteq logForced'
    BY <1>1, <1>3, <2>2
  <2>4. QED
    BY <1>9, <2>2, <2>3
<1>12. FreshInv'
  <2>1. \A i \in started + 1 .. n : i \in started + 1 .. Len(log) /\ i \in 1 .. n
    BY <1>1, <1>3
  <2>2. QED
    BY <1>1, <1>2, <1>3, <2>1 DEF FreshInv
<1>13. QED
  BY <1>6, <1>7, <1>8, <1>10, <1>11, <1>12

\* The truncation of a consume queue leaves the log alone.
LEMMA TruncateSurvives ==
    ASSUME SurvivesInv, QueueTypeOK', TruncateQueue \/ \E q \in Queues : TruncateBegin(q)
    PROVE  SurvivesInv'
<1> USE DEF SurvivesInv
<1>1. /\ phase = "truncate"
      /\ UNCHANGED <<log, logForced, committedWhere, started, dispatch, physicMsgTimestamp,
                     logicsMsgTimestamp, checkpoint, flush, phase, abort, puts,
                     restarts, reported, exits>>
  BY DEF TruncateQueue, TruncateBegin, logVars, pointVars, histVars, dispatchVars
<1>2. recovery'.pos = recovery.pos
      /\ recovery' \in [pos : Nat, left : SUBSET Queues, queue : Queues \cup {NoQueue}]
  <2>1. recovery \in [pos : Nat, left : SUBSET Queues, queue : Queues \cup {NoQueue}]
    BY DEF LogTypeOK
  <2>2. CASE TruncateQueue
    <3>1. recovery' = [recovery EXCEPT !.queue = NoQueue, !.left = recovery.left \ {recovery.queue}]
      BY <2>2 DEF TruncateQueue
    <3>2. QED
      BY <2>1, <3>1
  <2>3. CASE \E q \in Queues : TruncateBegin(q)
    BY <2>1, <2>3 DEF TruncateBegin
  <2>4. QED
    BY <2>2, <2>3
<1>3. LogTypeOK'
  BY <1>1, <1>2 DEF LogTypeOK
<1>4. flush' = Idle
  BY <1>1 DEF HoleInv
<1>5. QED
  BY <1>1, <1>2, <1>3, <1>4, QuietLog

\* The recovered log is taken over as a whole.
LEMMA RecoverEndSurvives ==
    ASSUME SurvivesInv, QueueTypeOK', RecoverEnd
    PROVE  SurvivesInv'
<1> USE DEF SurvivesInv
<1>1. /\ phase = "truncate" /\ phase' = "running" /\ abort' = TRUE
      /\ recovery' = NoRecovery /\ started' = Len(log)
      /\ UNCHANGED <<log, logForced, committedWhere, dispatch, physicMsgTimestamp,
                     logicsMsgTimestamp, checkpoint, flush, puts, restarts, reported, exits>>
  BY DEF RecoverEnd, Start, pointVars, histVars, dispatchVars
<1>2. Len(log) \in Nat /\ DOMAIN log = 1 .. Len(log)
  BY LogFacts
<1>3. \A i : Whole(i)' <=> Whole(i)
  BY <1>1 DEF Whole
<1>4. Whole(Len(log)) /\ committedWhere = Len(log) /\ flush = Idle /\ exits # {}
  BY <1>1 DEF HoleInv
<1>5. LogTypeOK'
  BY <1>1, <1>2 DEF LogTypeOK, NoRecovery
<1>6. StampInv' /\ FreshInv'
  BY <1>1, <1>2, <1>4 DEF StampInv, FreshInv
<1>7. KeptInv'
  BY <1>1, <1>3 DEF KeptInv
<1>8. HoleInv'
  BY <1>1, <1>2, <1>3, <1>4 DEF HoleInv, NoRecovery
<1>9. ForcedInv'
  BY <1>1, <1>2, <1>4 DEF ForcedInv, Exposed, Whole
<1>10. QED
  BY <1>5, <1>6, <1>7, <1>8, <1>9

\* Every step keeps what was reported.
LEMMA NextSurvives ==
    ASSUME HistoryInv, SurvivesInv, [Next]_vars, "mixed" \notin gaps'
    PROVE  SurvivesInv'
<1>1. CASE Next
  <2>1. QueueTypeOK'
    BY <1>1, QueueTypes DEF SurvivesInv
  <2>2. QED
    BY <1>1, <2>1, PutSurvives, DispatchSurvives, FlushLogSurvives, FlushQueuesSurvives,
       ShutdownSurvives, CrashProcessSurvives, CrashMachineSurvives,
       LoadNormallySurvives, LoadAbnormallySurvives, RecoverMessageSurvives,
       RecoverTruncateSurvives, TruncateSurvives, RecoverEndSurvives
       DEF Next, Recover
<1>2. CASE UNCHANGED vars
  <2> USE DEF SurvivesInv
  <2>1. /\ UNCHANGED <<log, logForced, committedWhere, started, phase, abort, puts,
                       restarts, reported, exits>>
        /\ UNCHANGED <<dispatch, flush, recovery, physicMsgTimestamp, logicsMsgTimestamp,
                       checkpoint>>
    BY <1>2 DEF vars, logVars, dispatchVars, pointVars, runVars, histVars
  <2>2. UNCHANGED <<topicQueueTable, created, writeable, cq, cqFiles, cqForced, cqWhere,
                    cqPosition, maxPhysicOffset>>
    BY <1>2 DEF vars, logVars, dispatchVars, cqVars
  <2>3. QueueTypeOK'
    BY <2>2 DEF QueueTypeOK
  <2>4. LogTypeOK'
    BY <2>1 DEF LogTypeOK
  <2>5. phase # "running" => flush' = Idle
    BY <2>1 DEF HoleInv
  <2>6. QED
    BY <2>1, <2>3, <2>4, <2>5, QuietLog
<1>3. QED
  BY <1>1, <1>2

\* The log, what of it is forced and the checkpoint stay in step, until the
\* machine crashes after another exit.
THEOREM SurvivesInductive ==
    Spec => [](HistoryInv /\ ("mixed" \notin gaps => SurvivesInv))
<1> DEFINE Inv == HistoryInv /\ ("mixed" \notin gaps => SurvivesInv)
<1>1. Init => Inv
  BY InitSurvives DEF Init, HistoryInv
<1>2. Inv /\ [Next]_vars => Inv'
  BY NextSurvives, HistoryKept
<1>3. QED
  BY <1>1, <1>2, PTL DEF Spec

\* A message that the flush services reported as flushed is never lost, by any
\* number of crashes, unless the machine crashes after another exit.
THEOREM FlushedSurvives == Spec => []FlushedKept
<1>1. ("mixed" \notin gaps => SurvivesInv) => FlushedKept
  <2> SUFFICES ASSUME SurvivesInv, NEW i \in reported
               PROVE  i \in DOMAIN log /\ log[i] # Hole
    BY DEF FlushedKept
  <2>1. i \in 1 .. Len(log) /\ Whole(i)
    BY LogFacts DEF SurvivesInv, KeptInv, LogTypeOK
  <2>2. QED
    BY <2>1, LogFacts DEF Whole, SurvivesInv
<1>2. QED
  BY <1>1, SurvivesInductive, PTL

-----------------------------------------------------------------------------
(* The consume queues index the log.                                       *)

\* A queue is not the absence of one.
LEMMA NotNone == \A q \in Queues : q # NoQueue
BY StoreAssumption

\* No entry of a queue is blank or unwritten.
LEMMA EntryFacts ==
    ASSUME SurvivesInv, EntriesInv, NEW q \in Queues, NEW k \in 1 .. Len(cq[q])
    PROVE  /\ cq[q][k] \in Nat \ {0} /\ k <= cq[q][k] /\ cq[q][k] <= puts
           /\ Physical(cq[q][k]) = cq[q][k] /\ cq[q][k] # Zero
<1>1. DOMAIN cq[q] = 1 .. Len(cq[q]) /\ Len(cq[q]) \in Nat /\ puts \in Nat
  BY QueueFacts DEF SurvivesInv, LogTypeOK
<1>2. cq[q][k] \in k .. puts
  BY <1>1 DEF EntriesInv
<1>3. cq[q][k] \in Nat \ {0} /\ k <= cq[q][k] /\ cq[q][k] <= puts
  BY <1>1, <1>2
<1>4. QED
  BY <1>3 DEF Physical, Zero, Blank

\* The message that an entry stands for.
LEMMA EntryMessage ==
    ASSUME SurvivesInv, EntriesInv, NEW q \in Queues, NEW k \in 1 .. Len(cq[q]),
           cq[q][k] <= Len(log), log[cq[q][k]] # Hole
    PROVE  cq[q][k] \in 1 .. Len(log) /\ log[cq[q][k]].queue = q /\ log[cq[q][k]].at = k - 1
<1>1. DOMAIN cq[q] = 1 .. Len(cq[q]) /\ Len(log) \in Nat
  BY QueueFacts, LogFacts DEF SurvivesInv
<1>2. cq[q][k] \in 1 .. Len(log)
  BY <1>1, EntryFacts
<1>3. QED
  BY <1>1, <1>2 DEF EntriesInv

\* What lies before a message without a hole before it.
LEMMA WholeFacts ==
    ASSUME LogTypeOK, NEW i \in 1 .. Len(log), Whole(i)
    PROVE  /\ log[i] # Hole /\ log[i].queue \in Queues /\ log[i].at \in Nat /\ log[i].ts \in Nat
           /\ \A j \in 1 .. i : j \in 1 .. Len(log) /\ Whole(j) /\ log[j] # Hole
<1>1. Len(log) \in Nat
  BY LogFacts
<1>2. \A j \in 1 .. i : j \in 1 .. Len(log) /\ Whole(j) /\ log[j] # Hole
  BY <1>1 DEF Whole
<1>3. log[i] # Hole
  BY <1>1, <1>2
<1>4. QED
  BY <1>2, <1>3, LogFacts

\* A message without a hole before it is where its queue offset says.
LEMMA IndexedFacts ==
    ASSUME SurvivesInv, NEW i \in 1 .. Len(log), Whole(i), Indexed(i)
    PROVE  /\ log[i].queue \in Queues /\ log[i].at + 1 \in 1 .. Len(cq[log[i].queue])
           /\ cq[log[i].queue][log[i].at + 1] = i
<1>1. log[i].queue \in Queues /\ log[i].at \in Nat
  BY WholeFacts DEF SurvivesInv
<1>2. Len(cq[log[i].queue]) \in Nat
  BY <1>1, QueueFacts DEF SurvivesInv
<1>3. QED
  BY <1>1, <1>2 DEF Indexed

\* The log a running broker, or one that is reading it, has before it is whole.
LEMMA WholePast ==
    ASSUME SurvivesInv
    PROVE  /\ phase = "running" \/ phase = "truncate" =>
                 \A i \in 1 .. Len(log) : Whole(i) /\ log[i] # Hole
           /\ phase = "scan" => /\ recovery.pos \in 1 .. Len(log) + 1
                                /\ \A i \in 1 .. recovery.pos - 1 : Whole(i) /\ log[i] # Hole
<1> USE DEF SurvivesInv
<1>1. Len(log) \in Nat
  BY LogFacts
<1>2. phase = "running" \/ phase = "truncate" => Whole(Len(log))
  BY DEF HoleInv
<1>3. phase = "scan" => recovery.pos \in 1 .. Len(log) + 1 /\ Whole(recovery.pos - 1)
  BY DEF HoleInv
<1>4. QED
  BY <1>1, <1>2, <1>3 DEF Whole

\* The request at the head of the list is the first message that is not done.
LEMMA HeadFacts ==
    ASSUME SurvivesInv, IndexInv, dispatch # <<>>
    PROVE  LET i == Head(dispatch) IN
           /\ i = Frontier + 1 /\ i \in 1 .. Len(log) /\ Whole(i) /\ Frontier \in Nat
           /\ log[i] # Hole /\ Request = log[i]
           /\ log[i].queue \in Queues /\ log[i].at \in Nat /\ log[i].ts \in Nat
           /\ recovery.queue = NoQueue /\ recovery.left = {} /\ Dirty = {}
           /\ phase = "running" \/ phase = "scan"
<1> USE DEF SurvivesInv, IndexInv
<1> DEFINE i == Head(dispatch)
<1>1. phase \in {"running", "scan"}
  BY DEF DispatchInv, LogTypeOK
<1>2. i \in 1 .. Len(log) /\ i = dispatch[1] /\ Request = log[i] /\ Len(dispatch) \in Nat \ {0}
  BY TakeRequest
<1>3. DOMAIN dispatch = 1 .. Len(dispatch) /\ dispatch \in Seq(Nat)
  BY DEF LogTypeOK
<1>4. 1 \in DOMAIN dispatch
  BY <1>2, <1>3
<1>5. i = Frontier + 1
  BY <1>1, <1>2, <1>4 DEF DispatchInv
<1>6. recovery.queue = NoQueue /\ recovery.left = {} /\ Dirty = {}
  BY <1>1 DEF HoleInv, Dirty
<1>7. Whole(i)
  <2>1. CASE phase = "running"
    BY <1>2, <2>1, WholePast
  <2>2. CASE phase = "scan"
    <3>1. recovery.pos \in 1 .. Len(log) + 1 /\ i < recovery.pos /\ Len(log) \in Nat
      BY <1>2, <1>4, <2>2, WholePast, LogFacts DEF HoleInv
    <3> HIDE DEF i
    <3>2. i \in 1 .. recovery.pos - 1
      BY <1>2, <3>1
    <3>3. QED
      BY <2>2, <3>2, WholePast
  <2>3. QED
    BY <1>1, <2>1, <2>2
<1>8. Frontier \in Nat
  <2>1. Frontier \in Int
    BY <1>2, LogFacts DEF Frontier, LogTypeOK
  <2>2. QED
    BY <1>1, <2>1 DEF DispatchInv
<1> HIDE DEF i
<1>9. log[i] # Hole /\ log[i].queue \in Queues /\ log[i].at \in Nat /\ log[i].ts \in Nat
  BY <1>2, <1>7, WholeFacts
<1>10. QED
  BY <1>1, <1>2, <1>5, <1>6, <1>7, <1>8, <1>9 DEF i

\* A request that is not done yet belongs at the end of its queue.
LEMMA AtEnd ==
    ASSUME SurvivesInv, IndexInv, dispatch # <<>>, writeable, ~Known(Request.queue)
    PROVE  Request.at = Len(cq[Request.queue])
<1> USE DEF SurvivesInv, IndexInv
<1> DEFINE i == Head(dispatch)
           q == log[i].queue
           a == log[i].at
<1>1. /\ i = Frontier + 1 /\ i \in 1 .. Len(log) /\ Whole(i) /\ Frontier \in Nat
      /\ Request = log[i] /\ q \in Queues /\ a \in Nat
      /\ recovery.queue = NoQueue /\ Dirty = {} /\ phase # "down"
  BY HeadFacts
<1>2. Len(cq[q]) \in Nat /\ DOMAIN cq[q] = 1 .. Len(cq[q]) /\ Len(log) \in Nat
      /\ DOMAIN log = 1 .. Len(log) /\ maxPhysicOffset[q] \in Int
  BY <1>1, QueueFacts, LogFacts
<1>3. ~(i <= maxPhysicOffset[q]) /\ q # NoQueue
  BY <1>1, StoreAssumption DEF Known
<1>4. ASSUME a < Len(cq[q]) PROVE FALSE
  <2> DEFINE e == cq[q][a + 1]
  <2>1. a + 1 \in 1 .. Len(cq[q])
    BY <1>1, <1>2, <1>4
  <2>2. e \in Nat \ {0} /\ e <= maxPhysicOffset[q]
    BY <1>1, <1>2, <1>3, <2>1, EntryFacts DEF PhysicInv
  <2> HIDE DEF e
  <2>3. e < i /\ e \in 1 .. i
    BY <1>1, <1>2, <1>3, <2>2
  <2>4. e \in 1 .. Len(log) /\ log[e] # Hole
    BY <1>1, <2>3, WholeFacts
  <2>5. log[e].queue = q /\ log[e].at = a + 1 - 1
    <3>1. e <= Len(log)
      BY <1>2, <2>4
    <3> HIDE DEF a, q
    <3>2. QED
      BY <1>1, <2>1, <2>4, <3>1, EntryMessage DEF e
  <2>6. log[e].at < log[i].at
    BY <1>1, <1>2, <2>3, <2>4, <2>5 DEF RankInv
  <2>7. QED
    BY <1>1, <2>5, <2>6
<1>5. ASSUME a > Len(cq[q]) PROVE FALSE
  <2>1. Len(cq[q]) \in 0 .. a - 1
    BY <1>1, <1>2, <1>5
  <2>2. PICK j \in 1 .. i - 1 : log[j].queue = q /\ log[j].at = Len(cq[q])
    BY <1>1, <1>2, <2>1 DEF RankInv
  <2>3. j \in 1 .. Frontier
    BY <1>1, <2>2
  <2>4. Indexed(j)
    BY <1>1, <2>3 DEF DispatchInv
  <2>5. QED
    BY <1>2, <2>2, <2>4 DEF Indexed
<1>6. a = Len(cq[q])
  <2> HIDE DEF a, q
  <2>1. QED
    BY <1>1, <1>2, <1>4, <1>5
<1>7. QED
  BY <1>1, <1>6

\* A store that was just created has nothing to index.
LEMMA InitIndex == Init => IndexInv
<1> SUFFICES ASSUME Init PROVE IndexInv
  OBVIOUS
<1>1. Len(log) = 0 /\ DOMAIN log = {} /\ Len(dispatch) = 0 /\ DOMAIN dispatch = {}
  BY DEF Init
<1>2. \A q \in Queues : Len(cq[q]) = 0 /\ DOMAIN cq[q] = {} /\ cqFiles[q] = 0
                        /\ maxPhysicOffset[q] = 0 /\ topicQueueTable[q] = 0
  <2>1. \A q \in Queues : cq[q] = <<>> /\ cqFiles[q] = 0
                          /\ maxPhysicOffset[q] = 0 /\ topicQueueTable[q] = 0
    BY DEF Init
  <2>2. Len(<<>>) = 0 /\ DOMAIN <<>> = {}
    OBVIOUS
  <2>3. QED
    BY <2>1, <2>2
<1>3. EntriesInv
  BY <1>2 DEF EntriesInv
<1>4. RankInv
  BY <1>1, <1>2 DEF RankInv
<1>5. ClosedInv /\ CoveredInv
  BY <1>1 DEF ClosedInv, CoveredInv
<1>6. DispatchInv
  BY <1>1 DEF DispatchInv, Init, Frontier
<1>7. PhysicInv
  <2>1. recovery.queue = NoQueue /\ phase = "running"
    BY DEF Init, NoRecovery
  <2>2. \A q \in Queues : q # recovery.queue
    BY <2>1, NotNone
  <2>3. ASSUME NEW q \in Queues PROVE maxPhysicOffset[q] <= Len(log)
    <3>1. maxPhysicOffset[q] = 0 /\ Len(log) = 0 /\ 0 <= 0
      BY <1>1, <1>2
    <3>2. QED
      BY <3>1
  <2>4. QED
    BY <1>1, <1>2, <2>1, <2>2, <2>3 DEF PhysicInv
<1>8. FilesInv
  <2>1. recovery.left = {} /\ recovery.queue = NoQueue /\ ~created
    BY DEF Init, NoRecovery
  <2>2. 0 <= 0 * CqPerFile
    BY StoreAssumption
  <2>3. QED
    BY <1>2, <2>1, <2>2 DEF FilesInv
<1>9. QED
  BY <1>3, <1>4, <1>5, <1>6, <1>7, <1>8 DEF IndexInv

\* Steps that touch neither the log nor the queues nor the list of requests,
\* and at most pass a timestamp on.
LEMMA QuietIndex ==
    ASSUME SurvivesInv, SurvivesInv', IndexInv,
           UNCHANGED <<log, dispatch, created, writeable, cq, cqFiles, maxPhysicOffset,
                       phase, abort, recovery, topicQueueTable, puts, exits>>,
           logicsMsgTimestamp' \in {logicsMsgTimestamp, flush.ts},
           flush'.ts \in {flush.ts, logicsMsgTimestamp, 0},
           checkpoint'.logics \in {checkpoint.logics, logicsMsgTimestamp},
           phase # "down" \/ UNCHANGED <<flush, checkpoint>>
    PROVE  IndexInv'
<1>a. LogTypeOK /\ QueueTypeOK /\ StampInv /\ HoleInv
  BY DEF SurvivesInv
<1>b. /\ EntriesInv /\ RankInv /\ ClosedInv /\ DispatchInv
      /\ PhysicInv /\ FilesInv /\ CoveredInv
  BY DEF IndexInv
<1> USE <1>a, <1>b
<1>1. \A i : (Whole(i)' <=> Whole(i)) /\ (Indexed(i)' <=> Indexed(i))
  BY DEF Whole, Indexed
<1>2. Frontier' = Frontier /\ Dirty' = Dirty /\ Request' = Request
      /\ \A q : Known(q)' <=> Known(q)
  BY DEF Frontier, Dirty, Request, Known
<1>3. EntriesInv'
  BY <1>2 DEF EntriesInv
<1>4. RankInv'
  BY <1>1 DEF RankInv
<1>5. ClosedInv'
  BY <1>1 DEF ClosedInv
<1>6. DispatchInv'
  <2>1. Known(Request.queue)' <=> Known(Request.queue)
    BY DEF Known, Request
  <2>2. QED
    BY <1>1, <1>2, <2>1 DEF DispatchInv
<1>7. PhysicInv'
  BY <1>1, <1>2 DEF PhysicInv
<1>8. FilesInv'
  BY <1>2 DEF FilesInv
<1>9. CoveredInv'
  <2> SUFFICES ASSUME NEW i \in 1 .. Len(log), Whole(i),
                      \/ phase # "down" /\ log[i].ts + Backoff <= logicsMsgTimestamp'
                      \/ log[i].ts + Backoff <= flush'.ts
                      \/ log[i].ts + Backoff <= checkpoint'.logics
               PROVE  Indexed(i)
    BY <1>1, LogFacts DEF CoveredInv
  <2>1. log[i] # Hole /\ i \in DOMAIN log
    BY WholeFacts, LogFacts
  <2>0. puts \in Nat
    BY DEF LogTypeOK
  <2>2. log[i].ts \in 1 .. puts
    BY <2>1 DEF StampInv
  <2>3. ~(log[i].ts + Backoff <= 0)
    BY <2>0, <2>2, StoreAssumption
  <2>4. \/ phase # "down" /\ log[i].ts + Backoff <= logicsMsgTimestamp
        \/ log[i].ts + Backoff <= flush.ts
        \/ log[i].ts + Backoff <= checkpoint.logics
    BY <2>3
  <2>5. QED
    BY <2>1, <2>4 DEF CoveredInv
<1>10. QED
  BY <1>3, <1>4, <1>5, <1>6, <1>7, <1>8, <1>9 DEF IndexInv

\* Flushing changes no entry, and no timestamp to one that was not there.
LEMMA FlushIndex ==
    ASSUME SurvivesInv, SurvivesInv', IndexInv, FlushLog \/ FlushQueues
    PROVE  IndexInv'
<1> USE DEF SurvivesInv
<1>1. /\ UNCHANGED <<log, dispatch, created, writeable, cq, cqFiles, maxPhysicOffset,
                     phase, abort, recovery, topicQueueTable, puts, exits>>
      /\ logicsMsgTimestamp' \in {logicsMsgTimestamp, flush.ts}
      /\ \/ checkpoint' = checkpoint
         \/ checkpoint' = [physic |-> physicMsgTimestamp, logics |-> logicsMsgTimestamp]
  BY DEF FlushLog, FlushQueues, FlushBegin, FlushQueue, FlushSet, FlushWrite, dispatchVars,
         logVars, cqVars, runVars, histVars
<1>2. phase = "running" \/ flush.pc # "idle"
  BY DEF FlushLog, FlushQueues, FlushBegin, FlushQueue, FlushSet, FlushWrite
<1>3. phase = "running"
  BY <1>2 DEF HoleInv, Idle
<1>4. flush'.ts \in {flush.ts, logicsMsgTimestamp, 0}
  <2>1. flush \in [pc : {"idle", "queues", "write"}, ts : 0 .. puts,
                   left : SUBSET Queues, late : Nat]
    BY DEF LogTypeOK
  <2>2. \/ flush' = flush
        \/ flush' = [pc |-> "queues", ts |-> logicsMsgTimestamp, left |-> Queues, late |-> 0]
        \/ \E q \in Queues : flush' = [flush EXCEPT !.left = flush.left \ {q}]
        \/ flush' = [flush EXCEPT !.pc = "write"]
        \/ flush' = Idle
    BY DEF FlushLog, FlushQueues, FlushBegin, FlushQueue, FlushSet, FlushWrite
  <2>3. QED
    BY <2>1, <2>2 DEF Idle
<1>5. checkpoint'.logics \in {checkpoint.logics, logicsMsgTimestamp}
  BY <1>1
<1>6. QED
  BY <1>1, <1>3, <1>4, <1>5, QuietIndex

\* A new message gets the next queue offset and the last place on the list.
LEMMA PutIndex ==
    ASSUME SurvivesInv, SurvivesInv', IndexInv, NEW q \in Queues, putMessage(q)
    PROVE  IndexInv'
<1>a. LogTypeOK /\ QueueTypeOK /\ StampInv /\ HoleInv
  BY DEF SurvivesInv
<1>b. /\ EntriesInv /\ RankInv /\ ClosedInv /\ DispatchInv
      /\ PhysicInv /\ FilesInv /\ CoveredInv
  BY DEF IndexInv
<1> USE <1>a, <1>b
<1> DEFINE n == Len(log) + 1
           T == topicQueueTable[q]
<1>1. /\ Len(log') = n /\ DOMAIN log' = 1 .. n
      /\ \A i \in 1 .. Len(log) : log'[i] = log[i]
      /\ log'[n].queue = q /\ log'[n].at = T /\ log'[n].ts = puts + 1
      /\ puts' = puts + 1 /\ phase = "running"
  <2>1. log'[n] = [queue |-> q, at |-> T, ts |-> puts + 1]
    BY PutLog
  <2>2. QED
    BY <2>1, PutLog
<1>2. /\ writeable /\ topicQueueTable' = [topicQueueTable EXCEPT ![q] = T + 1]
      /\ dispatch' = Append(dispatch, n)
      /\ UNCHANGED <<created, writeable, cq, cqFiles, maxPhysicOffset, logicsMsgTimestamp,
                     checkpoint, flush, phase, abort, recovery>>
  BY DEF putMessage, cqVars, pointVars
<1>3. /\ Len(log) \in Nat /\ DOMAIN log = 1 .. Len(log) /\ T \in Nat /\ puts \in Nat
      /\ \A i \in 1 .. Len(log) : i \in 1 .. n /\ i < n
      /\ \A i \in 1 .. n : i = n \/ i \in 1 .. Len(log)
      /\ topicQueueTable'[q] = T + 1
      /\ \A p \in Queues : p # q => topicQueueTable'[p] = topicQueueTable[p]
  <2>1. Len(log) \in Nat /\ DOMAIN log = 1 .. Len(log) /\ puts \in Nat
    BY LogFacts DEF LogTypeOK
  <2>2. T \in Nat /\ topicQueueTable \in [Queues -> Nat]
    BY DEF QueueTypeOK
  <2> HIDE DEF T
  <2>3. QED
    BY <1>2, <2>1, <2>2
<1>4. /\ \A i \in 1 .. Len(log) : Whole(i) /\ log[i] # Hole
      /\ \A i \in 1 .. n : Whole(i)'
  <2>1. Whole(Len(log)) /\ Whole(Len(log))'
    BY <1>1, <1>2 DEF HoleInv, SurvivesInv
  <2>2. QED
    BY <1>1, <1>3, <2>1 DEF Whole
<1>5. /\ \A p \in Queues : \A k \in DOMAIN cq[p] : cq[p][k] \in 1 .. Len(log)
      /\ Dirty = {} /\ Dirty' = {} /\ recovery.queue = NoQueue
  <2>1. Dirty = {} /\ Dirty' = {} /\ recovery.queue = NoQueue
    BY <1>1, <1>2 DEF Dirty, HoleInv
  <2>2. ASSUME NEW p \in Queues, NEW k \in 1 .. Len(cq[p]) PROVE cq[p][k] \in 1 .. Len(log)
    <3>1. cq[p][k] <= Len(log) /\ cq[p][k] \in Nat \ {0}
      BY <2>1, EntryFacts, QueueFacts DEF EntriesInv
    <3>2. QED
      BY <1>3, <3>1
  <2>3. QED
    BY <2>1, <2>2, QueueFacts
<1> HIDE DEF n
<1>6. \A i \in 1 .. Len(log) : Indexed(i)' <=> Indexed(i)
  BY <1>1, <1>2 DEF Indexed
<1>7. EntriesInv'
  <2>1. \A p \in Queues : \A k \in DOMAIN cq[p] : cq[p][k] \in k .. puts'
    <3> SUFFICES ASSUME NEW p \in Queues, NEW k \in 1 .. Len(cq[p]) PROVE cq[p][k] \in k .. puts'
      BY QueueFacts
    <3>1. cq[p][k] \in Nat /\ k <= cq[p][k] /\ cq[p][k] <= puts /\ k \in Nat
      BY EntryFacts, QueueFacts
    <3>2. QED
      BY <1>1, <1>3, <3>1
  <2>2. ASSUME NEW p \in Queues
        PROVE  /\ \A k, m \in DOMAIN cq[p] : k < m => cq[p][k] < cq[p][m]
               /\ \A k \in DOMAIN cq[p] : cq[p][k] <= Len(log')
               /\ \A k \in DOMAIN cq[p] : log'[cq[p][k]].queue = p /\ log'[cq[p][k]].at = k - 1
    BY <1>1, <1>3, <1>4, <1>5 DEF EntriesInv
  <2>3. QED
    BY <1>2, <2>1, <2>2 DEF EntriesInv
<1>8. /\ \A i \in 1 .. Len(log) : log[i].queue = q => log[i].at < T
      /\ \A a \in 0 .. T - 1 : \E i \in 1 .. Len(log) : log[i].queue = q /\ log[i].at = a
  <2>1. /\ \A i \in DOMAIN log : log[i].queue = q => log[i].at < topicQueueTable[q]
        /\ \A a \in 0 .. topicQueueTable[q] - 1 :
              \E i \in DOMAIN log : log[i].queue = q /\ log[i].at = a
    BY <1>1, <1>2 DEF RankInv
  <2>2. QED
    BY <1>3, <2>1
<1> HIDE DEF T
<1>9. RankInv'
  <2>1. ASSUME NEW i \in 1 .. n, NEW j \in 1 .. n, i < j, log'[i].queue = log'[j].queue
        PROVE  log'[i].at < log'[j].at
    <3>1. i \in 1 .. Len(log)
      BY <1>3, <2>1 DEF n
    <3>2. CASE j = n
      BY <1>1, <1>8, <2>1, <3>1, <3>2
    <3>3. CASE j \in 1 .. Len(log)
      BY <1>1, <1>3, <1>4, <2>1, <3>1, <3>3 DEF RankInv
    <3>4. QED
      BY <1>3, <3>2, <3>3
  <2>2. ASSUME NEW i \in 1 .. n, NEW a \in 0 .. log'[i].at - 1
        PROVE  \E j \in 1 .. i - 1 : log'[j].queue = log'[i].queue /\ log'[j].at = a
    <3>1. CASE i = n
      <4>1. PICK j \in 1 .. Len(log) : log[j].queue = q /\ log[j].at = a
        BY <1>1, <1>8, <2>2, <3>1
      <4>2. j \in 1 .. i - 1
        BY <1>3, <3>1 DEF n
      <4>3. QED
        BY <1>1, <3>1, <4>1, <4>2
    <3>2. CASE i \in 1 .. Len(log)
      <4>0. i \in DOMAIN log /\ Whole(i) /\ log'[i] = log[i] /\ a \in 0 .. log[i].at - 1
        BY <1>1, <1>3, <1>4, <2>2, <3>2
      <4>1. PICK j \in 1 .. i - 1 : log[j].queue = log[i].queue /\ log[j].at = a
        BY <4>0 DEF RankInv
      <4>2. j \in 1 .. Len(log)
        BY <1>3, <3>2
      <4>3. QED
        BY <1>1, <3>2, <4>1, <4>2
    <3>3. QED
      BY <1>3, <3>1, <3>2
  <2>3. ASSUME NEW p \in Queues
        PROVE  /\ \A i \in 1 .. n : log'[i].queue = p => log'[i].at < topicQueueTable'[p]
               /\ \A a \in 0 .. topicQueueTable'[p] - 1 :
                     \E i \in 1 .. n : log'[i].queue = p /\ log'[i].at = a
    <3>0. /\ \A i \in 1 .. Len(log) : log[i].queue = p => log[i].at < topicQueueTable[p]
          /\ \A a \in 0 .. topicQueueTable[p] - 1 :
                \E i \in 1 .. Len(log) : log[i].queue = p /\ log[i].at = a
      BY <1>1, <1>2, <1>3 DEF RankInv
    <3>1. CASE p # q
      <4>1. topicQueueTable'[p] = topicQueueTable[p]
        BY <1>3, <3>1
      <4>2. \A i \in 1 .. n : log'[i].queue = p => i \in 1 .. Len(log)
        BY <1>1, <1>3, <3>1
      <4>3. QED
        BY <1>1, <1>3, <3>0, <4>1, <4>2
    <3>2. CASE p = q
      <4>1. ASSUME NEW i \in 1 .. n, log'[i].queue = p PROVE log'[i].at < T + 1
        <5>1. CASE i = n
          BY <1>1, <1>3, <5>1
        <5>2. CASE i \in 1 .. Len(log)
          <6>1. log'[i].at = log[i].at /\ log[i].at < T /\ log[i].at \in Nat
            BY <1>1, <1>4, <1>8, <3>2, <4>1, <5>2, LogFacts
          <6>2. QED
            BY <1>3, <6>1
        <5>3. QED
          BY <1>3, <5>1, <5>2
      <4>2. ASSUME NEW a \in 0 .. T
            PROVE  \E i \in 1 .. n : log'[i].queue = p /\ log'[i].at = a
        <5>1. CASE a = T
          BY <1>1, <1>3, <3>2, <5>1 DEF n
        <5>2. CASE a # T
          <6>1. a \in 0 .. T - 1
            BY <1>3, <5>2
          <6>2. QED
            BY <1>1, <1>3, <1>8, <3>2, <6>1
        <5>3. QED
          BY <5>1, <5>2
      <4>3. topicQueueTable'[p] = T + 1 /\ topicQueueTable'[p] - 1 = T
        BY <1>3, <3>2
      <4>4. 0 .. topicQueueTable'[p] - 1 = 0 .. T
        BY <4>3
      <4>5. QED
        BY <4>1, <4>2, <4>3, <4>4
    <3>3. QED
      BY <3>1, <3>2
  <2>4. QED
    BY <1>1, <2>1, <2>2, <2>3, SMTT(30) DEF RankInv
<1>10. ClosedInv'
  <2> SUFFICES ASSUME NEW i \in 1 .. n, NEW k \in DOMAIN cq[log'[i].queue],
                      i <= cq[log'[i].queue][k]
               PROVE  Indexed(i)'
    BY <1>1, <1>2 DEF ClosedInv
  <2>1. log'[i].queue \in Queues
    BY <1>1, <1>3, <1>4, LogFacts
  <2>2. i \in 1 .. Len(log)
    BY <1>3, <1>5, <2>1 DEF n
  <2>3. QED
    BY <1>1, <1>3, <1>4, <1>6, <2>2 DEF ClosedInv
<1>11. /\ Len(dispatch) \in Nat /\ Len(dispatch') = Len(dispatch) + 1
       /\ DOMAIN dispatch = 1 .. Len(dispatch) /\ DOMAIN dispatch' = 1 .. Len(dispatch) + 1
       /\ \A k \in 1 .. Len(dispatch) : dispatch'[k] = dispatch[k]
       /\ dispatch'[Len(dispatch) + 1] = n
  <2>1. dispatch \in Seq(Nat) /\ n \in Nat
    BY <1>3 DEF LogTypeOK, n
  <2>2. QED
    BY <1>2, <2>1
<1>12. Frontier = Len(log) - Len(dispatch) /\ Frontier' = Frontier /\ Frontier \in 0 .. Len(log)
  <2>1. Frontier = Len(log) - Len(dispatch) /\ Frontier >= 0
    BY <1>1 DEF Frontier, DispatchInv
  <2>2. Frontier' = n - (Len(dispatch) + 1)
    BY <1>1, <1>2, <1>11 DEF Frontier
  <2>3. QED
    BY <1>3, <1>11, <2>1, <2>2 DEF n
<1>13. created => /\ dispatch # <<>> /\ dispatch' # <<>> /\ Head(dispatch') = Head(dispatch)
                  /\ Request' = Request /\ Request.queue \in Queues
  <2> SUFFICES ASSUME created
               PROVE  /\ dispatch # <<>> /\ dispatch' # <<>> /\ Head(dispatch') = Head(dispatch)
                      /\ Request' = Request /\ Request.queue \in Queues
    OBVIOUS
  <2>1. dispatch # <<>>
    BY DEF DispatchInv
  <2>2. /\ Head(dispatch) = dispatch[1] /\ dispatch[1] \in 1 .. Len(log) /\ Request.queue \in Queues
        /\ Len(dispatch) # 0
    BY <2>1, TakeRequest
  <2>3. dispatch' # <<>> /\ Head(dispatch') = dispatch'[1]
    <3>1. dispatch' \in Seq(Nat)
      BY DEF SurvivesInv, LogTypeOK
    <3>2. Len(dispatch') # 0
      BY <1>11
    <3>3. QED
      BY <3>1, <3>2, EmptySeq
  <2>4. dispatch'[1] = dispatch[1]
    BY <1>11, <2>2
  <2>5. QED
    BY <1>1, <2>1, <2>2, <2>3, <2>4 DEF Request
<1>14. DispatchInv'
  <2>1. \A k \in DOMAIN dispatch' : dispatch'[k] = Frontier + k
    <3>1. \A k \in 1 .. Len(dispatch) : dispatch[k] = Frontier + k
      BY <1>1, <1>11 DEF DispatchInv
    <3>2. n = Frontier + (Len(dispatch) + 1)
      BY <1>3, <1>11, <1>12 DEF n
    <3>3. QED
      BY <1>11, <3>1, <3>2
  <2>2. created => dispatch' # <<>> /\ writeable /\ ~Known(Request.queue)'
    BY <1>2, <1>13 DEF DispatchInv, Known
  <2>3. \A i \in 1 .. Frontier : Indexed(i)'
    BY <1>1, <1>2, <1>3, <1>6, <1>12 DEF DispatchInv
  <2>4. abort'
    BY <1>1, <1>2 DEF HoleInv
  <2>5. Frontier >= 0
    BY <1>12
  <2>6. QED
    BY <1>1, <1>2, <1>12, <2>1, <2>2, <2>3, <2>4, <2>5 DEF DispatchInv
<1>15. PhysicInv'
  <2> SUFFICES ASSUME NEW p \in Queues
               PROVE  /\ \A k \in DOMAIN cq[p] : cq[p][k] <= maxPhysicOffset[p]
                      /\ \A i \in 1 .. n :
                            log'[i].queue = p /\ i <= maxPhysicOffset[p] => Indexed(i)'
                      /\ maxPhysicOffset[p] <= n
    BY <1>1, <1>2, <1>4, <1>5, NotNone DEF PhysicInv
  <2>1. /\ \A k \in DOMAIN cq[p] : cq[p][k] <= maxPhysicOffset[p]
        /\ \A i \in 1 .. Len(log) : log[i].queue = p /\ i <= maxPhysicOffset[p] => Indexed(i)
        /\ maxPhysicOffset[p] <= Len(log)
    BY <1>1, <1>3, <1>4, <1>5, NotNone DEF PhysicInv
  <2>2. maxPhysicOffset[p] < n /\ maxPhysicOffset[p] \in Int /\ n \in Int
    BY <1>3, <2>1, QueueFacts DEF n
  <2>3. QED
    BY <1>1, <1>3, <1>6, <2>1, <2>2
<1>16. FilesInv'
  <2>1. \A p \in Queues : created /\ p = Request'.queue <=> created /\ p = Request.queue
    BY <1>13
  <2>2. QED
    BY <1>2, <2>1 DEF FilesInv
<1>17. CoveredInv'
  <2> SUFFICES ASSUME NEW i \in 1 .. n,
                      \/ log'[i].ts + Backoff <= logicsMsgTimestamp
                      \/ log'[i].ts + Backoff <= flush.ts
                      \/ log'[i].ts + Backoff <= checkpoint.logics
               PROVE  Indexed(i)'
    BY <1>1, <1>2 DEF CoveredInv
  <2>1. logicsMsgTimestamp \in 0 .. puts /\ flush.ts \in 0 .. puts /\ checkpoint.logics \in 0 .. puts
    BY DEF LogTypeOK
  <2>2. i # n
    BY <1>1, <1>3, <2>1, StoreAssumption
  <2>3. i \in 1 .. Len(log)
    BY <1>3, <2>2
  <2>4. QED
    BY <1>1, <1>3, <1>4, <1>6, <2>3 DEF CoveredInv
<1>18. QED
  BY <1>7, <1>9, <1>10, <1>14, <1>15, <1>16, <1>17 DEF IndexInv

\* A request is taken off the list: the frontier moves on by one.
LEMMA TakeFrontier ==
    ASSUME SurvivesInv, IndexInv, dispatch # <<>>, dispatch' = Tail(dispatch),
           UNCHANGED <<log, phase, recovery>>
    PROVE  /\ Frontier' = Head(dispatch) /\ Frontier' = Frontier + 1 /\ Frontier' >= 0
           /\ \A k \in DOMAIN dispatch' : dispatch'[k] = Frontier' + k
<1>a. LogTypeOK /\ DispatchInv
  BY DEF SurvivesInv, IndexInv
<1>1. /\ Len(dispatch') = Len(dispatch) - 1 /\ Len(dispatch) \in Nat \ {0}
      /\ \A k \in 1 .. Len(dispatch) - 1 : dispatch'[k] = dispatch[k + 1]
      /\ dispatch' \in Seq(Nat) /\ dispatch \in Seq(Nat)
  BY <1>a, TakeRequest DEF LogTypeOK
<1>2. Head(dispatch) = Frontier + 1 /\ Frontier \in Nat /\ phase # "down"
  BY HeadFacts
<1>3. Len(log) \in Nat /\ recovery.pos \in Nat
  BY <1>a, LogFacts DEF LogTypeOK
<1>4. Frontier' = Frontier + 1
  BY <1>1, <1>3 DEF Frontier
<1>5. DOMAIN dispatch' = 1 .. Len(dispatch) - 1 /\ DOMAIN dispatch = 1 .. Len(dispatch)
  BY <1>1
<1>6. \A k \in DOMAIN dispatch' : k \in Nat /\ k + 1 \in DOMAIN dispatch /\ dispatch'[k] = dispatch[k + 1]
  BY <1>1, <1>5
<1>7. \A k \in DOMAIN dispatch : dispatch[k] = Frontier + k
  BY <1>a, <1>2 DEF DispatchInv
<1>8. QED
  BY <1>2, <1>4, <1>6, <1>7

\* What the timestamp of a request covers lies before it.
LEMMA OlderBefore ==
    ASSUME SurvivesInv, NEW i \in 1 .. Len(log), NEW j \in 1 .. Len(log),
           log[i] # Hole, log[j] # Hole, log[j].ts <= log[i].ts
    PROVE  j <= i
<1>1. Len(log) \in Nat /\ DOMAIN log = 1 .. Len(log) /\ log[i].ts \in Nat /\ log[j].ts \in Nat
  BY LogFacts DEF SurvivesInv
<1>2. i < j => log[i].ts < log[j].ts
  BY <1>1 DEF SurvivesInv, StampInv
<1>3. QED
  BY <1>1, <1>2

\* A request that is skipped is indexed already.
LEMMA SkipIndex ==
    ASSUME SurvivesInv, SurvivesInv', IndexInv, DispatchSkip
    PROVE  IndexInv'
<1>a. LogTypeOK /\ QueueTypeOK /\ StampInv /\ HoleInv
  BY DEF SurvivesInv
<1>b. /\ EntriesInv /\ RankInv /\ ClosedInv /\ DispatchInv
      /\ PhysicInv /\ FilesInv /\ CoveredInv
  BY DEF IndexInv
<1> USE <1>a, <1>b
<1> DEFINE h == Head(dispatch)
<1>1. /\ dispatch # <<>> /\ phase # "down" /\ writeable /\ Known(Request.queue) /\ ~created
      /\ logicsMsgTimestamp' = Request.ts /\ InWindow /\ dispatch' = Tail(dispatch)
      /\ UNCHANGED <<log, topicQueueTable, created, writeable, cq, cqFiles, maxPhysicOffset,
                     checkpoint, phase, abort, recovery, puts, exits>>
  BY DEF DispatchSkip, InWindow, logVars, cqVars, runVars
<1>2. /\ h = Frontier + 1 /\ h \in 1 .. Len(log) /\ Whole(h) /\ Frontier \in Nat
      /\ Request = log[h] /\ log[h] # Hole /\ log[h].queue \in Queues /\ recovery.queue = NoQueue
      /\ Len(log) \in Nat /\ DOMAIN log = 1 .. Len(log)
  BY <1>1, HeadFacts, LogFacts
<1>3. Frontier' = h /\ Frontier' = Frontier + 1 /\ Frontier' >= 0
      /\ \A k \in DOMAIN dispatch' : dispatch'[k] = Frontier' + k
  BY <1>1, TakeFrontier
<1> HIDE DEF h
<1>4. h <= maxPhysicOffset[log[h].queue]
  BY <1>1, <1>2 DEF Known, h
<1>5. Indexed(h)
  BY <1>1, <1>2, <1>4, NotNone DEF PhysicInv
<1>6. ASSUME NEW i \in 1 .. h PROVE Indexed(i)
  <2>1. CASE i = h
    BY <1>5, <2>1
  <2>2. CASE i # h
    <3>1. i \in 1 .. Frontier
      BY <1>2, <2>2
    <3>2. QED
      BY <1>1, <3>1 DEF DispatchInv
  <2>3. QED
    BY <2>1, <2>2
<1>7. \A i : (Whole(i)' <=> Whole(i)) /\ (Indexed(i)' <=> Indexed(i))
  BY <1>1 DEF Whole, Indexed
<1>8. Dirty' = Dirty /\ flush'.ts = flush.ts
  <2>1. flush' = flush \/ flush' = [flush EXCEPT !.late = flush.late + 1]
    BY <1>1 DEF InWindow
  <2>2. flush'.ts = flush.ts
    BY <2>1 DEF LogTypeOK
  <2>3. QED
    BY <1>1, <2>2 DEF Dirty
<1>9. EntriesInv'
  BY <1>1, <1>8 DEF EntriesInv
<1>10. RankInv' /\ ClosedInv'
  BY <1>1, <1>7 DEF RankInv, ClosedInv
<1>11. DispatchInv'
  <2>1. phase' \notin {"down", "truncate"} /\ abort'
    BY <1>1 DEF DispatchInv, HoleInv
  <2>2. \A i \in 1 .. h : Indexed(i)'
    BY <1>6, <1>7
  <2>3. QED
    BY <1>1, <1>3, <2>1, <2>2 DEF DispatchInv
<1>12. PhysicInv'
  BY <1>1, <1>7, <1>8 DEF PhysicInv
<1>13. FilesInv'
  BY <1>1 DEF FilesInv
<1>14. CoveredInv'
  <2> SUFFICES ASSUME NEW i \in 1 .. Len(log), Whole(i),
                      \/ log[i].ts + Backoff <= log[h].ts
                      \/ log[i].ts + Backoff <= flush.ts
                      \/ log[i].ts + Backoff <= checkpoint.logics
               PROVE  Indexed(i)
    BY <1>1, <1>2, <1>7, <1>8 DEF CoveredInv
  <2>1. CASE log[i].ts + Backoff <= log[h].ts
    <3>1. log[i].ts <= log[h].ts /\ log[i] # Hole
      BY <1>2, <2>1, LogFacts, WholeFacts, StoreAssumption
    <3>2. i <= h
      BY <1>2, <3>1, OlderBefore
    <3>3. QED
      BY <1>2, <1>6, <3>2
  <2>2. CASE \/ log[i].ts + Backoff <= flush.ts
             \/ log[i].ts + Backoff <= checkpoint.logics
    BY <1>2, <2>2 DEF CoveredInv
  <2>3. QED
    BY <2>1, <2>2
<1>15. QED
  BY <1>9, <1>10, <1>11, <1>12, <1>13, <1>14 DEF IndexInv

\* A new file changes nothing but the number of files: the first one of a
\* queue needs no blank entries.
LEMMA CreateFacts ==
    ASSUME SurvivesInv, IndexInv, DispatchCreate
    PROVE  LET q == Request.queue IN
           /\ q \in Queues /\ Request.at = Len(cq[q])
           /\ cq' = cq /\ cqFiles' = [cqFiles EXCEPT ![q] = cqFiles[q] + 1]
           /\ CqFull(q) /\ ~Known(q) /\ created' = TRUE /\ ~created /\ writeable
           /\ dispatch # <<>>
           /\ UNCHANGED <<log, topicQueueTable, dispatch, writeable, maxPhysicOffset,
                     logicsMsgTimestamp, checkpoint, flush, phase, abort, recovery, puts, exits>>
<1> DEFINE q == Request.queue
<1>1. /\ CqFull(q) /\ ~Known(q) /\ created' = TRUE /\ ~created /\ writeable
      /\ dispatch # <<>>
      /\ UNCHANGED <<log, topicQueueTable, dispatch, writeable, maxPhysicOffset,
                logicsMsgTimestamp, checkpoint, flush, phase, abort, recovery, puts, exits>>
      /\ IF cqFiles[q] = 0
           THEN /\ cqFiles' = [cqFiles EXCEPT ![q] = Request.at \div CqPerFile + 1]
                /\ cq' = [cq EXCEPT ![q] = [k \in 1 .. Request.at |-> Blank]]
           ELSE /\ cqFiles' = [cqFiles EXCEPT ![q] = cqFiles[q] + 1]
                /\ cq' = cq
  BY DEF DispatchCreate, logVars, pointVars, runVars
<1>2. q \in Queues /\ Request.at = Len(cq[q])
  BY <1>1, HeadFacts, AtEnd
<1>3. /\ cqFiles[q] \in Nat /\ CqPerFile \in Nat \ {0} /\ Len(cq[q]) \in Nat
      /\ cq[q] \in Seq(Int) /\ cq \in [Queues -> Seq(Int)] /\ cqFiles \in [Queues -> Nat]
  BY <1>2, QueueFacts, StoreAssumption DEF SurvivesInv, QueueTypeOK
<1> HIDE DEF q
<1>4. CASE cqFiles[q] = 0
  <2>1. Request.at = 0 /\ Len(cq[q]) = 0
    BY <1>1, <1>2, <1>3, <1>4 DEF CqFull
  <2>2. 0 \div CqPerFile = 0
    BY <1>3
  <2>3. [k \in 1 .. Request.at |-> Blank] = cq[q]
    <3>1. cq[q] = <<>>
      BY <1>3, <2>1, EmptySeq
    <3>2. [k \in 1 .. 0 |-> Blank] = <<>>
      <4>1. [k \in 1 .. 0 |-> Blank] \in Seq(Int)
        BY DEF Blank
      <4>2. Len([k \in 1 .. 0 |-> Blank]) = 0
        BY <4>1, LenProperties
      <4>3. QED
        BY <4>1, <4>2, EmptySeq
    <3>3. QED
      BY <2>1, <3>1, <3>2
  <2>4. cqFiles' = [cqFiles EXCEPT ![q] = cqFiles[q] + 1]
    BY <1>1, <1>4, <2>1, <2>2
  <2>5. cq' = cq
    BY <1>1, <1>2, <1>3, <1>4, <2>3, ZenonT(30)
  <2>6. QED
    BY <1>1, <1>2, <2>4, <2>5 DEF q
<1>5. CASE cqFiles[q] # 0
  BY <1>1, <1>2, <1>5 DEF q
<1>6. QED
  BY <1>4, <1>5

\* A new file of a queue changes no entry: its first one begins where the
\* message belongs.
LEMMA CreateIndex ==
    ASSUME SurvivesInv, SurvivesInv', IndexInv, DispatchCreate
    PROVE  IndexInv'
<1>a. LogTypeOK /\ QueueTypeOK /\ StampInv /\ HoleInv
  BY DEF SurvivesInv
<1>b. /\ EntriesInv /\ RankInv /\ ClosedInv /\ DispatchInv
      /\ PhysicInv /\ FilesInv /\ CoveredInv
  BY DEF IndexInv
<1> USE <1>a, <1>b
<1> DEFINE q == Request.queue
<1>1. /\ q \in Queues
      /\ cq' = cq /\ cqFiles' = [cqFiles EXCEPT ![q] = cqFiles[q] + 1]
      /\ CqFull(q) /\ ~Known(q) /\ created' = TRUE /\ ~created /\ writeable
      /\ dispatch # <<>>
      /\ UNCHANGED <<log, topicQueueTable, dispatch, writeable, maxPhysicOffset,
                     logicsMsgTimestamp, checkpoint, flush, phase, abort, recovery, puts, exits>>
  BY CreateFacts
<1>2. \A i : (Whole(i)' <=> Whole(i)) /\ (Indexed(i)' <=> Indexed(i))
  BY <1>1 DEF Whole, Indexed
<1>3. Frontier' = Frontier /\ Dirty' = Dirty /\ Request' = Request
  BY <1>1 DEF Frontier, Dirty, Request
<1>4. EntriesInv'
  BY <1>1, <1>3 DEF EntriesInv
<1>5. RankInv' /\ ClosedInv' /\ CoveredInv'
  BY <1>1, <1>2 DEF RankInv, ClosedInv, CoveredInv
<1>6. DispatchInv'
  <2>1. ~Known(Request.queue)'
    BY <1>1, <1>3 DEF Known
  <2>2. QED
    BY <1>1, <1>2, <1>3, <2>1 DEF DispatchInv
<1>7. \A p \in Queues : /\ cqFiles[p] \in Nat
                        /\ cqFiles'[p] = IF p = q THEN cqFiles[p] + 1 ELSE cqFiles[p]
  BY <1>1, QueueFacts DEF QueueTypeOK
<1>8. PhysicInv'
  <2>1. \A p \in Queues : cqFiles'[p] = 0 => cqFiles[p] = 0
    BY <1>7
  <2>2. QED
    BY <1>1, <1>2, <1>3, <2>1 DEF PhysicInv
<1>9. FilesInv'
  <2>1. recovery.left = {} /\ recovery.queue = NoQueue
    BY <1>1, HeadFacts
  <2>2. ASSUME NEW p \in Queues, p # q
        PROVE  /\ Len(cq[p]) <= cqFiles'[p] * CqPerFile
               /\ cqFiles'[p] > 0 => Len(cq[p]) > (cqFiles'[p] - 1) * CqPerFile
    BY <1>1, <1>7, <2>2 DEF FilesInv
  <2>3. Len(cq[q]) = cqFiles[q] * CqPerFile /\ cqFiles'[q] = cqFiles[q] + 1 /\ cqFiles[q] \in Nat
        /\ CqPerFile \in Nat
    BY <1>1, <1>7, StoreAssumption DEF CqFull
  <2>4. /\ cqFiles'[q] > 0 /\ cqFiles'[q] - 1 = cqFiles[q]
        /\ Len(cq[q]) = (cqFiles'[q] - 1) * CqPerFile /\ Len(cq[q]) <= cqFiles'[q] * CqPerFile
    <3> DEFINE F == cqFiles[q]
               C == CqPerFile
    <3>1. F \in Nat /\ C \in Nat /\ (F + 1) - 1 = F /\ F * C <= (F + 1) * C /\ F + 1 > 0
      BY <2>3
    <3>2. QED
      BY <2>3, <3>1
  <2> HIDE DEF q
  <2>5. Request'.queue = q
    BY <1>3 DEF q
  <2>6. QED
    BY <1>1, <2>1, <2>2, <2>4, <2>5 DEF FilesInv
<1>10. QED
  BY <1>4, <1>5, <1>6, <1>8, <1>9 DEF IndexInv

\* A request is dropped: from then on nothing is claimed of the rest.
LEMMA FailsIndex ==
    ASSUME SurvivesInv, SurvivesInv', IndexInv, DispatchFails
    PROVE  IndexInv'
<1>a. LogTypeOK /\ QueueTypeOK /\ StampInv /\ HoleInv
  BY DEF SurvivesInv
<1>b. /\ EntriesInv /\ RankInv /\ ClosedInv /\ DispatchInv
      /\ PhysicInv /\ FilesInv /\ CoveredInv
  BY DEF IndexInv
<1> USE <1>a, <1>b
<1>1. /\ dispatch # <<>> /\ phase # "down" /\ ~created
      /\ writeable' = FALSE /\ dispatch' = Tail(dispatch)
      /\ UNCHANGED <<log, topicQueueTable, created, cq, cqFiles, maxPhysicOffset,
                     logicsMsgTimestamp, flush, checkpoint, phase, abort, recovery, puts, exits>>
  BY DEF DispatchFails, logVars, cqVars, runVars, pointVars
<1>2. /\ Frontier' >= 0 /\ \A k \in DOMAIN dispatch' : dispatch'[k] = Frontier' + k
  BY <1>1, TakeFrontier
<1>3. \A i : (Whole(i)' <=> Whole(i)) /\ (Indexed(i)' <=> Indexed(i))
  BY <1>1 DEF Whole, Indexed
<1>4. Dirty' = Dirty
  BY <1>1 DEF Dirty
<1>5. EntriesInv'
  BY <1>1, <1>4 DEF EntriesInv
<1>6. RankInv' /\ ClosedInv' /\ CoveredInv'
  <2>1. ~writeable'
    BY <1>1
  <2>2. RankInv'
    BY <1>1, <1>3, <2>1 DEF RankInv
  <2>3. ClosedInv' /\ CoveredInv'
    BY <1>1, <1>3 DEF ClosedInv, CoveredInv
  <2>4. QED
    BY <2>2, <2>3
<1>7. DispatchInv'
  <2>1. phase' \notin {"down", "truncate"} /\ abort'
    BY <1>1 DEF DispatchInv, HoleInv
  <2>2. QED
    BY <1>1, <1>2, <2>1 DEF DispatchInv
<1>8. PhysicInv'
  BY <1>1, <1>3, <1>4 DEF PhysicInv
<1>9. FilesInv'
  BY <1>1 DEF FilesInv
<1>10. QED
  BY <1>5, <1>6, <1>7, <1>8, <1>9 DEF IndexInv

\* The entry at the end of the queue is where the message belongs.
LEMMA AppendIndex ==
    ASSUME SurvivesInv, SurvivesInv', IndexInv, DispatchAppend
    PROVE  IndexInv'
<1>a. LogTypeOK /\ QueueTypeOK /\ StampInv /\ HoleInv
  BY DEF SurvivesInv
<1>b. /\ EntriesInv /\ RankInv /\ ClosedInv /\ DispatchInv
      /\ PhysicInv /\ FilesInv /\ CoveredInv
  BY DEF IndexInv
<1> USE <1>a, <1>b
<1> DEFINE h == Head(dispatch)
           q == log[h].queue
           len == Len(cq[q])
<1>1. /\ dispatch # <<>> /\ phase # "down" /\ writeable /\ (created \/ ~Known(Request.queue))
      /\ ~CqFull(Request.queue) /\ created' = FALSE
      /\ cq' = [cq EXCEPT ![Request.queue] = Append(@, Head(dispatch))]
      /\ maxPhysicOffset' = [maxPhysicOffset EXCEPT ![Request.queue] = Head(dispatch)]
      /\ logicsMsgTimestamp' = Request.ts /\ InWindow /\ dispatch' = Tail(dispatch)
      /\ UNCHANGED <<log, topicQueueTable, writeable, cqFiles,
                     checkpoint, phase, abort, recovery, puts>>
  BY DEF DispatchAppend, logVars, runVars
<1>2. /\ h = Frontier + 1 /\ h \in 1 .. Len(log) /\ Whole(h) /\ Frontier \in Nat
      /\ Request = log[h] /\ log[h] # Hole /\ q \in Queues
      /\ recovery.queue = NoQueue /\ recovery.left = {} /\ Dirty = {}
      /\ Len(log) \in Nat /\ DOMAIN log = 1 .. Len(log)
  BY <1>1, HeadFacts, LogFacts
<1>3. Frontier' = h /\ Frontier' >= 0
      /\ \A k \in DOMAIN dispatch' : dispatch'[k] = Frontier' + k
  BY <1>1, TakeFrontier
<1>4. ~Known(Request.queue) /\ log[h].at = len
  <2>1. ~Known(Request.queue)
    BY <1>1 DEF DispatchInv
  <2>2. QED
    BY <1>1, <1>2, <2>1, AtEnd
<1>5. /\ len \in Nat /\ DOMAIN cq[q] = 1 .. len /\ cq[q] \in Seq(Int) /\ cq \in [Queues -> Seq(Int)]
      /\ maxPhysicOffset \in [Queues -> Int] /\ maxPhysicOffset[q] \in Int
      /\ maxPhysicOffset[q] < h
  <2>1. maxPhysicOffset[q] \in Int /\ ~(h <= maxPhysicOffset[q])
    BY <1>2, <1>4, QueueFacts DEF Known
  <2> HIDE DEF h
  <2>2. maxPhysicOffset[q] < h
    BY <1>2, <2>1
  <2>3. QED
    BY <1>2, <2>1, <2>2, QueueFacts DEF QueueTypeOK
<1> HIDE DEF h, q, len
<1>6. /\ cq' = [cq EXCEPT ![q] = Append(cq[q], h)]
      /\ maxPhysicOffset' = [maxPhysicOffset EXCEPT ![q] = h]
  BY <1>1, <1>2 DEF h, q
<1>7. /\ Len(cq'[q]) = len + 1 /\ DOMAIN cq'[q] = 1 .. len + 1
      /\ \A k \in 1 .. len : cq'[q][k] = cq[q][k]
      /\ cq'[q][len + 1] = h /\ maxPhysicOffset'[q] = h
  <2>1. cq'[q] = Append(cq[q], h) /\ maxPhysicOffset'[q] = h
    BY <1>2, <1>5, <1>6
  <2>2. QED
    BY <1>2, <1>5, <2>1 DEF len
<1>8. \A p \in Queues : p # q => cq'[p] = cq[p] /\ maxPhysicOffset'[p] = maxPhysicOffset[p]
  BY <1>5, <1>6
<1>9. \A k \in 1 .. len : cq[q][k] <= maxPhysicOffset[q] /\ cq[q][k] < h
  <2>1. \A k \in 1 .. len : cq[q][k] <= maxPhysicOffset[q] /\ cq[q][k] \in Int
    BY <1>1, <1>2, <1>5, NotNone, QueueFacts DEF PhysicInv, len
  <2>2. QED
    BY <1>2, <1>5, <2>1
<1>10. \A i : Whole(i)' <=> Whole(i)
  BY <1>1 DEF Whole
<1>11. ASSUME NEW i \in 1 .. Len(log), Whole(i), Indexed(i) PROVE Indexed(i)'
  <2>1. /\ log[i].queue \in Queues /\ log[i].at \in Nat
        /\ log[i].at + 1 \in 1 .. Len(cq[log[i].queue])
        /\ cq[log[i].queue][log[i].at + 1] = i
    BY <1>11, IndexedFacts, WholeFacts
  <2>2. CASE log[i].queue = q
    <3>1. log[i].at < len + 1 /\ cq'[q][log[i].at + 1] = i
      BY <1>5, <1>7, <2>1, <2>2 DEF len
    <3>2. QED
      BY <1>1, <1>7, <2>2, <3>1 DEF Indexed
  <2>3. CASE log[i].queue # q
    BY <1>1, <1>8, <1>11, <2>1, <2>3 DEF Indexed
  <2>4. QED
    BY <2>2, <2>3
<1>12. ASSUME NEW i \in 1 .. h PROVE i \in 1 .. Len(log) /\ Whole(i) /\ Indexed(i)'
  <2>1. i \in 1 .. Len(log) /\ Whole(i)
    BY <1>2, WholeFacts
  <2>2. CASE i = h
    <3>1. log[i].queue = q /\ log[i].at = len
      BY <1>4, <2>2 DEF q
    <3>2. len < len + 1
      BY <1>5
    <3>3. QED
      BY <1>1, <1>7, <2>2, <3>1, <3>2, <2>1 DEF Indexed
  <2>3. CASE i # h
    <3>1. i \in 1 .. Frontier
      BY <1>2, <2>3
    <3>2. Indexed(i)
      BY <1>1, <3>1 DEF DispatchInv
    <3>3. QED
      BY <1>11, <2>1, <3>2
  <2>4. QED
    BY <2>2, <2>3
<1>13. Dirty' = {} /\ flush'.ts = flush.ts
  <2>1. flush' = flush \/ flush' = [flush EXCEPT !.late = flush.late + 1]
    BY <1>1 DEF InWindow
  <2>2. flush'.ts = flush.ts
    BY <2>1 DEF LogTypeOK
  <2>3. QED
    BY <1>1, <1>2, <2>2, HeadFacts DEF Dirty
<1>14. EntriesInv'
  <2>1. ASSUME NEW p \in Queues, p # q
        PROVE  /\ \A k \in DOMAIN cq'[p] : cq'[p][k] \in k .. puts
               /\ \A k, m \in DOMAIN cq'[p] : k < m => cq'[p][k] < cq'[p][m]
               /\ \A k \in DOMAIN cq'[p] : cq'[p][k] <= Len(log)
               /\ \A k \in DOMAIN cq'[p] :
                     log[cq'[p][k]] # Hole => log[cq'[p][k]].queue = p /\ log[cq'[p][k]].at = k - 1
    BY <1>2, <1>8, <2>1 DEF EntriesInv
  <2>2. /\ \A k \in 1 .. len : cq[q][k] \in k .. puts
        /\ \A k, m \in 1 .. len : k < m => cq[q][k] < cq[q][m]
        /\ \A k \in 1 .. len : cq[q][k] <= Len(log)
        /\ \A k \in 1 .. len :
              log[cq[q][k]] # Hole => log[cq[q][k]].queue = q /\ log[cq[q][k]].at = k - 1
    BY <1>2, <1>5 DEF EntriesInv
  <2>3. h \in len + 1 .. puts
    <3>1. h <= puts /\ puts \in Nat
      BY <1>2 DEF StampInv, LogTypeOK
    <3>2. CASE len = 0
      BY <1>2, <3>1, <3>2
    <3>3. CASE len # 0
      <4>1. len \in 1 .. len
        BY <1>5, <3>3
      <4>2. cq[q][len] \in len .. puts /\ cq[q][len] < h
        BY <1>9, <2>2, <4>1
      <4>3. QED
        BY <1>2, <1>5, <3>1, <4>2
    <3>4. QED
      BY <3>2, <3>3
  <2>4. \A k \in 1 .. len + 1 : k = len + 1 \/ k \in 1 .. len
    BY <1>5
  <2>5. \A k \in DOMAIN cq'[q] : cq'[q][k] \in k .. puts /\ cq'[q][k] <= Len(log)
    BY <1>2, <1>7, <2>2, <2>3, <2>4
  <2>6. \A k, m \in DOMAIN cq'[q] : k < m => cq'[q][k] < cq'[q][m]
    <3> SUFFICES ASSUME NEW k \in 1 .. len + 1, NEW m \in 1 .. len + 1, k < m
                 PROVE  cq'[q][k] < cq'[q][m]
      BY <1>7
    <3>1. k \in 1 .. len
      BY <1>5
    <3>2. CASE m = len + 1
      BY <1>7, <1>9, <3>1, <3>2
    <3>3. CASE m \in 1 .. len
      BY <1>7, <2>2, <3>1, <3>3
    <3>4. QED
      BY <2>4, <3>2, <3>3
  <2>7. \A k \in DOMAIN cq'[q] :
              log[cq'[q][k]] # Hole => log[cq'[q][k]].queue = q /\ log[cq'[q][k]].at = k - 1
    <3>1. log[h].queue = q /\ log[h].at = (len + 1) - 1
      BY <1>4, <1>5 DEF q
    <3>2. QED
      BY <1>7, <2>2, <2>4, <3>1
  <2>8. QED
    BY <1>1, <2>1, <2>5, <2>6, <2>7, ZenonT(30) DEF EntriesInv
<1>15. RankInv'
  BY <1>1, <1>10 DEF RankInv
<1>16. ClosedInv'
  <2> SUFFICES ASSUME NEW i \in 1 .. Len(log), Whole(i),
                      NEW k \in DOMAIN cq'[log[i].queue], i <= cq'[log[i].queue][k]
               PROVE  Indexed(i)'
    BY <1>1, <1>2, <1>10 DEF ClosedInv
  <2>1. log[i].queue \in Queues
    BY WholeFacts
  <2>2. CASE log[i].queue # q
    <3>1. Indexed(i)
      BY <1>2, <1>8, <2>1, <2>2 DEF ClosedInv
    <3>2. QED
      BY <1>11, <3>1
  <2>3. CASE log[i].queue = q
    <3>1. CASE k = len + 1
      BY <1>2, <1>7, <1>12, <2>3, <3>1
    <3>2. CASE k \in 1 .. len
      <4>1. Indexed(i)
        BY <1>2, <1>5, <1>7, <2>3, <3>2 DEF ClosedInv
      <4>2. QED
        BY <1>11, <4>1
    <3>3. QED
      BY <1>5, <1>7, <2>3, <3>1, <3>2
  <2>4. QED
    BY <2>2, <2>3
<1>17. DispatchInv'
  <2>1. phase' \notin {"down", "truncate"} /\ abort'
    BY <1>1 DEF DispatchInv, HoleInv
  <2>2. QED
    BY <1>1, <1>3, <1>12, <2>1 DEF DispatchInv
<1>18. cqFiles[q] > 0 /\ cqFiles[q] \in Nat /\ len < cqFiles[q] * CqPerFile /\ CqPerFile \in Nat \ {0}
  <2>1. len <= cqFiles[q] * CqPerFile /\ len # cqFiles[q] * CqPerFile
    BY <1>1, <1>2 DEF FilesInv, CqFull, q, len
  <2>2. cqFiles[q] \in Nat /\ CqPerFile \in Nat \ {0}
    BY <1>2, QueueFacts, StoreAssumption
  <2>3. cqFiles[q] # 0
    BY <1>5, <2>1, <2>2
  <2>4. QED
    BY <1>5, <2>1, <2>2, <2>3
<1>19. PhysicInv'
  <2>1. ASSUME NEW p \in Queues, p # q
        PROVE  /\ \A k \in DOMAIN cq'[p] : cq'[p][k] <= maxPhysicOffset'[p]
               /\ \A i \in 1 .. Len(log) :
                    Whole(i) /\ log[i].queue = p /\ i <= maxPhysicOffset'[p] => Indexed(i)'
               /\ maxPhysicOffset'[p] <= Len(log)
               /\ phase = "scan" /\ cqFiles[p] = 0 => maxPhysicOffset'[p] = 0
    BY <1>1, <1>2, <1>8, <1>11, <2>1, NotNone DEF PhysicInv
  <2>2. \A k \in DOMAIN cq'[q] : cq'[q][k] <= h
    <3>1. \A k \in 1 .. len : cq'[q][k] <= h
      BY <1>2, <1>5, <1>7, <1>9, QueueFacts DEF len
    <3>2. h <= h
      BY <1>2
    <3>3. QED
      BY <1>5, <1>7, <3>1, <3>2
  <2>3. \A i \in 1 .. Len(log) : i <= h => i \in 1 .. h
    BY <1>2
  <2>4. QED
    BY <1>1, <1>2, <1>7, <1>10, <1>12, <1>13, <1>18, <2>1, <2>2, <2>3, NotNone, SMTT(30) DEF PhysicInv
<1>20. FilesInv'
  <2>1. ASSUME NEW p \in Queues, p # q
        PROVE  /\ Len(cq'[p]) <= cqFiles[p] * CqPerFile
               /\ cqFiles[p] > 0 => Len(cq'[p]) > (cqFiles[p] - 1) * CqPerFile
    BY <1>1, <1>2, <1>8, <2>1 DEF FilesInv, q
  <2>2. len >= (cqFiles[q] - 1) * CqPerFile
    <3>1. \/ len = (cqFiles[q] - 1) * CqPerFile
          \/ len > (cqFiles[q] - 1) * CqPerFile
      BY <1>2, <1>18 DEF FilesInv, len
    <3>2. (cqFiles[q] - 1) * CqPerFile \in Int
      BY <1>18
    <3>3. QED
      BY <1>5, <3>1, <3>2
  <2>3. /\ len + 1 <= cqFiles[q] * CqPerFile /\ len + 1 > (cqFiles[q] - 1) * CqPerFile
    <3>1. cqFiles[q] * CqPerFile \in Int /\ (cqFiles[q] - 1) * CqPerFile \in Int
      BY <1>18
    <3>2. QED
      BY <1>5, <1>18, <2>2, <3>1
  <2>4. QED
    BY <1>1, <1>2, <1>7, <2>1, <2>3 DEF FilesInv
<1>21. CoveredInv'
  <2> SUFFICES ASSUME NEW i \in 1 .. Len(log), Whole(i),
                      \/ log[i].ts + Backoff <= log[h].ts
                      \/ log[i].ts + Backoff <= flush.ts
                      \/ log[i].ts + Backoff <= checkpoint.logics
               PROVE  Indexed(i)'
    BY <1>1, <1>2, <1>10, <1>13 DEF CoveredInv
  <2>1. CASE log[i].ts + Backoff <= log[h].ts
    <3>1. log[i].ts <= log[h].ts /\ log[i] # Hole
      BY <1>2, <2>1, LogFacts, WholeFacts, StoreAssumption
    <3>2. i <= h
      BY <1>2, <3>1, OlderBefore
    <3>3. QED
      BY <1>2, <1>12, <3>2
  <2>2. CASE \/ log[i].ts + Backoff <= flush.ts
             \/ log[i].ts + Backoff <= checkpoint.logics
    BY <1>2, <1>11, <2>2 DEF CoveredInv
  <2>3. QED
    BY <2>1, <2>2
<1>22. QED
  BY <1>14, <1>15, <1>16, <1>17, <1>19, <1>20, <1>21 DEF IndexInv

\* Steps that take the broker down and leave the log and the queues alone.
LEMMA DownIndex ==
    ASSUME SurvivesInv, SurvivesInv', IndexInv, phase # "down", NEW exit, GoDown(exit),
           UNCHANGED <<log, cq, cqFiles, puts>>,
           checkpoint'.logics \in {checkpoint.logics, logicsMsgTimestamp},
           Dirty = {},
           \A q \in Queues : cqFiles[q] > 0 => Len(cq[q]) > (cqFiles[q] - 1) * CqPerFile,
           ~abort' => \A i \in DOMAIN log : Indexed(i)
    PROVE  IndexInv'
<1>a. LogTypeOK /\ QueueTypeOK /\ StampInv /\ HoleInv
  BY DEF SurvivesInv
<1>b. /\ EntriesInv /\ RankInv /\ ClosedInv /\ DispatchInv
      /\ PhysicInv /\ FilesInv /\ CoveredInv
  BY DEF IndexInv
<1> USE <1>a, <1>b
<1>1. /\ phase' = "down" /\ dispatch' = <<>> /\ created' = FALSE /\ writeable' = TRUE
      /\ flush' = Idle /\ recovery' = NoRecovery
  BY DEF GoDown
<1>2. \A i : (Whole(i)' <=> Whole(i)) /\ (Indexed(i)' <=> Indexed(i))
  BY DEF Whole, Indexed
<1>3. Dirty' = {}
  BY <1>1 DEF Dirty
<1>4. EntriesInv'
  BY <1>3 DEF EntriesInv
<1>5. RankInv'
  BY <1>1, <1>2 DEF RankInv
<1>6. ClosedInv'
  BY <1>2 DEF ClosedInv
<1>7. DispatchInv'
  BY <1>1, <1>2 DEF DispatchInv
<1>8. PhysicInv'
  BY <1>1 DEF PhysicInv
<1>9. FilesInv'
  BY <1>1 DEF FilesInv, NoRecovery
<1>10. CoveredInv'
  <2> SUFFICES ASSUME NEW i \in 1 .. Len(log), Whole(i),
                      \/ log[i].ts + Backoff <= flush'.ts
                      \/ log[i].ts + Backoff <= checkpoint'.logics
               PROVE  Indexed(i)
    BY <1>1, <1>2, LogFacts DEF CoveredInv
  <2>1. log[i] # Hole /\ i \in DOMAIN log
    BY WholeFacts, LogFacts
  <2>2. puts \in Nat
    BY DEF LogTypeOK
  <2>3. log[i].ts \in 1 .. puts
    BY <2>1 DEF StampInv
  <2>4. ~(log[i].ts + Backoff <= 0) /\ flush'.ts = 0
    BY <1>1, <2>2, <2>3, StoreAssumption DEF Idle
  <2>5. \/ log[i].ts + Backoff <= logicsMsgTimestamp
        \/ log[i].ts + Backoff <= checkpoint.logics
    BY <2>4
  <2>6. QED
    BY <2>1, <2>5 DEF CoveredInv
<1>11. QED
  BY <1>4, <1>5, <1>6, <1>7, <1>8, <1>9, <1>10 DEF IndexInv

\* A shutdown that leaves no request behind comes when every message is indexed.
LEMMA ShutdownIndex ==
    ASSUME SurvivesInv, SurvivesInv', IndexInv, Shutdown, Regular'
    PROVE  IndexInv'
<1>1. /\ phase = "running" /\ dispatch = <<>> /\ GoDown("normal") /\ writeable
      /\ checkpoint' = [physic |-> physicMsgTimestamp, logics |-> logicsMsgTimestamp]
      /\ UNCHANGED <<log, cq, cqFiles, puts>>
  BY DEF Shutdown, Regular, Disorders, Since
<1>2. LogTypeOK /\ DispatchInv /\ FilesInv
  BY DEF SurvivesInv, IndexInv
<1>3. ~created /\ writeable
  BY <1>1, <1>2 DEF DispatchInv
<1>4. Frontier = Len(log) /\ DOMAIN log = 1 .. Len(log)
  <2>1. Len(dispatch) = 0 /\ Len(log) \in Nat
    BY <1>1, <1>2, LogFacts
  <2>2. QED
    BY <1>1, <1>2, <2>1, LogFacts DEF Frontier
<1>5. \A i \in DOMAIN log : Indexed(i)
  BY <1>1, <1>2, <1>3, <1>4 DEF DispatchInv
<1>6. \A q \in Queues : cqFiles[q] > 0 => Len(cq[q]) > (cqFiles[q] - 1) * CqPerFile
  BY <1>2, <1>3 DEF FilesInv
<1>7. Dirty = {}
  BY <1>1 DEF Dirty
<1>8. checkpoint'.logics = logicsMsgTimestamp
  BY <1>1
<1>9. QED
  BY <1>1, <1>5, <1>6, <1>7, <1>8, DownIndex

\* A crash of the process keeps the entries.
LEMMA CrashProcessIndex ==
    ASSUME SurvivesInv, SurvivesInv', IndexInv, CrashProcess, Regular'
    PROVE  IndexInv'
<1>1. /\ phase # "down" /\ GoDown("process") /\ "machine" \notin exits
      /\ \A q \in Queues : ~Emptied(q, Len(cq[q]))
      /\ UNCHANGED <<log, cq, cqFiles, puts, checkpoint, abort>>
  BY DEF CrashProcess, Regular, Disorders, Since, logVars, cqVars
<1>2. Dirty = {}
  BY <1>1 DEF Dirty
<1>3. abort'
  BY <1>1 DEF SurvivesInv, HoleInv
<1>4. \A q \in Queues : Len(cq[q]) > (cqFiles[q] - 1) * CqPerFile
  <2> SUFFICES ASSUME NEW q \in Queues PROVE Len(cq[q]) > (cqFiles[q] - 1) * CqPerFile
    OBVIOUS
  <2>1. cqFiles[q] \in Nat /\ Len(cq[q]) \in Nat /\ CqPerFile \in Nat
    BY QueueFacts, StoreAssumption DEF SurvivesInv
  <2>2. ~(Len(cq[q]) <= (cqFiles[q] - 1) * CqPerFile)
    BY <1>1 DEF Emptied
  <2>3. (cqFiles[q] - 1) * CqPerFile \in Int
    BY <2>1
  <2>4. QED
    BY <2>1, <2>2, <2>3
<1>5. QED
  BY <1>1, <1>2, <1>3, <1>4, DownIndex

\* What a crash of the machine leaves of a queue.
LEMMA CrashQueues ==
    ASSUME SurvivesInv, CrashMachine, Regular'
    PROVE  \A q \in Queues :
              /\ Len(cq'[q]) \in cqForced[q] .. Len(cq[q])
              /\ cqForced'[q] = Len(cq'[q])
              /\ \A k \in 1 .. Len(cq'[q]) : cq'[q][k] = cq[q][k]
              /\ cqFiles'[q] = NeededFiles(Len(cq'[q]))
<1>1. PICK kept \in [Queues -> 0 .. MaxPuts] :
          /\ \A q \in Queues : kept[q] \in cqForced[q] .. Len(cq[q])
          /\ cq' = [q \in Queues |-> SubSeq(cq[q], 1, kept[q])]
          /\ cqForced' = kept
          /\ \A q \in Queues : cqFiles'[q] = NeededFiles(kept[q])
  BY DEF CrashMachine, Regular, Disorders, Since
<1> SUFFICES ASSUME NEW q \in Queues
             PROVE  /\ Len(cq'[q]) \in cqForced[q] .. Len(cq[q])
                    /\ cqForced'[q] = Len(cq'[q])
                    /\ \A k \in 1 .. Len(cq'[q]) : cq'[q][k] = cq[q][k]
                    /\ cqFiles'[q] = NeededFiles(Len(cq'[q]))
  OBVIOUS
<1>2. kept[q] \in cqForced[q] .. Len(cq[q]) /\ cqForced[q] \in Nat /\ cq[q] \in Seq(Int)
      /\ Len(cq[q]) \in Nat
  BY <1>1, QueueFacts DEF SurvivesInv
<1>3. cq'[q] = SubSeq(cq[q], 1, kept[q]) /\ cqForced'[q] = kept[q]
  BY <1>1
<1>4. Len(cq'[q]) = kept[q] /\ \A k \in 1 .. kept[q] : cq'[q][k] = cq[q][k]
  BY <1>2, <1>3
<1>5. QED
  BY <1>1, <1>2, <1>3, <1>4

\* How many files a number of entries needs.
LEMMA FilesNeeded ==
    ASSUME NEW n \in Nat
    PROVE  LET F == NeededFiles(n) IN
           F \in Nat /\ n <= F * CqPerFile /\ n > (F - 1) * CqPerFile
<1> DEFINE F == NeededFiles(n)
           C == CqPerFile
<1>1. C \in Nat \ {0} /\ n + C - 1 \in Nat
  BY StoreAssumption
<1>2. F \in Nat /\ C * F <= n + C - 1 /\ n + C - 1 < C * F + C
  BY <1>1, Division DEF NeededFiles
<1> HIDE DEF F, C
<1>3. F * C = C * F /\ (F - 1) * C = C * F - C /\ C * F \in Nat
  BY <1>1, <1>2
<1>4. n <= F * C /\ n > (F - 1) * C
  BY <1>1, <1>2, <1>3
<1>5. QED
  BY <1>2, <1>4 DEF F, C

\* A crash of the machine that is the first exit; what the checkpoint covers
\* was forced.
LEMMA CrashMachineIndex ==
    ASSUME HistoryInv, SurvivesInv, SurvivesInv', IndexInv, PointInv, CrashMachine, Regular'
    PROVE  IndexInv'
<1>a. LogTypeOK /\ QueueTypeOK /\ StampInv /\ HoleInv
  BY DEF SurvivesInv
<1>b. /\ EntriesInv /\ RankInv /\ ClosedInv /\ DispatchInv
      /\ PhysicInv /\ FilesInv /\ CoveredInv
  BY DEF IndexInv
<1> USE <1>a, <1>b
<1>1. /\ phase # "down" /\ phase' = "down" /\ dispatch' = <<>> /\ created' = FALSE /\ writeable' = TRUE
      /\ flush' = Idle /\ recovery' = NoRecovery
      /\ UNCHANGED <<checkpoint, abort, puts>>
  BY DEF CrashMachine, GoDown
<1>2. PICK lost \in SUBSET (DOMAIN log \ logForced) :
          log' = [i \in DOMAIN log |-> IF i \in lost THEN Hole ELSE log[i]]
  BY DEF CrashMachine
<1>3. phase = "running" /\ started = 0 /\ Dirty = {} /\ abort'
  <2>1. exits = {}
    BY DEF CrashMachine, Since, Regular, Disorders, HistoryInv
  <2>2. QED
    BY <1>1, <2>1 DEF HoleInv, Dirty
<1>4. Len(log) \in Nat /\ DOMAIN log = 1 .. Len(log)
  BY LogFacts
<1>5. Len(log') = Len(log) /\ DOMAIN log' = 1 .. Len(log)
      /\ \A i \in 1 .. Len(log) : log'[i] = IF i \in lost THEN Hole ELSE log[i]
  <2>1. log' \in Seq(Message \cup {Hole})
    BY DEF SurvivesInv, LogTypeOK
  <2>2. QED
    BY <1>2, <1>4, <2>1, LenProperties
<1>6. \A i \in 1 .. Len(log) : log'[i] # Hole => log'[i] = log[i]
  BY <1>5
<1>7. \A i \in 1 .. Len(log) : Whole(i) /\ log[i] # Hole
  BY <1>3, WholePast
<1>8. \A i \in 1 .. Len(log) : Whole(i)' => \A j \in 1 .. i : log'[j] = log[j] /\ log'[j] # Hole
  BY <1>4, <1>6 DEF Whole
<1>9. \A q \in Queues :
              /\ Len(cq'[q]) \in cqForced[q] .. Len(cq[q])
              /\ \A k \in 1 .. Len(cq'[q]) : cq'[q][k] = cq[q][k]
              /\ cqFiles'[q] = NeededFiles(Len(cq'[q]))
  BY CrashQueues
<1>10. \A q \in Queues :
              /\ Len(cq'[q]) \in Nat /\ Len(cq[q]) \in Nat
              /\ DOMAIN cq'[q] = 1 .. Len(cq'[q]) /\ DOMAIN cq[q] = 1 .. Len(cq[q])
              /\ cqForced[q] \in Nat
              /\ \A k \in 1 .. Len(cq'[q]) : k \in 1 .. Len(cq[q])
  <2> SUFFICES ASSUME NEW q \in Queues
               PROVE  /\ Len(cq'[q]) \in Nat /\ Len(cq[q]) \in Nat
                      /\ DOMAIN cq'[q] = 1 .. Len(cq'[q]) /\ DOMAIN cq[q] = 1 .. Len(cq[q])
                      /\ cqForced[q] \in Nat
                      /\ \A k \in 1 .. Len(cq'[q]) : k \in 1 .. Len(cq[q])
    OBVIOUS
  <2>1. cq'[q] \in Seq(Int)
    BY DEF SurvivesInv, QueueTypeOK
  <2>2. QED
    BY <1>9, <2>1, QueueFacts
<1>11. ASSUME NEW i \in 1 .. Len(log), Whole(i)', Indexed(i),
              log[i].at < Len(cq'[log[i].queue])
       PROVE  Indexed(i)'
  <2>1. /\ log[i].queue \in Queues /\ log[i].at \in Nat /\ cq[log[i].queue][log[i].at + 1] = i
        /\ log'[i] = log[i]
    BY <1>4, <1>7, <1>8, <1>11, WholeFacts, IndexedFacts
  <2>2. log[i].at + 1 \in 1 .. Len(cq'[log[i].queue])
    BY <1>10, <1>11, <2>1
  <2>3. QED
    BY <1>9, <1>11, <2>1, <2>2 DEF Indexed
<1>12. EntriesInv'
  <2>0. Dirty' = {}
    BY <1>1 DEF Dirty
  <2> SUFFICES ASSUME NEW q \in Queues
               PROVE  /\ \A k \in DOMAIN cq'[q] : cq'[q][k] \in k .. puts
                      /\ \A k, m \in DOMAIN cq'[q] : k < m => cq'[q][k] < cq'[q][m]
                      /\ \A k \in DOMAIN cq'[q] : cq'[q][k] <= Len(log)
                      /\ \A k \in DOMAIN cq'[q] :
                            log'[cq'[q][k]] # Hole =>
                               log'[cq'[q][k]].queue = q /\ log'[cq'[q][k]].at = k - 1
    BY <1>1, <1>5, <2>0 DEF EntriesInv
  <2>1. /\ \A k \in 1 .. Len(cq[q]) : cq[q][k] \in k .. puts
        /\ \A k, m \in 1 .. Len(cq[q]) : k < m => cq[q][k] < cq[q][m]
        /\ \A k \in 1 .. Len(cq[q]) : cq[q][k] <= Len(log)
        /\ \A k \in 1 .. Len(cq[q]) :
              log[cq[q][k]] # Hole => log[cq[q][k]].queue = q /\ log[cq[q][k]].at = k - 1
    BY <1>3, <1>10 DEF EntriesInv
  <2>2. \A k \in 1 .. Len(cq[q]) : cq[q][k] \in 1 .. Len(log)
    BY <1>4, <2>1, EntryFacts
  <2>3. /\ \A k \in DOMAIN cq'[q] : cq'[q][k] \in k .. puts
        /\ \A k, m \in DOMAIN cq'[q] : k < m => cq'[q][k] < cq'[q][m]
        /\ \A k \in DOMAIN cq'[q] : cq'[q][k] <= Len(log)
    BY <1>9, <1>10, <2>1
  <2>4. \A k \in DOMAIN cq'[q] : log'[cq'[q][k]] # Hole => log'[cq'[q][k]] = log[cq[q][k]]
    BY <1>6, <1>9, <1>10, <2>2, SMTT(30)
  <2>5. \A k \in DOMAIN cq'[q] : log'[cq'[q][k]] # Hole =>
                               log'[cq'[q][k]].queue = q /\ log'[cq'[q][k]].at = k - 1
    BY <1>9, <1>10, <2>1, <2>4
  <2>6. QED
    BY <2>3, <2>5
<1>13. RankInv'
  <2>1. ASSUME NEW i \in 1 .. Len(log), NEW j \in 1 .. Len(log), i < j, Whole(j)',
               log'[i].queue = log'[j].queue
        PROVE  log'[i].at < log'[j].at
    <3>1. i \in 1 .. j /\ j \in 1 .. j
      BY <1>4, <2>1
    <3>2. log'[i] = log[i] /\ log'[j] = log[j]
      BY <1>8, <2>1, <3>1
    <3>3. QED
      BY <1>4, <1>7, <2>1, <3>2 DEF RankInv
  <2>2. ASSUME NEW i \in 1 .. Len(log), Whole(i)', NEW a \in 0 .. log'[i].at - 1
        PROVE  \E j \in 1 .. i - 1 : log'[j].queue = log'[i].queue /\ log'[j].at = a
    <3>1. i \in DOMAIN log /\ Whole(i) /\ log'[i] = log[i] /\ a \in 0 .. log[i].at - 1
      BY <1>4, <1>7, <1>8, <2>2
    <3>2. PICK j \in 1 .. i - 1 : log[j].queue = log[i].queue /\ log[j].at = a
      BY <3>1 DEF RankInv
    <3>3. j \in 1 .. i
      BY <1>4
    <3>4. QED
      BY <1>8, <2>2, <3>1, <3>2, <3>3
  <2>3. QED
    BY <1>1, <1>5, <2>1, <2>2 DEF RankInv
<1>14. ClosedInv'
  <2> SUFFICES ASSUME NEW i \in 1 .. Len(log), Whole(i)',
                      NEW k \in DOMAIN cq'[log'[i].queue], i <= cq'[log'[i].queue][k]
               PROVE  Indexed(i)'
    BY <1>5 DEF ClosedInv
  <2> DEFINE q == log[i].queue
             a == log[i].at
  <2>1. log'[i] = log[i] /\ q \in Queues /\ Whole(i) /\ a \in Nat
    BY <1>4, <1>7, <1>8, WholeFacts
  <2>2. k \in 1 .. Len(cq'[q]) /\ k \in 1 .. Len(cq[q]) /\ cq'[q][k] = cq[q][k] /\ i <= cq[q][k]
    BY <1>9, <1>10, <2>1
  <2>3. Indexed(i)
    BY <1>4, <1>10, <2>1, <2>2 DEF ClosedInv
  <2>4. cq[q][a + 1] = i /\ a + 1 \in 1 .. Len(cq[q])
    BY <2>1, <2>3, IndexedFacts
  <2> HIDE DEF q, a
  <2>5. a + 1 <= k
    <3>1. k < a + 1 => cq[q][k] < cq[q][a + 1]
      BY <1>10, <2>1, <2>2, <2>4 DEF EntriesInv
    <3>2. cq[q][k] \in Nat
      BY <2>1, <2>2, EntryFacts
    <3>3. QED
      BY <1>4, <1>10, <2>1, <2>2, <2>4, <3>1, <3>2
  <2>6. a < Len(cq'[q])
    BY <1>10, <2>1, <2>2, <2>5
  <2>7. QED
    BY <1>11, <2>3, <2>6 DEF q, a
<1>15. DispatchInv'
  BY <1>1, <1>3 DEF DispatchInv
<1>16. PhysicInv'
  BY <1>1 DEF PhysicInv
<1>17. FilesInv'
  <2>1. ASSUME NEW q \in Queues
        PROVE  /\ Len(cq'[q]) <= cqFiles'[q] * CqPerFile
               /\ Len(cq'[q]) > (cqFiles'[q] - 1) * CqPerFile
    BY <1>9, <1>10, FilesNeeded
  <2>2. QED
    BY <1>1, <2>1 DEF FilesInv, NoRecovery
<1>18. CoveredInv'
  <2> SUFFICES ASSUME NEW i \in 1 .. Len(log), Whole(i)',
                      \/ log'[i].ts + Backoff <= flush'.ts
                      \/ log'[i].ts + Backoff <= checkpoint.logics
               PROVE  Indexed(i)'
    BY <1>1, <1>5 DEF CoveredInv
  <2>1. log'[i] = log[i] /\ log[i] # Hole /\ i \in DOMAIN log /\ Whole(i) /\ log[i].queue \in Queues
        /\ log[i].at \in Nat
    BY <1>4, <1>7, <1>8, WholeFacts
  <2>2. puts \in Nat
    BY DEF LogTypeOK
  <2>3. log[i].ts \in 1 .. puts
    BY <2>1 DEF StampInv
  <2>4. ~(log[i].ts + Backoff <= 0) /\ flush'.ts = 0
    BY <1>1, <2>2, <2>3, StoreAssumption DEF Idle
  <2>5. log[i].ts + Backoff <= checkpoint.logics
    BY <2>1, <2>4
  <2>6. Indexed(i)
    BY <2>1, <2>5 DEF CoveredInv
  <2>7. i \in started + 1 .. Len(log)
    BY <1>3, <1>4
  <2>8. log[i].at < cqForced[log[i].queue]
    BY <2>1, <2>5, <2>7 DEF PointInv
  <2>9. log[i].at < Len(cq'[log[i].queue])
    BY <1>9, <1>10, <2>1, <2>8
  <2>10. QED
    BY <1>11, <2>6, <2>9
<1>19. QED
  BY <1>12, <1>13, <1>14, <1>15, <1>16, <1>17, <1>18 DEF IndexInv

\* ConsumeQueue.recover loses nothing, as no unit in use is unwritten.
LEMMA LoadQueues ==
    ASSUME SurvivesInv, IndexInv, Load
    PROVE  /\ \A q \in Queues : RecoveredEntries(q) = Len(cq[q])
           /\ cq' = cq /\ cqFiles' = cqFiles /\ cqForced' = cqForced
           /\ \A q \in Queues :
                 /\ cqPosition'[q] = Len(cq[q])
                 /\ maxPhysicOffset'[q] = IF Len(cq[q]) = 0 THEN 0 ELSE cq[q][Len(cq[q])]
<1>a. QueueTypeOK /\ EntriesInv /\ FilesInv /\ DispatchInv
  BY DEF SurvivesInv, IndexInv
<1>1. phase = "down" /\ ~created
  BY <1>a DEF Load, DispatchInv
<1>2. ASSUME NEW q \in Queues PROVE RecoveredEntries(q) = Len(cq[q])
  <2> DEFINE from == Greater(0, cqFiles[q] - 3) * CqPerFile + 1
             bad == { k \in from .. Len(cq[q]) : cq[q][k] = Zero }
  <2>1. cqFiles[q] \in Nat /\ CqPerFile \in Nat /\ Len(cq[q]) \in Nat
    BY <1>a, QueueFacts, StoreAssumption
  <2>2. from \in Nat \ {0}
    BY <2>1 DEF Greater
  <2>3. \A k \in from .. Len(cq[q]) : k \in 1 .. Len(cq[q])
    <3> HIDE DEF from
    <3>1. QED
      BY <2>1, <2>2
  <2>4. \A k \in from .. Len(cq[q]) : cq[q][k] # Zero
    BY <1>a, <2>3, EntryFacts
  <2>5. bad = {}
    BY <2>4
  <2>6. QED
    BY <2>5 DEF RecoveredEntries
<1>3. ASSUME NEW q \in Queues
      PROVE  /\ SubSeq(cq[q], 1, RecoveredEntries(q)) = cq[q]
             /\ Lesser(cqForced[q], RecoveredEntries(q)) = cqForced[q]
             /\ Lesser(cqFiles[q], RecoveredEntries(q) \div CqPerFile + 1) = cqFiles[q]
             /\ RecoveredEntries(q) # 0 =>
                   Physical(cq[q][RecoveredEntries(q)]) = cq[q][RecoveredEntries(q)]
  <2> DEFINE len == Len(cq[q])
             F == cqFiles[q]
             C == CqPerFile
             y == len \div C
  <2>1. /\ len \in Nat /\ F \in Nat /\ C \in Nat \ {0} /\ cqForced[q] \in 0 .. len
        /\ cq[q] \in Seq(Int) /\ RecoveredEntries(q) = len
    BY <1>2, <1>a, QueueFacts, StoreAssumption
  <2>2. SubSeq(cq[q], 1, len) = cq[q]
    BY <2>1
  <2>3. F > 0 => len > (F - 1) * C
    BY <1>1, <1>a DEF FilesInv
  <2>4. len # 0 => Physical(cq[q][len]) = cq[q][len]
    <3>1. len # 0 => len \in 1 .. Len(cq[q])
      BY <2>1
    <3>2. QED
      BY <1>a, <3>1, EntryFacts
  <2> HIDE DEF len, F, C
  <2>5. y \in Nat /\ len < C * y + C
    BY <2>1, Division
  <2> HIDE DEF y
  <2>6. F <= y + 1
    <3> SUFFICES ASSUME F > y + 1 PROVE FALSE
      BY <2>1, <2>5
    <3>1. F - 1 >= y + 1 /\ F > 0 /\ F - 1 \in Nat /\ y + 1 \in Nat
      BY <2>1, <2>5
    <3>2. (F - 1) * C >= (y + 1) * C
      BY <2>1, <3>1, SMTT(30)
    <3>3. (y + 1) * C = C * y + C /\ C * y + C \in Nat /\ (F - 1) * C \in Nat
      BY <2>1, <2>5, <3>1
    <3>4. QED
      BY <2>1, <2>3, <2>5, <3>1, <3>2, <3>3
  <2>7. Lesser(F, y + 1) = F
    BY <2>1, <2>5, <2>6 DEF Lesser
  <2>8. Lesser(cqForced[q], len) = cqForced[q]
    BY <2>1 DEF Lesser
  <2>9. QED
    BY <2>1, <2>2, <2>4, <2>7, <2>8 DEF len, F, C, y
<1>4. /\ cq' = [q \in Queues |-> SubSeq(cq[q], 1, RecoveredEntries(q))]
      /\ cqFiles' = [q \in Queues |->
                     Lesser(cqFiles[q], RecoveredEntries(q) \div CqPerFile + 1)]
      /\ cqForced' = [q \in Queues |-> Lesser(cqForced[q], RecoveredEntries(q))]
      /\ cqPosition' = [q \in Queues |-> RecoveredEntries(q)]
      /\ maxPhysicOffset' = [q \in Queues |->
                             LET n == RecoveredEntries(q)
                             IN IF n = 0 THEN 0 ELSE Physical(cq[q][n])]
  BY DEF Load
<1>5. cq' = cq /\ cqFiles' = cqFiles /\ cqForced' = cqForced
  <2>1. cq \in [Queues -> Seq(Int)] /\ cqFiles \in [Queues -> Nat] /\ cqForced \in [Queues -> Nat]
    BY <1>a DEF QueueTypeOK
  <2>2. QED
    BY <1>3, <1>4, <2>1
<1>6. QED
  BY <1>2, <1>3, <1>4, <1>5

\* What both kinds of recovery keep of the invariant.
LEMMA LoadIndex ==
    ASSUME SurvivesInv, SurvivesInv', IndexInv, Load, log' = log,
           phase' \in {"running", "scan"}, recovery'.queue = NoQueue, recovery'.left = {}
    PROVE  /\ \A i : (Whole(i)' <=> Whole(i)) /\ (Indexed(i)' <=> Indexed(i))
           /\ dispatch = <<>> /\ Len(dispatch') = 0 /\ DOMAIN dispatch' = {}
           /\ dispatch' = <<>> /\ created' = FALSE /\ writeable /\ writeable'
           /\ EntriesInv' /\ ClosedInv' /\ PhysicInv' /\ FilesInv' /\ CoveredInv'
<1>a. LogTypeOK /\ QueueTypeOK /\ StampInv /\ HoleInv
  BY DEF SurvivesInv
<1>b. /\ EntriesInv /\ RankInv /\ ClosedInv /\ DispatchInv
      /\ PhysicInv /\ FilesInv /\ CoveredInv
  BY DEF IndexInv
<1> USE <1>a, <1>b
<1>1. /\ phase = "down" /\ logicsMsgTimestamp' = checkpoint.logics
      /\ UNCHANGED <<dispatch, created, writeable, checkpoint, flush, puts>>
  BY LoadFacts
<1>2. /\ cq' = cq /\ cqFiles' = cqFiles
      /\ \A q \in Queues :
            maxPhysicOffset'[q] = IF Len(cq[q]) = 0 THEN 0 ELSE cq[q][Len(cq[q])]
  BY LoadQueues
<1>3. dispatch = <<>> /\ created = FALSE /\ writeable
  BY <1>1 DEF DispatchInv, QueueTypeOK
<1>4. \A i : (Whole(i)' <=> Whole(i)) /\ (Indexed(i)' <=> Indexed(i))
  BY <1>2 DEF Whole, Indexed
<1>5. Dirty = {} /\ Dirty' = {}
  BY <1>1 DEF Dirty
<1>6. EntriesInv'
  BY <1>1, <1>2, <1>5 DEF EntriesInv
<1>7. ClosedInv'
  BY <1>2, <1>4 DEF ClosedInv
<1>8. PhysicInv'
  <2> SUFFICES ASSUME NEW q \in Queues
               PROVE  /\ \A k \in DOMAIN cq[q] : cq[q][k] <= maxPhysicOffset'[q]
                      /\ \A i \in DOMAIN log :
                           Whole(i) /\ log[i].queue = q /\ i <= maxPhysicOffset'[q] => Indexed(i)
                      /\ maxPhysicOffset'[q] <= Len(log)
                      /\ cqFiles[q] = 0 => maxPhysicOffset'[q] = 0
    BY <1>2, <1>4, NotNone DEF PhysicInv
  <2> DEFINE len == Len(cq[q])
  <2>1. /\ len \in Nat /\ DOMAIN cq[q] = 1 .. len /\ Len(log) \in Nat /\ DOMAIN log = 1 .. Len(log)
        /\ cqFiles[q] \in Nat /\ CqPerFile \in Nat
    BY QueueFacts, LogFacts, StoreAssumption
  <2>2. cqFiles[q] = 0 => len = 0
    <3>1. len <= cqFiles[q] * CqPerFile
      BY DEF FilesInv
    <3>2. QED
      BY <2>1, <3>1
  <2>3. maxPhysicOffset'[q] = IF len = 0 THEN 0 ELSE cq[q][len]
    BY <1>2
  <2> HIDE DEF len
  <2>4. CASE len = 0
    <3>1. maxPhysicOffset'[q] = 0 /\ DOMAIN cq[q] = {}
      BY <2>1, <2>3, <2>4
    <3>2. \A i \in DOMAIN log : ~(i <= 0)
      BY <2>1
    <3>3. 0 <= Len(log)
      BY <2>1
    <3>4. QED
      BY <3>1, <3>2, <3>3
  <2>5. CASE len # 0
    <3>1. maxPhysicOffset'[q] = cq[q][len] /\ len \in 1 .. len
      BY <2>1, <2>3, <2>5
    <3>2. \A k \in 1 .. len : cq[q][k] \in Nat
      BY EntryFacts DEF len
    <3>3. ASSUME NEW k \in 1 .. len PROVE cq[q][k] <= cq[q][len]
      <4>1. CASE k = len
        BY <3>2, <4>1
      <4>2. CASE k # len
        <5>1. k < len
          BY <2>1, <4>2
        <5>2. cq[q][k] < cq[q][len]
          BY <2>1, <3>1, <5>1 DEF EntriesInv
        <5>3. QED
          BY <3>1, <3>2, <5>2
      <4>3. QED
        BY <4>1, <4>2
    <3>4. cq[q][len] <= Len(log)
      BY <1>5, <2>1, <3>1 DEF EntriesInv
    <3>5. \A i \in DOMAIN log : Whole(i) /\ log[i].queue = q /\ i <= cq[q][len] => Indexed(i)
      BY <2>1, <3>1 DEF ClosedInv
    <3>6. QED
      BY <2>1, <2>2, <2>5, <3>1, <3>3, <3>4, <3>5
  <2>6. QED
    BY <2>4, <2>5
<1>9. FilesInv'
  BY <1>1, <1>2, <1>3 DEF FilesInv
<1>10. CoveredInv'
  BY <1>1, <1>4 DEF CoveredInv
<1>11. QED
  BY <1>1, <1>3, <1>4, <1>6, <1>7, <1>8, <1>9, <1>10

\* The queue offsets that a queue with all its messages gives are ranks.
LEMMA TableRanks ==
    ASSUME SurvivesInv, IndexInv, Dirty = {}, \A i \in 1 .. Len(log) : Whole(i) /\ Indexed(i),
           NEW q \in Queues
    PROVE  /\ \A i \in DOMAIN log : log[i].queue = q => log[i].at < Len(cq[q])
           /\ \A a \in 0 .. Len(cq[q]) - 1 :
                 \E i \in DOMAIN log : log[i].queue = q /\ log[i].at = a
<1>a. LogTypeOK /\ QueueTypeOK /\ EntriesInv
  BY DEF SurvivesInv, IndexInv
<1>1. DOMAIN log = 1 .. Len(log) /\ Len(log) \in Nat /\ Len(cq[q]) \in Nat
      /\ DOMAIN cq[q] = 1 .. Len(cq[q])
  BY <1>a, LogFacts, QueueFacts
<1>2. \A i \in DOMAIN log : log[i].queue = q => log[i].at < Len(cq[q])
  BY <1>1 DEF Indexed
<1>3. ASSUME NEW a \in 0 .. Len(cq[q]) - 1
      PROVE  \E i \in DOMAIN log : log[i].queue = q /\ log[i].at = a
  <2>1. a + 1 \in 1 .. Len(cq[q]) /\ (a + 1) - 1 = a
    BY <1>1
  <2> DEFINE e == cq[q][a + 1]
  <2>2. e <= Len(log) /\ e \in Nat \ {0}
    BY <1>a, <1>1, <2>1, EntryFacts DEF EntriesInv
  <2>3. e \in 1 .. Len(log)
    <3> HIDE DEF e
    <3>1. QED
      BY <1>1, <2>2
  <2>4. log[e] # Hole
    BY <1>a, <2>3, WholeFacts
  <2>5. log[e].queue = q /\ log[e].at = (a + 1) - 1
    BY <1>a, <2>1, <2>2, <2>4, EntryMessage
  <2>6. QED
    BY <1>1, <2>1, <2>3, <2>5
<1>4. QED
  BY <1>2, <1>3

\* After a normal exit the lengths of the queues are the next queue offsets.
LEMMA LoadNormallyIndex ==
    ASSUME SurvivesInv, SurvivesInv', IndexInv, LoadNormally
    PROVE  IndexInv'
<1>a. LogTypeOK /\ QueueTypeOK /\ HoleInv /\ QueueTypeOK'
  BY DEF SurvivesInv
<1>b. RankInv /\ DispatchInv
  BY DEF IndexInv
<1>1. Load /\ ~abort /\ log' = log /\ started' = Len(log)
  BY <1>a, LoadNormallySurvives DEF LoadNormally
<1>2. /\ phase' = "running" /\ recovery' = NoRecovery /\ abort' = TRUE
      /\ topicQueueTable' = [q \in Queues |-> RecoveredEntries(q)]
  BY DEF LoadNormally, Start
<1>3. recovery'.queue = NoQueue /\ recovery'.left = {}
  BY <1>2 DEF NoRecovery
<1>4. /\ \A i : (Whole(i)' <=> Whole(i)) /\ (Indexed(i)' <=> Indexed(i))
      /\ dispatch = <<>> /\ Len(dispatch') = 0 /\ DOMAIN dispatch' = {}
      /\ dispatch' = <<>> /\ created' = FALSE /\ writeable /\ writeable'
      /\ EntriesInv' /\ ClosedInv' /\ PhysicInv' /\ FilesInv' /\ CoveredInv'
  BY <1>1, <1>2, <1>3, LoadIndex
<1>5. /\ DOMAIN log = 1 .. Len(log) /\ Len(log) \in Nat
      /\ \A i \in 1 .. Len(log) : Whole(i) /\ Indexed(i)
  <2>1. DOMAIN log = 1 .. Len(log) /\ Len(log) \in Nat
    BY <1>a, LogFacts
  <2>2. Whole(Len(log))
    BY <1>1, <1>a DEF HoleInv
  <2>3. \A i \in 1 .. Len(log) : Whole(i)
    BY <2>1, <2>2 DEF Whole
  <2>4. QED
    BY <1>1, <1>b, <2>1, <2>3 DEF DispatchInv
<1>6. phase = "down" /\ Dirty = {}
  BY <1>1, LoadFacts DEF Dirty
<1>7. \A q \in Queues : topicQueueTable'[q] = Len(cq[q])
  BY <1>1, <1>2, LoadQueues
<1>8. RankInv'
  <2>1. \A q \in Queues :
           /\ \A i \in DOMAIN log : log[i].queue = q => log[i].at < topicQueueTable'[q]
           /\ \A a \in 0 .. topicQueueTable'[q] - 1 :
                 \E i \in DOMAIN log : log[i].queue = q /\ log[i].at = a
    BY <1>5, <1>6, <1>7, TableRanks
  <2>2. QED
    BY <1>1, <1>4, <1>b, <2>1 DEF RankInv
<1>9. DispatchInv'
  <2>1. Frontier' = Len(log)
    BY <1>1, <1>2, <1>4, <1>5 DEF Frontier
  <2>2. QED
    BY <1>1, <1>2, <1>4, <1>5, <2>1 DEF DispatchInv
<1>10. QED
  BY <1>4, <1>8, <1>9 DEF IndexInv

\* What lies before the message that recovery begins with is indexed.
LEMMA LoadAbnormallyIndex ==
    ASSUME SurvivesInv, SurvivesInv', IndexInv, LoadAbnormally
    PROVE  IndexInv'
<1>a. LogTypeOK /\ QueueTypeOK /\ StampInv /\ HoleInv
  BY DEF SurvivesInv
<1>b. RankInv /\ DispatchInv /\ CoveredInv
  BY DEF IndexInv
<1> DEFINE n == RecoverFrom * LogPerFile
<1>1. /\ Load /\ abort /\ log' = log /\ phase' = "scan" /\ abort' = abort
      /\ recovery' = [NoRecovery EXCEPT !.pos = n + 1]
  BY DEF LoadAbnormally, logVars
<1>2. /\ n \in 0 .. Len(log) /\ Len(log) \in Nat /\ DOMAIN log = 1 .. Len(log)
      /\ n # 0 => /\ n + 1 \in 1 .. Len(log) /\ log[n + 1] # Hole
                  /\ log[n + 1].ts + Backoff <= checkpoint.logics
  BY <1>a, RecoverFromFacts, LogFacts
<1> HIDE DEF n
<1>3. recovery'.pos = n + 1 /\ recovery'.queue = NoQueue /\ recovery'.left = {}
  BY <1>1 DEF NoRecovery
<1>4. /\ \A i : (Whole(i)' <=> Whole(i)) /\ (Indexed(i)' <=> Indexed(i))
      /\ dispatch = <<>> /\ Len(dispatch') = 0 /\ DOMAIN dispatch' = {}
      /\ dispatch' = <<>> /\ created' = FALSE /\ writeable /\ writeable'
      /\ EntriesInv' /\ ClosedInv' /\ PhysicInv' /\ FilesInv' /\ CoveredInv'
  BY <1>1, <1>3, LoadIndex
<1>5. \A i \in 1 .. n : Whole(i)
  <2>1. Whole(recovery.pos - 1)'
    BY <1>1 DEF SurvivesInv, HoleInv
  <2>2. recovery'.pos - 1 = n
    BY <1>2, <1>3
  <2>3. \A i \in 1 .. n : log[i] # Hole
    BY <1>1, <2>1, <2>2 DEF Whole
  <2>4. QED
    BY <1>2, <2>3 DEF Whole
<1>6. ASSUME NEW i \in 1 .. n PROVE Indexed(i)
  <2>1. n # 0 /\ i \in 1 .. Len(log) /\ i < n + 1
    BY <1>2
  <2>2. log[i] # Hole /\ Whole(i) /\ log[i].ts \in Nat /\ log[n + 1].ts \in Nat
    BY <1>2, <1>5, <1>a, <2>1, WholeFacts, LogFacts
  <2>3. log[i].ts < log[n + 1].ts
    BY <1>2, <1>a, <2>1, <2>2 DEF StampInv
  <2>4. log[i].ts + Backoff <= checkpoint.logics
    <3>1. checkpoint.logics \in Int /\ Backoff \in Nat
      BY <1>a, StoreAssumption DEF LogTypeOK
    <3>2. QED
      BY <1>2, <2>1, <2>2, <2>3, <3>1
  <2>5. QED
    BY <1>2, <1>b, <2>1, <2>2, <2>4 DEF CoveredInv
<1>7. RankInv'
  BY <1>1, <1>4, <1>b DEF RankInv
<1>8. DispatchInv'
  <2>1. Frontier' = n /\ n >= 0
    <3>1. Frontier' = (n + 1) - 1 - 0
      BY <1>1, <1>3, <1>4 DEF Frontier
    <3>2. QED
      BY <1>2, <3>1
  <2>2. \A i \in 1 .. n : Indexed(i)'
    BY <1>4, <1>6
  <2>3. QED
    BY <1>1, <1>4, <2>1, <2>2 DEF DispatchInv
<1>9. QED
  BY <1>4, <1>7, <1>8 DEF IndexInv

\* A message that is read again comes last on the list.
LEMMA RecoverMessageIndex ==
    ASSUME SurvivesInv, SurvivesInv', IndexInv, RecoverMessage
    PROVE  IndexInv'
<1>a. LogTypeOK /\ QueueTypeOK /\ StampInv /\ HoleInv
  BY DEF SurvivesInv
<1>b. /\ EntriesInv /\ RankInv /\ ClosedInv /\ DispatchInv
      /\ PhysicInv /\ FilesInv /\ CoveredInv
  BY DEF IndexInv
<1> USE <1>a, <1>b
<1> DEFINE n == recovery.pos
<1>1. /\ phase = "scan" /\ dispatch' = Append(dispatch, n)
      /\ recovery' = [recovery EXCEPT !.pos = n + 1]
      /\ UNCHANGED <<log, topicQueueTable, created, writeable, cq, cqFiles, maxPhysicOffset,
                     logicsMsgTimestamp, flush, checkpoint, phase, abort, puts>>
  BY DEF RecoverMessage, logVars, cqVars, pointVars
<1>2. n \in Nat /\ dispatch \in Seq(Nat) /\ Len(dispatch) \in Nat /\ DOMAIN dispatch = 1 .. Len(dispatch)
  BY DEF LogTypeOK
<1>3. recovery'.pos = n + 1 /\ recovery'.left = recovery.left /\ recovery'.queue = recovery.queue
  BY <1>1 DEF LogTypeOK
<1> HIDE DEF n
<1>4. /\ Len(dispatch') = Len(dispatch) + 1 /\ DOMAIN dispatch' = 1 .. Len(dispatch) + 1
      /\ \A k \in 1 .. Len(dispatch) : dispatch'[k] = dispatch[k]
      /\ dispatch'[Len(dispatch) + 1] = n /\ dispatch' \in Seq(Nat)
  BY <1>1, <1>2
<1>5. \A i : (Whole(i)' <=> Whole(i)) /\ (Indexed(i)' <=> Indexed(i))
  BY <1>1 DEF Whole, Indexed
<1>6. Dirty' = {} /\ Dirty = {}
  BY <1>1 DEF Dirty
<1>7. Frontier = n - 1 - Len(dispatch) /\ Frontier' = Frontier
  BY <1>1, <1>2, <1>3, <1>4 DEF Frontier, n
<1>8. created => dispatch # <<>> /\ dispatch' # <<>> /\ Head(dispatch') = Head(dispatch)
                 /\ Request' = Request
  <2> SUFFICES ASSUME created
               PROVE  dispatch # <<>> /\ dispatch' # <<>> /\ Head(dispatch') = Head(dispatch)
    BY <1>1 DEF Request
  <2>1. dispatch # <<>> /\ Len(dispatch) # 0
    BY <1>2, EmptySeq DEF DispatchInv
  <2>2. dispatch' # <<>>
    BY <1>2, <1>4, EmptySeq
  <2>3. Head(dispatch) = dispatch[1] /\ Head(dispatch') = dispatch'[1] /\ dispatch'[1] = dispatch[1]
    BY <1>2, <1>4, <2>1, <2>2
  <2>4. QED
    BY <2>1, <2>2, <2>3
<1>9. EntriesInv'
  BY <1>1, <1>6 DEF EntriesInv
<1>10. RankInv' /\ ClosedInv' /\ CoveredInv'
  <2>1. RankInv'
    BY <1>1, <1>5 DEF RankInv
  <2>2. ClosedInv'
    BY <1>1, <1>5 DEF ClosedInv
  <2>3. CoveredInv'
    BY <1>1, <1>5 DEF CoveredInv
  <2>4. QED
    BY <2>1, <2>2, <2>3
<1>11. DispatchInv'
  <2>1. \A k \in DOMAIN dispatch' : dispatch'[k] = Frontier + k
    <3>1. \A k \in 1 .. Len(dispatch) : dispatch[k] = Frontier + k
      BY <1>1, <1>2 DEF DispatchInv
    <3>2. n = Frontier + (Len(dispatch) + 1)
      BY <1>2, <1>7
    <3>3. QED
      BY <1>2, <1>4, <3>1, <3>2
  <2>2. created => ~Known(Request.queue)'
    BY <1>1, <1>8 DEF DispatchInv, Known
  <2>3. abort'
    BY <1>1 DEF HoleInv
  <2>4. QED
    BY <1>1, <1>5, <1>7, <1>8, <2>1, <2>2, <2>3 DEF DispatchInv
<1>12. PhysicInv'
  BY <1>1, <1>3, <1>5, <1>6 DEF PhysicInv
<1>13. FilesInv'
  BY <1>1, <1>3, <1>8 DEF FilesInv
<1>14. QED
  BY <1>9, <1>10, <1>11, <1>12, <1>13 DEF IndexInv

\* The log is cut off where recovery stopped reading; the queues follow.
LEMMA RecoverTruncateIndex ==
    ASSUME SurvivesInv, SurvivesInv', IndexInv, RecoverTruncate, Regular'
    PROVE  IndexInv'
<1>a. LogTypeOK /\ QueueTypeOK /\ StampInv /\ HoleInv
  BY DEF SurvivesInv
<1>b. /\ EntriesInv /\ RankInv /\ ClosedInv /\ DispatchInv
      /\ PhysicInv /\ FilesInv /\ CoveredInv
  BY DEF IndexInv
<1> USE <1>a, <1>b
<1> DEFINE n == recovery.pos - 1
           left == { q \in Queues : cqFiles[q] > 0 }
<1>1. /\ n \in 0 .. Len(log) /\ Len(log') = n /\ DOMAIN log' = 1 .. n
      /\ \A i \in 1 .. n : log'[i] = log[i]
      /\ \A i \in 1 .. n : log'[i] # Hole /\ Whole(i) /\ Whole(i)'
      /\ \A i \in 1 .. Len(log) : Whole(i) => i <= n
  BY CutLog
<1>2. /\ phase = "scan" /\ phase' = "truncate" /\ dispatch = <<>>
      /\ recovery' = [recovery EXCEPT !.left = left]
      /\ UNCHANGED <<topicQueueTable, dispatch, created, writeable, cq, cqFiles, maxPhysicOffset,
                     logicsMsgTimestamp, flush, checkpoint, abort, puts, exits>>
  BY DEF RecoverTruncate, Regular, Disorders, Since, dispatchVars, pointVars, cqVars
<1>3. /\ Len(log) \in Nat /\ DOMAIN log = 1 .. Len(log) /\ recovery.pos \in Nat
      /\ recovery'.pos = recovery.pos /\ recovery'.left = left /\ recovery'.queue = NoQueue
  BY <1>2, LogFacts DEF LogTypeOK, HoleInv
<1>4. ~created /\ Dirty = {} /\ Len(dispatch) = 0 /\ DOMAIN dispatch = {}
  BY <1>2 DEF DispatchInv, Dirty
<1>5. Frontier = n /\ Frontier' = n
  BY <1>2, <1>3, <1>4 DEF Frontier
<1>6. "machine" \notin exits => n = Len(log)
  <2>1. "machine" \notin exits => Whole(Len(log))
    BY DEF HoleInv
  <2>2. Len(log) # 0 => Len(log) \in 1 .. Len(log)
    BY <1>3
  <2> SUFFICES ASSUME "machine" \notin exits PROVE n = Len(log)
    OBVIOUS
  <2>3. n \in Nat /\ n <= Len(log) /\ Len(log) \in Nat
    <3>1. n \in 0 .. Len(log)
      BY <1>1
    <3> HIDE DEF n
    <3>2. QED
      BY <1>3, <3>1
  <2>4. Len(log) # 0 => Len(log) <= n
    BY <1>1, <2>1, <2>2
  <2> HIDE DEF n
  <2>5. CASE Len(log) = 0
    BY <2>3, <2>5
  <2>6. CASE Len(log) # 0
    BY <2>3, <2>4, <2>6
  <2>7. QED
    BY <2>5, <2>6
<1>7. Dirty' = IF "machine" \in exits THEN left ELSE {}
  BY <1>2, <1>3 DEF Dirty
<1>8. ASSUME NEW q \in Queues, q \notin Dirty' PROVE n = Len(log) \/ cqFiles[q] = 0
  <2>1. cqFiles[q] \in Nat
    BY QueueFacts
  <2>2. CASE "machine" \notin exits
    BY <1>6, <2>2
  <2>3. CASE "machine" \in exits
    <3>1. ~(cqFiles[q] > 0)
      BY <1>7, <1>8, <2>3
    <3>2. QED
      BY <2>1, <3>1
  <2>4. QED
    BY <2>2, <2>3
<1>9. ASSUME NEW q \in Queues, cqFiles[q] = 0 PROVE DOMAIN cq[q] = {}
  <2>1. Len(cq[q]) <= 0 * CqPerFile /\ Len(cq[q]) \in Nat /\ DOMAIN cq[q] = 1 .. Len(cq[q])
    BY <1>9, QueueFacts DEF FilesInv
  <2>2. Len(cq[q]) = 0
    BY <2>1, StoreAssumption
  <2>3. QED
    BY <2>1, <2>2
<1> HIDE DEF n, left
<1>10. \A i \in 1 .. n : i \in 1 .. Len(log) /\ (Indexed(i)' <=> Indexed(i))
  BY <1>1, <1>2, <1>3 DEF Indexed
<1>11. EntriesInv'
  <2> SUFFICES ASSUME NEW q \in Queues
               PROVE  /\ \A k \in DOMAIN cq[q] : cq[q][k] \in k .. puts
                      /\ \A k, m \in DOMAIN cq[q] : k < m => cq[q][k] < cq[q][m]
                      /\ q \notin Dirty' => \A k \in DOMAIN cq[q] : cq[q][k] <= n
                      /\ \A k \in DOMAIN cq[q] :
                            cq[q][k] <= n =>
                               log'[cq[q][k]].queue = q /\ log'[cq[q][k]].at = k - 1
    BY <1>1, <1>2 DEF EntriesInv
  <2>1. \A k \in DOMAIN cq[q] : cq[q][k] <= Len(log) /\ cq[q][k] \in Nat \ {0}
    BY <1>4, EntryFacts, QueueFacts DEF EntriesInv
  <2>2. q \notin Dirty' => \A k \in DOMAIN cq[q] : cq[q][k] <= n
    BY <1>8, <1>9, <2>1
  <2>3. ASSUME NEW k \in DOMAIN cq[q], cq[q][k] <= n
        PROVE  log'[cq[q][k]].queue = q /\ log'[cq[q][k]].at = k - 1
    <3>1. cq[q][k] \in 1 .. n
      BY <1>1, <1>3, <2>1, <2>3
    <3>2. log'[cq[q][k]] = log[cq[q][k]] /\ log[cq[q][k]] # Hole
      BY <1>1, <3>1
    <3>3. QED
      BY <2>1, <3>2 DEF EntriesInv
  <2>4. QED
    BY <2>2, <2>3 DEF EntriesInv
<1>12. RankInv'
  <2>1. ASSUME NEW i \in 1 .. n, NEW j \in 1 .. n, i < j, log'[i].queue = log'[j].queue
        PROVE  log'[i].at < log'[j].at
    BY <1>1, <1>3, <1>10, <2>1 DEF RankInv
  <2>2. ASSUME NEW i \in 1 .. n, NEW a \in 0 .. log'[i].at - 1
        PROVE  \E j \in 1 .. i - 1 : log'[j].queue = log'[i].queue /\ log'[j].at = a
    <3>1. i \in DOMAIN log /\ Whole(i) /\ log'[i] = log[i] /\ a \in 0 .. log[i].at - 1
      BY <1>1, <1>3, <1>10, <2>2
    <3>2. PICK j \in 1 .. i - 1 : log[j].queue = log[i].queue /\ log[j].at = a
      BY <3>1 DEF RankInv
    <3>3. j \in 1 .. n
      BY <1>1, <1>3
    <3>4. QED
      BY <1>1, <3>1, <3>2, <3>3
  <2>3. QED
    BY <1>1, <1>2, <2>1, <2>2 DEF RankInv
<1>13. ClosedInv'
  BY <1>1, <1>2, <1>3, <1>10 DEF ClosedInv
<1>14. DispatchInv'
  <2>1. n >= 0 /\ abort'
    BY <1>1, <1>2, <1>3 DEF HoleInv
  <2>2. writeable => \A i \in 1 .. n : Indexed(i)'
    BY <1>2, <1>5, <1>10 DEF DispatchInv
  <2>3. QED
    BY <1>2, <1>4, <1>5, <2>1, <2>2 DEF DispatchInv
<1>15. PhysicInv'
  <2> SUFFICES ASSUME NEW q \in Queues
               PROVE  /\ \A k \in DOMAIN cq[q] : cq[q][k] <= maxPhysicOffset[q]
                      /\ \A i \in 1 .. n :
                            Whole(i)' /\ log'[i].queue = q /\ i <= maxPhysicOffset[q] => Indexed(i)'
                      /\ q \notin Dirty' => maxPhysicOffset[q] <= n
    BY <1>1, <1>2, <1>3, NotNone DEF PhysicInv
  <2>0. q # recovery.queue
    BY <1>2, NotNone DEF HoleInv
  <2>1. /\ \A k \in DOMAIN cq[q] : cq[q][k] <= maxPhysicOffset[q]
        /\ \A i \in DOMAIN log :
              Whole(i) /\ log[i].queue = q /\ i <= maxPhysicOffset[q] => Indexed(i)
        /\ maxPhysicOffset[q] <= Len(log)
        /\ cqFiles[q] = 0 => maxPhysicOffset[q] = 0
    BY <1>2, <1>4, <2>0 DEF PhysicInv
  <2>2. \A i \in 1 .. n :
          Whole(i)' /\ log'[i].queue = q /\ i <= maxPhysicOffset[q] => Indexed(i)'
    BY <1>1, <1>3, <1>10, <2>1
  <2>3. ASSUME q \notin Dirty' PROVE maxPhysicOffset[q] <= n
    <3>1. CASE n = Len(log)
      BY <2>1, <3>1
    <3>2. CASE cqFiles[q] = 0
      BY <1>1, <1>3, <2>1, <3>2
    <3>3. QED
      BY <1>8, <2>3, <3>1, <3>2
  <2>4. QED
    BY <2>1, <2>2, <2>3
<1>16. FilesInv'
  <2>1. \A q \in left : cqFiles[q] > 0
    BY DEF left
  <2>2. QED
    BY <1>2, <1>3, <1>4, <2>1 DEF FilesInv
<1>17. CoveredInv'
  <2> SUFFICES ASSUME NEW i \in 1 .. n,
                      \/ log'[i].ts + Backoff <= logicsMsgTimestamp
                      \/ log'[i].ts + Backoff <= flush.ts
                      \/ log'[i].ts + Backoff <= checkpoint.logics
               PROVE  Indexed(i)'
    BY <1>1, <1>2 DEF CoveredInv
  <2>1. i \in DOMAIN log /\ Whole(i) /\ log'[i] = log[i] /\ (Indexed(i)' <=> Indexed(i))
    BY <1>1, <1>3, <1>10
  <2>2. QED
    BY <1>2, <2>1 DEF CoveredInv
<1>18. QED
  BY <1>11, <1>12, <1>13, <1>14, <1>15, <1>16, <1>17 DEF IndexInv

\* All of the log is dispatched when the truncation of a queue begins.
LEMMA TruncateBeginIndex ==
    ASSUME SurvivesInv, SurvivesInv', IndexInv, NEW q \in Queues, TruncateBegin(q)
    PROVE  IndexInv'
<1>a. LogTypeOK /\ QueueTypeOK /\ StampInv /\ HoleInv
  BY DEF SurvivesInv
<1>b. /\ EntriesInv /\ RankInv /\ ClosedInv /\ DispatchInv
      /\ PhysicInv /\ FilesInv /\ CoveredInv
  BY DEF IndexInv
<1> USE <1>a, <1>b
<1>1. /\ phase = "truncate" /\ q \in recovery.left /\ recovery.queue = NoQueue
      /\ recovery' = [recovery EXCEPT !.queue = q]
      /\ maxPhysicOffset' = [maxPhysicOffset EXCEPT ![q] = recovery.pos - 1]
      /\ UNCHANGED <<log, topicQueueTable, dispatch, created, writeable, cq, cqFiles,
                     logicsMsgTimestamp, flush, checkpoint, phase, abort, puts, exits>>
  BY DEF TruncateBegin, logVars, dispatchVars, pointVars, histVars
<1>2. /\ recovery'.queue = q /\ recovery'.left = recovery.left /\ recovery'.pos = recovery.pos
      /\ recovery.pos - 1 = Len(log)
  <2>1. recovery.pos = Len(log) + 1 /\ Len(log) \in Nat
    BY <1>1, LogFacts DEF HoleInv
  <2>2. QED
    BY <1>1, <2>1 DEF LogTypeOK
<1>3. \A i : (Whole(i)' <=> Whole(i)) /\ (Indexed(i)' <=> Indexed(i))
  BY <1>1 DEF Whole, Indexed
<1>4. Dirty' = Dirty /\ Frontier' = Frontier /\ dispatch = <<>> /\ ~created
  BY <1>1, <1>2 DEF Dirty, Frontier, DispatchInv
<1>5. EntriesInv'
  BY <1>1, <1>4 DEF EntriesInv
<1>6. RankInv'
  BY <1>1, <1>3 DEF RankInv
<1>7. ClosedInv'
  BY <1>1, <1>3 DEF ClosedInv
<1>8. CoveredInv'
  BY <1>1, <1>3 DEF CoveredInv
<1>9. DispatchInv'
  BY <1>1, <1>3, <1>4 DEF DispatchInv
<1>10. PhysicInv'
  <2>1. maxPhysicOffset'[q] = Len(log) /\ \A p \in Queues : p # q => maxPhysicOffset'[p] = maxPhysicOffset[p]
    BY <1>1, <1>2 DEF QueueTypeOK
  <2>2. \A p \in Queues : p # recovery.queue
    BY <1>1, NotNone
  <2>3. QED
    BY <1>1, <1>2, <1>3, <1>4, <2>1, <2>2 DEF PhysicInv
<1>11. FilesInv'
  BY <1>1, <1>2, <1>4 DEF FilesInv
<1>12. QED
  BY <1>5, <1>6, <1>7, <1>8, <1>9, <1>10, <1>11 DEF IndexInv

\* What truncateDirtyLogicFiles leaves of a queue: the entries of the messages
\* that are in the log, in as many files as they need.
LEMMA TruncateFacts ==
    ASSUME SurvivesInv, SurvivesInv', IndexInv, TruncateQueue,
           "machine" \in exits => PositionInv /\ writeable
    PROVE  LET q == recovery.queue
               len == Len(cq'[q])
           IN
           /\ q \in Queues /\ len \in 0 .. Len(cq[q])
           /\ \A k \in 1 .. len : cq'[q][k] = cq[q][k]
           /\ \A k \in 1 .. Len(cq[q]) : cq[q][k] <= Len(log) <=> k <= len
           /\ len <= cqFiles'[q] * CqPerFile
           /\ cqFiles'[q] > 0 => len > (cqFiles'[q] - 1) * CqPerFile
           /\ cqFiles'[q] <= cqFiles[q]
           /\ cqForced'[q] = Lesser(cqForced[q], len) /\ cqPosition'[q] = len
           /\ maxPhysicOffset'[q] = IF len = 0 THEN Len(log) ELSE cq[q][len]
           /\ len = 0 => "machine" \in exits
<1>a. LogTypeOK /\ QueueTypeOK /\ StampInv /\ HoleInv
  BY DEF SurvivesInv
<1>b. EntriesInv /\ DispatchInv /\ PhysicInv /\ FilesInv
  BY DEF IndexInv
<1> USE <1>a, <1>b
<1> DEFINE q == recovery.queue
           n == recovery.pos - 1
           files == KeptFiles(q, n)
           last == CHOOSE f \in files : \A g \in files : g <= f
           kept == IF files = {} THEN <<>> ELSE KeptEntries(q, last, n)
           base == last * CqPerFile
           bad == { k \in base + 2 .. Len(cq[q]) : cq[q][k] = Zero \/ Physical(cq[q][k]) > n }
           end == IF bad = {} THEN Lesser(Len(cq[q]), base + CqPerFile)
                  ELSE (CHOOSE k \in bad : \A m \in bad : k <= m) - 1
           F == cqFiles[q]
           C == CqPerFile
           L == Len(cq[q])
<1>1. /\ phase = "truncate" /\ q # NoQueue
      /\ cq' = [cq EXCEPT ![q] = kept]
      /\ cqFiles' = [cqFiles EXCEPT ![q] = IF files = {} THEN 0 ELSE last + 1]
      /\ cqForced' = [cqForced EXCEPT ![q] = Lesser(cqForced[q], Len(kept))]
      /\ cqPosition' = [cqPosition EXCEPT ![q] = Len(kept)]
      /\ maxPhysicOffset' = IF files = {} THEN maxPhysicOffset
                          ELSE [maxPhysicOffset EXCEPT ![q] = Physical(kept[Len(kept)])]
  BY DEF TruncateQueue
<1>2. q \in Queues /\ n = Len(log) /\ Len(log) \in Nat /\ DOMAIN log = 1 .. Len(log)
  BY <1>1, LogFacts DEF HoleInv, LogTypeOK
<1>3. /\ F \in Nat /\ C \in Nat \ {0} /\ L \in Nat /\ cq[q] \in Seq(Int) /\ DOMAIN cq[q] = 1 .. L
      /\ cqForced[q] \in 0 .. L
  BY <1>2, QueueFacts, StoreAssumption
<1>4. F > 0 /\ L <= F * C /\ L > (F - 1) * C /\ ~created
  <2>1. ~created /\ q \in recovery.left
    BY <1>1 DEF DispatchInv, FilesInv
  <2>2. F > 0
    BY <2>1 DEF FilesInv
  <2>3. QED
    BY <1>2, <2>1, <2>2 DEF FilesInv
<1>5. /\ \A k \in 1 .. L : /\ cq[q][k] \in Nat \ {0} /\ Physical(cq[q][k]) = cq[q][k]
                           /\ cq[q][k] # Zero
      /\ \A k, m \in 1 .. L : k < m => cq[q][k] < cq[q][m]
      /\ maxPhysicOffset[q] = Len(log)
  <2>1. \A k, m \in 1 .. L : k < m => cq[q][k] < cq[q][m]
    BY <1>2, <1>3 DEF EntriesInv
  <2>2. maxPhysicOffset[q] = Len(log)
    BY <1>1, <1>2 DEF PhysicInv
  <2>3. QED
    BY <1>2, <2>1, <2>2, EntryFacts
<1>6. kept = IF files = {} THEN <<>>
             ELSE IF end <= base THEN Append(cq[q], Zero)
             ELSE SubSeq(cq[q], 1, Lesser(end, base + C))
  BY DEF KeptEntries
<1>7. (0 - 1) * C = 0 - C /\ (F - 1) * C \in Nat /\ F * C = (F - 1) * C + C /\ L > 0
  <2>1. F - 1 \in Nat
    BY <1>3, <1>4
  <2> HIDE DEF F, C, L
  <2>2. (F - 1) * C \in Nat /\ F * C = (F - 1) * C + C /\ (0 - 1) * C = 0 - C
    BY <1>3, <2>1
  <2>3. QED
    BY <1>3, <1>4, <2>2
\* Which files are kept: all, or of one file that one or none.
<1>8. \/ /\ files = 0 .. F - 1 /\ \A k \in 1 .. L : cq[q][k] <= n
      \/ /\ F = 1 /\ "machine" \in exits
         /\ files = IF cq[q][1] <= n THEN 0 .. 0 ELSE {}
  <2>1. ASSUME NEW f \in 0 .. F - 1
        PROVE  f * C + 1 \in 1 .. L /\ FirstUnit(q, f) = cq[q][f * C + 1]
    <3>1. f \in Nat /\ F - 1 \in Nat /\ f <= F - 1
      BY <1>3, <1>4, <2>1
    <3>2. f * C <= (F - 1) * C /\ f * C \in Nat
      <4> HIDE DEF F, C
      <4>1. QED
        BY <1>3, <3>1
    <3>3. f * C < L
      <4> HIDE DEF F, C, L
      <4>1. QED
        BY <1>3, <1>4, <1>7, <3>2
    <3>4. f * C + 1 \in 1 .. L
      <4> HIDE DEF F, C, L
      <4>1. QED
        BY <1>3, <3>2, <3>3
    <3>5. QED
      BY <3>3, <3>4 DEF FirstUnit
  <2>2. files = { f \in 0 .. F - 1 : cq[q][f * C + 1] <= n }
    <3>1. \A f \in 0 .. F - 1 : Physical(FirstUnit(q, f)) = cq[q][f * C + 1]
      BY <1>5, <2>1
    <3>2. QED
      BY <3>1 DEF KeptFiles
  <2>3. CASE "machine" \notin exits
    <3>1. \A k \in 1 .. L : cq[q][k] <= n
      BY <1>2, <1>3, <2>3 DEF EntriesInv, Dirty
    <3>2. files = 0 .. F - 1
      BY <2>1, <2>2, <3>1
    <3>3. QED
      BY <3>1, <3>2
  <2>4. CASE "machine" \in exits
    <3>1. F = 1
      <4>1. F <= 1
        BY <1>2, <2>4 DEF PositionInv
      <4>2. QED
        BY <1>3, <1>4, <4>1
    <3>2. 0 * C + 1 = 1 /\ 0 .. F - 1 = 0 .. 0 /\ \A f \in 0 .. 0 : f = 0
      BY <1>3, <3>1
    <3>3. files = IF cq[q][1] <= n THEN 0 .. 0 ELSE {}
      <4>1. files = { f \in 0 .. 0 : cq[q][f * C + 1] <= n }
        BY <2>2, <3>2
      <4>2. \A f \in 0 .. 0 : cq[q][f * C + 1] = cq[q][1]
        BY <3>2
      <4> HIDE DEF files
      <4>3. QED
        BY <4>1, <4>2
    <3>4. QED
      BY <2>4, <3>1, <3>3
  <2>5. QED
    BY <2>3, <2>4
<1>9. CASE files = {}
  <2>1. F = 1 /\ "machine" \in exits /\ ~(cq[q][1] <= n)
    <3>1. 0 \in 0 .. F - 1 /\ 0 \in 0 .. 0
      BY <1>3, <1>4
    <3> HIDE DEF files
    <3>2. QED
      BY <1>8, <1>9, <3>1
  <2>2. kept = <<>> /\ Len(kept) = 0
    BY <1>9
  <2> HIDE DEF files, kept
  <2>3. cq'[q] = <<>> /\ cqFiles'[q] = 0 /\ cqForced'[q] = Lesser(cqForced[q], 0) /\ cqPosition'[q] = 0
        /\ maxPhysicOffset'[q] = Len(log)
    BY <1>1, <1>2, <1>5, <1>9, <2>2 DEF QueueTypeOK
  <2>4. \A k \in 1 .. L : ~(cq[q][k] <= n)
    <3> SUFFICES ASSUME NEW k \in 1 .. L PROVE ~(cq[q][k] <= n)
      OBVIOUS
    <3>0. 1 \in 1 .. L
      <4>1. L \in Nat /\ L > 0
        BY <1>3, <1>7
      <4> HIDE DEF L
      <4>2. QED
        BY <4>1
    <3>1. 1 \in 1 .. L /\ cq[q][1] \in Nat /\ cq[q][k] \in Nat
      BY <1>5, <3>0
    <3>2. 1 < k => cq[q][1] < cq[q][k]
      BY <1>5, <3>1
    <3> HIDE DEF q, n
    <3>3. QED
      BY <1>2, <1>3, <2>1, <3>1, <3>2
  <2>5. Len(cq'[q]) = 0
    BY <2>3
  <2>6. 0 <= 0 * C /\ 0 \in 0 .. L /\ \A k \in 1 .. L : ~(k <= 0)
    BY <1>3
  <2>7. QED
    BY <1>2, <1>3, <1>4, <2>1, <2>3, <2>4, <2>5, <2>6
<1>10. CASE files # {}
  \* the last file kept, and where its entries end
  <2>1. /\ last \in Nat /\ last <= F - 1 /\ last * C \in Nat
        /\ last * C < L /\ L <= last * C + C
        /\ last = F - 1
    <3>1. files = 0 .. F - 1
      <4>1. F = 1 => 0 .. F - 1 = 0 .. 0
        BY <1>3
      <4> HIDE DEF files
      <4>2. QED
        BY <1>8, <1>10, <4>1
    <3>2. F - 1 \in files /\ \A g \in files : g <= F - 1
      BY <1>3, <1>4, <3>1
    <3>3. last \in files /\ \A g \in files : g <= last
      <4> HIDE DEF files
      <4>1. QED
        BY <3>2
    <3>4. last = F - 1
      <4>1. last \in Int /\ last <= F - 1 /\ F - 1 <= last
        BY <1>3, <3>1, <3>2, <3>3
      <4> HIDE DEF last
      <4>2. QED
        BY <1>3, <4>1
    <3> HIDE DEF last
    <3>5. last \in Nat /\ last * C = (F - 1) * C
      BY <1>3, <1>4, <3>4
    <3>6. QED
      BY <1>3, <1>4, <1>7, <3>4, <3>5
  <2> HIDE DEF last
  <2>2. base = last * C /\ base \in Nat /\ base < L /\ L <= base + C
    BY <2>1
  <2>3. bad = { k \in base + 2 .. L : cq[q][k] > n }
    <3>1. \A k \in base + 2 .. L : k \in 1 .. L
      BY <1>3, <2>2
    <3>2. \A k \in base + 2 .. L : (cq[q][k] = Zero \/ Physical(cq[q][k]) > n) <=> cq[q][k] > n
      BY <1>5, <3>1
    <3>3. QED
      BY <3>2
  <2>4. cq[q][base + 1] <= n /\ base + 1 \in 1 .. L
    <3>1. base + 1 \in 1 .. L
      BY <1>3, <2>2
    <3>2. CASE \A k \in 1 .. L : cq[q][k] <= n
      BY <3>1, <3>2
    <3>3. CASE F = 1 /\ files = IF cq[q][1] <= n THEN 0 .. 0 ELSE {}
      <4>1. cq[q][1] <= n
        BY <1>10, <3>3
      <4>2. last = 0 /\ base + 1 = 1
        BY <1>3, <2>1, <3>3
      <4>3. QED
        BY <3>1, <4>1, <4>2
    <3>4. QED
      BY <1>8, <3>1, <3>2, <3>3
  <2> HIDE DEF base
  \* the entries up to end are in the log, the others are not
  <2>5. end \in base + 1 .. L /\ \A k \in 1 .. L : cq[q][k] <= n <=> k <= end
    <3>1. CASE bad = {}
      <4>1. end = L
        <5>1. Lesser(L, base + C) = L
          <6>1. L \in Nat /\ C \in Nat /\ base \in Nat /\ L <= base + C
            BY <1>3, <2>2
          <6> HIDE DEF L, C
          <6>2. QED
            BY <6>1 DEF Lesser
        <5>2. end = Lesser(L, base + C)
          BY <3>1 DEF base
        <5>3. QED
          BY <5>1, <5>2
      <4>2. \A k \in base + 2 .. L : cq[q][k] <= n
        <5>1. ASSUME NEW k \in base + 2 .. L PROVE cq[q][k] <= n
          <6>1. ~(cq[q][k] > n)
            BY <2>3, <3>1, <5>1
          <6>2. cq[q][k] \in Nat /\ n \in Nat
            <7>1. k \in 1 .. L
              <8>1. L \in Nat /\ base \in Nat
                BY <1>3, <2>2
              <8> HIDE DEF L
              <8>2. QED
                BY <5>1, <8>1
            <7>2. QED
              BY <1>2, <1>5, <7>1
          <6> HIDE DEF n, q
          <6>3. QED
            BY <6>1, <6>2
        <5>2. QED
          BY <5>1
      <4>3. \A k \in 1 .. L : cq[q][k] <= n
        <5> SUFFICES ASSUME NEW k \in 1 .. L PROVE cq[q][k] <= n
          OBVIOUS
        <5>1. CASE k \in base + 2 .. L
          BY <4>2, <5>1
        <5>2. CASE k = base + 1
          BY <2>4, <5>2
        <5>3. CASE k < base + 1
          <6>1. cq[q][k] < cq[q][base + 1] /\ cq[q][k] \in Nat /\ cq[q][base + 1] \in Nat
            BY <1>5, <2>4, <5>3
          <6> HIDE DEF n, q
          <6>2. QED
            BY <1>2, <2>4, <6>1
        <5>4. QED
          BY <1>3, <2>2, <5>1, <5>2, <5>3
      <4> HIDE DEF end, q, n
      <4>4. L \in base + 1 .. L /\ \A k \in 1 .. L : k <= L
        BY <1>3, <2>2
      <4>5. QED
        BY <4>1, <4>3, <4>4
    <3>2. CASE bad # {}
      <4> DEFINE x == CHOOSE k \in bad : \A m \in bad : k <= m
      <4>1. bad \subseteq Nat
        BY <1>3, <2>2
      <4>2. x \in bad /\ \A m \in bad : x <= m
        BY <3>2, <4>1, LeastExists
      <4>3. end = x - 1
        BY <3>2
      <4> HIDE DEF x, end
      <4>4. x \in base + 2 .. L /\ cq[q][x] > n /\ x \in 1 .. L
        BY <1>3, <2>2, <2>3, <4>2
      <4>5. \A k \in base + 2 .. L : cq[q][k] > n => x <= k
        BY <2>3, <4>2
      <4> HIDE DEF bad
      <4>6. ASSUME NEW k \in 1 .. L, x <= k PROVE ~(cq[q][k] <= n)
        <5>1. cq[q][x] \in Nat /\ cq[q][k] \in Nat /\ (x < k => cq[q][x] < cq[q][k])
          BY <1>5, <4>4, <4>6
        <5> HIDE DEF q, n
        <5>2. QED
          BY <1>2, <1>3, <4>4, <4>6, <5>1
      <4>7. ASSUME NEW k \in 1 .. L, k < x PROVE cq[q][k] <= n
        <5>0. cq[q][k] \in Nat /\ n \in Nat
          BY <1>2, <1>5
        <5>1. CASE k \in base + 2 .. L
          <6>1. ~(cq[q][k] > n)
            BY <1>3, <4>4, <4>5, <4>7, <5>1
          <6> HIDE DEF q, n
          <6>2. QED
            BY <5>0, <6>1
        <5>2. CASE k = base + 1
          BY <2>4, <5>2
        <5>3. CASE k < base + 1
          <6>1. cq[q][k] < cq[q][base + 1] /\ cq[q][base + 1] \in Nat
            BY <1>5, <2>4, <5>3
          <6> HIDE DEF n, q
          <6>2. QED
            BY <2>4, <5>0, <6>1
        <5>4. QED
          BY <1>3, <2>2, <5>1, <5>2, <5>3
      <4> HIDE DEF q, n, L
      <4>8. end \in base + 1 .. L /\ \A k \in 1 .. L : k <= end <=> k < x
        <5>1. L \in Nat /\ base \in Nat /\ x \in base + 2 .. L /\ x \in Nat
          BY <1>3, <2>2, <4>4
        <5>2. x - 1 \in base + 1 .. L
          BY <5>1
        <5>3. \A k \in 1 .. L : k <= x - 1 <=> k < x
          BY <5>1
        <5>4. QED
          BY <4>3, <5>2, <5>3
      <4>9. \A k \in 1 .. L : k < x \/ x <= k
        BY <1>3, <4>4
      <4>10. QED
        BY <4>6, <4>7, <4>8, <4>9
    <3>3. QED
      BY <3>1, <3>2
  <2> HIDE DEF end, bad
  <2>6. Lesser(end, base + C) = end /\ ~(end <= base) /\ end \in 1 .. L
    <3>1. L \in Nat /\ C \in Nat /\ base \in Nat /\ L <= base + C /\ end \in base + 1 .. L
      BY <1>3, <2>2, <2>5
    <3> HIDE DEF L, C
    <3>2. QED
      BY <3>1 DEF Lesser
  <2>7. kept = SubSeq(cq[q], 1, end)
    BY <1>6, <1>10, <2>6
  <2> HIDE DEF kept, files
  <2>8. /\ Len(kept) = end /\ \A k \in 1 .. end : kept[k] = cq[q][k]
    BY <1>3, <2>6, <2>7
  <2>9. Physical(kept[Len(kept)]) = cq[q][end]
    BY <1>5, <2>6, <2>8
  <2>10. /\ cq'[q] = kept /\ cqFiles'[q] = last + 1 /\ cqForced'[q] = Lesser(cqForced[q], end)
         /\ cqPosition'[q] = end /\ maxPhysicOffset'[q] = cq[q][end]
    BY <1>1, <1>2, <1>10, <2>8, <2>9 DEF QueueTypeOK
  <2>11. /\ end <= (last + 1) * C /\ end > ((last + 1) - 1) * C
         /\ last + 1 <= F
    <3>1. (last + 1) * C = base + C /\ ((last + 1) - 1) * C = base
      <4> HIDE DEF C, F
      <4>1. QED
        BY <1>3, <2>1, <2>2
    <3> HIDE DEF C, F, L
    <3>2. QED
      BY <1>3, <2>1, <2>2, <2>5, <3>1
  <2>12. end # 0 /\ end \in 0 .. L
    BY <1>3, <2>6
  <2>13. QED
    BY <1>2, <2>5, <2>8, <2>10, <2>11, <2>12
<1>11. QED
  BY <1>9, <1>10

\* The truncation of a queue keeps the entry of every message.
LEMMA TruncateQueueIndex ==
    ASSUME SurvivesInv, SurvivesInv', IndexInv, TruncateQueue,
           "machine" \in exits => PositionInv /\ writeable
    PROVE  IndexInv'
<1>a. LogTypeOK /\ QueueTypeOK /\ StampInv /\ HoleInv
  BY DEF SurvivesInv
<1>b. /\ EntriesInv /\ RankInv /\ ClosedInv /\ DispatchInv
      /\ PhysicInv /\ FilesInv /\ CoveredInv
  BY DEF IndexInv
<1> USE <1>a, <1>b
<1> DEFINE q == recovery.queue
           len == Len(cq'[q])
<1>1. /\ q \in Queues /\ len \in 0 .. Len(cq[q])
      /\ \A k \in 1 .. len : cq'[q][k] = cq[q][k]
      /\ \A k \in 1 .. Len(cq[q]) : cq[q][k] <= Len(log) <=> k <= len
      /\ len <= cqFiles'[q] * CqPerFile
      /\ cqFiles'[q] > 0 => len > (cqFiles'[q] - 1) * CqPerFile
      /\ maxPhysicOffset'[q] = IF len = 0 THEN Len(log) ELSE cq[q][len]
      /\ len = 0 => "machine" \in exits
  BY TruncateFacts
<1>2. /\ phase = "truncate"
      /\ recovery' = [recovery EXCEPT !.queue = NoQueue, !.left = recovery.left \ {q}]
      /\ UNCHANGED <<log, topicQueueTable, dispatch, created, writeable,
                     logicsMsgTimestamp, flush, checkpoint, phase, abort, puts, exits>>
  BY DEF TruncateQueue, logVars, dispatchVars, pointVars, histVars
<1>3. recovery'.queue = NoQueue /\ recovery'.left = recovery.left \ {q} /\ recovery'.pos = recovery.pos
  BY <1>2 DEF LogTypeOK
<1>4. \A p \in Queues : p # q =>
         /\ cq'[p] = cq[p] /\ cqFiles'[p] = cqFiles[p] /\ maxPhysicOffset'[p] = maxPhysicOffset[p]
  BY DEF TruncateQueue, QueueTypeOK
<1>5. /\ Len(log) \in Nat /\ DOMAIN log = 1 .. Len(log)
      /\ \A i \in 1 .. Len(log) : Whole(i) /\ log[i] # Hole
      /\ Len(cq[q]) \in Nat /\ DOMAIN cq[q] = 1 .. Len(cq[q]) /\ DOMAIN cq'[q] = 1 .. len
  <2>1. cq'[q] \in Seq(Int)
    BY <1>1 DEF SurvivesInv, QueueTypeOK
  <2>2. QED
    BY <1>1, <1>2, <2>1, LogFacts, QueueFacts, WholePast
<1>6. dispatch = <<>> /\ ~created /\ Len(dispatch) = 0 /\ Frontier = Len(log) /\ Frontier' = Frontier
  <2>1. dispatch = <<>> /\ ~created
    BY <1>2 DEF DispatchInv
  <2>2. recovery.pos = Len(log) + 1
    BY <1>2 DEF HoleInv
  <2>3. QED
    BY <1>2, <1>3, <1>5, <2>1, <2>2 DEF Frontier
<1>7. Dirty' = Dirty \ {q}
  BY <1>2, <1>3 DEF Dirty
<1>8. \A i : Whole(i)' <=> Whole(i)
  BY <1>2 DEF Whole
<1> HIDE DEF len
<1>9. ASSUME NEW i \in 1 .. Len(log), Indexed(i) PROVE Indexed(i)'
  <2> DEFINE p == log[i].queue
             a == log[i].at
  <2>1. p \in Queues /\ a + 1 \in 1 .. Len(cq[p]) /\ cq[p][a + 1] = i /\ a \in Nat
    BY <1>5, <1>9, IndexedFacts, WholeFacts
  <2>2. CASE p # q
    BY <1>2, <1>4, <1>9, <2>1, <2>2 DEF Indexed
  <2>3. CASE p = q
    <3>1. a + 1 <= len
      BY <1>1, <1>5, <2>1, <2>3
    <3>2. a + 1 \in 1 .. len /\ a < len
      <4> HIDE DEF a
      <4>1. QED
        BY <1>1, <1>5, <2>1, <3>1
    <3>3. cq'[q][a + 1] = i
      BY <1>1, <2>1, <2>3, <3>2
    <3>4. QED
      BY <1>2, <2>3, <3>2, <3>3 DEF Indexed, len
  <2>4. QED
    BY <2>2, <2>3
<1>10. EntriesInv'
  <2> SUFFICES ASSUME NEW p \in Queues
               PROVE  /\ \A k \in DOMAIN cq'[p] : cq'[p][k] \in k .. puts
                      /\ \A k, m \in DOMAIN cq'[p] : k < m => cq'[p][k] < cq'[p][m]
                      /\ p \notin Dirty' => \A k \in DOMAIN cq'[p] : cq'[p][k] <= Len(log)
                      /\ \A k \in DOMAIN cq'[p] :
                            cq'[p][k] <= Len(log) /\ log[cq'[p][k]] # Hole =>
                               log[cq'[p][k]].queue = p /\ log[cq'[p][k]].at = k - 1
    BY <1>2 DEF EntriesInv
  <2>1. CASE p # q
    BY <1>4, <1>7, <2>1 DEF EntriesInv
  <2>2. CASE p = q
    <3>1. \A k \in 1 .. len : k \in 1 .. Len(cq[q]) /\ cq'[q][k] = cq[q][k] /\ cq[q][k] <= Len(log)
      BY <1>1, <1>5
    <3>2. \A k \in 1 .. len : cq'[q][k] \in k .. puts
      BY <1>1, <1>5, <3>1 DEF EntriesInv
    <3>3. \A k, m \in 1 .. len : k < m => cq'[q][k] < cq'[q][m]
      BY <1>1, <1>5, <3>1 DEF EntriesInv
    <3>4. \A k \in 1 .. len : log[cq[q][k]] # Hole =>
             log[cq'[q][k]].queue = q /\ log[cq'[q][k]].at = k - 1
      BY <1>1, <1>5, <3>1 DEF EntriesInv
    <3>5. QED
      BY <1>5, <2>2, <3>1, <3>2, <3>3, <3>4
  <2>3. QED
    BY <2>1, <2>2
<1>11. RankInv'
  BY <1>2, <1>8 DEF RankInv
<1>12. ClosedInv'
  <2> SUFFICES ASSUME NEW i \in 1 .. Len(log), NEW k \in DOMAIN cq'[log[i].queue],
                      i <= cq'[log[i].queue][k]
               PROVE  Indexed(i)
    BY <1>2, <1>5, <1>8, <1>9 DEF ClosedInv
  <2>1. CASE log[i].queue = q
    <3>1. k \in 1 .. len
      BY <1>5, <2>1
    <3>2. k \in DOMAIN cq[q] /\ cq'[q][k] = cq[q][k]
      BY <1>1, <1>5, <3>1
    <3>3. QED
      BY <1>5, <2>1, <3>2 DEF ClosedInv
  <2>2. CASE log[i].queue # q
    <3>1. log[i].queue \in Queues
      BY <1>5, LogFacts
    <3>2. QED
      BY <1>4, <1>5, <2>2, <3>1 DEF ClosedInv
  <2>3. QED
    BY <2>1, <2>2
<1>13. DispatchInv'
  <2>1. abort'
    BY <1>2 DEF HoleInv
  <2>2. writeable => \A i \in 1 .. Frontier : Indexed(i)'
    BY <1>2, <1>6, <1>9 DEF DispatchInv
  <2>3. QED
    BY <1>2, <1>6, <2>1, <2>2 DEF DispatchInv
<1>14. PhysicInv'
  <2> SUFFICES ASSUME NEW p \in Queues
               PROVE  /\ \A k \in DOMAIN cq'[p] : cq'[p][k] <= maxPhysicOffset'[p]
                      /\ \A i \in 1 .. Len(log) :
                            log[i].queue = p /\ i <= maxPhysicOffset'[p] => Indexed(i)
                      /\ p \notin Dirty' => maxPhysicOffset'[p] <= Len(log)
    BY <1>2, <1>3, <1>5, <1>9, NotNone DEF PhysicInv
  <2>1. CASE p # q
    BY <1>2, <1>4, <1>5, <1>7, <2>1 DEF PhysicInv
  <2>2. CASE p = q /\ len = 0
    <3>1. maxPhysicOffset'[p] = Len(log) /\ DOMAIN cq'[p] = {}
      BY <1>1, <1>5, <2>2
    <3>2. writeable
      BY <1>1, <2>2
    <3>3. \A i \in 1 .. Len(log) : Indexed(i)
      BY <1>2, <1>6, <3>2 DEF DispatchInv
    <3>4. QED
      BY <1>5, <3>1, <3>3
  <2>3. CASE p = q /\ len # 0
    <3>1. len \in 1 .. len /\ len \in 1 .. Len(cq[q]) /\ len <= len
      BY <1>1, <1>5, <2>3
    <3>2. maxPhysicOffset'[p] = cq[q][len] /\ cq[q][len] <= Len(log)
      BY <1>1, <2>3, <3>1
    <3>3. ASSUME NEW k \in 1 .. len PROVE cq'[q][k] <= cq[q][len]
      <4>1. k \in 1 .. Len(cq[q]) /\ cq'[q][k] = cq[q][k]
        BY <1>1, <1>5, <3>3
      <4>2. cq[q][k] \in Nat /\ cq[q][len] \in Nat
        BY <1>1, <3>1, <4>1, EntryFacts
      <4>3. CASE k = len
        BY <4>1, <4>2, <4>3
      <4>4. CASE k # len
        <5>1. k < len
          BY <1>1, <1>5, <4>4
        <5>2. cq[q][k] < cq[q][len]
          BY <1>1, <1>5, <3>1, <4>1, <5>1 DEF EntriesInv
        <5>3. QED
          BY <4>1, <4>2, <5>2
      <4>5. QED
        BY <4>3, <4>4
    <3>4. \A i \in 1 .. Len(log) : log[i].queue = q /\ i <= cq[q][len] => Indexed(i)
      BY <1>5, <3>1 DEF ClosedInv
    <3>5. QED
      BY <1>5, <2>3, <3>2, <3>3, <3>4
  <2>4. QED
    BY <2>1, <2>2, <2>3
<1>15. FilesInv'
  <2>1. \A p \in Queues :
           /\ Len(cq'[p]) <= cqFiles'[p] * CqPerFile
           /\ cqFiles'[p] > 0 => Len(cq'[p]) > (cqFiles'[p] - 1) * CqPerFile
    <3> SUFFICES ASSUME NEW p \in Queues
                 PROVE  /\ Len(cq'[p]) <= cqFiles'[p] * CqPerFile
                        /\ cqFiles'[p] > 0 => Len(cq'[p]) > (cqFiles'[p] - 1) * CqPerFile
      OBVIOUS
    <3>1. CASE p = q
      BY <1>1, <3>1 DEF len
    <3>2. CASE p # q
      BY <1>4, <1>6, <3>2 DEF FilesInv
    <3>3. QED
      BY <3>1, <3>2
  <2>2. \A p \in recovery'.left : cqFiles'[p] > 0
    BY <1>3, <1>4 DEF FilesInv, LogTypeOK
  <2>3. QED
    BY <1>2, <1>3, <1>6, <2>1, <2>2 DEF FilesInv
<1>16. CoveredInv'
  BY <1>2, <1>5, <1>8, <1>9 DEF CoveredInv
<1>17. QED
  BY <1>10, <1>11, <1>12, <1>13, <1>14, <1>15, <1>16 DEF IndexInv

\* With every queue truncated their lengths are the next queue offsets.
LEMMA RecoverEndIndex ==
    ASSUME SurvivesInv, SurvivesInv', IndexInv, RecoverEnd
    PROVE  IndexInv'
<1>a. LogTypeOK /\ QueueTypeOK /\ StampInv /\ HoleInv
  BY DEF SurvivesInv
<1>b. /\ EntriesInv /\ RankInv /\ ClosedInv /\ DispatchInv
      /\ PhysicInv /\ FilesInv /\ CoveredInv
  BY DEF IndexInv
<1> USE <1>a, <1>b
<1>1. /\ phase = "truncate" /\ recovery.left = {} /\ dispatch = <<>>
      /\ phase' = "running" /\ abort' = TRUE /\ recovery' = NoRecovery
      /\ topicQueueTable' = [q \in Queues |-> Len(cq[q])]
      /\ UNCHANGED <<log, dispatch, created, writeable, cq, cqFiles, maxPhysicOffset,
                     logicsMsgTimestamp, flush, checkpoint, puts>>
  BY DEF RecoverEnd, Start, dispatchVars, cqVars, pointVars
<1>2. /\ recovery.queue = NoQueue /\ recovery'.queue = NoQueue /\ recovery'.left = {}
      /\ Dirty = {} /\ Dirty' = {} /\ ~created
  BY <1>1 DEF FilesInv, NoRecovery, Dirty, DispatchInv
<1>3. /\ Len(log) \in Nat /\ DOMAIN log = 1 .. Len(log)
      /\ \A i \in 1 .. Len(log) : Whole(i) /\ log[i] # Hole
  BY <1>1, LogFacts, WholePast
<1>4. \A i : (Whole(i)' <=> Whole(i)) /\ (Indexed(i)' <=> Indexed(i))
  BY <1>1 DEF Whole, Indexed
<1>5. Frontier = Len(log) /\ Frontier' = Len(log) /\ DOMAIN dispatch = {}
  <2>1. recovery.pos = Len(log) + 1 /\ Len(dispatch) = 0 /\ DOMAIN dispatch = {}
    BY <1>1 DEF HoleInv
  <2>2. QED
    BY <1>1, <1>3, <2>1 DEF Frontier
<1>6. EntriesInv'
  BY <1>1, <1>2 DEF EntriesInv
<1>7. RankInv'
  <2>1. writeable => \A q \in Queues :
           /\ \A i \in DOMAIN log : log[i].queue = q => log[i].at < topicQueueTable'[q]
           /\ \A a \in 0 .. topicQueueTable'[q] - 1 :
                 \E i \in DOMAIN log : log[i].queue = q /\ log[i].at = a
    <3> SUFFICES ASSUME writeable, NEW q \in Queues
                 PROVE  /\ \A i \in DOMAIN log : log[i].queue = q => log[i].at < topicQueueTable'[q]
                        /\ \A a \in 0 .. topicQueueTable'[q] - 1 :
                              \E i \in DOMAIN log : log[i].queue = q /\ log[i].at = a
      OBVIOUS
    <3>1. \A i \in 1 .. Len(log) : Whole(i) /\ Indexed(i)
      BY <1>1, <1>3, <1>5 DEF DispatchInv
    <3>2. topicQueueTable'[q] = Len(cq[q])
      BY <1>1
    <3>3. QED
      BY <1>2, <3>1, <3>2, TableRanks
  <2>2. QED
    BY <1>1, <1>4, <2>1 DEF RankInv
<1>8. ClosedInv' /\ CoveredInv'
  <2>1. ClosedInv'
    BY <1>1, <1>4 DEF ClosedInv
  <2>2. CoveredInv'
    BY <1>1, <1>4 DEF CoveredInv
  <2>3. QED
    BY <2>1, <2>2
<1>9. DispatchInv'
  BY <1>1, <1>2, <1>3, <1>4, <1>5 DEF DispatchInv
<1>10. PhysicInv'
  BY <1>1, <1>2, <1>4, NotNone DEF PhysicInv
<1>11. FilesInv'
  BY <1>1, <1>2 DEF FilesInv
<1>12. QED
  BY <1>6, <1>7, <1>8, <1>9, <1>10, <1>11 DEF IndexInv

-----------------------------------------------------------------------------
(* The checkpoint is sound.                                                *)

\* The messages of this process.
LEMMA FreshFacts ==
    ASSUME SurvivesInv, phase = "running", NEW i \in started + 1 .. Len(log)
    PROVE  /\ i \in 1 .. Len(log) /\ log[i] # Hole /\ Whole(i)
           /\ log[i].queue \in Queues /\ log[i].at \in Nat /\ log[i].ts \in Nat
           /\ log[i].ts = puts - Len(log) + i /\ i \in Nat /\ started < i
<1>a. LogTypeOK /\ StampInv
  BY DEF SurvivesInv
<1>1. started \in Nat /\ Len(log) \in Nat
  BY <1>a, LogFacts DEF LogTypeOK
<1>2. i \in 1 .. Len(log) /\ i \in Nat /\ started < i
  BY <1>1
<1>3. log[i] # Hole /\ Whole(i)
  BY <1>2, WholePast
<1>4. log[i].ts = puts - Len(log) + i
  BY <1>a DEF StampInv
<1>5. QED
  BY <1>2, <1>3, <1>4, <1>a, LogFacts

\* Where the dispatch thread is, when the broker runs.
LEMMA FrontierFacts ==
    ASSUME SurvivesInv, IndexInv, phase = "running"
    PROVE  /\ Frontier = Len(log) - Len(dispatch) /\ Frontier \in 0 .. Len(log)
           /\ Len(log) \in Nat /\ Len(dispatch) \in Nat /\ started \in Nat
           /\ puts \in Nat /\ logicsMsgTimestamp \in 0 .. puts /\ flush.ts \in 0 .. puts
           /\ flush.late \in Nat /\ checkpoint.logics \in 0 .. puts
<1>a. LogTypeOK /\ DispatchInv
  BY DEF SurvivesInv, IndexInv
<1>1. /\ Len(log) \in Nat /\ Len(dispatch) \in Nat /\ started \in Nat
      /\ puts \in Nat /\ logicsMsgTimestamp \in 0 .. puts /\ flush.ts \in 0 .. puts
      /\ flush.late \in Nat /\ checkpoint.logics \in 0 .. puts
  BY <1>a, LogFacts DEF LogTypeOK
<1>2. Frontier = Len(log) - Len(dispatch)
  BY DEF Frontier
<1>3. Frontier >= 0
  BY <1>a DEF DispatchInv
<1>4. QED
  BY <1>1, <1>2, <1>3

\* A store that was just created has nothing to force.
LEMMA InitCheckpoint == Init => CheckpointInv
<1> SUFFICES ASSUME Init PROVE CheckpointInv
  OBVIOUS
<1>1. Len(log) = 0 /\ Len(dispatch) = 0 /\ started = 0 /\ phase = "running" /\ flush.pc = "idle"
  BY DEF Init, Idle
<1>2. started + 1 .. Len(log) = {} /\ Frontier = 0
  BY <1>1 DEF Frontier
<1>3. \A q \in Queues : cqFiles[q] = 0 /\ cqPosition[q] = 0 /\ Len(cq[q]) = 0
  <2>1. \A q \in Queues : cq[q] = <<>> /\ cqFiles[q] = 0 /\ cqPosition[q] = 0
    BY DEF Init
  <2>2. Len(<<>>) = 0
    OBVIOUS
  <2>3. QED
    BY <2>1, <2>2
<1>4. PositionInv
  BY <1>2, <1>3 DEF PositionInv
<1>5. RoundInv /\ PointInv
  BY <1>1, <1>2 DEF RoundInv, PointInv
<1>6. QED
  BY <1>4, <1>5 DEF CheckpointInv

\* Steps that touch neither the queues nor a round of doFlush.
LEMMA QuietCheckpoint ==
    ASSUME CheckpointInv,
           UNCHANGED <<log, started, cq, cqFiles, cqForced, cqPosition, checkpoint, phase>>,
           phase = "running" => UNCHANGED <<dispatch, logicsMsgTimestamp, flush>>
    PROVE  CheckpointInv'
<1>a. PositionInv /\ RoundInv /\ PointInv
  BY DEF CheckpointInv
<1>1. PositionInv'
  BY <1>a DEF PositionInv
<1>2. phase = "running" => Frontier' = Frontier
  BY DEF Frontier
<1>3. RoundInv'
  BY <1>a, <1>2 DEF RoundInv
<1>4. PointInv'
  BY <1>a DEF PointInv
<1>5. QED
  BY <1>1, <1>3, <1>4 DEF CheckpointInv

\* A new message belongs behind the entries of its queue and is younger than
\* every timestamp.
LEMMA PutCheckpoint ==
    ASSUME SurvivesInv, SurvivesInv', IndexInv, CheckpointInv, NEW q \in Queues, putMessage(q)
    PROVE  CheckpointInv'
<1>a. LogTypeOK /\ QueueTypeOK
  BY DEF SurvivesInv
<1>b. EntriesInv /\ RankInv /\ PositionInv /\ RoundInv /\ PointInv
  BY DEF IndexInv, CheckpointInv
<1> USE <1>a, <1>b
<1> DEFINE n == Len(log) + 1
           T == topicQueueTable[q]
<1>1. /\ Len(log') = n /\ \A i \in 1 .. Len(log) : log'[i] = log[i]
      /\ log'[n].queue = q /\ log'[n].at = T /\ log'[n].ts = puts + 1
      /\ phase = "running"
  <2>1. log'[n] = [queue |-> q, at |-> T, ts |-> puts + 1]
    BY PutLog
  <2>2. QED
    BY <2>1, PutLog
<1>2. /\ writeable /\ dispatch' = Append(dispatch, n)
      /\ UNCHANGED <<started, cq, cqFiles, cqForced, cqPosition, logicsMsgTimestamp,
                     checkpoint, flush, phase>>
  BY DEF putMessage, cqVars, pointVars
<1>3. /\ Frontier = Len(log) - Len(dispatch) /\ Frontier \in 0 .. Len(log)
      /\ Len(log) \in Nat /\ Len(dispatch) \in Nat /\ started \in Nat
      /\ puts \in Nat /\ logicsMsgTimestamp \in 0 .. puts /\ flush.ts \in 0 .. puts
      /\ flush.late \in Nat /\ checkpoint.logics \in 0 .. puts
      /\ Backoff \in Nat /\ T \in Nat
  BY <1>1, FrontierFacts, StoreAssumption, QueueFacts
<1>4. Frontier' = Frontier
  <2>1. Len(dispatch') = Len(dispatch) + 1
    BY <1>2 DEF LogTypeOK
  <2>2. Frontier' = n - Len(dispatch')
    BY <1>1, <1>2 DEF Frontier
  <2>3. QED
    BY <1>3, <2>1, <2>2
<1>5. Len(cq[q]) <= T
  <2> DEFINE k == Len(cq[q])
  <2>1. k \in Nat /\ DOMAIN cq[q] = 1 .. k /\ DOMAIN log = 1 .. Len(log)
    BY QueueFacts, LogFacts
  <2>2. CASE k = 0
    BY <1>3, <2>2
  <2>3. CASE k # 0
    <3>1. k \in 1 .. k
      BY <2>1, <2>3
    <3> DEFINE e == cq[q][k]
    <3>2. e <= Len(log) /\ e \in Nat \ {0}
      BY <1>1, <2>1, <3>1, EntryFacts DEF EntriesInv, Dirty
    <3>3. e \in 1 .. Len(log)
      <4> HIDE DEF e
      <4>1. QED
        BY <1>3, <3>2
    <3>4. log[e] # Hole
      BY <1>1, <3>3, WholePast
    <3>5. log[e].queue = q /\ log[e].at = k - 1
      BY <3>1, <3>2, <3>4, EntryMessage
    <3>6. log[e].at < T
      BY <1>1, <1>2, <2>1, <3>3, <3>5 DEF RankInv
    <3> HIDE DEF e, k, T
    <3>7. k <= T
      BY <1>3, <2>1, <3>5, <3>6
    <3>8. QED
      BY <3>7 DEF k
  <2>4. QED
    BY <2>2, <2>3
<1>6. cqPosition[q] <= Len(cq[q]) /\ cqPosition[q] \in Nat /\ Len(cq[q]) \in Nat
  BY <1>1, QueueFacts DEF PositionInv
<1> HIDE DEF n, T
<1>7. ~(T < cqPosition[q])
  BY <1>3, <1>5, <1>6
<1>8. \A i \in started + 1 .. n : i = n \/ (i \in started + 1 .. Len(log) /\ log'[i] = log[i])
  <2>1. \A i \in started + 1 .. n : i = n \/ (i \in started + 1 .. Len(log) /\ i \in 1 .. Len(log))
    BY <1>3 DEF n
  <2>2. QED
    BY <1>1, <2>1
<1>9. PositionInv'
  BY <1>1, <1>2, <1>7, <1>8 DEF PositionInv
<1>10. RoundInv'
  <2>1. /\ ~(puts + 1 <= logicsMsgTimestamp) /\ ~(puts + 1 <= flush.ts)
        /\ ~(puts + 1 + Backoff <= logicsMsgTimestamp) /\ ~(n <= Frontier - flush.late)
    BY <1>3 DEF n
  <2>2. QED
    BY <1>1, <1>2, <1>4, <1>8, <2>1 DEF RoundInv
<1>11. PointInv'
  <2>1. ~(puts + 1 + Backoff <= checkpoint.logics)
    BY <1>3
  <2>2. QED
    BY <1>1, <1>2, <1>8, <2>1 DEF PointInv
<1>12. QED
  BY <1>9, <1>10, <1>11 DEF CheckpointInv

\* The messages dispatched during a round are not more than the 3 s cover.
LEMMA TakeCheckpoint ==
    ASSUME SurvivesInv, SurvivesInv', IndexInv, CheckpointInv,
           DispatchSkip \/ DispatchAppend, gaps' = {}
    PROVE  CheckpointInv'
<1>a. LogTypeOK /\ QueueTypeOK /\ QueueTypeOK'
  BY DEF SurvivesInv
<1>b. PositionInv /\ RoundInv /\ PointInv
  BY DEF CheckpointInv
<1> USE <1>a, <1>b
<1> DEFINE h == Head(dispatch)
<1>1. /\ dispatch # <<>> /\ dispatch' = Tail(dispatch) /\ InWindow
      /\ logicsMsgTimestamp' = Request.ts
      /\ UNCHANGED <<log, started, cqFiles, cqForced, cqPosition, checkpoint, phase, recovery, puts>>
  BY DEF DispatchSkip, DispatchAppend, logVars, cqVars, runVars
<1>2. /\ h = Frontier + 1 /\ h \in 1 .. Len(log) /\ Request = log[h] /\ log[h] # Hole
      /\ Frontier \in Nat /\ phase # "down"
  BY <1>1, HeadFacts
<1>3. Frontier' = h
  BY <1>1, TakeFrontier
<1>4. \A p \in Queues : Len(cq[p]) <= Len(cq'[p])
  <2>1. CASE DispatchSkip
    <3>1. cq' = cq
      BY <2>1 DEF DispatchSkip, cqVars
    <3>2. QED
      BY <3>1, QueueFacts
  <2>2. CASE DispatchAppend
    <3> SUFFICES ASSUME NEW p \in Queues PROVE Len(cq[p]) <= Len(cq'[p])
      OBVIOUS
    <3>0. cq[p] \in Seq(Int) /\ Len(cq[p]) \in Nat
      BY QueueFacts
    <3>1. cq'[p] = cq[p] \/ cq'[p] = Append(cq[p], h)
      BY <2>2 DEF DispatchAppend, QueueTypeOK
    <3>2. h \in Int
      BY <1>2
    <3>3. QED
      BY <3>0, <3>1, <3>2
  <2>3. QED
    BY <2>1, <2>2
<1> HIDE DEF h
<1>5. PositionInv'
  <2>1. \A p \in Queues : cqPosition[p] <= Len(cq[p]) /\ cqPosition[p] \in Nat
           /\ Len(cq[p]) \in Nat /\ Len(cq'[p]) \in Nat
    <3>1. \A p \in Queues : Len(cq'[p]) \in Nat
      BY DEF QueueTypeOK
    <3>2. QED
      BY <1>2, <3>1, QueueFacts DEF PositionInv
  <2>2. \A p \in Queues : cqPosition[p] <= Len(cq'[p])
    BY <1>4, <2>1
  <2>3. QED
    BY <1>1, <2>2 DEF PositionInv
<1>6. PointInv'
  BY <1>1 DEF PointInv
<1>7. RoundInv'
  <2> SUFFICES ASSUME phase = "running" PROVE RoundInv'
    BY <1>1 DEF RoundInv
  <2>1. /\ Len(log) \in Nat /\ started \in Nat /\ puts \in Nat
        /\ flush.late \in Nat /\ Backoff \in Nat
    BY FrontierFacts, StoreAssumption
  <2>2. started < h /\ h \in started + 1 .. Len(log)
    BY <1>2, <2>1 DEF RoundInv
  <2>3. log[h].ts = puts - Len(log) + h /\ log[h].ts \in Nat
    BY <2>2, FreshFacts
  <2>4. ASSUME NEW i \in started + 1 .. Len(log), log[i].ts <= logicsMsgTimestamp' PROVE i <= h
    <3>1. i \in 1 .. Len(log) /\ log[i] # Hole
      BY FreshFacts
    <3>2. QED
      BY <1>1, <1>2, <2>4, <3>1, OlderBefore
  <2>5. CASE flush.pc = "idle"
    <3>1. flush' = flush
      BY <1>1, <2>5 DEF InWindow
    <3>2. started <= h
      BY <1>2, <2>1, <2>2
    <3>3. QED
      BY <1>1, <1>3, <2>4, <2>5, <3>1, <3>2 DEF RoundInv
  <2>6. CASE flush.pc # "idle"
    <3>1. flush.late < Backoff /\ flush' = [flush EXCEPT !.late = flush.late + 1]
      <4>1. ~(flush.late >= Backoff)
        BY <1>1, <2>6 DEF InWindow, Since
      <4>2. QED
        BY <1>1, <2>1, <2>6, <4>1 DEF InWindow
    <3>2. /\ flush'.pc = flush.pc /\ flush'.ts = flush.ts /\ flush'.left = flush.left
          /\ flush'.late = flush.late + 1
      BY <3>1 DEF LogTypeOK
    <3>3. h - (flush.late + 1) = Frontier - flush.late /\ started <= h
          /\ flush.late + 1 <= Backoff
      BY <1>2, <2>1, <2>2, <3>1, SMTT(30)
    <3>4. ASSUME NEW i \in started + 1 .. Len(log), log[i].ts + Backoff <= logicsMsgTimestamp'
          PROVE  i <= Frontier - flush.late
      <4>1. log[i].ts = puts - Len(log) + i /\ i \in Nat
        BY FreshFacts
      <4>2. puts - Len(log) + i + Backoff <= puts - Len(log) + h
        BY <1>1, <1>2, <2>3, <3>4, <4>1
      <4>3. QED
        BY <1>2, <2>1, <3>3, <4>1, <4>2, SMTT(30)
    <3>5. /\ flush.pc = "write" => flush.left = {}
          /\ \A i \in started + 1 .. Len(log) :
                /\ log[i].ts <= flush.ts => i <= Frontier - flush.late
                /\ i <= Frontier - flush.late /\ log[i].queue \notin flush.left =>
                      log[i].at < cqForced[log[i].queue]
      BY <2>6 DEF RoundInv
    <3>6. QED
      BY <1>1, <1>3, <2>4, <3>2, <3>3, <3>4, <3>5 DEF RoundInv
  <2>7. QED
    BY <2>5, <2>6
<1>8. QED
  BY <1>5, <1>6, <1>7 DEF CheckpointInv

\* A queue is never given a second file.
LEMMA CreateCheckpoint ==
    ASSUME SurvivesInv, SurvivesInv', IndexInv, CheckpointInv, DispatchCreate, gaps' = {}
    PROVE  CheckpointInv'
<1>a. LogTypeOK /\ QueueTypeOK
  BY DEF SurvivesInv
<1>b. PositionInv /\ RoundInv /\ PointInv
  BY DEF CheckpointInv
<1> USE <1>a, <1>b
<1> DEFINE q == Request.queue
<1>1. /\ q \in Queues /\ cq' = cq /\ cqFiles' = [cqFiles EXCEPT ![q] = cqFiles[q] + 1]
      /\ UNCHANGED <<log, dispatch, logicsMsgTimestamp, checkpoint, flush, phase>>
  BY CreateFacts
<1>2. UNCHANGED <<started, cqForced, cqPosition>>
  BY DEF DispatchCreate, logVars
<1>3. cqFiles[q] = 0
  <2>1. cqFiles'[q] = 1
    BY DEF DispatchCreate, Since
  <2> HIDE DEF q
  <2>2. cqFiles'[q] = cqFiles[q] + 1 /\ cqFiles[q] \in Nat
    BY <1>1 DEF QueueTypeOK
  <2>3. QED
    BY <2>1, <2>2
<1>4. \A p \in Queues : cqFiles'[p] <= 1
  <2>1. \A p \in Queues : cqFiles'[p] = IF p = q THEN 1 ELSE cqFiles[p]
    BY <1>1, <1>3 DEF QueueTypeOK
  <2>2. QED
    BY <2>1 DEF PositionInv
<1>5. Frontier' = Frontier
  <2>1. recovery' = recovery
    BY DEF DispatchCreate, runVars
  <2>2. QED
    BY <1>1, <2>1 DEF Frontier
<1>6. PositionInv'
  BY <1>1, <1>2, <1>4 DEF PositionInv
<1>7. RoundInv'
  BY <1>1, <1>2, <1>5 DEF RoundInv
<1>8. PointInv'
  BY <1>1, <1>2 DEF PointInv
<1>9. QED
  BY <1>6, <1>7, <1>8 DEF CheckpointInv

\* A round begins with a timestamp whose messages are dispatched.
LEMMA FlushBeginCheckpoint ==
    ASSUME SurvivesInv, IndexInv, CheckpointInv, FlushBegin
    PROVE  CheckpointInv'
<1>b. PositionInv /\ RoundInv /\ PointInv
  BY DEF CheckpointInv
<1> USE <1>b
<1>1. /\ phase = "running"
      /\ flush' = [pc |-> "queues", ts |-> logicsMsgTimestamp, left |-> Queues, late |-> 0]
      /\ UNCHANGED <<log, started, dispatch, cq, cqFiles, cqForced, cqPosition,
                     logicsMsgTimestamp, checkpoint, phase>>
  BY DEF FlushBegin, logVars, dispatchVars, cqVars, runVars
<1>2. /\ flush'.pc = "queues" /\ flush'.ts = logicsMsgTimestamp /\ flush'.left = Queues
      /\ flush'.late = 0
  BY <1>1
<1>3. Frontier' = Frontier /\ Frontier - 0 = Frontier /\ 0 <= Backoff
      /\ Backoff \in Nat /\ logicsMsgTimestamp \in Nat
  <2>1. Frontier' = Frontier
    BY <1>1 DEF Frontier
  <2>2. Frontier \in Int /\ logicsMsgTimestamp \in Nat
    BY <1>1, FrontierFacts
  <2>3. QED
    BY <2>1, <2>2, StoreAssumption
<1>4. PositionInv'
  BY <1>1 DEF PositionInv
<1>5. PointInv'
  BY <1>1 DEF PointInv
<1>6. RoundInv'
  <2>1. ASSUME NEW i \in started + 1 .. Len(log)
        PROVE  /\ log[i].ts <= logicsMsgTimestamp => i <= Frontier
               /\ log[i].ts + Backoff <= logicsMsgTimestamp => i <= Frontier
               /\ log[i].queue \in Queues
    <3>1. log[i].queue \in Queues /\ log[i].ts \in Nat
      BY <1>1, FreshFacts
    <3>2. log[i].ts <= logicsMsgTimestamp => i <= Frontier
      BY <1>1 DEF RoundInv
    <3>3. log[i].ts + Backoff <= logicsMsgTimestamp => log[i].ts <= logicsMsgTimestamp
      BY <1>3, <3>1
    <3>4. QED
      BY <3>1, <3>2, <3>3
  <2>2. started <= Frontier
    BY <1>1 DEF RoundInv
  <2>3. QED
    BY <1>1, <1>2, <1>3, <2>1, <2>2 DEF RoundInv
<1>7. QED
  BY <1>4, <1>5, <1>6 DEF CheckpointInv

\* What the files of a queue hold, when there is one.
LEMMA OneFile ==
    ASSUME QueueTypeOK, FilesInv, PositionInv, NEW q \in Queues
    PROVE  Len(cq[q]) \in 0 .. CqPerFile /\ cqFiles[q] \in 0 .. 1
<1>1. /\ Len(cq[q]) \in Nat /\ cqFiles[q] \in Nat /\ cqFiles[q] <= 1 /\ CqPerFile \in Nat
      /\ Len(cq[q]) <= cqFiles[q] * CqPerFile
  BY QueueFacts, StoreAssumption DEF FilesInv, PositionInv
<1>2. cqFiles[q] = 0 \/ cqFiles[q] = 1
  BY <1>1
<1>3. CASE cqFiles[q] = 0
  BY <1>1, <1>3
<1>4. CASE cqFiles[q] = 1
  BY <1>1, <1>4
<1>5. QED
  BY <1>2, <1>3, <1>4

\* A commit of a queue forces all of it.
LEMMA FlushQueueCheckpoint ==
    ASSUME SurvivesInv, SurvivesInv', IndexInv, CheckpointInv, writeable,
           NEW q \in Queues, FlushQueue(q)
    PROVE  CheckpointInv'
<1>a. LogTypeOK /\ QueueTypeOK /\ HoleInv /\ FilesInv /\ DispatchInv
  BY DEF SurvivesInv, IndexInv
<1>b. PositionInv /\ RoundInv /\ PointInv
  BY DEF CheckpointInv
<1> USE <1>a, <1>b
<1> DEFINE f == FileOf(cqWhere[q], CqPerFile, cqFiles[q])
           end == Lesser(Len(cq[q]), (f + 1) * CqPerFile)
           able == end = (f + 1) * CqPerFile \/ end > cqPosition[q]
           L == Len(cq[q])
<1>1. /\ flush.pc = "queues" /\ flush' = [flush EXCEPT !.left = flush.left \ {q}]
      /\ cqForced' = IF able THEN [cqForced EXCEPT ![q] = Greater(cqForced[q], end)] ELSE cqForced
      /\ cqPosition' = IF f + 1 = cqFiles[q] THEN [cqPosition EXCEPT ![q] = end] ELSE cqPosition
      /\ UNCHANGED <<log, started, dispatch, cq, cqFiles, logicsMsgTimestamp, checkpoint, phase>>
  BY DEF FlushQueue, logVars, dispatchVars, runVars
<1>2. phase = "running"
  BY <1>1 DEF HoleInv, Idle
<1>3. /\ L \in 0 .. CqPerFile /\ cqFiles[q] \in 0 .. 1 /\ CqPerFile \in Nat \ {0}
      /\ cqForced[q] \in 0 .. L /\ cqPosition[q] \in 0 .. L /\ L \in Nat
  <2>1. L \in 0 .. CqPerFile /\ cqFiles[q] \in 0 .. 1 /\ CqPerFile \in Nat \ {0}
    BY OneFile, StoreAssumption
  <2>2. cqPosition[q] \in Nat /\ cqPosition[q] <= L /\ cqForced[q] \in 0 .. L /\ L \in Nat
    BY <1>2, QueueFacts DEF PositionInv
  <2> HIDE DEF L
  <2>3. QED
    BY <2>1, <2>2
<1>4. f = 0 /\ (f + 1) * CqPerFile = CqPerFile /\ end = L
  <2>1. f \in Nat /\ (f < cqFiles[q] \/ f = 0)
    BY <1>3, FileOfFacts, QueueFacts
  <2> HIDE DEF f
  <2>2. f = 0
    BY <1>3, <2>1
  <2>3. (f + 1) * CqPerFile = CqPerFile
    BY <1>3, <2>2
  <2>4. end = Lesser(L, CqPerFile)
    BY <2>3
  <2>5. Lesser(L, CqPerFile) = L
    <3> HIDE DEF L
    <3>1. QED
      BY <1>3 DEF Lesser
  <2>6. QED
    BY <2>2, <2>3, <2>4, <2>5
<1>5. able \/ cqPosition[q] = L
  <2>1. end = L
    BY <1>4
  <2> HIDE DEF end, L
  <2>2. QED
    BY <1>3, <2>1
<1>6. able => cqForced'[q] = L
  <2>1. able => cqForced'[q] = Greater(cqForced[q], L)
    <3>1. able => cqForced' = [cqForced EXCEPT ![q] = Greater(cqForced[q], L)]
      BY <1>1, <1>4
    <3> HIDE DEF able, L
    <3>2. QED
      BY <3>1 DEF QueueTypeOK
  <2>2. Greater(cqForced[q], L) = L
    <3> HIDE DEF L
    <3>1. QED
      BY <1>3 DEF Greater
  <2>3. QED
    BY <2>1, <2>2
<1>7. ~able => cqForced' = cqForced
  BY <1>1
<1>8. \A p \in Queues : p # q => cqForced'[p] = cqForced[p] /\ cqPosition'[p] = cqPosition[p]
  <2>1. \E x : cqForced' = cqForced \/ cqForced' = [cqForced EXCEPT ![q] = x]
    BY <1>1
  <2>2. \E x : cqPosition' = cqPosition \/ cqPosition' = [cqPosition EXCEPT ![q] = x]
    BY <1>1
  <2>3. QED
    BY <2>1, <2>2 DEF QueueTypeOK
<1>9. cqPosition'[q] \in 0 .. L
  <2>1. cqPosition' = cqPosition \/ cqPosition' = [cqPosition EXCEPT ![q] = L]
    BY <1>1, <1>4
  <2> HIDE DEF L
  <2>2. cqPosition'[q] = cqPosition[q] \/ cqPosition'[q] = L
    BY <2>1 DEF QueueTypeOK
  <2>3. QED
    BY <1>3, <2>2
<1> HIDE DEF able, end, f
\* all that is indexed is forced, and nothing is given up
<1>10. ASSUME NEW i \in started + 1 .. Len(log), log[i].queue = q, log[i].at < L
       PROVE  log[i].at < cqForced'[q]
  <2>1. CASE able
    BY <1>6, <1>10, <2>1
  <2>2. CASE ~able
    <3>1. cqPosition[q] = L /\ cqForced'[q] = cqForced[q]
      BY <1>5, <1>7, <2>2
    <3>2. QED
      BY <1>2, <1>10, <3>1 DEF PositionInv
  <2>3. QED
    BY <2>1, <2>2
<1>11. ASSUME NEW p \in Queues PROVE cqForced[p] <= cqForced'[p] /\ cqForced[p] \in Nat /\ cqForced'[p] \in Nat
  <2>0. cqForced[p] \in Nat
    BY DEF QueueTypeOK
  <2>1. CASE p # q
    BY <1>8, <2>0, <2>1
  <2>2. CASE p = q /\ able
    <3> HIDE DEF L
    <3>1. QED
      BY <1>3, <1>6, <2>2
  <2>3. CASE p = q /\ ~able
    BY <1>7, <2>0, <2>3
  <2>4. QED
    BY <2>1, <2>2, <2>3
<1>12. PositionInv'
  <2>1. ASSUME NEW i \in started + 1 .. Len(log), log[i].at < cqPosition'[log[i].queue]
        PROVE  log[i].at < cqForced'[log[i].queue]
    <3>1. log[i].queue \in Queues /\ log[i].at \in Nat
      BY <1>2, FreshFacts
    <3>2. CASE log[i].queue = q
      <4>1. log[i].at < L
        <5> HIDE DEF L
        <5>1. QED
          BY <1>3, <1>9, <2>1, <3>1, <3>2
      <4>2. QED
        BY <1>10, <3>2, <4>1
    <3>3. CASE log[i].queue # q
      BY <1>2, <1>8, <2>1, <3>1, <3>3 DEF PositionInv
    <3>4. QED
      BY <3>2, <3>3
  <2>2. ASSUME NEW p \in Queues PROVE cqPosition'[p] <= Len(cq[p])
    <3>1. CASE p = q
      <4>1. cqPosition'[q] <= L
        <5> HIDE DEF L
        <5>1. QED
          BY <1>3, <1>9
      <4>2. QED
        BY <3>1, <4>1
    <3>2. CASE p # q
      BY <1>2, <1>8, <3>2 DEF PositionInv
    <3>3. QED
      BY <3>1, <3>2
  <2>3. QED
    BY <1>1, <2>1, <2>2 DEF PositionInv
<1>13. PointInv'
  <2>1. ASSUME NEW i \in started + 1 .. Len(log), log[i].at < cqForced[log[i].queue]
        PROVE  log[i].at < cqForced'[log[i].queue]
    <3>1. log[i].queue \in Queues /\ log[i].at \in Nat
      BY <1>2, FreshFacts
    <3>2. QED
      BY <1>11, <2>1, <3>1
  <2>2. QED
    BY <1>1, <2>1 DEF PointInv
<1>14. RoundInv'
  <2>1. /\ flush'.pc = "queues" /\ flush'.ts = flush.ts /\ flush'.left = flush.left \ {q}
        /\ flush'.late = flush.late
    BY <1>1 DEF LogTypeOK
  <2>2. Frontier' = Frontier
    BY <1>1, <1>2 DEF Frontier
  <2>3. ASSUME NEW i \in started + 1 .. Len(log), i <= Frontier - flush.late,
               log[i].queue \notin flush.left \ {q}
        PROVE  log[i].at < cqForced'[log[i].queue]
    <3>1. log[i].queue \in Queues /\ log[i].at \in Nat /\ i \in Nat /\ i \in 1 .. Len(log)
      BY <1>2, FreshFacts
    <3>2. CASE log[i].queue = q
      <4>1. i \in 1 .. Frontier
        <5>1. Frontier \in Nat /\ flush.late \in Nat
          BY <1>2, FrontierFacts
        <5>2. QED
          BY <2>3, <3>1, <5>1
      <4>2. Indexed(i)
        BY <1>2, <4>1 DEF DispatchInv
      <4>3. QED
        BY <1>10, <3>2, <4>2 DEF Indexed
    <3>3. CASE log[i].queue # q
      <4>1. log[i].at < cqForced[log[i].queue]
        BY <1>1, <1>2, <2>3, <3>3 DEF RoundInv
      <4>2. QED
        BY <1>8, <3>1, <3>3, <4>1
    <3>4. QED
      BY <3>2, <3>3
  <2>4. /\ started <= Frontier /\ flush.late <= Backoff
        /\ \A i \in started + 1 .. Len(log) :
              /\ log[i].ts <= logicsMsgTimestamp => i <= Frontier
              /\ log[i].ts <= flush.ts => i <= Frontier - flush.late
              /\ log[i].ts + Backoff <= logicsMsgTimestamp => i <= Frontier - flush.late
    BY <1>1, <1>2 DEF RoundInv
  <2>5. QED
    BY <1>1, <2>1, <2>2, <2>3, <2>4 DEF RoundInv
<1>15. QED
  BY <1>12, <1>13, <1>14 DEF CheckpointInv

\* A round ends with every queue forced that its timestamp covers.
LEMMA FlushEndCheckpoint ==
    ASSUME SurvivesInv, IndexInv, CheckpointInv, FlushSet \/ FlushWrite
    PROVE  CheckpointInv'
<1>a. LogTypeOK /\ HoleInv
  BY DEF SurvivesInv
<1>b. PositionInv /\ RoundInv /\ PointInv
  BY DEF CheckpointInv
<1> USE <1>a, <1>b
<1>1. /\ phase = "running" /\ flush.pc # "idle" /\ flush.left = {}
      /\ UNCHANGED <<log, started, dispatch, cq, cqFiles, cqForced, cqPosition, phase>>
  <2>1. /\ flush.pc \in {"queues", "write"}
        /\ UNCHANGED <<log, started, dispatch, cq, cqFiles, cqForced, cqPosition, phase>>
    BY DEF FlushSet, FlushWrite, logVars, dispatchVars, cqVars, runVars
  <2>2. phase = "running"
    BY <2>1 DEF HoleInv, Idle
  <2>3. QED
    BY <2>1, <2>2 DEF FlushSet, FlushWrite, RoundInv
<1>2. Frontier' = Frontier
  BY <1>1 DEF Frontier
<1>3. /\ started <= Frontier /\ flush.late <= Backoff
      /\ \A i \in started + 1 .. Len(log) :
            /\ log[i].ts <= logicsMsgTimestamp => i <= Frontier
            /\ log[i].ts <= flush.ts => i <= Frontier - flush.late
            /\ log[i].ts + Backoff <= logicsMsgTimestamp => i <= Frontier - flush.late
            /\ i <= Frontier - flush.late => log[i].at < cqForced[log[i].queue]
  BY <1>1 DEF RoundInv
<1>4. PositionInv'
  BY <1>1 DEF PositionInv
<1>5. CASE FlushSet
  <2>1. /\ flush' = [flush EXCEPT !.pc = "write"] /\ checkpoint' = checkpoint
        /\ logicsMsgTimestamp' = flush.ts \/ logicsMsgTimestamp' = logicsMsgTimestamp
    BY <1>5 DEF FlushSet
  <2>2. /\ flush'.pc = "write" /\ flush'.ts = flush.ts /\ flush'.left = {}
        /\ flush'.late = flush.late
    BY <1>1, <2>1 DEF LogTypeOK
  <2>3. ASSUME NEW i \in started + 1 .. Len(log)
        PROVE  /\ log[i].ts <= flush.ts => i <= Frontier
               /\ log[i].ts + Backoff <= flush.ts => i <= Frontier - flush.late
    <3>1. /\ log[i].ts \in Nat /\ i \in Nat /\ Frontier \in Nat /\ flush.late \in Nat
          /\ flush.ts \in Nat /\ Backoff \in Nat
      BY <1>1, FreshFacts, FrontierFacts, StoreAssumption
    <3>2. log[i].ts <= flush.ts => i <= Frontier - flush.late
      BY <1>3
    <3>3. QED
      BY <3>1, <3>2
  <2>4. RoundInv'
    BY <1>1, <1>2, <1>3, <2>1, <2>2, <2>3 DEF RoundInv
  <2>5. PointInv'
    BY <1>1, <2>1 DEF PointInv
  <2>6. QED
    BY <1>4, <2>4, <2>5 DEF CheckpointInv
<1>6. CASE FlushWrite
  <2>1. /\ flush' = Idle /\ logicsMsgTimestamp' = logicsMsgTimestamp
        /\ checkpoint'.logics = logicsMsgTimestamp
    BY <1>6 DEF FlushWrite
  <2>2. flush'.pc = "idle"
    BY <2>1 DEF Idle
  <2>3. RoundInv'
    BY <1>1, <1>2, <1>3, <2>1, <2>2 DEF RoundInv
  <2>4. PointInv'
    BY <1>1, <1>3, <2>1 DEF PointInv
  <2>5. QED
    BY <1>4, <2>3, <2>4 DEF CheckpointInv
<1>7. QED
  BY <1>5, <1>6

\* A shutdown forces every queue.
LEMMA ShutdownCheckpoint ==
    ASSUME SurvivesInv, IndexInv, CheckpointInv, writeable, Shutdown, gaps' = {}
    PROVE  CheckpointInv'
<1>a. LogTypeOK /\ QueueTypeOK /\ FilesInv /\ DispatchInv
  BY DEF SurvivesInv, IndexInv
<1>b. PositionInv
  BY DEF CheckpointInv
<1> USE <1>a, <1>b
<1>1. /\ phase = "running" /\ phase' = "down" /\ dispatch = <<>>
      /\ cqForced' = [q \in Queues |-> Greater(cqForced[q],
             Lesser(Len(cq[q]), (FileOf(cqWhere[q], CqPerFile, cqFiles[q]) + 3) * CqPerFile))]
      /\ UNCHANGED <<log, started, cqFiles>>
  BY DEF Shutdown, GoDown, Since
<1>2. ASSUME NEW q \in Queues PROVE cqForced'[q] = Len(cq[q])
  <2> DEFINE f == FileOf(cqWhere[q], CqPerFile, cqFiles[q])
             L == Len(cq[q])
             x == (f + 3) * CqPerFile
  <2>1. L \in 0 .. CqPerFile /\ cqForced[q] \in 0 .. L /\ L \in Nat /\ CqPerFile \in Nat \ {0}
    BY OneFile, QueueFacts, StoreAssumption
  <2>2. f \in Nat
    BY <2>1, FileOfFacts, QueueFacts
  <2>3. x \in Nat /\ CqPerFile <= x
    <3> HIDE DEF f
    <3>1. x = f * CqPerFile + 3 * CqPerFile /\ f * CqPerFile \in Nat
      BY <2>1, <2>2
    <3>2. QED
      BY <2>1, <3>1
  <2>4. cqForced'[q] = Greater(cqForced[q], Lesser(L, x))
    BY <1>1
  <2> HIDE DEF L, x
  <2>5. Lesser(L, x) = L
    BY <2>1, <2>3 DEF Lesser
  <2>6. Greater(cqForced[q], L) = L
    BY <2>1 DEF Greater
  <2>7. QED
    BY <2>4, <2>5, <2>6 DEF L
<1>3. ASSUME NEW i \in started + 1 .. Len(log) PROVE log[i].at < cqForced'[log[i].queue]
  <2>1. i \in 1 .. Len(log) /\ log[i].queue \in Queues
    BY <1>1, FreshFacts
  <2>2. Frontier = Len(log)
    <3>1. Len(dispatch) = 0
      BY <1>1
    <3>2. QED
      BY <1>1, <3>1, FrontierFacts
  <2>3. Indexed(i)
    BY <1>1, <2>1, <2>2 DEF DispatchInv
  <2>4. QED
    BY <1>2, <2>1, <2>3 DEF Indexed
<1>4. PointInv'
  BY <1>1, <1>3 DEF PointInv
<1>5. PositionInv' /\ RoundInv'
  BY <1>1 DEF PositionInv, RoundInv
<1>6. QED
  BY <1>4, <1>5 DEF CheckpointInv

\* A crash keeps the entries that are forced.
LEMMA CrashCheckpoint ==
    ASSUME SurvivesInv, SurvivesInv', IndexInv, CheckpointInv,
           CrashProcess \/ CrashMachine, Regular'
    PROVE  CheckpointInv'
<1>a. LogTypeOK /\ QueueTypeOK /\ FilesInv
  BY DEF SurvivesInv, IndexInv
<1>b. PositionInv /\ PointInv
  BY DEF CheckpointInv
<1> USE <1>a, <1>b
<1>1. phase' = "down" /\ UNCHANGED <<started, checkpoint>>
  BY DEF CrashProcess, CrashMachine, GoDown, logVars
<1>2. RoundInv'
  BY <1>1 DEF RoundInv
<1>3. CASE CrashProcess
  <2>1. UNCHANGED <<log, cqFiles, cqForced>>
    BY <1>3 DEF CrashProcess, logVars, cqVars
  <2>2. PositionInv'
    BY <1>1, <2>1 DEF PositionInv
  <2>3. PointInv'
    BY <1>1, <2>1 DEF PointInv
  <2>4. QED
    BY <1>2, <2>2, <2>3 DEF CheckpointInv
<1>4. CASE CrashMachine
  <2>1. \A q \in Queues :
              /\ Len(cq'[q]) \in cqForced[q] .. Len(cq[q])
              /\ cqForced'[q] = Len(cq'[q])
              /\ cqFiles'[q] = NeededFiles(Len(cq'[q]))
    BY <1>4, CrashQueues
  <2>2. ASSUME NEW q \in Queues PROVE cqFiles'[q] <= 1
    <3> DEFINE n == Len(cq'[q])
               F == NeededFiles(n)
               C == CqPerFile
    <3>1. n \in Nat /\ n <= C /\ C \in Nat \ {0}
      <4>1. /\ Len(cq[q]) \in 0 .. CqPerFile /\ cqForced[q] \in Nat /\ CqPerFile \in Nat \ {0}
            /\ n \in cqForced[q] .. Len(cq[q])
        <5>1. Len(cq[q]) \in 0 .. CqPerFile
          BY OneFile
        <5>2. cqForced[q] \in Nat
          BY DEF QueueTypeOK
        <5>3. n \in cqForced[q] .. Len(cq[q])
          BY <2>1
        <5>4. QED
          BY <5>1, <5>2, <5>3, StoreAssumption
      <4> HIDE DEF n
      <4>2. QED
        BY <4>1
    <3>2. cqFiles'[q] = F
      BY <2>1
    <3> HIDE DEF n
    <3>3. F \in Nat /\ n > (F - 1) * C
      BY <3>1, FilesNeeded
    <3> HIDE DEF F, C
    <3>4. ASSUME F > 1 PROVE FALSE
      <4>1. F - 1 \in Nat /\ F - 1 >= 1
        BY <3>3, <3>4
      <4>2. (F - 1) * C >= C
        BY <3>1, <4>1
      <4>3. (F - 1) * C \in Nat
        BY <3>1, <4>1
      <4>4. QED
        BY <3>1, <3>3, <4>2, <4>3
    <3>5. QED
      BY <3>2, <3>3, <3>4
  <2>3. PositionInv'
    BY <1>1, <2>2 DEF PositionInv
  <2>4. PICK lost \in SUBSET (DOMAIN log \ logForced) :
            log' = [i \in DOMAIN log |-> IF i \in lost THEN Hole ELSE log[i]]
    BY <1>4 DEF CrashMachine
  <2>5. Len(log') = Len(log) /\ Len(log) \in Nat /\ started \in Nat
        /\ \A i \in 1 .. Len(log) : log'[i] # Hole => log'[i] = log[i]
    <3>1. log' \in Seq(Message \cup {Hole})
      BY DEF SurvivesInv, LogTypeOK
    <3>2. QED
      BY <2>4, <3>1, LogFacts, LenProperties DEF LogTypeOK
  <2>6. PointInv'
    <3> SUFFICES ASSUME NEW i \in started + 1 .. Len(log), log'[i] # Hole,
                        log'[i].ts + Backoff <= checkpoint.logics
                 PROVE  log'[i].at < cqForced'[log'[i].queue]
      BY <1>1, <2>5 DEF PointInv
    <3>1. i \in 1 .. Len(log) /\ log'[i] = log[i]
      BY <2>5
    <3>2. log[i].queue \in Queues /\ log[i].at \in Nat
      BY <3>1, LogFacts
    <3>3. log[i].at < cqForced[log[i].queue]
      BY <3>1 DEF PointInv
    <3>4. /\ cqForced[log[i].queue] \in Nat /\ Len(cq[log[i].queue]) \in Nat
          /\ cqForced'[log[i].queue] \in cqForced[log[i].queue] .. Len(cq[log[i].queue])
      BY <2>1, <3>2, QueueFacts
    <3>5. log[i].at < cqForced'[log[i].queue]
      BY <3>2, <3>3, <3>4
    <3>6. QED
      BY <3>1, <3>5
  <2>7. QED
    BY <1>2, <2>3, <2>6 DEF CheckpointInv
<1>5. QED
  BY <1>3, <1>4

\* Loading keeps the entries; a process that starts has put nothing yet.
LEMMA LoadCheckpoint ==
    ASSUME SurvivesInv, SurvivesInv', IndexInv, CheckpointInv,
           LoadNormally \/ LoadAbnormally
    PROVE  CheckpointInv'
<1>a. LogTypeOK /\ QueueTypeOK /\ HoleInv /\ DispatchInv
  BY DEF SurvivesInv, IndexInv
<1>b. PositionInv /\ PointInv
  BY DEF CheckpointInv
<1> USE <1>a, <1>b
<1>1. Load /\ phase = "down" /\ UNCHANGED <<dispatch, checkpoint, flush>>
  BY LoadFacts DEF LoadNormally, LoadAbnormally
<1>2. /\ cqFiles' = cqFiles /\ cqForced' = cqForced /\ cq' = cq
      /\ \A q \in Queues : cqPosition'[q] = Len(cq[q])
  BY <1>1, LoadQueues
<1>3. flush = Idle /\ dispatch = <<>> /\ flush.pc = "idle" /\ Len(dispatch) = 0
  BY <1>1 DEF HoleInv, DispatchInv, Idle
<1>4. \A q \in Queues : cqFiles'[q] <= 1 /\ cqPosition'[q] <= Len(cq'[q])
  <2>1. \A q \in Queues : Len(cq[q]) \in Nat
    BY QueueFacts
  <2>2. QED
    BY <1>2, <2>1 DEF PositionInv
<1>5. CASE LoadNormally
  <2>1. log' = log /\ started' = Len(log) /\ phase' = "running" /\ Len(log) \in Nat
    BY <1>5, LoadNormallySurvives, LogFacts DEF LoadNormally, Start, SurvivesInv
  <2>2. started' + 1 .. Len(log') = {} /\ Frontier' = Len(log) /\ Len(log) <= Len(log)
    BY <1>1, <1>3, <2>1 DEF Frontier
  <2>3. PositionInv'
    BY <1>4, <2>2 DEF PositionInv
  <2>4. PointInv'
    BY <2>2 DEF PointInv
  <2>5. RoundInv'
    BY <1>1, <1>3, <2>1, <2>2 DEF RoundInv
  <2>6. QED
    BY <2>3, <2>4, <2>5 DEF CheckpointInv
<1>6. CASE LoadAbnormally
  <2>1. UNCHANGED <<log, started>> /\ phase' = "scan"
    BY <1>6 DEF LoadAbnormally, logVars
  <2>2. PositionInv'
    BY <1>4, <2>1 DEF PositionInv
  <2>3. PointInv'
    BY <1>1, <1>2, <2>1 DEF PointInv
  <2>4. RoundInv'
    BY <2>1 DEF RoundInv
  <2>5. QED
    BY <2>2, <2>3, <2>4 DEF CheckpointInv
<1>7. QED
  BY <1>5, <1>6

\* Fewer messages are left to be covered.
LEMMA RecoverTruncateCheckpoint ==
    ASSUME SurvivesInv, SurvivesInv', IndexInv, CheckpointInv, RecoverTruncate
    PROVE  CheckpointInv'
<1>a. LogTypeOK
  BY DEF SurvivesInv
<1>b. PositionInv /\ PointInv
  BY DEF CheckpointInv
<1> USE <1>a, <1>b
<1> DEFINE n == recovery.pos - 1
<1>1. /\ n \in 0 .. Len(log) /\ Len(log') = n
      /\ \A i \in 1 .. n : log'[i] = log[i]
  BY CutLog
<1>2. /\ phase = "scan" /\ phase' = "truncate"
      /\ UNCHANGED <<started, checkpoint, cq, cqFiles, cqForced, cqPosition>>
  BY DEF RecoverTruncate, pointVars, cqVars
<1>3. PositionInv' /\ RoundInv'
  BY <1>2 DEF PositionInv, RoundInv
<1> HIDE DEF n
<1>4. \A i \in started + 1 .. n : i \in started + 1 .. Len(log) /\ i \in 1 .. n
  BY <1>1, LogFacts DEF LogTypeOK
<1>5. PointInv'
  BY <1>1, <1>2, <1>4 DEF PointInv
<1>6. QED
  BY <1>3, <1>5 DEF CheckpointInv

\* No entry that the checkpoint covers is cut off.
LEMMA TruncateQueueCheckpoint ==
    ASSUME SurvivesInv, SurvivesInv', IndexInv, IndexInv', CheckpointInv, writeable, TruncateQueue
    PROVE  CheckpointInv'
<1>a. LogTypeOK /\ QueueTypeOK /\ QueueTypeOK' /\ CoveredInv'
  BY DEF SurvivesInv, IndexInv
<1>b. PositionInv /\ PointInv
  BY DEF CheckpointInv
<1> USE <1>a, <1>b
<1> DEFINE q == recovery.queue
           len == Len(cq'[q])
<1>1. /\ q \in Queues /\ len \in 0 .. Len(cq[q]) /\ cqFiles'[q] <= cqFiles[q]
      /\ cqForced'[q] = Lesser(cqForced[q], len) /\ cqPosition'[q] = len
  BY TruncateFacts
<1>2. phase = "truncate" /\ UNCHANGED <<log, started, checkpoint, phase>>
  BY DEF TruncateQueue, logVars, pointVars
<1>3. \A p \in Queues : p # q =>
         /\ cq'[p] = cq[p] /\ cqFiles'[p] = cqFiles[p] /\ cqForced'[p] = cqForced[p]
         /\ cqPosition'[p] = cqPosition[p]
  BY DEF TruncateQueue, QueueTypeOK
<1>4. \A p \in Queues : cqFiles'[p] <= 1 /\ cqPosition'[p] <= Len(cq'[p])
  <2> SUFFICES ASSUME NEW p \in Queues PROVE cqFiles'[p] <= 1 /\ cqPosition'[p] <= Len(cq'[p])
    OBVIOUS
  <2>1. CASE p = q
    <3>1. cqFiles[q] \in Nat /\ cqFiles'[q] \in Nat /\ len \in Nat /\ cqFiles[q] <= 1
      <4>1. cqFiles' \in [Queues -> Nat] /\ cq' \in [Queues -> Seq(Int)]
        BY DEF QueueTypeOK
      <4>2. QED
        BY <1>1, <4>1, QueueFacts DEF PositionInv
    <3>2. len <= len /\ cqFiles'[q] <= 1
      <4> HIDE DEF len
      <4>1. QED
        BY <1>1, <3>1
    <3>3. QED
      BY <1>1, <2>1, <3>2
  <2>2. CASE p # q
    BY <1>2, <1>3, <2>2 DEF PositionInv
  <2>3. QED
    BY <2>1, <2>2
<1>5. PositionInv' /\ RoundInv'
  BY <1>2, <1>4 DEF PositionInv, RoundInv
<1>6. PointInv'
  <2> SUFFICES ASSUME NEW i \in started + 1 .. Len(log), log[i] # Hole,
                      log[i].ts + Backoff <= checkpoint.logics
               PROVE  log[i].at < cqForced'[log[i].queue]
    BY <1>2 DEF PointInv
  <2>1. i \in 1 .. Len(log) /\ i \in DOMAIN log
    BY LogFacts DEF LogTypeOK
  <2>2. log[i].at < cqForced[log[i].queue] /\ log[i].queue \in Queues
    BY <2>1, LogFacts DEF PointInv
  <2>3. CASE log[i].queue = q
    <3>1. Whole(i)
      BY <1>2, <2>1, WholePast
    <3>2. Whole(i)'
      BY <1>2, <3>1 DEF Whole
    <3>3. Indexed(i)'
      BY <1>2, <2>1, <3>2 DEF CoveredInv
    <3>4. log[i].at < len
      BY <1>2, <2>3, <3>3 DEF Indexed
    <3>5. QED
      BY <1>1, <2>2, <2>3, <3>4 DEF Lesser
  <2>4. CASE log[i].queue # q
    BY <1>3, <2>2, <2>4
  <2>5. QED
    BY <2>3, <2>4
<1>7. QED
  BY <1>5, <1>6 DEF CheckpointInv

\* A process that starts has put nothing yet.
LEMMA RecoverEndCheckpoint ==
    ASSUME SurvivesInv, IndexInv, CheckpointInv, RecoverEnd
    PROVE  CheckpointInv'
<1>a. LogTypeOK /\ HoleInv
  BY DEF SurvivesInv
<1>b. PositionInv
  BY DEF CheckpointInv
<1> USE <1>a, <1>b
<1>1. /\ phase = "truncate" /\ phase' = "running" /\ started' = Len(log) /\ dispatch' = <<>>
      /\ UNCHANGED <<log, cq, cqFiles, cqForced, cqPosition, flush>>
  BY DEF RecoverEnd, Start, dispatchVars, cqVars, pointVars
<1>2. flush'.pc = "idle" /\ Len(dispatch') = 0 /\ Len(log) \in Nat
  BY <1>1, LogFacts DEF HoleInv, Idle
<1>3. started' + 1 .. Len(log') = {} /\ Frontier' = Len(log) /\ Len(log) <= Len(log)
  BY <1>1, <1>2 DEF Frontier
<1>4. PositionInv'
  BY <1>1, <1>3 DEF PositionInv
<1>5. PointInv'
  BY <1>3 DEF PointInv
<1>6. RoundInv'
  BY <1>1, <1>2, <1>3 DEF RoundInv
<1>7. QED
  BY <1>4, <1>5, <1>6 DEF CheckpointInv

-----------------------------------------------------------------------------
(* The three invariants together.  A queue that loses entries in a crash   *)
(* of the machine keeps what the checkpoint covers, which the consume      *)
(* queues need, and the other way round the checkpoint needs them.         *)

\* What the history says before a step and after it.
LEMMA Before ==
    ASSUME StoreInv, [Next]_vars
    PROVE  /\ Regular' => Regular /\ "mixed" \notin gaps /\ SurvivesInv /\ IndexInv /\ CutInv
           /\ gaps' = {} => gaps = {} /\ writeable /\ CheckpointInv
           /\ gaps = {} => writeable /\ PositionInv /\ PointInv
<1>1. HistoryInv /\ gaps \subseteq gaps'
  BY HistoryKept DEF StoreInv
<1>2. gaps = {} => writeable /\ CheckpointInv /\ PositionInv /\ PointInv
  BY DEF StoreInv, HistoryInv, CheckpointInv
<1>3. Regular' => Regular /\ "mixed" \notin gaps
  BY <1>1 DEF Regular, Disorders
<1>4. QED
  BY <1>1, <1>2, <1>3 DEF StoreInv

\* The gaps are those that cost the checkpoint its meaning and those that cost
\* the consume queues their order.
LEMMA NothingUncovered ==
    ASSUME HistoryInv, Regular, gaps \cap Lapses = {}
    PROVE  gaps = {}
BY DEF HistoryInv, Regular, Gaps

\* Every step keeps the index.
LEMMA NextIndex ==
    ASSUME StoreInv, SurvivesInv', [Next]_vars, Regular'
    PROVE  IndexInv'
<1>a. HistoryInv /\ Regular /\ SurvivesInv /\ IndexInv /\ CutInv
  BY Before DEF StoreInv
<1> USE <1>a
<1>1. CASE \E q \in Queues : putMessage(q)
  BY <1>1, PutIndex
<1>2. CASE Dispatch
  BY <1>2, SkipIndex, CreateIndex, AppendIndex, FailsIndex DEF Dispatch
<1>3. CASE FlushLog \/ FlushQueues
  BY <1>3, FlushIndex
<1>4. CASE Shutdown
  BY <1>4, ShutdownIndex
<1>5. CASE CrashProcess
  BY <1>5, CrashProcessIndex
<1>6. CASE CrashMachine
  <2>1. gaps \cap Lapses = {}
    BY <1>6 DEF CrashMachine, Regular, Disorders, Since
  <2>2. PointInv
    BY <2>1, NothingUncovered, Before
  <2>3. QED
    BY <1>6, <2>2, CrashMachineIndex
<1>7. CASE Recover
  <2>1. CASE TruncateQueue
    <3>1. "machine" \in exits => PositionInv /\ writeable
      BY <2>1, Before DEF TruncateQueue, CutInv
    <3>2. QED
      BY <2>1, <3>1, TruncateQueueIndex
  <2>2. QED
    BY <1>7, <2>1, LoadNormallyIndex, LoadAbnormallyIndex, RecoverMessageIndex,
       RecoverTruncateIndex, TruncateBeginIndex, RecoverEndIndex DEF Recover
<1>8. CASE UNCHANGED vars
  <2>1. UNCHANGED <<log, dispatch, created, writeable, cq, cqFiles, maxPhysicOffset,
                    phase, abort, recovery, topicQueueTable, puts, exits,
                    logicsMsgTimestamp, flush, checkpoint>>
    BY <1>8 DEF vars, logVars, dispatchVars, cqVars, pointVars, runVars, histVars
  <2>2. QED
    BY <2>1, QuietIndex
<1>9. QED
  BY <1>1, <1>2, <1>3, <1>4, <1>5, <1>6, <1>7, <1>8 DEF Next

\* Every step keeps the queues from being cut off by a checkpoint without meaning.
LEMMA NextCut ==
    ASSUME StoreInv, [Next]_vars, Regular'
    PROVE  CutInv'
<1>a. HistoryInv /\ Regular /\ CutInv /\ DispatchInv
  BY Before DEF StoreInv, IndexInv
<1> USE <1>a DEF CutInv
<1>1. CASE \E q \in Queues : putMessage(q)
  BY <1>1 DEF putMessage
<1>2. CASE Dispatch
  <2>1. phase # "truncate" /\ phase' = phase
    BY <1>2 DEF Dispatch, DispatchSkip, DispatchCreate, DispatchAppend, DispatchFails,
                runVars, DispatchInv
  <2>2. QED
    BY <2>1
<1>3. CASE FlushLog \/ FlushQueues \/ UNCHANGED vars
  BY <1>3 DEF FlushLog, FlushQueues, FlushBegin, FlushQueue, FlushSet, FlushWrite, runVars,
              histVars, vars
<1>4. CASE Shutdown \/ CrashProcess \/ CrashMachine
  BY <1>4 DEF Shutdown, CrashProcess, CrashMachine, GoDown
<1>5. CASE RecoverTruncate
  <2>1. exits' = exits /\ ("machine" \in exits => gaps \cap Lapses = {})
    BY <1>5 DEF RecoverTruncate, Regular, Disorders, Since
  <2>2. "machine" \in exits => gaps = {}
    BY <2>1, NothingUncovered
  <2>3. gaps = {} => gaps' = {}
    BY <1>5, <2>1 DEF RecoverTruncate, Regular, Disorders, Since
  <2>4. QED
    BY <2>1, <2>2, <2>3
<1>6. CASE LoadNormally \/ LoadAbnormally \/ RecoverMessage \/ TruncateQueue \/ RecoverEnd
           \/ \E q \in Queues : TruncateBegin(q)
  BY <1>6 DEF LoadNormally, LoadAbnormally, RecoverMessage, TruncateQueue, RecoverEnd,
              TruncateBegin, Start, Load, histVars
<1>7. QED
  BY <1>1, <1>2, <1>3, <1>4, <1>5, <1>6 DEF Next, Recover

\* Every step keeps the checkpoint.
LEMMA NextCheckpoint ==
    ASSUME StoreInv, SurvivesInv', IndexInv', [Next]_vars, gaps' = {}
    PROVE  CheckpointInv'
<1>b. Regular'
  BY DEF Regular
<1>a. SurvivesInv /\ IndexInv /\ CheckpointInv /\ writeable
  BY <1>b, Before
<1> USE <1>a, <1>b
<1>1. CASE \E q \in Queues : putMessage(q)
  BY <1>1, PutCheckpoint
<1>2. CASE Dispatch
  <2>1. ASSUME DispatchFails PROVE FALSE
    BY <2>1 DEF DispatchFails
  <2>2. QED
    BY <1>2, <2>1, TakeCheckpoint, CreateCheckpoint DEF Dispatch
<1>3. CASE FlushLog
  <2>1. UNCHANGED <<log, started, cq, cqFiles, cqForced, cqPosition, checkpoint, phase,
                    dispatch, logicsMsgTimestamp, flush>>
    BY <1>3 DEF FlushLog, dispatchVars, cqVars
  <2>2. QED
    BY <2>1, QuietCheckpoint
<1>4. CASE FlushQueues
  BY <1>4, FlushBeginCheckpoint, FlushQueueCheckpoint, FlushEndCheckpoint DEF FlushQueues
<1>5. CASE Shutdown
  BY <1>5, ShutdownCheckpoint
<1>6. CASE CrashProcess \/ CrashMachine
  BY <1>6, CrashCheckpoint
<1>7. CASE RecoverMessage \/ \E q \in Queues : TruncateBegin(q)
  <2>1. /\ UNCHANGED <<log, started, cq, cqFiles, cqForced, cqPosition, checkpoint, phase>>
        /\ phase # "running"
    BY <1>7 DEF RecoverMessage, TruncateBegin, logVars, cqVars, pointVars
  <2>2. QED
    BY <2>1, QuietCheckpoint
<1>8. CASE LoadNormally \/ LoadAbnormally \/ RecoverTruncate \/ TruncateQueue \/ RecoverEnd
  BY <1>8, LoadCheckpoint, RecoverTruncateCheckpoint, TruncateQueueCheckpoint, RecoverEndCheckpoint
<1>9. CASE UNCHANGED vars
  <2>1. UNCHANGED <<log, started, cq, cqFiles, cqForced, cqPosition, checkpoint, phase,
                    dispatch, logicsMsgTimestamp, flush>>
    BY <1>9 DEF vars, logVars, dispatchVars, cqVars, pointVars, runVars
  <2>2. QED
    BY <2>1, QuietCheckpoint
<1>10. QED
  BY <1>1, <1>2, <1>3, <1>4, <1>5, <1>6, <1>7, <1>8, <1>9 DEF Next, Recover

\* Log, consume queues and checkpoint stay in step through every put, dispatch,
\* flush, exit and recovery, each until something it does not cover happens.
THEOREM StoreInductive == Spec => []StoreInv
<1>1. Init => StoreInv
  <2>1. Init => HistoryInv /\ CutInv
    BY DEF Init, HistoryInv, CutInv
  <2>2. QED
    BY <2>1, InitSurvives, InitIndex, InitCheckpoint DEF StoreInv
<1>2. StoreInv /\ [Next]_vars => StoreInv'
  <2> SUFFICES ASSUME StoreInv, [Next]_vars PROVE StoreInv'
    OBVIOUS
  <2>1. HistoryInv /\ HistoryInv' /\ gaps \subseteq gaps'
    BY HistoryKept DEF StoreInv
  <2>2. "mixed" \notin gaps' => SurvivesInv'
    BY <2>1, NextSurvives DEF StoreInv
  <2>3. Regular' => "mixed" \notin gaps'
    BY DEF Regular, Disorders
  <2>4. Regular' => IndexInv' /\ CutInv'
    BY <2>2, <2>3, NextIndex, NextCut
  <2>5. gaps' = {} => CheckpointInv'
    <3>1. gaps' = {} => Regular'
      BY DEF Regular
    <3>2. QED
      BY <2>2, <2>3, <2>4, <3>1, NextCheckpoint
  <2>6. QED
    BY <2>1, <2>2, <2>4, <2>5 DEF StoreInv
<1>3. QED
  BY <1>1, <1>2, PTL DEF Spec

\* No crash, restart or late dispatch loses, doubles or moves an entry of a
\* consume queue: with nothing left to dispatch the queues index the log exactly.
THEOREM QueuesIndexLog == Spec => []IndexExact
<1>1. StoreInv => IndexExact
  <2> SUFFICES ASSUME SurvivesInv, IndexInv, phase = "running", writeable, dispatch = <<>>,
                      NEW q \in Queues
               PROVE  /\ \A i \in DOMAIN log : log[i].queue = q =>
                           /\ log[i].at < Len(cq[q])
                           /\ cq[q][log[i].at + 1] = i
                      /\ \A k \in DOMAIN cq[q] :
                           cq[q][k] \in DOMAIN log /\ log[cq[q][k]].queue = q
    BY DEF StoreInv, IndexExact, Regular, Disorders
  <2>a. LogTypeOK /\ QueueTypeOK /\ EntriesInv /\ DispatchInv
    BY DEF SurvivesInv, IndexInv
  <2> USE <2>a
  <2>1. /\ Frontier = Len(log) /\ Len(log) \in Nat /\ DOMAIN log = 1 .. Len(log)
        /\ DOMAIN cq[q] = 1 .. Len(cq[q])
    <3>1. Len(dispatch) = 0
      OBVIOUS
    <3>2. QED
      BY <3>1, FrontierFacts, LogFacts, QueueFacts
  <2>2. \A i \in 1 .. Len(log) : Indexed(i) /\ log[i] # Hole
    BY <2>1, WholePast DEF DispatchInv
  <2>3. \A i \in DOMAIN log : log[i].queue = q => log[i].at < Len(cq[q]) /\ cq[q][log[i].at + 1] = i
    BY <2>1, <2>2 DEF Indexed
  <2>4. ASSUME NEW k \in 1 .. Len(cq[q])
        PROVE  cq[q][k] \in DOMAIN log /\ log[cq[q][k]].queue = q
    <3>1. cq[q][k] <= Len(log) /\ cq[q][k] \in Nat \ {0}
      BY <2>1, EntryFacts DEF EntriesInv, Dirty
    <3>2. cq[q][k] \in 1 .. Len(log)
      BY <2>1, <3>1
    <3>3. QED
      BY <2>1, <2>2, <3>1, <3>2, EntryMessage
  <2>5. QED
    BY <2>1, <2>3, <2>4
<1>2. QED
  BY <1>1, StoreInductive, PTL

\* The type invariant is part of the inductive one.
LEMMA StoreTypes ==
    ASSUME SurvivesInv, IndexInv
    PROVE  TypeOK
<1>a. LogTypeOK /\ QueueTypeOK /\ HoleInv /\ EntriesInv /\ FilesInv
  BY DEF SurvivesInv, IndexInv
<1> USE <1>a
<1>1. log \in Seq(Message \cup {Hole}) /\ logForced \subseteq DOMAIN log
  BY DEF LogTypeOK
<1>2. committedWhere \in 0 .. Len(log) \/ phase \in {"down", "scan"}
  BY LogFacts DEF LogTypeOK, HoleInv
<1>3. puts \in Nat /\ puts <= MaxPuts /\ MaxPuts \in Nat
  BY StoreAssumption DEF LogTypeOK
<1>4. cq \in [Queues -> Seq(-1 .. MaxPuts)]
  <2>1. ASSUME NEW q \in Queues PROVE cq[q] \in Seq(-1 .. MaxPuts)
    <3>1. cq[q] \in Seq(Int) /\ Len(cq[q]) \in Nat /\ DOMAIN cq[q] = 1 .. Len(cq[q])
      BY QueueFacts
    <3>2. \A k \in 1 .. Len(cq[q]) : cq[q][k] \in -1 .. MaxPuts
      <4> SUFFICES ASSUME NEW k \in 1 .. Len(cq[q]) PROVE cq[q][k] \in -1 .. MaxPuts
        OBVIOUS
      <4>1. cq[q][k] \in Nat /\ cq[q][k] <= puts
        BY EntryFacts
      <4>2. QED
        BY <1>3, <4>1
    <3>3. cq[q] \in [1 .. Len(cq[q]) -> -1 .. MaxPuts]
      BY <3>1, <3>2
    <3> DEFINE S == -1 .. MaxPuts
    <3> HIDE DEF S
    <3>4. \A n \in Nat : \A s \in [1 .. n -> S] : s \in Seq(S)
      BY SeqDef, Zenon
    <3>5. QED
      BY <3>1, <3>3, <3>4 DEF S
  <2>2. QED
    BY <2>1 DEF QueueTypeOK
<1>5. \A q \in Queues : cqForced[q] \in 0 .. Len(cq[q]) /\ Len(cq[q]) <= cqFiles[q] * CqPerFile
  BY QueueFacts DEF FilesInv
<1>6. \A k \in DOMAIN dispatch : dispatch[k] \in DOMAIN log
  BY DEF LogTypeOK
<1>7. checkpoint \in [physic : 0 .. MaxPuts, logics : 0 .. MaxPuts]
  <2>1. 0 .. puts \subseteq 0 .. MaxPuts
    BY <1>3
  <2>2. checkpoint \in [physic : 0 .. puts, logics : 0 .. puts]
    BY DEF LogTypeOK
  <2>3. QED
    BY <2>1, <2>2
<1>8. phase \in {"running", "down", "scan", "truncate"}
  BY DEF LogTypeOK
<1>9. QED
  BY <1>1, <1>2, <1>4, <1>5, <1>6, <1>7, <1>8 DEF TypeOK

\* Of the messages put since the last start, those before the checkpoint, less
\* the 3 s, are on disk, in the log and in the consume queues.
THEOREM CheckpointCovers == Spec => []CheckpointSound
<1>1. StoreInv => CheckpointSound
  <2> SUFFICES ASSUME SurvivesInv, IndexInv, PointInv,
                      NEW i \in started + 1 .. Len(log), log[i] # Hole, log[i].ts <= MinTimestamp
               PROVE  /\ i \in logForced
                      /\ \A j \in 1 .. i : log[j] # Hole
                      /\ log[i].at < cqForced[log[i].queue]
    BY StoreTypes DEF StoreInv, CheckpointInv, CheckpointSound, Regular
  <2>a. LogTypeOK /\ StampInv /\ KeptInv /\ FreshInv
    BY DEF SurvivesInv
  <2> USE <2>a
  <2>1. i \in 1 .. Len(log) /\ i \in DOMAIN log
    BY LogFacts DEF LogTypeOK
  <2>2. log[i].ts \in 1 .. puts /\ puts \in Nat /\ Backoff \in Nat
        /\ checkpoint.physic \in Nat /\ checkpoint.logics \in Nat
    BY <2>1, StoreAssumption DEF StampInv, LogTypeOK
  <2>3. log[i].ts + Backoff <= checkpoint.physic /\ log[i].ts + Backoff <= checkpoint.logics
    BY <2>2, SMTT(30) DEF MinTimestamp, Lesser, Greater
  <2>4. log[i].ts <= checkpoint.physic
    BY <2>2, <2>3
  <2>5. i \in logForced
    BY <2>4 DEF FreshInv
  <2>6. Whole(i)
    BY <2>1, <2>4 DEF KeptInv
  <2>7. log[i].at < cqForced[log[i].queue]
    BY <2>3 DEF PointInv
  <2>8. QED
    BY <2>5, <2>6, <2>7 DEF Whole
<1>2. QED
  BY <1>1, StoreInductive, PTL

=============================================================================
