------------------------------ MODULE MapedFile ------------------------------
(***************************************************************************)
(* The life of one memory-mapped store file: the reference count of        *)
(* ReferenceResource and the unmap/delete of MapedFile built on it.        *)
(*                                                                         *)
(* Readers are the threads that work on the mapping between hold() and     *)
(* release(): pull requests, the reput and HA threads (selectMapedBuffer)  *)
(* and the flush thread (commit).  Cleaner is the one store thread that    *)
(* expires files: it calls destroy() and calls it again (redelete of the   *)
(* hanged file) until the file is gone.                                    *)
(*                                                                         *)
(* hold() and the cleanup block of release() are synchronized on the file; *)
(* shutdown() and the decrement of release() are not, so each of their     *)
(* reads and writes is a step of its own here.  Left out: the bytes of the *)
(* mapping, logging, the process-wide counters of mapped memory.           *)
(***************************************************************************)
EXTENDS Integers, FiniteSets

CONSTANTS Readers,   \* threads that hold and release the file
          Cleaner,   \* the store thread that destroys it
          NoThread   \* nobody is in the file's synchronized section

ASSUME ThreadsAssumption ==
    /\ IsFiniteSet(Readers)
    /\ Cleaner \notin Readers
    /\ NoThread \notin Readers \cup {Cleaner}

VARIABLES refCount,     \* ReferenceResource.refCount
          available,    \* ReferenceResource.available
          cleanupOver,  \* ReferenceResource.cleanupOver
          monitor,      \* the thread inside synchronized(this) of hold()
          pc,           \* where each thread is in the code
          expired,      \* intervalForcibly has passed since the first shutdown
          seenRef,      \* the count the cleaner read for the forced shutdown
          forced,       \* the forced branch of shutdown() wrote refCount
          unmapped,     \* how often the buffer was unmapped
          deleted       \* destroy() closed and deleted the file

fileVars == <<refCount, available, cleanupOver, monitor, pc, expired, seenRef,
              forced, unmapped, deleted>>

Threads == Readers \cup {Cleaner}

ReaderPC == {"idle", "holding", "undo", "held", "cleanup"}
CleanerPC == {"idle", "release", "force", "cleanup", "destroy"}

\* The threads that work on the mapping.
Held == {r \in Readers : pc[r] = "held"}

Goto(t, where) == pc' = [pc EXCEPT ![t] = where]

FileInit ==
    /\ refCount = 1
    /\ available = TRUE
    /\ cleanupOver = FALSE
    /\ monitor = NoThread
    /\ pc = [t \in Threads |-> "idle"]
    /\ expired = FALSE
    /\ seenRef = 0
    /\ forced = FALSE
    /\ unmapped = 0
    /\ deleted = FALSE

-----------------------------------------------------------------------------
(* hold(): taken by selectMapedBuffer and commit before they touch the     *)
(* mapping.                                                                *)

HoldEnter(r) ==
    /\ pc[r] = "idle"
    /\ monitor = NoThread
    /\ available
    /\ monitor' = r
    /\ Goto(r, "holding")
    /\ UNCHANGED <<refCount, available, cleanupOver, expired, seenRef,
                   forced, unmapped, deleted>>

HoldRefused(r) ==
    /\ pc[r] = "idle"
    /\ monitor = NoThread
    /\ ~available
    /\ UNCHANGED fileVars

\* Mutant of HoldIncrement: the old count is not looked at.
HoldIncrementUnchecked(r) ==
    /\ pc[r] = "holding"
    /\ refCount' = refCount + 1
    /\ Goto(r, "held") /\ monitor' = NoThread
    /\ UNCHANGED <<available, cleanupOver, expired, seenRef, forced,
                   unmapped, deleted>>

\* refCount.getAndIncrement(): a count above zero grants the hold, otherwise
\* the increment is undone in a second atomic operation.
HoldIncrement(r) ==
    /\ pc[r] = "holding"
    /\ refCount' = refCount + 1
    /\ IF refCount > 0
         THEN Goto(r, "held") /\ monitor' = NoThread
         ELSE Goto(r, "undo") /\ UNCHANGED monitor
    /\ UNCHANGED <<available, cleanupOver, expired, seenRef, forced,
                   unmapped, deleted>>

HoldUndo(r) ==
    /\ pc[r] = "undo"
    /\ refCount' = refCount - 1
    /\ monitor' = NoThread
    /\ Goto(r, "idle")
    /\ UNCHANGED <<available, cleanupOver, expired, seenRef, forced,
                   unmapped, deleted>>

-----------------------------------------------------------------------------
(* release(): decrement, then the synchronized cleanup by whoever saw a    *)
(* count of zero or less.                                                  *)

\* Mutant of Release: off by one, the last holder but one cleans up.
ReleaseEarly(t, from, after) ==
    /\ pc[t] = from
    /\ refCount' = refCount - 1
    /\ Goto(t, IF refCount - 1 > 1 THEN after ELSE "cleanup")
    /\ UNCHANGED <<available, cleanupOver, monitor, expired, seenRef, forced,
                   unmapped, deleted>>

Release(t, from, after) ==
    /\ pc[t] = from
    /\ refCount' = refCount - 1
    /\ Goto(t, IF refCount - 1 > 0 THEN after ELSE "cleanup")
    /\ UNCHANGED <<available, cleanupOver, monitor, expired, seenRef, forced,
                   unmapped, deleted>>

isCleanupOver == refCount <= 0 /\ cleanupOver

\* Mutant of Cleanup: an earlier cleanup is not noticed.
CleanupAgain(t, after) ==
    /\ pc[t] = "cleanup"
    /\ monitor = NoThread
    /\ cleanupOver' = ~available
    /\ unmapped' = IF available THEN unmapped ELSE unmapped + 1
    /\ Goto(t, after)
    /\ UNCHANGED <<refCount, available, monitor, expired, seenRef, forced,
                   deleted>>

\* MapedFile.cleanup: never unmap a file that is still available, never
\* unmap twice.
Cleanup(t, after) ==
    /\ pc[t] = "cleanup"
    /\ monitor = NoThread
    /\ cleanupOver' = ~available
    /\ unmapped' = IF available \/ isCleanupOver THEN unmapped ELSE unmapped + 1
    /\ Goto(t, after)
    /\ UNCHANGED <<refCount, available, monitor, expired, seenRef, forced,
                   deleted>>

ReaderRelease(r) == Release(r, "held", "idle")
ReaderCleanup(r) == Cleanup(r, "idle")

-----------------------------------------------------------------------------
(* destroy(intervalForcibly) = shutdown(intervalForcibly), then delete if  *)
(* the cleanup is over.                                                    *)

shutdown ==
    /\ pc[Cleaner] = "idle"
    /\ available
    /\ available' = FALSE
    /\ Goto(Cleaner, "release")
    /\ UNCHANGED <<refCount, cleanupOver, monitor, expired, seenRef, forced,
                   unmapped, deleted>>

\* Mutant of ShutdownAgain: no forced branch.
ShutdownNeverForced ==
    /\ pc[Cleaner] = "idle"
    /\ ~available
    /\ ~deleted
    /\ Goto(Cleaner, "destroy")
    /\ UNCHANGED <<refCount, available, cleanupOver, monitor, expired, seenRef,
                   forced, unmapped, deleted>>

\* A later destroy() of the same file.  The forced branch reads the count
\* once for its guard and once more for the value it writes.
ShutdownAgain ==
    /\ pc[Cleaner] = "idle"
    /\ ~available
    /\ ~deleted
    /\ IF refCount > 0 /\ expired
         THEN Goto(Cleaner, "force") /\ seenRef' = refCount
         ELSE Goto(Cleaner, "destroy") /\ UNCHANGED seenRef
    /\ UNCHANGED <<refCount, available, cleanupOver, monitor, expired,
                   forced, unmapped, deleted>>

\* refCount.set(-1000 - getRefCount()): the count is read again, then written;
\* a hold or release of a reader in between is overwritten.
ForceRead ==
    /\ pc[Cleaner] = "force"
    /\ seenRef # refCount
    /\ seenRef' = refCount
    /\ UNCHANGED <<refCount, available, cleanupOver, monitor, pc, expired,
                   forced, unmapped, deleted>>

ForceSet ==
    /\ pc[Cleaner] = "force"
    /\ refCount' = -1000 - seenRef
    /\ forced' = TRUE
    /\ Goto(Cleaner, "release")
    /\ UNCHANGED <<available, cleanupOver, monitor, expired, seenRef,
                   unmapped, deleted>>

CleanerRelease == Release(Cleaner, "release", "destroy")
CleanerCleanup == Cleanup(Cleaner, "destroy")

\* Mutant of Destroy: the count alone decides.
DestroyAtZero ==
    /\ pc[Cleaner] = "destroy"
    /\ deleted' = (refCount <= 0)
    /\ Goto(Cleaner, "idle")
    /\ UNCHANGED <<refCount, available, cleanupOver, monitor, expired,
                   seenRef, forced, unmapped>>

\* The rest of destroy(): delete if cleaned up, otherwise give up until the
\* next call.
Destroy ==
    /\ pc[Cleaner] = "destroy"
    /\ deleted' = isCleanupOver
    /\ Goto(Cleaner, "idle")
    /\ UNCHANGED <<refCount, available, cleanupOver, monitor, expired,
                   seenRef, forced, unmapped>>

\* The clock: currentTimeMillis - firstShutdownTimestamp >= intervalForcibly.
Expire ==
    /\ ~available
    /\ ~expired
    /\ expired' = TRUE
    /\ UNCHANGED <<refCount, available, cleanupOver, monitor, pc, seenRef,
                   forced, unmapped, deleted>>

-----------------------------------------------------------------------------
CleanerRetry == ShutdownAgain \/ ForceSet \/ CleanerRelease
                \/ CleanerCleanup \/ Destroy

ReaderFinish(r) == HoldIncrement(r) \/ HoldUndo(r) \/ ReaderCleanup(r)

FileNext ==
    \/ \E r \in Readers :
          \/ HoldEnter(r)
          \/ HoldRefused(r)
          \/ HoldIncrement(r)
          \/ HoldUndo(r)
          \/ ReaderRelease(r)
          \/ ReaderCleanup(r)
    \/ shutdown
    \/ ShutdownAgain
    \/ ForceRead
    \/ ForceSet
    \/ CleanerRelease
    \/ CleanerCleanup
    \/ Destroy
    \/ Expire

FileSpec == FileInit /\ [][FileNext]_fileVars

\* The cleaner is a periodic task, time passes, and a thread inside hold() or
\* release() goes on running.  Nothing makes a reader call release().
FileFairness ==
    /\ WF_fileVars(CleanerRetry)
    /\ WF_fileVars(Expire)
    /\ \A r \in Readers : WF_fileVars(ReaderFinish(r))

FairFileSpec == FileSpec /\ FileFairness

-----------------------------------------------------------------------------
(* Properties                                                              *)

FileTypeOK ==
    /\ refCount \in Int
    /\ available \in BOOLEAN
    /\ cleanupOver \in BOOLEAN
    /\ monitor \in Readers \cup {NoThread}
    /\ pc \in [Threads -> ReaderPC \cup CleanerPC]
    /\ \A r \in Readers : pc[r] \in ReaderPC
    /\ pc[Cleaner] \in CleanerPC
    /\ expired \in BOOLEAN
    /\ seenRef \in Nat
    /\ forced \in BOOLEAN
    /\ unmapped \in Nat
    /\ deleted \in BOOLEAN

\* The buffer is never unmapped under a thread that holds the file, unless
\* the forced branch of shutdown() gave up on that thread: hold(), release()
\* and shutdown() interleave in any order.  Touching an unmapped buffer
\* crashes the JVM (comment at MapedFile.cleanup).
NoUnmapWhileHeld == unmapped > 0 /\ ~forced => Held = {}

\* The buffer is unmapped at most once, whichever threads reach cleanup() and
\* also when a reader releases after a forced shutdown.
UnmapOnce == unmapped <= 1

\* destroy() deletes the file only after its buffer was unmapped, and from
\* then on no thread is granted a hold.
DeletedIsFinal ==
    deleted => /\ unmapped = 1
               /\ \A r \in Readers : pc[r] # "holding"  \/ refCount <= 0

\* A file that was shut down is deleted in the end, even when a reader never
\* releases it: the retried destroy() goes through its forced branch.
EventuallyDeleted == ~available ~> deleted

-----------------------------------------------------------------------------
(* The inductive strengthening: what every reference in the count stands   *)
(* for, and what a thread on its way to the unmapping knows.               *)

OwnRef == IF available \/ pc[Cleaner] = "release" THEN 1 ELSE 0
UndoRef == IF \E r \in Readers : pc[r] = "undo" THEN 1 ELSE 0
CleanupPending == \E t \in Threads : pc[t] = "cleanup"

MonitorInv == \A r \in Readers : pc[r] \in {"holding", "undo"} <=> monitor = r

CountInv == ~forced => refCount = Cardinality(Held) + UndoRef + OwnRef

GivenUpInv ==
    /\ forced => ~available /\ refCount <= UndoRef - 1000
    /\ pc[Cleaner] = "force" => ~forced
    /\ pc[Cleaner] # "idle" => ~available

UnmapInv ==
    /\ ~forced /\ (CleanupPending \/ unmapped > 0) => Held = {} /\ OwnRef = 0
    /\ unmapped \in {0, 1}
    /\ unmapped = 1 <=> cleanupOver
    /\ deleted => unmapped = 1

\* The count of an un-forced file is exactly the readers that hold it, the
\* hold being undone and the file's own reference; whoever saw zero knows
\* that no reader holds it any more.
IndInv == FileTypeOK /\ MonitorInv /\ CountInv /\ GivenUpInv /\ UnmapInv

=============================================================================
