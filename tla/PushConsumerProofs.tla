------------------------- MODULE PushConsumerProofs -------------------------
(***************************************************************************)
(* Proofs about PushConsumer, for every set of clients, every size of      *)
(* batches, every subscription and every bound: that no offset ever passes *)
(* an unfinished message, that no message is stranded, and that the        *)
(* clients together implement ConsumerGroup.                               *)
(***************************************************************************)
EXTENDS PushConsumer, FiniteSetTheorems, WellFoundedInduction, TLAPS

(* The first and the last element of a set of offsets.                     *)

LEMMA FirstIs ==
  ASSUME NEW S, S \subseteq Nat, S # {}
  PROVE  First(S) \in S /\ \A n \in S : First(S) <= n
  <1>1. PICK x \in S : \A y \in S : ~ (<<y, x>> \in OpToRel(<, Nat))
    BY WFMin, NatLessThanWellFounded
  <1>2. ASSUME NEW y \in S, ~(x <= y) PROVE FALSE
    <2>1. x \in Nat /\ y \in Nat /\ y < x
      BY <1>2
    <2>2. <<y, x>> \in Nat \X Nat /\ <<y, x>>[1] = y /\ <<y, x>>[2] = x
      BY <2>1
    <2>3. <<y, x>> \in OpToRel(<, Nat)
      BY <2>1, <2>2, Zenon DEF OpToRel
    <2> QED
      BY <1>1, <2>3
  <1> QED
    BY <1>2 DEF First

LEMMA LastIs ==
  ASSUME NEW k \in Nat, NEW S, S \subseteq 0 .. k, S # {}
  PROVE  Last(S) \in S /\ \A n \in S : n <= Last(S)
  <1> DEFINE T == { i \in 0 .. k : k - i \in S }
  <1>0. ASSUME NEW n \in S PROVE n \in Nat /\ k - n \in 0 .. k /\ k - (k - n) = n /\ k - n \in T
    OBVIOUS
  <1>1. T \subseteq Nat /\ T # {}
    <2>1. PICK n \in S : TRUE
      OBVIOUS
    <2>2. k - n \in T
      BY <1>0
    <2>3. T \subseteq Nat
      OBVIOUS
    <2> HIDE DEF T
    <2> QED
      BY <2>2, <2>3
  <1>2. First(T) \in T /\ \A n \in T : First(T) <= n
    BY <1>1, FirstIs
  <1> DEFINE x == k - First(T)
  <1>3. x \in S /\ First(T) \in 0 .. k
    BY <1>2
  <1>4. ASSUME NEW n \in S PROVE n <= x
    <2>1. n \in Nat /\ First(T) <= k - n
      BY <1>0, <1>2
    <2> HIDE DEF T
    <2> QED
      BY <1>3, <2>1
  <1> HIDE DEF x
  <1>5. x \in S /\ \A n \in S : n <= x
    BY <1>3, <1>4
  <1> QED
    BY <1>5 DEF Last

-----------------------------------------------------------------------------
(* What a pull finds.                                                      *)

\* Offsets and the bounds of the queue are natural numbers.
LEMMA Numbers ==
  ASSUME TypeOK
  PROVE  /\ maxOffset \in Nat /\ Oldest \in Nat /\ MaxOffset \in Nat
         /\ maxOffset <= MaxOffset
         /\ \A g \in Ids : nextOffset[g] \in Nat /\ queueOffsetMax[g] \in Nat
  BY ConsumerAssumption DEF TypeOK, Offsets

\* The number of messages before one of them.
Rank(g, m) == Cardinality({ n \in Wanted(g) : n < m })

LEMMA RankType ==
  ASSUME TypeOK, NEW g \in Ids
  PROVE  /\ Wanted(g) \subseteq 0 .. maxOffset - 1
         /\ \A m \in Wanted(g) : IsFiniteSet({ n \in Wanted(g) : n < m }) /\ Rank(g, m) \in Nat
         /\ \A m, n \in Wanted(g) : m <= n => Rank(g, m) <= Rank(g, n)
  <1>0. maxOffset \in Nat /\ nextOffset[g] \in Nat
    BY Numbers
  <1>1. Wanted(g) \subseteq 0 .. maxOffset - 1
    BY <1>0 DEF Wanted
  <1>2. IsFiniteSet(0 .. maxOffset - 1)
    BY <1>0, FS_Interval
  <1>3. ASSUME NEW m \in Wanted(g)
        PROVE  IsFiniteSet({ n \in Wanted(g) : n < m }) /\ Rank(g, m) \in Nat
    <2>1. { n \in Wanted(g) : n < m } \subseteq 0 .. maxOffset - 1
      BY <1>1
    <2>2. IsFiniteSet({ n \in Wanted(g) : n < m })
      BY <1>2, <2>1, FS_Subset
    <2> QED
      BY <2>2, FS_CardinalityType DEF Rank
  <1>4. ASSUME NEW m \in Wanted(g), NEW n \in Wanted(g), m <= n
        PROVE  Rank(g, m) <= Rank(g, n)
    <2>1. { i \in Wanted(g) : i < m } \subseteq { i \in Wanted(g) : i < n }
      BY <1>0, <1>1, <1>4
    <2> QED
      BY <1>3, <2>1, FS_Subset DEF Rank
  <1> QED
    BY <1>1, <1>3, <1>4

LEMMA FoundIs ==
  ASSUME TypeOK, NEW g \in Ids
  PROVE  Found(g) = { m \in Wanted(g) : Rank(g, m) < PullBatch }
  BY DEF Found, Rank

\* A pull that finds nothing has nothing to find: the first message would have
\* been found.
LEMMA FoundNothing ==
  ASSUME TypeOK, NEW g \in Ids, Found(g) = {}
  PROVE  Wanted(g) = {}
  <1> SUFFICES ASSUME Wanted(g) # {} PROVE FALSE
    OBVIOUS
  <1>0. maxOffset \in Nat /\ Wanted(g) \subseteq 0 .. maxOffset - 1
    BY Numbers, RankType
  <1>1. First(Wanted(g)) \in Wanted(g) /\ \A n \in Wanted(g) : First(Wanted(g)) <= n
    BY <1>0, FirstIs
  <1>2. { n \in Wanted(g) : n < First(Wanted(g)) } = {}
    BY <1>0, <1>1
  <1>3. Rank(g, First(Wanted(g))) = 0
    BY <1>2, FS_EmptySet DEF Rank
  <1> QED
    BY <1>1, <1>3, FoundIs, ConsumerAssumption

\* A pull that finds something reads up to the first message it leaves behind:
\* all it found is below, and what is below and was not found is not subscribed.
LEMMA ReadIs ==
  ASSUME TypeOK, NEW g \in Ids, nextOffset[g] <= maxOffset
  PROVE  /\ ReadUpTo(g) \in nextOffset[g] .. maxOffset
         /\ Found(g) \subseteq nextOffset[g] .. ReadUpTo(g) - 1
         /\ \A m \in nextOffset[g] .. ReadUpTo(g) - 1 : m \in Unmatched \cup Found(g)
  <1>0. maxOffset \in Nat /\ nextOffset[g] \in Nat /\ Wanted(g) \subseteq 0 .. maxOffset - 1
    BY Numbers, RankType
  <1>1. Found(g) \subseteq Wanted(g)
    BY DEF Found
  <1>2. CASE Wanted(g) = Found(g)
    BY <1>0, <1>2 DEF ReadUpTo, Wanted
  <1>3. CASE Wanted(g) # Found(g)
    <2> DEFINE rest == Wanted(g) \ Found(g)
    <2>1. First(rest) \in rest /\ \A n \in rest : First(rest) <= n
      <3>1. rest # {} /\ rest \subseteq Nat
        BY <1>0, <1>1, <1>3
      <3> QED
        BY <3>1, FirstIs
    <2>2. ReadUpTo(g) = First(rest)
      BY <1>3 DEF ReadUpTo
    <2> HIDE DEF rest
    <2> DEFINE f == First(rest)
    <2>3. f \in Wanted(g) /\ f \notin Found(g) /\ f \in nextOffset[g] .. maxOffset
      BY <1>0, <2>1 DEF rest, Wanted
    <2>4. ASSUME NEW m \in Found(g) PROVE m \in nextOffset[g] .. f - 1
      <3>1. m \in Wanted(g) /\ Rank(g, m) < PullBatch /\ ~(Rank(g, f) < PullBatch)
        BY <2>3, FoundIs
      <3>2. ~(f <= m)
        <4> HIDE DEF f
        <4>1. Rank(g, m) \in Nat /\ Rank(g, f) \in Nat /\ (f <= m => Rank(g, f) <= Rank(g, m))
          BY <2>3, <3>1, RankType
        <4> QED
          BY <3>1, <4>1, ConsumerAssumption
      <3> QED
        BY <1>0, <2>3, <3>1, <3>2 DEF Wanted
    <2>5. ASSUME NEW m \in nextOffset[g] .. f - 1 PROVE m \in Unmatched \cup Found(g)
      <3>1. m \notin rest
        BY <1>0, <2>1, <2>3
      <3>2. m \in nextOffset[g] .. maxOffset - 1
        BY <1>0, <2>3
      <3> QED
        BY <3>1, <3>2 DEF rest, Wanted
    <2> QED
      BY <2>2, <2>3, <2>4, <2>5
  <1> QED
    BY <1>2, <1>3

-----------------------------------------------------------------------------
(* The parts of the invariant that a step leaves alone.                    *)

\* The second half of NoneStranded.
Carried == \A g \in Ids : ~dropped[g] =>
    \A m \in msgTreeMap[g] : \E t \in tasks : t.pq = g /\ m \in t.msgs /\ t.pc # "update"

LEMMA InvIs == ConsumerInv <=>
  TypeOK /\ Carried /\ KeptInv /\ QueueInv /\ OwnerInv /\ Oldest <= maxOffset
  BY DEF ConsumerInv, NoneStranded, Carried

LEMMA InvIsNext == ConsumerInv' <=>
  TypeOK' /\ Carried' /\ KeptInv' /\ QueueInv' /\ OwnerInv' /\ (Oldest <= maxOffset)'
  BY DEF ConsumerInv, NoneStranded, Carried

\* Messages arrive and get finished: what may be kept stays so.
Grows == maxOffset' \in Offsets /\ maxOffset <= maxOffset' /\ done \subseteq done'

LEMMA Growth ==
  ASSUME TypeOK, Grows
  PROVE  Finished \subseteq Finished' /\ Kept \subseteq Kept'
  <1>1. Finished \subseteq Finished'
    BY DEF Grows, Finished
  <1>2. ASSUME NEW v \in Kept PROVE v \in Kept'
    <2>1. v \in Offsets \cup {None} /\ v <= maxOffset /\ \A m \in 0 .. v - 1 : m \in Finished
      BY DEF Kept, Safe
    <2>2. v <= maxOffset'
      BY <2>1, Numbers, ConsumerAssumption DEF Grows, Offsets, None
    <2>3. \A m \in 0 .. v - 1 : m \in Finished'
      BY <1>1, <2>1
    <2> QED
      BY <2>1, <2>2, <2>3 DEF Kept, Safe, Offsets, None
  <1> QED
    BY <1>1, <1>2

LEMMA PulledSame ==
  ASSUME ConsumerInv, Grows, NEW g \in Ids,
         msgTreeMap'[g] = msgTreeMap[g], nextOffset'[g] = nextOffset[g],
         queueOffsetMax'[g] = queueOffsetMax[g], pull'[g] = "fix" => pull[g] = "fix"
  PROVE  Pulled(g)'
  <1>1. TypeOK /\ Pulled(g) /\ Finished \subseteq Finished'
    BY InvIs, Growth DEF QueueInv
  <1>2. nextOffset'[g] <= maxOffset'
    BY <1>1, Numbers DEF Pulled, Grows, Offsets
  <1> QED
    BY <1>1, <1>2 DEF Pulled

\* A process queue that is empty, and new or forgotten.
LEMMA PulledNothing ==
  ASSUME maxOffset' \in Offsets, NEW g \in Ids,
         msgTreeMap'[g] = {}, nextOffset'[g] = 0, pull'[g] # "fix"
  PROVE  Pulled(g)'
  <1>1. maxOffset' \in Nat
    BY ConsumerAssumption DEF Offsets
  <1> QED
    BY <1>1 DEF Pulled

LEMMA QueuesSame ==
  ASSUME ConsumerInv, Grows, UNCHANGED <<msgTreeMap, nextOffset, queueOffsetMax>>,
         \A g \in Ids : pull'[g] = "fix" => pull[g] = "fix"
  PROVE  QueueInv'
  BY PulledSame DEF QueueInv

LEMMA CarriedSame ==
  ASSUME ConsumerInv, UNCHANGED <<msgTreeMap, tasks>>,
         \A g \in Ids : dropped[g] => dropped'[g]
  PROVE  Carried'
  BY InvIs DEF Carried

LEMMA OwnersSame ==
  ASSUME ConsumerInv, UNCHANGED <<owner, tasks>>,
         \A g \in Ids : pull[g] = "gone" => pull'[g] = "gone"
  PROVE  OwnerInv'
  BY InvIs DEF OwnerInv

\* The tasks stay as they are while messages arrive and get finished.
LEMMA TasksSame ==
  ASSUME ConsumerInv, Grows, UNCHANGED tasks, NEW t \in tasks'
  PROVE  t.offset \in Kept' /\ t.msgs \subseteq 0 .. maxOffset' - 1
  <1>1. TypeOK /\ t.offset \in Kept /\ t.msgs \subseteq 0 .. maxOffset - 1
    BY InvIs DEF KeptInv
  <1>2. 0 .. maxOffset - 1 \subseteq 0 .. maxOffset' - 1
    BY <1>1, Numbers, ConsumerAssumption DEF Grows, Offsets
  <1> QED
    BY <1>1, <1>2, Growth

\* A step that moves no message in or out of a process queue and makes no
\* process queue: of the invariant, only the offsets that are kept and the types
\* have to be looked at.
LEMMA QuietStep ==
  ASSUME ConsumerInv, TypeOK', Grows,
         UNCHANGED <<msgTreeMap, nextOffset, queueOffsetMax, owner, tasks>>,
         \A g \in Ids : /\ dropped[g] => dropped'[g]
                        /\ pull'[g] = "fix" => pull[g] = "fix"
                        /\ pull[g] = "gone" => pull'[g] = "gone",
         committed' \in Kept, persisted' \in Kept, commits' \subseteq Kept,
         \A c \in Clients : offsetTable'[c] \in Kept /\ rebalance'[c].offset \in Kept
  PROVE  ConsumerInv'
  <1>0. TypeOK /\ Oldest <= maxOffset
    BY InvIs
  <1>1. Carried' /\ QueueInv' /\ OwnerInv'
    <2>0. /\ UNCHANGED <<msgTreeMap, nextOffset, queueOffsetMax>>
          /\ UNCHANGED <<msgTreeMap, tasks>> /\ UNCHANGED <<owner, tasks>>
      OBVIOUS
    <2>1. Carried'
      BY <2>0, CarriedSame
    <2>2. QueueInv'
      BY <2>0, QueuesSame
    <2>3. OwnerInv'
      BY <2>0, OwnersSame
    <2> QED
      BY <2>1, <2>2, <2>3
  <1>2. KeptInv'
    BY <1>0, Growth, TasksSame DEF KeptInv
  <1>3. (Oldest <= maxOffset)'
    BY <1>0, Numbers, ConsumerAssumption DEF Grows, Offsets
  <1> QED
    BY <1>1, <1>2, <1>3, InvIsNext

\* Below the oldest message there is nothing to skip.
LEMMA KeptFloor ==
  ASSUME TypeOK, Oldest <= maxOffset
  PROVE  None \in Kept /\ 0 \in Kept /\ Oldest \in Kept
  <1>1. Oldest \in Nat /\ maxOffset \in Nat /\ MaxOffset \in Nat /\ Oldest <= MaxOffset
    BY Numbers, ConsumerAssumption
  <1>2. \A v \in {None, 0, Oldest} : v \in Offsets \cup {None} /\ v <= maxOffset
    BY <1>1 DEF Offsets, None
  <1>3. \A v \in {None, 0, Oldest} : \A m \in 0 .. v - 1 : m \in Finished
    BY <1>1 DEF None, Finished
  <1> QED
    BY <1>2, <1>3 DEF Kept, Safe

-----------------------------------------------------------------------------
(* The broker.                                                             *)

LEMMA BrokerStep ==
  ASSUME ConsumerInv,
         \/ Arrive \/ BrokerPersist \/ BrokerRestart
         \/ \E v \in Offsets : CommitOffset(v) \/ LoseCommit(v)
  PROVE  ConsumerInv'
  <1> USE DEF brokerVars, queueVars, clientVars, boundVars
  <1>0. TypeOK /\ KeptInv
    BY InvIs
  <1>1. TypeOK' /\ Grows
    <2> USE ConsumerAssumption DEF TypeOK, Grows, Offsets
    <2>1. CASE Arrive
      BY <1>0, <2>1 DEF Arrive
    <2>2. CASE BrokerPersist
      BY <1>0, <2>2 DEF BrokerPersist
    <2>3. CASE BrokerRestart
      BY <1>0, <2>3 DEF BrokerRestart
    <2>4. ASSUME NEW v \in Offsets, CommitOffset(v) PROVE TypeOK' /\ Grows
      BY <1>0, <2>4 DEF CommitOffset
    <2>5. ASSUME NEW v \in Offsets, LoseCommit(v) PROVE TypeOK' /\ Grows
      BY <1>0, <2>5 DEF LoseCommit
    <2> QED
      BY <2>1, <2>2, <2>3, <2>4, <2>5
  <1>2. UNCHANGED <<queueVars, tasks, clientVars>>
    BY DEF Arrive, BrokerPersist, BrokerRestart, CommitOffset, LoseCommit
  <1>3. \A g \in Ids : /\ pull'[g] = "fix" => pull[g] = "fix"
                       /\ pull[g] = "gone" => pull'[g] = "gone"
    BY DEF Arrive, BrokerPersist, BrokerRestart, CommitOffset, LoseCommit
  <1>4. committed' \in Kept /\ persisted' \in Kept /\ commits' \subseteq Kept
    BY <1>0 DEF KeptInv, Arrive, BrokerPersist, BrokerRestart, CommitOffset, LoseCommit
  <1> QED
    BY <1>0, <1>1, <1>2, <1>3, <1>4, QuietStep DEF KeptInv

-----------------------------------------------------------------------------
(* Persisting and the rebalance of a client.                               *)

LEMMA ClientStep ==
  ASSUME ConsumerInv, NEW c \in Clients,
         \/ PersistAll(c) \/ PersistOthers(c) \/ Move(c) \/ Drop(c) \/ DropExpired(c)
         \/ DropPersist(c) \/ DropRemove(c) \/ Fetch(c)
  PROVE  ConsumerInv'
  <1> USE DEF brokerVars, queueVars, clientVars, boundVars
  <1>0. TypeOK /\ KeptInv /\ Oldest <= maxOffset /\ maxOffset \in Nat
    BY InvIs, Numbers
  <1>1. None \in Kept /\ 0 \in Kept
    BY <1>0, KeptFloor
  <1>2. UNCHANGED <<maxOffset, done, msgTreeMap, nextOffset, queueOffsetMax, owner, tasks,
                    pull, committed, persisted>>
    BY DEF PersistAll, PersistOthers, Move, Drop, DropExpired, DropPersist, DropRemove, Fetch
  <1>3. Grows
    BY <1>0, <1>2 DEF Grows, TypeOK
  <1>4. QueryConsumerOffset \subseteq Kept /\ Kept \subseteq Offsets \cup {None}
    BY <1>0, <1>1 DEF QueryConsumerOffset, KeptInv, Kept
  <1>5. commits' \subseteq Kept /\ commits' \subseteq Offsets
    BY <1>0, <1>2 DEF KeptInv, TypeOK, Send, None,
       PersistAll, PersistOthers, Move, Drop, DropExpired, DropPersist, DropRemove, Fetch
  <1>6. /\ offsetTable' \in [Clients -> Offsets \cup {None}]
        /\ \A d \in Clients : offsetTable'[d] \in Kept
    BY <1>0, <1>1 DEF KeptInv, TypeOK,
       PersistAll, PersistOthers, Move, Drop, DropExpired, DropPersist, DropRemove, Fetch
  <1>7. /\ rebalance' \in [Clients -> RebalanceState]
        /\ \A d \in Clients : rebalance'[d].offset \in Kept
    <2>1. CASE UNCHANGED rebalance
      BY <1>0, <2>1 DEF KeptInv, TypeOK
    <2>2. ASSUME NEW pc \in {"idle", "persist", "remove", "add"},
                 rebalance' = [rebalance EXCEPT ![c].pc = pc]
          PROVE  <1>7!:
      BY <1>0, <2>2 DEF KeptInv, TypeOK, RebalanceState
    <2>3. CASE Fetch(c)
      BY <1>0, <1>4, <2>3 DEF KeptInv, TypeOK, RebalanceState, Fetch
    <2> QED
      BY <2>1, <2>2, <2>3
         DEF PersistAll, PersistOthers, Move, Drop, DropExpired, DropPersist, DropRemove
  <1>8. /\ dropped' \in [Ids -> BOOLEAN]
        /\ \A g \in Ids : dropped[g] => dropped'[g]
    BY <1>0 DEF TypeOK,
       PersistAll, PersistOthers, Move, Drop, DropExpired, DropPersist, DropRemove, Fetch
  <1>10. changes' \in 0 .. MaxChanges
    BY <1>0, ConsumerAssumption DEF TypeOK,
       PersistAll, PersistOthers, Move, Drop, DropExpired, DropPersist, DropRemove, Fetch
  <1>11. allocated' \in Clients /\ processQueueTable' \in [Clients -> Ids \cup {0}]
    BY <1>0 DEF TypeOK,
       PersistAll, PersistOthers, Move, Drop, DropExpired, DropPersist, DropRemove, Fetch
  <1>9. TypeOK'
    BY <1>0, <1>2, <1>5, <1>6, <1>7, <1>8, <1>10, <1>11 DEF TypeOK
  <1> QED
    BY <1>0, <1>2, <1>3, <1>5, <1>6, <1>7, <1>8, <1>9, QuietStep DEF KeptInv

-----------------------------------------------------------------------------
(* Pulling.                                                                *)

LEMMA PullQuietStep ==
  ASSUME ConsumerInv, NEW g \in Ids, PullMessage(g) \/ PullException(g) \/ FixOffset(g)
  PROVE  ConsumerInv'
  <1> USE DEF brokerVars, queueVars, clientVars, boundVars
  <1>0. TypeOK /\ KeptInv /\ Pulled(g) /\ OwnerInv /\ Oldest <= maxOffset
    BY InvIs DEF QueueInv
  <1>1. Oldest \in Kept /\ Kept \subseteq Offsets \cup {None}
    BY <1>0, KeptFloor DEF Kept
  <1>2. owner[g] \in Clients /\ (pull[g] = "fix" => nextOffset[g] = Oldest)
    BY <1>0 DEF OwnerInv, Pulled, PullMessage, PullException, FixOffset
  <1>3. /\ UNCHANGED <<maxOffset, done, msgTreeMap, nextOffset, queueOffsetMax, owner, tasks,
                       dropped, committed, persisted, processQueueTable, rebalance, allocated>>
        /\ changes' \in 0 .. MaxChanges
    <2>1. changes' = changes \/ (changes < MaxChanges /\ changes' = changes + 1)
      BY DEF PullMessage, PullException, FixOffset
    <2>2. changes' \in 0 .. MaxChanges
      BY <1>0, <2>1, ConsumerAssumption DEF TypeOK
    <2> QED
      BY <2>2 DEF PullMessage, PullException, FixOffset
  <1>4. Grows
    BY <1>0, <1>3, Numbers DEF Grows, TypeOK
  <1>5. /\ pull' \in [Ids -> {"ready", "sent", "fix", "remove", "gone"}]
        /\ \A h \in Ids : /\ pull'[h] = "fix" => pull[h] = "fix"
                          /\ pull[h] = "gone" => pull'[h] = "gone"
    BY <1>0 DEF PullMessage, PullException, FixOffset, TypeOK
  <1>6. commits' \subseteq Kept /\ commits' \subseteq Offsets
    <2>1. CASE PullMessage(g)
      <3>1. offsetTable[owner[g]] \in Kept
        BY <1>0, <1>2 DEF KeptInv
      <3>2. commits' \subseteq Kept
        BY <1>0, <2>1, <3>1 DEF KeptInv, PullMessage, Send
      <3>3. offsetTable[owner[g]] > 0 => offsetTable[owner[g]] \in Offsets
        BY <1>1, <3>1 DEF None
      <3> QED
        BY <1>0, <2>1, <3>2, <3>3 DEF TypeOK, PullMessage, Send
    <2>2. CASE PullException(g)
      BY <1>0, <2>2 DEF KeptInv, TypeOK, PullException
    <2>3. CASE FixOffset(g)
      <3>1. commits' = commits \cup {Oldest} /\ nextOffset[g] = Oldest
        BY <1>2, <2>3 DEF FixOffset, Send
      <3> QED
        BY <1>0, <1>1, <3>1 DEF KeptInv, TypeOK
    <2> QED
      BY <2>1, <2>2, <2>3
  <1>7. /\ offsetTable' \in [Clients -> Offsets \cup {None}]
        /\ \A d \in Clients : offsetTable'[d] \in Kept
    <2>1. CASE UNCHANGED offsetTable
      BY <1>0, <2>1 DEF KeptInv, TypeOK
    <2>2. CASE FixOffset(g)
      <3>1. offsetTable' = [offsetTable EXCEPT ![owner[g]] = Oldest]
        BY <1>2, <2>2 DEF FixOffset, UpdateOffset
      <3> QED
        BY <1>0, <1>1, <3>1 DEF KeptInv, TypeOK
    <2> QED
      BY <2>1, <2>2 DEF PullMessage, PullException
  <1>8. TypeOK'
    BY <1>0, <1>3, <1>5, <1>6, <1>7 DEF TypeOK
  <1> QED
    BY <1>0, <1>3, <1>4, <1>5, <1>6, <1>7, <1>8, QuietStep DEF KeptInv

LEMMA ForgetStep ==
  ASSUME ConsumerInv, NEW g \in Ids, PullDropped(g) \/ RemoveProcessQueue(g)
  PROVE  ConsumerInv'
  <1> USE DEF brokerVars, queueVars, clientVars, boundVars
  <1>0. TypeOK /\ KeptInv /\ OwnerInv /\ Oldest <= maxOffset
    BY InvIs
  <1>1. None \in Kept /\ Kept \subseteq Offsets \cup {None}
    BY <1>0, KeptFloor DEF Kept
  <1>2. owner[g] \in Clients
    BY <1>0 DEF OwnerInv, PullDropped, RemoveProcessQueue
  <1>3. /\ UNCHANGED <<maxOffset, done, owner, tasks, committed, persisted, rebalance,
                       allocated, changes>>
        /\ Forget(g)
    BY DEF PullDropped, RemoveProcessQueue
  <1>4. Grows
    BY <1>0, <1>3, Numbers DEF Grows, TypeOK
  <1>5. /\ dropped' \in [Ids -> BOOLEAN]
        /\ \A h \in Ids : dropped[h] => dropped'[h]
        /\ processQueueTable' \in [Clients -> Ids \cup {0}]
    BY <1>0, <1>2 DEF TypeOK, PullDropped, RemoveProcessQueue
  <1>6. /\ offsetTable' \in [Clients -> Offsets \cup {None}]
        /\ \A d \in Clients : offsetTable'[d] \in Kept
    BY <1>0, <1>1, <1>2 DEF KeptInv, TypeOK, PullDropped, RemoveProcessQueue
  <1>7. commits' \subseteq Kept /\ commits' \subseteq Offsets
    <2>1. offsetTable[owner[g]] \in Kept /\ commits \subseteq Kept /\ commits \subseteq Offsets
      BY <1>0, <1>2 DEF KeptInv, TypeOK
    <2>2. \/ commits' = commits
          \/ offsetTable[owner[g]] # None /\ commits' = commits \cup {offsetTable[owner[g]]}
      BY DEF PullDropped, RemoveProcessQueue, Send
    <2> QED
      BY <1>1, <2>1, <2>2
  <1>8. TypeOK'
    <2>1. 0 \in Offsets
      BY ConsumerAssumption DEF Offsets
    <2> QED
      BY <1>0, <1>3, <1>5, <1>6, <1>7, <2>1 DEF TypeOK, Forget
  <1>9. /\ msgTreeMap'[g] = {} /\ nextOffset'[g] = 0 /\ pull'[g] = "gone"
        /\ \A h \in Ids \ {g} : /\ msgTreeMap'[h] = msgTreeMap[h]
                                /\ nextOffset'[h] = nextOffset[h]
                                /\ queueOffsetMax'[h] = queueOffsetMax[h]
                                /\ pull'[h] = pull[h]
    BY <1>0, <1>3 DEF TypeOK, Forget
  <1>10. QueueInv'
    <2>1. Pulled(g)'
      BY <1>4, <1>9, PulledNothing DEF Grows
    <2>2. ASSUME NEW h \in Ids, h # g PROVE Pulled(h)'
      BY <1>4, <1>9, <2>2, PulledSame
    <2> QED
      BY <2>1, <2>2 DEF QueueInv
  <1>11. Carried'
    BY <1>3, <1>5, <1>9, InvIs DEF Carried
  <1>12. OwnerInv'
    <2>1. \A h \in Ids : pull[h] = "gone" => pull'[h] = "gone"
      BY <1>9
    <2> QED
      BY <1>3, <2>1, OwnersSame
  <1>13. KeptInv'
    BY <1>0, <1>3, <1>4, <1>6, <1>7, Growth, TasksSame DEF KeptInv
  <1> QED
    BY <1>0, <1>3, <1>8, <1>10, <1>11, <1>12, <1>13, InvIsNext

\* The batches hold the messages, and nothing else.
LEMMA BatchesIs ==
  ASSUME NEW S
  PROVE  /\ \A b \in Batches(S) : b \subseteq S
         /\ \A m \in S : \E b \in Batches(S) : m \in b
  <1> DEFINE batch(m) == Cardinality({ n \in S : n < m }) \div ConsumeBatch
             like(m) == { n \in S : batch(n) = batch(m) }
  <1>1. Batches(S) = { like(m) : m \in S }
    BY DEF Batches
  <1>2. \A m \in S : m \in like(m) /\ like(m) \subseteq S
    <2> HIDE DEF batch
    <2> QED
      OBVIOUS
  <1> HIDE DEF like
  <1> QED
    BY <1>1, <1>2

\* Putting an offset that may be kept into a client's table.
LEMMA UpdateKept ==
  ASSUME TypeOK, KeptInv, NEW c \in Clients, NEW v \in Kept, NEW b \in BOOLEAN,
         UpdateOffset(c, v, b)
  PROVE  /\ offsetTable' \in [Clients -> Offsets \cup {None}]
         /\ \A d \in Clients : offsetTable'[d] \in Kept
  <1>1. Kept \subseteq Offsets \cup {None} /\ offsetTable \in [Clients -> Offsets \cup {None}]
    BY DEF Kept, TypeOK
  <1>2. Greater(offsetTable[c], v) \in Kept
    BY DEF Greater, KeptInv
  <1> QED
    BY <1>1, <1>2 DEF UpdateOffset, KeptInv

LEMMA OnNothingStep ==
  ASSUME ConsumerInv, NEW g \in Ids, OnNothing(g)
  PROVE  ConsumerInv'
  <1> USE DEF brokerVars, queueVars, clientVars, boundVars
  <1>0. TypeOK /\ KeptInv /\ OwnerInv /\ Pulled(g) /\ Oldest <= maxOffset
    BY InvIs DEF QueueInv
  <1>1. /\ UNCHANGED <<brokerVars, owner, dropped, msgTreeMap, queueOffsetMax, tasks,
                       processQueueTable, rebalance, boundVars, done>>
        /\ owner[g] \in Clients
        /\ nextOffset' = [nextOffset EXCEPT ![g] = maxOffset]
        /\ pull' = [pull EXCEPT ![g] = "ready"]
    BY <1>0 DEF OnNothing, OwnerInv
  <1>2. Grows
    BY <1>0, <1>1, Numbers DEF Grows, TypeOK
  <1>3. ASSUME NEW m \in 0 .. maxOffset - 1 PROVE m \in Finished \cup msgTreeMap[g]
    <2>1. m \in Nat /\ nextOffset[g] \in Nat /\ maxOffset \in Nat
      BY <1>0, Numbers
    <2>2. CASE m < nextOffset[g]
      BY <1>0, <2>1, <2>2 DEF Pulled
    <2>3. CASE nextOffset[g] <= m
      <3>1. m \notin Wanted(g)
        BY <1>0, FoundNothing DEF OnNothing
      <3>2. m \in Unmatched
        BY <2>1, <2>3, <3>1 DEF Wanted
      <3> QED
        BY <3>2 DEF Finished
    <2> QED
      BY <2>1, <2>2, <2>3
  <1>4. Pulled(g)'
    <2>1. /\ nextOffset'[g] = maxOffset /\ maxOffset' = maxOffset /\ pull'[g] = "ready"
          /\ msgTreeMap' = msgTreeMap /\ queueOffsetMax' = queueOffsetMax
      BY <1>0, <1>1 DEF TypeOK
    <2>2. Finished' = Finished
      BY <1>1 DEF Finished
    <2>3. maxOffset \in Nat /\ nextOffset[g] \in Nat /\ queueOffsetMax[g] \in Nat
      BY <1>0, Numbers
    <2> QED
      BY <1>0, <1>3, <2>1, <2>2, <2>3 DEF Pulled
  <1>5. ASSUME NEW h \in Ids, h # g PROVE Pulled(h)'
    <2>1. nextOffset'[h] = nextOffset[h] /\ pull'[h] = pull[h]
      BY <1>0, <1>1, <1>5 DEF TypeOK
    <2> QED
      BY <1>1, <1>2, <2>1, PulledSame
  <1>6. QueueInv'
    BY <1>4, <1>5 DEF QueueInv
  <1>7. /\ offsetTable' \in [Clients -> Offsets \cup {None}]
        /\ \A d \in Clients : offsetTable'[d] \in Kept
    <2>1. CASE MsgCount(g) = 0
      <3>1. msgTreeMap[g] \subseteq 0 .. MaxOffset /\ MaxOffset \in Nat
        BY <1>0, ConsumerAssumption DEF TypeOK, Offsets
      <3>2. IsFiniteSet(msgTreeMap[g])
        <4>1. IsFiniteSet(0 .. MaxOffset)
          BY <3>1, FS_Interval
        <4> QED
          BY <3>1, <4>1, FS_Subset
      <3>3. msgTreeMap[g] = {}
        BY <2>1, <3>2, FS_EmptySet DEF MsgCount
      <3>4. maxOffset \in Kept
        <4>1. \A m \in 0 .. maxOffset - 1 : m \in Finished
          BY <1>3, <3>3
        <4> QED
          BY <1>0, <4>1, Numbers DEF Kept, Safe, TypeOK
      <3> QED
        BY <1>0, <1>1, <2>1, <3>4, UpdateKept DEF OnNothing
    <2>2. CASE MsgCount(g) # 0
      BY <1>0, <2>2 DEF OnNothing, KeptInv, TypeOK
    <2> QED
      BY <2>1, <2>2
  <1>8. TypeOK'
    BY <1>0, <1>1, <1>7 DEF TypeOK
  <1>9. Carried'
    BY <1>1, CarriedSame
  <1>10. OwnerInv'
    BY <1>0, <1>1 DEF OwnerInv, TypeOK
  <1>11. KeptInv'
    BY <1>0, <1>1, <1>2, <1>7, Growth, TasksSame DEF KeptInv
  <1> QED
    BY <1>0, <1>1, <1>6, <1>8, <1>9, <1>10, <1>11, InvIsNext

LEMMA OnOffsetIllegalStep ==
  ASSUME ConsumerInv, NEW g \in Ids, OnOffsetIllegal(g)
  PROVE  ConsumerInv'
  <1> USE DEF brokerVars, queueVars, clientVars, boundVars
  <1>0. TypeOK /\ KeptInv /\ OwnerInv /\ Pulled(g) /\ Oldest <= maxOffset
    BY InvIs DEF QueueInv
  <1>1. /\ UNCHANGED <<brokerVars, owner, msgTreeMap, queueOffsetMax, tasks,
                       clientVars, boundVars, done>>
        /\ owner[g] \in Clients
        /\ nextOffset[g] < Oldest
        /\ nextOffset' = [nextOffset EXCEPT ![g] = Oldest]
        /\ dropped' = [dropped EXCEPT ![g] = TRUE]
        /\ pull' = [pull EXCEPT ![g] = "fix"]
    BY <1>0 DEF OnOffsetIllegal, OwnerInv
  <1>2. Grows
    BY <1>0, <1>1, Numbers DEF Grows, TypeOK
  <1>3. Pulled(g)'
    <2>1. /\ nextOffset'[g] = Oldest /\ maxOffset' = maxOffset
          /\ msgTreeMap' = msgTreeMap /\ queueOffsetMax' = queueOffsetMax
      BY <1>0, <1>1 DEF TypeOK
    <2>2. \A m \in 0 .. Oldest - 1 : m \in Finished'
      BY DEF Finished
    <2>3. /\ Oldest \in Nat /\ maxOffset \in Nat
          /\ nextOffset[g] \in Nat /\ queueOffsetMax[g] \in Nat
      BY <1>0, Numbers
    <2> QED
      BY <1>0, <1>1, <2>1, <2>2, <2>3 DEF Pulled
  <1>4. ASSUME NEW h \in Ids, h # g PROVE Pulled(h)'
    <2>1. nextOffset'[h] = nextOffset[h] /\ pull'[h] = pull[h]
      BY <1>0, <1>1, <1>4 DEF TypeOK
    <2> QED
      BY <1>1, <1>2, <2>1, PulledSame
  <1>5. QueueInv'
    BY <1>3, <1>4 DEF QueueInv
  <1>6. TypeOK'
    BY <1>0, <1>1, ConsumerAssumption DEF TypeOK, Offsets
  <1>7. Carried'
    <2>1. \A h \in Ids : dropped[h] => dropped'[h]
      BY <1>0, <1>1 DEF TypeOK
    <2> QED
      BY <1>1, <2>1, CarriedSame
  <1>8. OwnerInv'
    BY <1>0, <1>1 DEF OwnerInv, TypeOK
  <1>9. KeptInv'
    BY <1>0, <1>1, <1>2, Growth, TasksSame DEF KeptInv
  <1> QED
    BY <1>0, <1>1, <1>5, <1>6, <1>7, <1>8, <1>9, InvIsNext

LEMMA OnFoundStep ==
  ASSUME ConsumerInv, NEW g \in Ids, OnFound(g)
  PROVE  ConsumerInv'
  <1> USE DEF brokerVars, queueVars, clientVars, boundVars
  <1>0. TypeOK /\ KeptInv /\ OwnerInv /\ Pulled(g) /\ Carried /\ Oldest <= maxOffset
    BY InvIs DEF QueueInv
  <1>1. /\ UNCHANGED <<brokerVars, owner, dropped, clientVars, boundVars, done>>
        /\ owner[g] \in Clients
        /\ Found(g) # {}
        /\ msgTreeMap' = [msgTreeMap EXCEPT ![g] = msgTreeMap[g] \cup Found(g)]
        /\ queueOffsetMax' = [queueOffsetMax EXCEPT ![g] = Last(Found(g))]
        /\ nextOffset' = [nextOffset EXCEPT ![g] = ReadUpTo(g)]
        /\ pull' = [pull EXCEPT ![g] = "ready"]
    BY <1>0 DEF OnFound, OwnerInv
  <1>2. Grows
    BY <1>0, <1>1, Numbers DEF Grows, TypeOK
  <1>3. /\ maxOffset \in Nat /\ nextOffset[g] \in Nat /\ MaxOffset \in Nat
        /\ maxOffset <= MaxOffset /\ nextOffset[g] <= maxOffset
    BY <1>0, Numbers DEF Pulled
  <1>4. /\ ReadUpTo(g) \in nextOffset[g] .. maxOffset
        /\ Found(g) \subseteq nextOffset[g] .. ReadUpTo(g) - 1
        /\ \A m \in nextOffset[g] .. ReadUpTo(g) - 1 : m \in Unmatched \cup Found(g)
    BY <1>0, <1>3, ReadIs
  <1>5. Found(g) \subseteq 0 .. maxOffset - 1 /\ Found(g) \subseteq Offsets
    BY <1>3, <1>4 DEF Offsets
  <1>6. Last(Found(g)) \in Found(g)
    BY <1>1, <1>3, <1>5, LastIs DEF Offsets
  <1> DEFINE new == { NewTask(g, msgs) : msgs \in Batches(Found(g)) }
  <1>7. tasks' = tasks \cup new
    BY DEF OnFound
  <1>8. ASSUME NEW t \in new
        PROVE  /\ t \in Tasks /\ t.pq = g /\ t.pc = "queued" /\ t.offset = None
               /\ t.msgs \subseteq Found(g)
    <2>1. PICK msgs \in Batches(Found(g)) : t = NewTask(g, msgs)
      OBVIOUS
    <2>2. msgs \subseteq Found(g)
      BY BatchesIs
    <2> QED
      BY <1>5, <2>1, <2>2 DEF NewTask, Tasks
  <1>9. ASSUME NEW m \in Found(g) PROVE \E t \in new : m \in t.msgs
    <2>1. PICK msgs \in Batches(Found(g)) : m \in msgs
      BY BatchesIs
    <2>2. NewTask(g, msgs) \in new /\ NewTask(g, msgs).msgs = msgs
      BY DEF NewTask
    <2> QED
      BY <2>1, <2>2
  <1> HIDE DEF new
  <1>10. Pulled(g)'
    <2>1. /\ nextOffset'[g] = ReadUpTo(g) /\ maxOffset' = maxOffset /\ pull'[g] = "ready"
          /\ msgTreeMap'[g] = msgTreeMap[g] \cup Found(g)
          /\ queueOffsetMax'[g] = Last(Found(g)) /\ Finished' = Finished
      BY <1>0, <1>1 DEF TypeOK, Finished
    <2>2. msgTreeMap[g] \subseteq 0 .. nextOffset[g] - 1
      BY <1>0 DEF Pulled
    <2>3. \A m \in 0 .. nextOffset[g] - 1 : m \in Finished \cup msgTreeMap[g]
      BY <1>0 DEF Pulled
    <2>4. \A m \in 0 .. ReadUpTo(g) - 1 : m \in Finished \cup msgTreeMap[g] \cup Found(g)
      <3>1. \A m \in 0 .. ReadUpTo(g) - 1 :
               m \in 0 .. nextOffset[g] - 1 \/ m \in nextOffset[g] .. ReadUpTo(g) - 1
        BY <1>3, <1>4
      <3> QED
        BY <1>4, <2>3, <3>1 DEF Finished
    <2>5. msgTreeMap[g] \cup Found(g) \subseteq 0 .. ReadUpTo(g) - 1
      BY <1>3, <1>4, <2>2
    <2>6. Last(Found(g)) < ReadUpTo(g) /\ ReadUpTo(g) <= maxOffset
      BY <1>3, <1>4, <1>6
    <2> QED
      BY <2>1, <2>4, <2>5, <2>6 DEF Pulled
  <1>11. ASSUME NEW h \in Ids, h # g PROVE Pulled(h)'
    <2>1. /\ nextOffset'[h] = nextOffset[h] /\ pull'[h] = pull[h]
          /\ msgTreeMap'[h] = msgTreeMap[h] /\ queueOffsetMax'[h] = queueOffsetMax[h]
      BY <1>0, <1>1, <1>11 DEF TypeOK
    <2> QED
      BY <1>1, <1>2, <2>1, PulledSame
  <1>12. QueueInv'
    BY <1>10, <1>11 DEF QueueInv
  <1>13. TypeOK'
    <2>1. Last(Found(g)) \in Offsets /\ ReadUpTo(g) \in Offsets
      BY <1>3, <1>4, <1>5, <1>6 DEF Offsets
    <2>2. /\ msgTreeMap' \in [Ids -> SUBSET Offsets]
          /\ queueOffsetMax' \in [Ids -> Offsets] /\ nextOffset' \in [Ids -> Offsets]
          /\ pull' \in [Ids -> {"ready", "sent", "fix", "remove", "gone"}]
      BY <1>0, <1>1, <1>5, <2>1 DEF TypeOK
    <2>3. tasks' \subseteq Tasks
      BY <1>0, <1>7, <1>8 DEF TypeOK
    <2> QED
      BY <1>0, <1>1, <2>2, <2>3 DEF TypeOK
  <1>14. Carried'
    <2> SUFFICES ASSUME NEW h \in Ids, ~dropped[h], NEW m \in msgTreeMap'[h]
                 PROVE  \E t \in tasks' : t.pq = h /\ m \in t.msgs /\ t.pc # "update"
      BY <1>1 DEF Carried
    <2>1. CASE m \in msgTreeMap[h]
      BY <1>0, <1>7, <2>1 DEF Carried
    <2>2. CASE m \notin msgTreeMap[h]
      <3>1. h = g /\ m \in Found(g)
        BY <1>0, <1>1, <2>2 DEF TypeOK
      <3> QED
        BY <1>7, <1>8, <1>9, <3>1
    <2> QED
      BY <2>1, <2>2
  <1>15. OwnerInv'
    <2>1. \A h \in Ids : pull'[h] # "gone" => owner'[h] \in Clients
      BY <1>0, <1>1 DEF OwnerInv, TypeOK
    <2>2. \A t \in tasks' : owner'[t.pq] \in Clients
      BY <1>0, <1>1, <1>7, <1>8 DEF OwnerInv
    <2> QED
      BY <2>1, <2>2 DEF OwnerInv
  <1>16. KeptInv'
    <2>1. Kept \subseteq Kept' /\ None \in Kept
      BY <1>0, <1>2, Growth, KeptFloor
    <2>2. \A t \in tasks' : t.offset \in Kept' /\ t.msgs \subseteq 0 .. maxOffset' - 1
      BY <1>0, <1>1, <1>5, <1>7, <1>8, <2>1 DEF KeptInv
    <2> QED
      BY <1>0, <1>1, <2>1, <2>2 DEF KeptInv
  <1> QED
    BY <1>0, <1>1, <1>12, <1>13, <1>14, <1>15, <1>16, InvIsNext

-----------------------------------------------------------------------------
(* The tasks.                                                              *)

LEMMA TaskIs ==
  ASSUME ConsumerInv, NEW t \in tasks
  PROVE  /\ t.pq \in Ids /\ owner[t.pq] \in Clients
         /\ t.msgs \subseteq 0 .. maxOffset - 1 /\ t.msgs \subseteq Offsets
         /\ t.offset \in Kept
         /\ t \in Tasks
  BY InvIs DEF OwnerInv, KeptInv, TypeOK, Tasks

\* A task ends, or is put to the executor again.
LEMMA TaskQuietStep ==
  ASSUME ConsumerInv, NEW t \in tasks,
         Skip(t) \/ ConsumeDropped(t) \/ Resubmit(t) \/ Update(t)
  PROVE  ConsumerInv'
  <1> USE DEF brokerVars, queueVars, clientVars, boundVars
  <1>0. TypeOK /\ KeptInv /\ OwnerInv /\ Carried /\ Oldest <= maxOffset
    BY InvIs
  <1>1. UNCHANGED <<brokerVars, queueVars, pull, processQueueTable, rebalance, boundVars>>
    BY DEF Skip, ConsumeDropped, Resubmit, Update
  <1>2. done \subseteq done' /\ done' \subseteq Offsets
    <2>1. done' = done \/ ConsumeDropped(t)
      BY DEF Skip, Resubmit, Update
    <2> QED
      BY <1>0, <2>1, TaskIs DEF ConsumeDropped, Rejected, TypeOK
  <1>3. Grows
    BY <1>0, <1>1, <1>2, Numbers DEF Grows, TypeOK
  <1> DEFINE u == [t EXCEPT !.pc = "queued"]
  <1>4. u \in Tasks /\ u.pq = t.pq /\ u.msgs = t.msgs /\ u.offset = t.offset /\ u.pc = "queued"
    BY TaskIs DEF Tasks
  <1>5. tasks' \subseteq tasks \cup {u}
    BY DEF Skip, ConsumeDropped, Resubmit, Update, Become
  <1>6. \/ tasks' = tasks \ {t} /\ (dropped[t.pq] \/ t.pc = "update")
        \/ tasks' = (tasks \ {t}) \cup {u}
    BY DEF Skip, ConsumeDropped, Resubmit, Update, Become
  <1> HIDE DEF u
  <1>7. /\ offsetTable' \in [Clients -> Offsets \cup {None}]
        /\ \A d \in Clients : offsetTable'[d] \in Kept
    <2>1. CASE UNCHANGED offsetTable
      BY <1>0, <2>1 DEF KeptInv, TypeOK
    <2>2. CASE UpdateOffset(owner[t.pq], t.offset, TRUE)
      BY <1>0, <2>2, UpdateKept, TaskIs
    <2> QED
      BY <2>1, <2>2 DEF Skip, ConsumeDropped, Resubmit, Update
  <1>8. TypeOK'
    BY <1>0, <1>1, <1>2, <1>4, <1>5, <1>7 DEF TypeOK
  <1>9. QueueInv'
    BY <1>1, <1>3, QueuesSame
  <1>10. Carried'
    <2> SUFFICES ASSUME NEW h \in Ids, ~dropped[h], NEW m \in msgTreeMap[h]
                 PROVE  \E w \in tasks' : w.pq = h /\ m \in w.msgs /\ w.pc # "update"
      BY <1>1 DEF Carried
    <2>1. PICK w \in tasks : w.pq = h /\ m \in w.msgs /\ w.pc # "update"
      BY <1>0 DEF Carried
    <2>2. CASE w # t
      BY <1>6, <2>1, <2>2
    <2>3. CASE w = t
      BY <1>4, <1>6, <2>1, <2>3
    <2> QED
      BY <2>2, <2>3
  <1>11. OwnerInv'
    BY <1>0, <1>1, <1>4, <1>5 DEF OwnerInv
  <1>12. KeptInv'
    <2>1. Kept \subseteq Kept'
      BY <1>0, <1>3, Growth
    <2>2. \A w \in tasks' : w.offset \in Kept' /\ w.msgs \subseteq 0 .. maxOffset' - 1
      BY <1>0, <1>1, <1>4, <1>5, <2>1 DEF KeptInv
    <2> QED
      BY <1>0, <1>1, <1>7, <2>1, <2>2 DEF KeptInv
  <1> QED
    BY <1>0, <1>1, <1>8, <1>9, <1>10, <1>11, <1>12, InvIsNext

\* The offset that removeMessage returns may be kept once the messages removed
\* are finished: everything below it has left the process queue.
LEMMA RemoveResultKept ==
  ASSUME ConsumerInv, Grows, NEW g \in Ids, NEW msgs, msgs \subseteq done',
         UNCHANGED maxOffset
  PROVE  RemoveResult(g, msgs) \in Kept'
  <1>0. TypeOK /\ Pulled(g) /\ Oldest <= maxOffset
    BY InvIs DEF QueueInv
  <1>1. /\ maxOffset \in Nat /\ MaxOffset \in Nat /\ maxOffset <= MaxOffset
        /\ nextOffset[g] \in Nat /\ queueOffsetMax[g] \in Nat /\ nextOffset[g] <= maxOffset
    BY <1>0, Numbers DEF Pulled
  <1>2. Finished \subseteq Finished' /\ Kept \subseteq Kept' /\ msgs \subseteq Finished'
    BY <1>0, Growth DEF Finished
  <1>3. CASE msgTreeMap[g] = {}
    BY <1>0, <1>2, <1>3, KeptFloor DEF RemoveResult
  <1>4. ASSUME NEW v \in 0 .. nextOffset[g],
               \A m \in 0 .. v - 1 : m \in msgTreeMap[g] => m \in msgs
        PROVE  v \in Kept'
    <2>1. \A m \in 0 .. v - 1 : m \in 0 .. nextOffset[g] - 1
      BY <1>1
    <2>2. \A m \in 0 .. v - 1 : m \in Finished'
      BY <1>0, <1>2, <1>4, <2>1 DEF Pulled
    <2>3. v \in Offsets /\ v <= maxOffset
      BY <1>1 DEF Offsets
    <2> QED
      BY <2>2, <2>3 DEF Kept, Safe, Offsets, None
  <1>5. CASE msgTreeMap[g] # {} /\ msgTreeMap[g] \subseteq msgs
    <2>1. queueOffsetMax[g] + 1 \in 0 .. nextOffset[g]
      BY <1>0, <1>1, <1>5 DEF Pulled
    <2>2. RemoveResult(g, msgs) = queueOffsetMax[g] + 1
      BY <1>5 DEF RemoveResult
    <2> QED
      BY <1>4, <1>5, <2>1, <2>2
  <1>6. CASE msgTreeMap[g] # {} /\ ~(msgTreeMap[g] \subseteq msgs)
    <2> DEFINE rest == msgTreeMap[g] \ msgs
               f == First(rest)
    <2>1. rest # {} /\ rest \subseteq 0 .. nextOffset[g] - 1 /\ rest \subseteq Nat
      BY <1>0, <1>1, <1>6 DEF Pulled
    <2>2. f \in rest /\ \A n \in rest : f <= n
      BY <2>1, FirstIs
    <2>3. f \in 0 .. nextOffset[g]
      BY <1>1, <2>1, <2>2
    <2>4. \A m \in 0 .. f - 1 : m \notin rest
      <3> HIDE DEF rest, f
      <3> QED
        BY <1>1, <2>2, <2>3
    <2>5. RemoveResult(g, msgs) = f
      BY <1>6 DEF RemoveResult
    <2>6. \A m \in 0 .. f - 1 : m \in msgTreeMap[g] => m \in msgs
      BY <2>4
    <2> HIDE DEF f
    <2> QED
      BY <1>4, <2>3, <2>5, <2>6
  <1> QED
    BY <1>3, <1>5, <1>6

LEMMA ConsumeStep ==
  ASSUME ConsumerInv, NEW t \in tasks, Consume(t)
  PROVE  ConsumerInv'
  <1> USE DEF brokerVars, queueVars, clientVars, boundVars
  <1>0. TypeOK /\ KeptInv /\ OwnerInv /\ Carried /\ QueueInv /\ Oldest <= maxOffset
    BY InvIs
  <1>1. UNCHANGED <<brokerVars, owner, dropped, queueOffsetMax, nextOffset, pull,
                    clientVars, allocated>>
    BY DEF Consume
  <1>2. PICK n \in 0 .. MaxOffset : \E failed \in SUBSET Rejected(t, n) :
          /\ failed # {} => changes < MaxChanges
          /\ changes' = IF failed = {} THEN changes ELSE changes + 1
          /\ done' = done \cup (t.msgs \ failed)
          /\ RemoveMessage(t, t.msgs \ failed)
          /\ tasks' = (tasks \ {t}) \cup Updating(t, t.msgs \ failed) \cup Later(t, failed)
    BY DEF Consume
  <1>3. PICK failed \in SUBSET t.msgs :
          /\ failed # {} => changes < MaxChanges
          /\ changes' = IF failed = {} THEN changes ELSE changes + 1
          /\ done' = done \cup (t.msgs \ failed)
          /\ RemoveMessage(t, t.msgs \ failed)
          /\ tasks' = (tasks \ {t}) \cup Updating(t, t.msgs \ failed) \cup Later(t, failed)
    BY <1>2 DEF Rejected
  <1> DEFINE g == t.pq
             gone == t.msgs \ failed
  <1>4. g \in Ids /\ owner[g] \in Clients /\ t.msgs \subseteq Offsets /\ t \in Tasks
    BY TaskIs
  <1>5. done \subseteq done' /\ done' \subseteq Offsets /\ gone \subseteq done'
    BY <1>0, <1>3, <1>4 DEF TypeOK
  <1>6. Grows
    BY <1>0, <1>1, <1>5, Numbers DEF Grows, TypeOK
  <1>7. RemoveResult(g, gone) \in Kept'
    BY <1>1, <1>4, <1>5, <1>6, RemoveResultKept
  <1>8. RemoveResult(g, gone) \in Offsets \cup {None}
    BY <1>7 DEF Kept
  <1>9. ASSUME NEW u \in Updating(t, gone)
        PROVE  /\ u \in Tasks /\ u.pq = g /\ u.offset \in Kept' /\ u.msgs \subseteq t.msgs
               /\ u.pc = "update"
    <2>1. u = [t EXCEPT !.pc = "update", !.msgs = gone, !.offset = RemoveResult(g, gone)]
      BY DEF Updating
    <2> HIDE DEF gone
    <2>2. gone \subseteq t.msgs
      BY DEF gone
    <2> QED
      BY <1>4, <1>7, <1>8, <2>1, <2>2 DEF Tasks
  <1>10. ASSUME NEW u \in Later(t, failed)
         PROVE  /\ u \in Tasks /\ u.pq = g /\ u.offset = t.offset /\ u.msgs = failed
                /\ u.pc = "later"
    BY <1>4 DEF Later, Tasks
  <1>11. failed # {} => \E u \in Later(t, failed) : TRUE
    BY DEF Later
  <1>12. /\ msgTreeMap' = [msgTreeMap EXCEPT ![g] = msgTreeMap[g] \ gone]
         /\ tasks' = (tasks \ {t}) \cup Updating(t, gone) \cup Later(t, failed)
    BY <1>3 DEF RemoveMessage
  <1>13. TypeOK'
    <2>1. changes' \in 0 .. MaxChanges
      BY <1>0, <1>3, ConsumerAssumption DEF TypeOK
    <2>2. tasks' \subseteq Tasks
      BY <1>0, <1>9, <1>10, <1>12 DEF TypeOK
    <2>3. msgTreeMap' \in [Ids -> SUBSET Offsets]
      BY <1>0, <1>12 DEF TypeOK
    <2> QED
      BY <1>0, <1>1, <1>5, <2>1, <2>2, <2>3 DEF TypeOK
  <1>14. QueueInv'
    <2>1. Pulled(g)'
      <3>1. Pulled(g) /\ msgTreeMap'[g] = msgTreeMap[g] \ gone
        BY <1>0, <1>4, <1>12 DEF QueueInv, TypeOK
      <3>2. Finished \subseteq Finished' /\ gone \subseteq Finished'
        BY <1>0, <1>5, <1>6, Growth DEF Finished
      <3> HIDE DEF g, gone
      <3> QED
        BY <1>1, <3>1, <3>2 DEF Pulled
    <2>2. ASSUME NEW h \in Ids, h # g PROVE Pulled(h)'
      <3>1. msgTreeMap'[h] = msgTreeMap[h]
        BY <1>0, <1>12, <2>2 DEF TypeOK
      <3> QED
        BY <1>1, <1>6, <3>1, PulledSame
    <2> QED
      BY <2>1, <2>2 DEF QueueInv
  <1>15. Carried'
    <2> SUFFICES ASSUME NEW h \in Ids, ~dropped[h], NEW m \in msgTreeMap'[h]
                 PROVE  \E w \in tasks' : w.pq = h /\ m \in w.msgs /\ w.pc # "update"
      BY <1>1 DEF Carried
    <2>1. m \in msgTreeMap[h] /\ (h = g => m \notin gone)
      BY <1>0, <1>12 DEF TypeOK
    <2>2. PICK w \in tasks : w.pq = h /\ m \in w.msgs /\ w.pc # "update"
      BY <1>0, <2>1 DEF Carried
    <2>3. CASE w # t
      BY <1>12, <2>2, <2>3
    <2>4. CASE w = t
      <3>1. h = g /\ m \in failed
        BY <2>1, <2>2, <2>4
      <3>2. PICK u \in Later(t, failed) : TRUE
        BY <1>11, <3>1
      <3> QED
        BY <1>10, <1>12, <3>1, <3>2
    <2> QED
      BY <2>3, <2>4
  <1>16. OwnerInv'
    <2>1. \A w \in tasks' : owner[w.pq] \in Clients
      BY <1>0, <1>4, <1>9, <1>10, <1>12 DEF OwnerInv
    <2> QED
      BY <1>0, <1>1, <2>1 DEF OwnerInv
  <1>17. KeptInv'
    <2>1. Kept \subseteq Kept'
      BY <1>0, <1>6, Growth
    <2>2. ASSUME NEW w \in tasks'
          PROVE  w.offset \in Kept' /\ w.msgs \subseteq 0 .. maxOffset' - 1
      <3>0. t.offset \in Kept /\ t.msgs \subseteq 0 .. maxOffset - 1 /\ maxOffset' = maxOffset
        BY <1>1, TaskIs
      <3>1. CASE w \in tasks
        BY <1>0, <2>1, <3>0, <3>1 DEF KeptInv
      <3>2. CASE w \in Updating(t, gone)
        BY <1>9, <3>0, <3>2
      <3>3. CASE w \in Later(t, failed)
        BY <1>10, <2>1, <3>0, <3>3
      <3> QED
        BY <1>12, <3>1, <3>2, <3>3
    <2> QED
      BY <1>0, <1>1, <2>1, <2>2 DEF KeptInv
  <1> QED
    BY <1>0, <1>1, <1>13, <1>14, <1>15, <1>16, <1>17, InvIsNext

-----------------------------------------------------------------------------
(* A process queue begins, and a client dies.                              *)

LEMMA AddStep ==
  ASSUME ConsumerInv, ~FromLast, NEW c \in Clients, Add(c)
  PROVE  ConsumerInv'
  <1> USE DEF brokerVars, queueVars, clientVars, boundVars
  <1>0. TypeOK /\ KeptInv /\ OwnerInv /\ Carried /\ QueueInv /\ Oldest <= maxOffset
    BY InvIs
  <1> DEFINE v == rebalance[c].offset
             from == PullFromWhere(v)
  <1>1. PICK g \in Ids : /\ g = First(Unused)
                        /\ pull[g] = "gone" /\ \A t \in tasks : t.pq # g
    <2>1. Unused \subseteq Nat /\ Unused # {}
      BY ConsumerAssumption DEF Unused, Ids, Add
    <2>2. First(Unused) \in Unused
      BY <2>1, FirstIs
    <2> QED
      BY <2>2 DEF Unused
  <1>2. /\ UNCHANGED <<brokerVars, tasks, boundVars, done>>
        /\ IF v = None THEN UNCHANGED offsetTable ELSE UpdateOffset(c, v, FALSE)
        /\ owner' = [owner EXCEPT ![g] = c]
        /\ dropped' = [dropped EXCEPT ![g] = FALSE]
        /\ msgTreeMap' = [msgTreeMap EXCEPT ![g] = {}]
        /\ queueOffsetMax' = [queueOffsetMax EXCEPT ![g] = 0]
        /\ nextOffset' = [nextOffset EXCEPT ![g] = from]
        /\ pull' = [pull EXCEPT ![g] = "ready"]
        /\ processQueueTable' = [processQueueTable EXCEPT ![c] = g]
        /\ rebalance' = [rebalance EXCEPT ![c] = [pc |-> "idle", offset |-> None]]
    BY <1>1 DEF Add
  <1>3. v \in Kept /\ v \in Offsets \cup {None} /\ 0 \in Kept /\ None \in Kept /\ 0 \in Offsets
    BY <1>0, KeptFloor, ConsumerAssumption DEF KeptInv, Kept, Offsets
  <1>4. from \in Kept /\ from \in Offsets
    BY <1>3 DEF PullFromWhere
  <1> HIDE DEF v, from
  <1>5. Grows
    BY <1>0, <1>2, Numbers DEF Grows, TypeOK
  <1>6. /\ offsetTable' \in [Clients -> Offsets \cup {None}]
        /\ \A d \in Clients : offsetTable'[d] \in Kept
    <2>1. CASE v = None
      BY <1>0, <1>2, <2>1 DEF KeptInv, TypeOK
    <2>2. CASE v # None
      BY <1>0, <1>2, <1>3, <2>2, UpdateKept
    <2> QED
      BY <2>1, <2>2
  <1>7. /\ rebalance' \in [Clients -> RebalanceState]
        /\ \A d \in Clients : rebalance'[d].offset \in Kept
    BY <1>0, <1>2, <1>3 DEF KeptInv, TypeOK, RebalanceState
  <1>8. TypeOK'
    BY <1>0, <1>1, <1>2, <1>3, <1>4, <1>6, <1>7 DEF TypeOK
  <1>9. QueueInv'
    <2>1. Pulled(g)'
      <3>1. /\ msgTreeMap'[g] = {} /\ nextOffset'[g] = from /\ pull'[g] = "ready"
            /\ maxOffset' = maxOffset /\ Finished' = Finished
        BY <1>0, <1>1, <1>2 DEF TypeOK, Finished
      <3>2. from <= maxOffset /\ \A m \in 0 .. from - 1 : m \in Finished
        BY <1>4 DEF Kept, Safe
      <3> QED
        BY <3>1, <3>2 DEF Pulled
    <2>2. ASSUME NEW h \in Ids, h # g PROVE Pulled(h)'
      <3>1. /\ nextOffset'[h] = nextOffset[h] /\ pull'[h] = pull[h]
            /\ msgTreeMap'[h] = msgTreeMap[h] /\ queueOffsetMax'[h] = queueOffsetMax[h]
        BY <1>0, <1>2, <2>2 DEF TypeOK
      <3> QED
        BY <1>5, <3>1, PulledSame
    <2> QED
      BY <2>1, <2>2 DEF QueueInv
  <1>10. Carried'
    <2> SUFFICES ASSUME NEW h \in Ids, ~dropped'[h], NEW m \in msgTreeMap'[h]
                 PROVE  \E t \in tasks : t.pq = h /\ m \in t.msgs /\ t.pc # "update"
      BY <1>2 DEF Carried
    <2>1. h # g /\ m \in msgTreeMap[h] /\ ~dropped[h]
      BY <1>0, <1>1, <1>2 DEF TypeOK
    <2> QED
      BY <1>0, <2>1 DEF Carried
  <1>11. OwnerInv'
    <2>1. \A h \in Ids : pull'[h] # "gone" => owner'[h] \in Clients
      BY <1>0, <1>1, <1>2 DEF OwnerInv, TypeOK
    <2>2. \A t \in tasks : t.pq \in Ids /\ owner'[t.pq] \in Clients
      BY <1>0, <1>1, <1>2, TaskIs DEF OwnerInv, TypeOK
    <2> QED
      BY <1>2, <2>1, <2>2 DEF OwnerInv
  <1>12. KeptInv'
    BY <1>0, <1>2, <1>5, <1>6, <1>7, Growth, TasksSame DEF KeptInv
  <1> QED
    BY <1>0, <1>2, <1>8, <1>9, <1>10, <1>11, <1>12, InvIsNext

LEMMA CrashStep ==
  ASSUME ConsumerInv, NEW c \in Clients, Crash(c)
  PROVE  ConsumerInv'
  <1> USE DEF brokerVars, queueVars, clientVars, boundVars, Crash
  <1>0. TypeOK /\ KeptInv /\ OwnerInv /\ Carried /\ QueueInv /\ Oldest <= maxOffset
    BY InvIs
  <1>1. None \in Kept /\ 0 \in Offsets
    BY <1>0, KeptFloor, ConsumerAssumption DEF Offsets
  <1>2. Grows
    BY <1>0, Numbers DEF Grows, TypeOK
  <1>3. /\ offsetTable' \in [Clients -> Offsets \cup {None}]
        /\ \A d \in Clients : offsetTable'[d] \in Kept
        /\ rebalance' \in [Clients -> RebalanceState]
        /\ \A d \in Clients : rebalance'[d].offset \in Kept
    BY <1>0, <1>1 DEF KeptInv, TypeOK, RebalanceState
  <1>4. TypeOK'
    <2>1. /\ msgTreeMap' \in [Ids -> SUBSET Offsets] /\ dropped' \in [Ids -> BOOLEAN]
          /\ queueOffsetMax' \in [Ids -> Offsets] /\ nextOffset' \in [Ids -> Offsets]
          /\ pull' \in [Ids -> {"ready", "sent", "fix", "remove", "gone"}]
      BY <1>0, <1>1 DEF TypeOK
    <2>2. changes' \in 0 .. MaxChanges
      BY <1>0, ConsumerAssumption DEF TypeOK
    <2>3. tasks' \subseteq Tasks /\ processQueueTable' \in [Clients -> Ids \cup {0}]
      BY <1>0 DEF TypeOK
    <2> QED
      BY <1>0, <1>3, <2>1, <2>2, <2>3 DEF TypeOK
  <1>5. QueueInv'
    <2>1. ASSUME NEW h \in Ids, owner[h] = c PROVE Pulled(h)'
      BY <1>2, <2>1, PulledNothing DEF Grows
    <2>2. ASSUME NEW h \in Ids, owner[h] # c PROVE Pulled(h)'
      BY <1>2, <2>2, PulledSame
    <2> QED
      BY <2>1, <2>2 DEF QueueInv
  <1>6. Carried'
    <2> SUFFICES ASSUME NEW h \in Ids, ~dropped'[h], NEW m \in msgTreeMap'[h]
                 PROVE  \E t \in tasks' : t.pq = h /\ m \in t.msgs /\ t.pc # "update"
      BY DEF Carried
    <2>1. owner[h] # c /\ m \in msgTreeMap[h] /\ ~dropped[h]
      OBVIOUS
    <2>2. PICK t \in tasks : t.pq = h /\ m \in t.msgs /\ t.pc # "update"
      BY <1>0, <2>1 DEF Carried
    <2>3. t \in tasks'
      BY <2>1, <2>2
    <2> QED
      BY <2>2, <2>3
  <1>7. OwnerInv'
    BY <1>0 DEF OwnerInv
  <1>8. KeptInv'
    <2>1. Kept \subseteq Kept'
      BY <1>0, <1>2, Growth
    <2>2. \A t \in tasks' : t.offset \in Kept' /\ t.msgs \subseteq 0 .. maxOffset' - 1
      BY <1>0, <2>1 DEF KeptInv
    <2> QED
      BY <1>0, <1>3, <2>1, <2>2 DEF KeptInv
  <1> QED
    BY <1>0, <1>4, <1>5, <1>6, <1>7, <1>8, InvIsNext

-----------------------------------------------------------------------------
(* The theorems.                                                           *)

LEMMA InitHolds ==
  ASSUME Init
  PROVE  ConsumerInv
  <1>1. Oldest \in Nat /\ MaxOffset \in Nat /\ Oldest <= MaxOffset /\ MaxChanges \in Nat
    BY ConsumerAssumption
  <1>2. Oldest \in Offsets /\ 0 \in Offsets /\ 0 \in 0 .. MaxChanges
    BY <1>1 DEF Offsets
  <1>3. TypeOK
    BY <1>2 DEF Init, TypeOK, RebalanceState
  <1>4. maxOffset = Oldest /\ Oldest <= maxOffset
    BY <1>1 DEF Init
  <1>5. None \in Kept
    BY <1>3, <1>4, KeptFloor
  <1>6. KeptInv
    BY <1>5 DEF Init, KeptInv
  <1>7. QueueInv
    BY <1>1 DEF Init, QueueInv, Pulled
  <1>8. Carried /\ OwnerInv
    BY DEF Init, Carried, OwnerInv
  <1> QED
    BY <1>3, <1>4, <1>6, <1>7, <1>8, InvIs

LEMMA StepHolds ==
  ASSUME ConsumerInv, ~FromLast, [Next]_vars
  PROVE  ConsumerInv'
  <1>1. ASSUME NEW g \in Ids, PullStep(g) \/ PullException(g) PROVE ConsumerInv'
    BY <1>1, PullQuietStep, ForgetStep, OnFoundStep, OnNothingStep, OnOffsetIllegalStep
       DEF PullStep
  <1>2. ASSUME NEW t \in tasks, TaskStep(t) PROVE ConsumerInv'
    BY <1>2, TaskQuietStep, ConsumeStep DEF TaskStep
  <1>3. ASSUME NEW c \in Clients,
               \/ PersistAll(c) \/ PersistOthers(c) \/ Move(c) \/ RebalanceStep(c)
               \/ DropExpired(c) \/ Crash(c)
        PROVE  ConsumerInv'
    BY <1>3, ClientStep, AddStep, CrashStep DEF RebalanceStep
  <1>4. CASE UNCHANGED vars
    BY <1>4 DEF vars, brokerVars, queueVars, clientVars, boundVars, ConsumerInv, NoneStranded,
       TypeOK, KeptInv, Kept, Safe, Finished, QueueInv, Pulled, OwnerInv
  <1> QED
    BY <1>1, <1>2, <1>3, <1>4, BrokerStep DEF Next

\* For a group that starts with the first offset: every offset kept anywhere is
\* covered by finished messages, every process queue accounts for all it has
\* pulled, and its messages are in the hands of tasks.
THEOREM ConsumerInductive ==
  ASSUME ~FromLast
  PROVE  Spec => []ConsumerInv
  <1>1. Init => ConsumerInv
    BY InitHolds
  <1>2. ConsumerInv /\ [Next]_vars => ConsumerInv'
    BY StepHolds
  <1> QED
    BY <1>1, <1>2, PTL DEF Spec

\* RemoteBrokerOffsetStore, ConsumerOffsetManager and ProcessQueue.removeMessage:
\* whatever offset is kept anywhere, no unfinished message is below it, in
\* whatever order commits, late tasks, rebalances and crashes come.
THEOREM Unskipped ==
  ASSUME ~FromLast
  PROVE  Spec => []NothingSkipped
  <1>1. ConsumerInv => NothingSkipped
    BY InvIs DEF KeptInv, Kept, NothingSkipped
  <1> QED
    BY <1>1, ConsumerInductive, PTL

\* ConsumeMessageConcurrentlyService: each message in a process queue that is not
\* dropped is in the hands of a task that has still to finish it, also when
\* sending messages back fails.
THEOREM Carriers ==
  ASSUME ~FromLast
  PROVE  Spec => []NoneStranded
  <1>1. ConsumerInv => NoneStranded
    BY DEF ConsumerInv
  <1> QED
    BY <1>1, ConsumerInductive, PTL

-----------------------------------------------------------------------------
(* The clients implement the consumer group.                               *)

LEMMA GroupInit ==
  ASSUME Init
  PROVE  Group!Init
  <1>1. maxOffset = Oldest /\ committed = None /\ Finished = Unmatched \cup 0 .. Oldest - 1
    BY DEF Init, Finished
  <1>2. 0 .. Oldest - 1 \subseteq 0 .. MaxOffset /\ Oldest \in 0 .. MaxOffset
    BY ConsumerAssumption
  <1> QED
    BY <1>1, <1>2, ConsumerAssumption DEF Group!Init, None

\* An offset that may be kept may be committed.
LEMMA GroupCommit ==
  ASSUME TypeOK, UNCHANGED <<maxOffset, done>>, committed' \in Kept
  PROVE  Group!Commit
  <1>1. Finished' = Finished
    BY DEF Finished
  <1>2. ASSUME NEW v \in Kept
        PROVE  v \in -1 .. maxOffset /\ \A m \in 0 .. v - 1 : m \in Finished
    <2>1. v \in Offsets \cup {None} /\ v <= maxOffset /\ maxOffset \in Nat /\ MaxOffset \in Nat
      BY Numbers DEF Kept
    <2>2. v \in -1 .. maxOffset
      BY <2>1 DEF Offsets, None
    <2> QED
      BY <2>2 DEF Kept, Safe
  <1> QED
    BY <1>1, <1>2 DEF Group!Commit, Group!Safe

\* The messages of a task are in the queue.
LEMMA GroupFinish ==
  ASSUME NEW some \in SUBSET (0 .. maxOffset - 1), done' = done \cup some,
         UNCHANGED <<maxOffset, committed>>
  PROVE  Group!Finish
  <1>1. Finished' = Finished \cup some
    BY DEF Finished
  <1> QED
    BY <1>1 DEF Group!Finish

LEMMA GroupStep ==
  ASSUME ConsumerInv, [Next]_vars
  PROVE  [Group!Next]_(Group!vars)
  <1> USE DEF brokerVars, queueVars, clientVars, boundVars
  <1>0. TypeOK /\ KeptInv
    BY InvIs
  <1>1. CASE UNCHANGED <<maxOffset, committed, done>>
    BY <1>1 DEF Group!vars, Finished
  <1>2. CASE Arrive
    BY <1>2 DEF Arrive, Group!Next, Group!Arrive, Finished
  <1>3. ASSUME NEW v \in Offsets, CommitOffset(v) PROVE Group!Next
    BY <1>0, <1>3, GroupCommit DEF CommitOffset, KeptInv, Group!Next
  <1>4. CASE BrokerRestart
    BY <1>0, <1>4, GroupCommit DEF BrokerRestart, KeptInv, Group!Next
  <1>5. ASSUME NEW t \in tasks, Consume(t) \/ ConsumeDropped(t) PROVE Group!Next
    <2>1. t.msgs \subseteq 0 .. maxOffset - 1
      BY TaskIs
    <2>2. \E some \in SUBSET t.msgs : done' = done \cup some
      BY <1>5 DEF Consume, ConsumeDropped
    <2>3. UNCHANGED <<maxOffset, committed>>
      BY <1>5 DEF Consume, ConsumeDropped
    <2> QED
      BY <2>1, <2>2, <2>3, GroupFinish DEF Group!Next
  <1>6. ASSUME NEW g \in Ids, PullStep(g) \/ PullException(g)
        PROVE  UNCHANGED <<maxOffset, committed, done>>
    BY <1>6 DEF PullStep, PullMessage, PullDropped, OnFound, OnNothing, OnOffsetIllegal,
       FixOffset, RemoveProcessQueue, PullException
  <1>7. ASSUME NEW t \in tasks, Skip(t) \/ Resubmit(t) \/ Update(t)
        PROVE  UNCHANGED <<maxOffset, committed, done>>
    BY <1>7 DEF Skip, Resubmit, Update
  <1>8. ASSUME NEW c \in Clients,
               \/ PersistAll(c) \/ PersistOthers(c) \/ Move(c) \/ RebalanceStep(c)
               \/ DropExpired(c) \/ Crash(c)
        PROVE  UNCHANGED <<maxOffset, committed, done>>
    BY <1>8 DEF PersistAll, PersistOthers, Move, RebalanceStep, Drop, DropPersist,
       DropRemove, Fetch, Add, DropExpired, Crash
  <1>9. ASSUME NEW v \in Offsets, LoseCommit(v)
        PROVE  UNCHANGED <<maxOffset, committed, done>>
    BY <1>9 DEF LoseCommit
  <1>10. CASE BrokerPersist
    BY <1>1, <1>10 DEF BrokerPersist
  <1>11. CASE UNCHANGED vars
    BY <1>1, <1>11 DEF vars
  <1> QED
    BY <1>1, <1>2, <1>3, <1>4, <1>5, <1>6, <1>7, <1>8, <1>9, <1>10, <1>11
       DEF Next, TaskStep

\* The clients of a group, with their process queues, tasks, offset tables and
\* late commits, keep the promise of ConsumerGroup: the group's offset on the
\* broker never passes a message that nobody finished.
THEOREM Refinement ==
  ASSUME ~FromLast
  PROVE  Spec => ImplementsGroup
  <1>1. Init => Group!Init
    BY GroupInit
  <1>2. ConsumerInv /\ [Next]_vars => [Group!Next]_(Group!vars)
    BY GroupStep
  <1> QED
    BY <1>1, <1>2, ConsumerInductive, PTL DEF Spec, ImplementsGroup, Group!Spec

=============================================================================
