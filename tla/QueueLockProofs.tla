--------------------------- MODULE QueueLockProofs ---------------------------
(***************************************************************************)
(* Proofs about QueueLock, for every set of clients, every limit that      *)
(* satisfies LockAssumption and every bound.                               *)
(***************************************************************************)
EXTENDS QueueLock, TLAPS

(* Types.                                                                  *)

LEMMA RpcUpdates ==
  /\ NoRpc \in RpcState
  /\ \A k \in Kinds : [pc |-> "sent", kind |-> k, ok |-> FALSE, age |-> 0] \in RpcState
  /\ \A r \in RpcState : /\ [r EXCEPT !.pc = "renew"] \in RpcState
                         /\ [r EXCEPT !.pc = "lost"] \in RpcState
  /\ \A r \in RpcState, b \in BOOLEAN : [r EXCEPT !.pc = "answered", !.ok = b] \in RpcState
  /\ \A r \in RpcState : r.age < RpcMax => [r EXCEPT !.age = @ + 1] \in RpcState
  <1>1. NoRpc \in RpcState
    BY LockAssumption DEF RpcState, NoRpc, Kinds
  <1>2. ASSUME NEW k \in Kinds
        PROVE  [pc |-> "sent", kind |-> k, ok |-> FALSE, age |-> 0] \in RpcState
    BY LockAssumption DEF RpcState
  <1>3. ASSUME NEW r \in RpcState, NEW w \in {"renew", "lost"}
        PROVE  [r EXCEPT !.pc = w] \in RpcState
    BY DEF RpcState
  <1>4. ASSUME NEW r \in RpcState, NEW b \in BOOLEAN
        PROVE  [r EXCEPT !.pc = "answered", !.ok = b] \in RpcState
    BY DEF RpcState
  <1>5. ASSUME NEW r \in RpcState, r.age < RpcMax
        PROVE  [r EXCEPT !.age = @ + 1] \in RpcState
    BY <1>5, LockAssumption DEF RpcState
  <1> QED
    BY <1>1, <1>2, <1>3, <1>4, <1>5

LEMMA RunUpdates ==
  /\ Idle \in RunState
  /\ \A r \in RunState : /\ [r EXCEPT !.pc = "checked"] \in RunState
                         /\ [r EXCEPT !.pc = "consuming"] \in RunState
                         /\ [r EXCEPT !.gone = TRUE] \in RunState
  /\ \A r \in RunState : r.age < ConsumeMax => [r EXCEPT !.age = @ + 1] \in RunState
  <1>1. Idle \in RunState
    BY LockAssumption DEF RunState, Idle
  <1>2. ASSUME NEW r \in RunState, NEW w \in {"checked", "consuming"}
        PROVE  [r EXCEPT !.pc = w] \in RunState
    BY DEF RunState
  <1>3. ASSUME NEW r \in RunState
        PROVE  [r EXCEPT !.gone = TRUE] \in RunState
    BY DEF RunState
  <1>4. ASSUME NEW r \in RunState, r.age < ConsumeMax
        PROVE  [r EXCEPT !.age = @ + 1] \in RunState
    BY <1>4, LockAssumption DEF RunState
  <1> QED
    BY <1>1, <1>2, <1>3, <1>4

LEMMA Renewed ==
  ASSUME rpc \in [Clients -> RpcState], RenewNothing
  PROVE  rpc' \in [Clients -> RpcState]
  BY DEF RenewNothing, RpcState

LEMMA Refused ==
  ASSUME TypeOK, NEW c \in Clients,
         locked' = [locked EXCEPT ![c] = locked[c] /\ rpc[c].kind # "all"]
  PROVE  locked'[c] => locked[c] /\ rpc[c].kind # "all"
  BY DEF TypeOK

LEMMA TypeInit == Init => TypeOK
  BY LockAssumption DEF Init, TypeOK, Idle, NoRpc, Kinds, RunState, RpcState

LEMMA TypeStep == TypeOK /\ [Next]_vars => TypeOK'
  <1> SUFFICES ASSUME TypeOK, [Next]_vars PROVE TypeOK'
    OBVIOUS
  <1> USE LockAssumption DEF TypeOK, brokerVars, queueVars, taskVars, netVars
  <1>1. CASE Tick
    <2>1. rpc' \in [Clients -> RpcState]
      BY <1>1, RpcUpdates DEF Tick
    <2>2. run' \in [Clients -> RunState]
      BY <1>1, RunUpdates DEF Tick
    <2>3. entryAge' \in 0 .. BrokerLive + 1
      BY <1>1 DEF Tick, Older
    <2>4. lockAge' \in [Clients -> 0 .. ClientLive + 1]
      BY <1>1 DEF Tick, Older
    <2> QED
      BY <1>1, <2>1, <2>2, <2>3, <2>4 DEF Tick
  <1>2. CASE Allocate
    BY <1>2 DEF Allocate, Change, Up
  <1>3. CASE BrokerRestart
    <2>1. rpc' \in [Clients -> RpcState]
      BY <1>3, RpcUpdates DEF BrokerRestart
    <2> QED
      BY <1>3, <2>1 DEF BrokerRestart, Change
  <1>4. ASSUME NEW c \in Clients, ClientStep(c) \/ BrokerStep(c) \/ Environment(c)
        PROVE TypeOK'
    <2>0. ASSUME NEW k \in Kinds, SendLock(c, k) PROVE TypeOK'
      <3>1. rpc' \in [Clients -> RpcState]
        BY <2>0, RpcUpdates DEF SendLock
      <3> QED
        BY <2>0, <3>1 DEF SendLock
    <2>1. CASE Drop(c)
      <3>1. run' \in [Clients -> RunState]
        BY <2>1, RunUpdates DEF Drop, Dropped
      <3> QED
        BY <2>1, <3>1 DEF Drop, Dropped
    <2>2. CASE Remove(c)
      BY <2>2 DEF Remove
    <2>3. CASE Add(c)
      BY <2>3 DEF Add
    <2>4. CASE Answer(c)
      <3>1. rpc' \in [Clients -> RpcState]
        BY <2>4, RpcUpdates DEF Answer
      <3>2. locked' \in [Clients -> BOOLEAN]
        BY <2>4 DEF Answer
      <3>3. lockAge' \in [Clients -> 0 .. ClientLive + 1]
        BY <2>4 DEF Answer
      <3>4. relock' \in [Clients -> SUBSET {"own", "old"}]
        BY <2>4 DEF Answer, Resume
      <3>5. windows' \subseteq {"renew", "answer", "unlock", "shutdown", "restart"}
        BY <2>4 DEF Answer
      <3> QED
        BY <2>4, <3>1, <3>2, <3>3, <3>4, <3>5 DEF Answer
    <2>5. CASE RpcTimeout(c)
      <3>1. rpc' \in [Clients -> RpcState]
        BY <2>5, RpcUpdates DEF RpcTimeout
      <3> QED
        BY <2>5, <3>1 DEF RpcTimeout, Resume, Change
    <2>6. CASE Check(c)
      <3>1. run' \in [Clients -> RunState]
        BY <2>6, RunUpdates DEF Check
      <3> QED
        BY <2>6, <3>1 DEF Check
    <2>7. CASE CheckFails(c)
      BY <2>7 DEF CheckFails
    <2>8. CASE Begin(c)
      <3>1. run' \in [Clients -> RunState]
        BY <2>8, RunUpdates DEF Begin
      <3> QED
        BY <2>8, <3>1 DEF Begin
    <2>9. CASE GiveUp(c)
      <3>1. run' \in [Clients -> RunState]
        BY <2>9, RunUpdates DEF GiveUp
      <3> QED
        BY <2>9, <3>1 DEF GiveUp
    <2>10. CASE End(c)
      <3>1. run' \in [Clients -> RunState]
        BY <2>10, RunUpdates DEF End
      <3> QED
        BY <2>10, <3>1 DEF End, Consuming
    <2>11. CASE Destroy(c)
      <3>1. run' \in [Clients -> RunState]
        BY <2>11, RunUpdates DEF Destroy, Dropped
      <3> QED
        BY <2>11, <3>1 DEF Destroy, Dropped
    <2>12. CASE IsLocked(c)
      <3>1. rpc' \in [Clients -> RpcState]
        BY <2>12, RpcUpdates DEF IsLocked
      <3> QED
        BY <2>12, <3>1 DEF IsLocked
    <2>13. CASE Renew(c)
      <3>1. rpc' \in [Clients -> RpcState]
        BY <2>13, RpcUpdates DEF Renew
      <3> QED
        BY <2>13, <3>1 DEF Renew
    <2>14. CASE TryLock(c)
      <3>1. rpc' \in [Clients -> RpcState]
        BY <2>14, RpcUpdates DEF TryLock, Free
      <3> QED
        BY <2>14, <3>1 DEF TryLock, TakeEntry, Free
    <2>15. CASE LateLock(c)
      BY <2>15 DEF LateLock, TakeEntry, Free
    <2>16. CASE Unlock(c)
      <3>1. rpc' \in [Clients -> RpcState]
        BY <2>16, Renewed DEF Unlock
      <3>2. windows' \subseteq {"renew", "answer", "unlock", "shutdown", "restart"}
        BY <2>16 DEF Unlock
      <3>3. unlocks' \in [Clients -> 0 .. MaxUnlocks]
        BY <2>16 DEF Unlock
      <3>4. owner' \in Clients \cup {NoClient} /\ entryAge' \in 0 .. BrokerLive + 1
        BY <2>16 DEF Unlock
      <3> QED
        BY <2>16, <3>1, <3>2, <3>3, <3>4 DEF Unlock
    <2>17. CASE Shutdown(c)
      BY <2>17 DEF Shutdown, Change, Up
    <2>18. CASE Crash(c)
      <3>1. rpc' \in [Clients -> RpcState]
        BY <2>18, RpcUpdates DEF Crash
      <3>2. run' \in [Clients -> RunState]
        BY <2>18, RunUpdates DEF Crash
      <3> QED
        BY <2>18, <3>1, <3>2 DEF Crash, Change, Up
    <2>19. CASE LoseLock(c)
      BY <2>19 DEF LoseLock
    <2>20. CASE LoseUnlock(c)
      BY <2>20 DEF LoseUnlock
    <2> QED
      BY <1>4, <2>0, <2>1, <2>2, <2>3, <2>4, <2>5, <2>6, <2>7, <2>8, <2>9, <2>10, <2>11, <2>12, <2>13, <2>14, <2>15, <2>16, <2>17, <2>18, <2>19, <2>20 DEF ClientStep, BrokerStep, Environment
  <1>5. CASE UNCHANGED vars
    BY <1>5 DEF vars
  <1> QED
    BY <1>1, <1>2, <1>3, <1>4, <1>5 DEF Next

-----------------------------------------------------------------------------
(* The facts about one client that hold whatever happened.                 *)

LEMMA LocalStep ==
  ASSUME TypeOK, TypeOK', [Next]_vars, NEW d \in Clients, LocalInv(d)
  PROVE  LocalInv(d)'
  <1> USE DEF TypeOK, LocalInv, brokerVars, queueVars, taskVars, netVars
  <1>1. CASE Tick
    BY <1>1 DEF Tick
  <1>2. CASE Allocate
    BY <1>2 DEF Allocate
  <1>3. CASE BrokerRestart
    BY <1>3 DEF BrokerRestart
  <1>4. ASSUME NEW c \in Clients, ClientStep(c) \/ BrokerStep(c) \/ Environment(c)
        PROVE LocalInv(d)'
    <2>0. ASSUME NEW k \in Kinds, SendLock(c, k) PROVE LocalInv(d)'
      BY <2>0 DEF SendLock
    <2>1. CASE Drop(c)
      <3>1. run'[d] = IF d = c THEN Dropped(c) ELSE run[d]
        BY <2>1 DEF Drop
      <3>2. Dropped(c).pc = "idle" => Dropped(c) = Idle
        BY DEF Dropped, RunState
      <3> QED
        BY <2>1, <3>1, <3>2 DEF Drop
    <2>2. CASE Remove(c)
      BY <2>2 DEF Remove
    <2>3. CASE Add(c)
      BY <2>3 DEF Add
    <2>4. CASE Answer(c)
      BY <2>4 DEF Answer
    <2>5. CASE RpcTimeout(c)
      BY <2>5 DEF RpcTimeout
    <2>6. CASE Check(c)
      BY <2>6 DEF Check, RunState
    <2>7. CASE CheckFails(c)
      BY <2>7 DEF CheckFails
    <2>8. CASE Begin(c)
      BY <2>8 DEF Begin, RunState
    <2>9. CASE GiveUp(c)
      BY <2>9 DEF GiveUp
    <2>10. CASE End(c)
      BY <2>10 DEF End
    <2>11. CASE Destroy(c)
      <3>1. run'[d] = IF d = c THEN Dropped(c) ELSE run[d]
        BY <2>11 DEF Destroy
      <3>2. Dropped(c).pc = "idle" => Dropped(c) = Idle
        BY DEF Dropped, RunState
      <3> QED
        BY <2>11, <3>1, <3>2 DEF Destroy
    <2>12. CASE IsLocked(c)
      BY <2>12 DEF IsLocked
    <2>13. CASE Renew(c)
      BY <2>13 DEF Renew
    <2>14. CASE TryLock(c)
      BY <2>14 DEF TryLock
    <2>15. CASE LateLock(c)
      BY <2>15 DEF LateLock
    <2>16. CASE Unlock(c)
      BY <2>16 DEF Unlock
    <2>17. CASE Shutdown(c)
      BY <2>17 DEF Shutdown
    <2>18. CASE Crash(c)
      BY <2>18 DEF Crash
    <2>19. CASE LoseLock(c)
      BY <2>19 DEF LoseLock
    <2>20. CASE LoseUnlock(c)
      BY <2>20 DEF LoseUnlock
    <2> QED
      BY <1>4, <2>0, <2>1, <2>2, <2>3, <2>4, <2>5, <2>6, <2>7, <2>8, <2>9, <2>10, <2>11, <2>12, <2>13, <2>14, <2>15, <2>16, <2>17, <2>18, <2>19, <2>20 DEF ClientStep, BrokerStep, Environment
  <1>5. CASE UNCHANGED vars
    BY <1>5 DEF vars
  <1> QED
    BY <1>1, <1>2, <1>3, <1>4, <1>5 DEF Next

-----------------------------------------------------------------------------
(* The grant: the broker's entry behind a client that may consume.         *)

LEMMA GrantStep ==
  ASSUME TypeOK, TypeOK', [Next]_vars, windows' = {},
         \A d \in Clients : LocalInv(d) /\ (windows = {} => GrantInv(d)),
         NEW d \in Clients
  PROVE  GrantInv(d)'
  <1> USE LockAssumption DEF TypeOK, LocalInv, GrantInv, Committed, Consuming, MayConsume,
          LockExpired, RunState, RpcState, brokerVars, queueVars, taskVars, netVars
  <1>1. CASE Tick
    BY <1>1 DEF Tick, Older
  <1>2. CASE Allocate
    BY <1>2 DEF Allocate
  <1>3. CASE BrokerRestart
    <2>1. windows = {} /\ owner # NoClient /\ ~Relies(owner) /\ owner \in Clients
      BY <1>3 DEF BrokerRestart
    <2>2. ~Committed(owner) /\ ~(pq[owner] = "held" /\ MayConsume(owner))
      BY <2>1 DEF Relies
    <2>3. ~Committed(d) /\ ~(pq[d] = "held" /\ MayConsume(d))
      BY <2>1, <2>2
    <2>4. owner' = NoClient /\ rpc'[d].pc \in {rpc[d].pc, "lost"} /\ rpc'[d].ok = rpc[d].ok
      BY <1>3 DEF BrokerRestart
    <2> QED
      BY <1>3, <2>3, <2>4 DEF BrokerRestart
  <1>4. ASSUME NEW c \in Clients, ClientStep(c) \/ BrokerStep(c) \/ Environment(c)
        PROVE GrantInv(d)'
    <2>0. ASSUME NEW k \in Kinds, SendLock(c, k) PROVE GrantInv(d)'
      BY <2>0 DEF SendLock
    <2>1. CASE Drop(c)
      BY <2>1 DEF Drop, Dropped
    <2>2. CASE Remove(c)
      BY <2>2 DEF Remove
    <2>3. CASE Add(c)
      BY <2>3 DEF Add
    <2>4. CASE Answer(c)
      <3>1. windows = {} /\ rpc[c].age <= RpcMax
        BY <2>4 DEF Answer
      <3>2. CASE d # c
        BY <2>4, <3>1, <3>2 DEF Answer
      <3>3. CASE d = c /\ pq[c] # "none" /\ rpc[c].ok
        <4>1. owner = c \/ pq[c] = "dropped"
          BY <2>4, <3>3 DEF Answer
        <4>2. rpc'[c].pc # "answered" /\ locked'[c] /\ lockAge'[c] = 0
          BY <2>4, <3>3 DEF Answer, NoRpc
        <4>3. entryAge' = entryAge /\ owner' = owner /\ pq' = pq /\ run' = run
          BY <2>4 DEF Answer
        <4>4. owner = c => entryAge <= RpcMax
          BY <2>4, <3>1, <3>3 DEF Answer
        <4>5. Committed(c) => Committed(c)' /\ owner = c
          BY <3>1, <4>3
        <4> QED
          BY <3>1, <3>3, <4>1, <4>2, <4>3, <4>4, <4>5
      <3>4. CASE d = c /\ ~(pq[c] # "none" /\ rpc[c].ok)
        <4>1. rpc'[c].pc # "answered"
          BY <2>4 DEF Answer, NoRpc
        <4>2. locked'[c] => locked[c] /\ lockAge'[c] = lockAge[c]
          <5>1. locked' = [locked EXCEPT ![c] = locked[c] /\ rpc[c].kind # "all"]
            BY <2>4, <3>4 DEF Answer
          <5>2. locked'[c] => locked[c] /\ rpc[c].kind # "all"
            BY ONLY TypeOK, c \in Clients, <5>1, Refused
          <5>3. lockAge'[c] = IF rpc[c].kind = "all" THEN 0 ELSE lockAge[c]
            BY <2>4, <3>4 DEF Answer
          <5> QED
            BY <5>2, <5>3
        <4>3. Committed(c) => rpc[c].ok \/ rpc[c].pc # "answered"
          BY <3>1
        <4>4. Committed(c) /\ ~Consuming(c) => pq[c] = "held"
          BY <3>1
        <4>5. ~(Committed(c) /\ ~Consuming(c))
          BY <2>4, <3>4, <4>3, <4>4 DEF Answer
        <4> QED
          BY <2>4, <3>1, <3>4, <4>1, <4>2, <4>5 DEF Answer
      <3> QED
        BY <3>2, <3>3, <3>4
    <2>5. CASE RpcTimeout(c)
      BY <2>5 DEF RpcTimeout, NoRpc
    <2>6. CASE Check(c)
      BY <2>6 DEF Check, Idle
    <2>7. CASE CheckFails(c)
      BY <2>7 DEF CheckFails
    <2>8. CASE Begin(c)
      BY <2>8 DEF Begin
    <2>9. CASE GiveUp(c)
      BY <2>9 DEF GiveUp, Idle
    <2>10. CASE End(c)
      BY <2>10 DEF End, Idle
    <2>11. CASE Destroy(c)
      BY <2>11 DEF Destroy, Dropped
    <2>12. CASE IsLocked(c)
      BY <2>12 DEF IsLocked, BrokerExpired
    <2>13. CASE Renew(c)
      BY <2>13 DEF Renew
    <2>14. CASE TryLock(c)
      BY <2>14 DEF TryLock, TakeEntry, Free, BrokerExpired
    <2>15. CASE LateLock(c)
      BY <2>15 DEF LateLock, TakeEntry, Free, BrokerExpired
    <2>16. CASE Unlock(c)
      <3>1. windows = {}
        BY <2>16 DEF Unlock
      <3>2. CASE owner = c
        <4>1. ~Relies(c)
          BY <2>16, <3>2 DEF Unlock
        <4>2. ~Committed(c) /\ ~(pq[c] = "held" /\ MayConsume(c))
          BY <3>1, <4>1 DEF Relies
        <4>3. ~Committed(d) /\ ~(pq[d] = "held" /\ MayConsume(d))
          BY <3>1, <3>2, <4>2
        <4>4. owner' = NoClient
          BY <2>16, <3>2 DEF Unlock
        <4> QED
          BY <2>16, <3>2, <4>3, <4>4 DEF Unlock
      <3>3. CASE owner # c
        BY <2>16, <3>1, <3>3 DEF Unlock
      <3> QED
        BY <3>2, <3>3
    <2>17. CASE Shutdown(c)
      BY <2>17 DEF Shutdown
    <2>18. CASE Crash(c)
      BY <2>18 DEF Crash, Idle, NoRpc
    <2>19. CASE LoseLock(c)
      BY <2>19 DEF LoseLock
    <2>20. CASE LoseUnlock(c)
      BY <2>20 DEF LoseUnlock
    <2> QED
      BY <1>4, <2>0, <2>1, <2>2, <2>3, <2>4, <2>5, <2>6, <2>7, <2>8, <2>9, <2>10, <2>11, <2>12, <2>13, <2>14, <2>15, <2>16, <2>17, <2>18, <2>19, <2>20 DEF ClientStep, BrokerStep, Environment
  <1>5. CASE UNCHANGED vars
    BY <1>5 DEF vars
  <1> QED
    BY <1>1, <1>2, <1>3, <1>4, <1>5 DEF Next

-----------------------------------------------------------------------------
(* The theorems.                                                           *)

LEMMA LockInit == Init => LockInv
  <1> SUFFICES ASSUME Init, NEW c \in Clients PROVE LocalInv(c) /\ GrantInv(c)
    BY TypeInit DEF LockInv
  <1> QED
    BY DEF Init, LocalInv, GrantInv, MayConsume, Committed, Consuming, Idle, NoRpc

\* LockInv holds in every state, for every set of clients and all limits with
\* RpcMax + ClientLive + ConsumeMax <= BrokerLive: RebalanceLockManager's entry
\* belongs to the client that may consume, and is young.
THEOREM Granted == Spec => []LockInv
  <1>1. LockInv /\ [Next]_vars => LockInv'
    <2> SUFFICES ASSUME LockInv, [Next]_vars PROVE LockInv'
      OBVIOUS
    <2>1. TypeOK /\ TypeOK'
      BY TypeStep DEF LockInv
    <2>2. ASSUME NEW d \in Clients PROVE LocalInv(d)'
      BY <2>1, LocalStep DEF LockInv
    <2>3. ASSUME NEW d \in Clients, windows' = {} PROVE GrantInv(d)'
      BY <2>1, <2>3, GrantStep DEF LockInv
    <2> QED
      BY <2>1, <2>2, <2>3 DEF LockInv
  <1> QED
    BY <1>1, LockInit, PTL DEF Spec

\* Orderly consumption (ConsumeMessageOrderlyService): the listeners of two
\* clients are never at work on a queue at once, as long as no window was hit.
THEOREM Orderly == Spec => []OneAtATime
  <1>1. LockInv => OneAtATime
    BY DEF LockInv, GrantInv, Committed, OneAtATime, AtMostOne
  <1> QED
    BY <1>1, Granted, PTL

=============================================================================
