----------------------------- MODULE QueueLock ------------------------------
(***************************************************************************)
(* The lock of one queue for orderly consumption.  The broker keeps an     *)
(* entry with an owner and the time of its last renewal                    *)
(* (RebalanceLockManager); a client keeps a flag and the time of its last  *)
(* successful lock in the ProcessQueue, asks for the lock again every 20   *)
(* seconds and gives it back when a rebalance takes the queue away.  No    *)
(* other message between broker and clients guards the order: that one     *)
(* client consumes at a time rests on the two expiry times, 30 seconds in  *)
(* the client and 60 in the broker.                                        *)
(*                                                                         *)
(* Time is kept as ages that Tick increases, each up to one more than the  *)
(* limit it is compared with.  The queue always has messages.  The offsets *)
(* that are saved when a queue is taken away belong to PushConsumer.       *)
(*                                                                         *)
(* `windows` is no state of the program: it records that the broker's      *)
(* entry was lost to a client that still relied on it, and how.            *)
(*                                                                         *)
(* Bounds: MaxChanges of the allocation, of the clients and of the broker, *)
(* requests not answered in time included; MaxUnlocks of one client under  *)
(* way.                                                                    *)
(***************************************************************************)
EXTENDS Integers

CONSTANTS Clients, NoClient,
          BrokerLive,  \* RebalanceLockMaxLiveTime of the broker
          ClientLive,  \* RebalanceLockMaxLiveTime of the client
          RpcMax,      \* the longest wait for an answer
          ConsumeMax,  \* the longest call of the listener
          MaxChanges, MaxUnlocks \* bounds

ASSUME LockAssumption ==
    /\ NoClient \notin Clients
    /\ {BrokerLive, ClientLive, RpcMax, ConsumeMax} \subseteq Nat
    /\ MaxChanges \in Nat /\ MaxUnlocks \in Nat \ {0}
    /\ RpcMax + ClientLive + ConsumeMax <= BrokerLive

VARIABLES
    owner, entryAge,  \* the broker's entry
    mine,             \* clients to which their rebalance gives the queue
    up,               \* "up", "stopping" or "down"
    pq,               \* the ProcessQueue in the table: "none", "held", "dropped"
    locked, lockAge,  \* its flag and the age of its last lock
    run,              \* the task that consumes: where it is, for how long, and
                      \* whether its ProcessQueue has been dropped
    relock,           \* tasks waiting for a lock, of this or of a removed ProcessQueue
    rpc,              \* the request for the lock
    late,             \* clients with a request that is handled after its timeout
    unlocks,          \* requests to unlock that are under way
    changes,          \* counter for the bound
    windows           \* see above

brokerVars == <<owner, entryAge>>
queueVars == <<pq, locked, lockAge>>
taskVars == <<run, relock>>
netVars == <<rpc, late, unlocks>>
vars == <<brokerVars, mine, up, queueVars, taskVars, netVars, changes, windows>>

Kinds == {"own", "old", "all"}
Idle == [pc |-> "idle", age |-> 0, gone |-> FALSE]
RunState == [pc : {"idle", "checked", "consuming"},
             age : 0 .. ConsumeMax, gone : BOOLEAN]
RpcState == [pc : {"none", "sent", "renew", "answered", "lost"},
             kind : Kinds, ok : BOOLEAN, age : 0 .. RpcMax]
NoRpc == [pc |-> "none", kind |-> "all", ok |-> FALSE, age |-> 0]

\* Every client is up, and the queue is allocated to one of them.
Init ==
    /\ owner = NoClient /\ entryAge = 0
    /\ mine \in { {c} : c \in Clients } /\ up = [c \in Clients |-> "up"]
    /\ pq = [c \in Clients |-> "none"]
    /\ locked = [c \in Clients |-> FALSE] /\ lockAge = [c \in Clients |-> 0]
    /\ run = [c \in Clients |-> Idle] /\ relock = [c \in Clients |-> {}]
    /\ rpc = [c \in Clients |-> NoRpc]
    /\ late = {} /\ unlocks = [c \in Clients |-> 0]
    /\ changes = 0 /\ windows = {}

-----------------------------------------------------------------------------
(* Time.                                                                   *)

Older(age, limit) == IF age <= limit THEN age + 1 ELSE age

\* A client waits RpcMax for an answer, and a call of the listener returns
\* within ConsumeMax of the test that precedes it.
Tick ==
    /\ \A c \in Clients : /\ run[c].pc # "idle" => run[c].age < ConsumeMax
                          /\ rpc[c].pc # "none" => rpc[c].age < RpcMax
    /\ entryAge' = IF owner = NoClient THEN 0 ELSE Older(entryAge, BrokerLive)
    /\ lockAge' = [c \in Clients |->
                      IF locked[c] THEN Older(lockAge[c], ClientLive) ELSE 0]
    /\ run' = [c \in Clients |->
                  IF run[c].pc = "idle" THEN run[c] ELSE [run[c] EXCEPT !.age = @ + 1]]
    /\ rpc' = [c \in Clients |->
                  IF rpc[c].pc = "none" THEN rpc[c] ELSE [rpc[c] EXCEPT !.age = @ + 1]]
    /\ UNCHANGED <<owner, mine, up, pq, locked, relock, late, unlocks, changes, windows>>

-----------------------------------------------------------------------------
(* The rebalance of a client.                                              *)

Change == changes < MaxChanges /\ changes' = changes + 1

Up == { c \in Clients : up[c] = "up" }

\* The members of the group change.  Clients learn of it at different times, so
\* that two may take the queue for theirs, or none.
Allocate ==
    /\ Change
    /\ mine' \in SUBSET Up \ {mine}
    /\ UNCHANGED <<brokerVars, up, queueVars, taskVars, netVars, windows>>

Dropped(c) == IF run[c].pc = "idle" THEN Idle ELSE [run[c] EXCEPT !.gone = TRUE]

\* updateProcessQueueTableInRebalance takes the queue away: setDropped, ...  It
\* does so too when the queue is still the client's and its pull has expired;
\* that is what two Allocate steps, away and back, do with a Drop in between.
Drop(c) ==
    /\ pq[c] = "held" /\ c \notin mine
    /\ pq' = [pq EXCEPT ![c] = "dropped"]
    /\ run' = [run EXCEPT ![c] = Dropped(c)]
    /\ UNCHANGED <<brokerVars, mine, up, locked, lockAge, relock, netVars, changes, windows>>

\* ... and removeUnnecessaryMessageQueue, which must not find the listener at
\* work; otherwise a later rebalance tries again, and so it does when the queue
\* has come back meanwhile, once the pull has expired.
Remove(c) ==
    /\ run[c].pc # "consuming"
    /\ pq[c] = "dropped" /\ up[c] = "up" /\ unlocks[c] < MaxUnlocks
    /\ pq' = [pq EXCEPT ![c] = "none"]
    /\ locked' = [locked EXCEPT ![c] = FALSE] /\ lockAge' = [lockAge EXCEPT ![c] = 0]
    /\ relock' = [relock EXCEPT ![c] = IF "own" \in @ THEN {"old"} ELSE @]
    /\ unlocks' = [unlocks EXCEPT ![c] = @ + 1]
    /\ UNCHANGED <<brokerVars, mine, up, run, rpc, late, changes, windows>>

Add(c) ==
    /\ pq[c] = "none" /\ c \in mine /\ up[c] = "up"
    /\ pq' = [pq EXCEPT ![c] = "held"]
    /\ UNCHANGED <<brokerVars, mine, up, locked, lockAge, taskVars, netVars, changes, windows>>

-----------------------------------------------------------------------------
(* Requests for the lock.  A client has one at a time: lockOneMQ and       *)
(* lockMQPeriodically are synchronized.                                    *)

\* lockAll for the queues in the table, dropped ones included; lock for the
\* queue of a waiting task, whether or not the client still has it.
SendLock(c, kind) ==
    /\ up[c] = "up" /\ rpc[c].pc = "none"
    /\ IF kind = "all" THEN pq[c] # "none" ELSE kind \in relock[c]
    /\ rpc' = [rpc EXCEPT ![c] = [pc |-> "sent", kind |-> kind, ok |-> FALSE, age |-> 0]]
    /\ UNCHANGED <<brokerVars, mine, up, queueVars, taskVars, late, unlocks, changes, windows>>

\* Mutants of BrokerExpired: the limit of the client is used; never.
BrokerExpiredEarly == entryAge > ClientLive
BrokerExpiredNever == FALSE

\* The limits of the two sides.
BrokerExpired == entryAge > BrokerLive
LockExpired(c) == lockAge[c] > ClientLive

\* tryLockBatch looks at the entry without the lock, ...
IsLocked(c) ==
    /\ rpc[c].pc = "sent"
    /\ owner = c /\ ~BrokerExpired
    /\ rpc' = [rpc EXCEPT ![c].pc = "renew"]
    /\ UNCHANGED <<brokerVars, mine, up, queueVars, taskVars, late, unlocks, changes, windows>>

\* ... and renews it, whoever has taken it over by now.
Renew(c) ==
    /\ rpc[c].pc = "renew"
    /\ rpc' = [rpc EXCEPT ![c].pc = "answered", ![c].ok = TRUE]
    /\ entryAge' = 0
    /\ windows' = IF owner = c THEN windows ELSE windows \cup {"renew"}
    /\ UNCHANGED <<owner, mine, up, queueVars, taskVars, late, unlocks, changes>>

\* Otherwise, and under the lock: an entry that is absent, one's own or expired
\* is taken.  That the first look found no entry of the client changes nothing.
Free(c) == owner \in {c, NoClient} \/ BrokerExpired

TakeEntry(c) ==
    IF Free(c) THEN owner' = c /\ entryAge' = 0 ELSE UNCHANGED brokerVars

TryLock(c) ==
    /\ rpc[c].pc = "sent"
    /\ rpc' = [rpc EXCEPT ![c].pc = "answered", ![c].ok = Free(c)]
    /\ TakeEntry(c)
    /\ UNCHANGED <<mine, up, queueVars, taskVars, late, unlocks, changes, windows>>

\* The task behind a request goes on whatever the answer is.
Resume(c) == relock' = [relock EXCEPT ![c] = @ \ {rpc[c].kind}]

\* The answer is applied to the ProcessQueue that is in the table now; lockAll
\* takes a refusal to heart, lock does not.
Answer(c) ==
    /\ rpc[c].pc = "answered"
    /\ IF pq[c] # "none" /\ rpc[c].ok
       THEN /\ locked' = [locked EXCEPT ![c] = TRUE]
            /\ lockAge' = [lockAge EXCEPT ![c] = 0]
            /\ windows' = IF owner = c \/ pq[c] = "dropped" THEN windows
                          ELSE windows \cup {"answer"}
       ELSE /\ locked' = [locked EXCEPT ![c] = @ /\ rpc[c].kind # "all"]
            /\ lockAge' = [lockAge EXCEPT ![c] = IF rpc[c].kind = "all" THEN 0 ELSE @]
            /\ UNCHANGED windows
    /\ rpc' = [rpc EXCEPT ![c] = NoRpc]
    /\ Resume(c)
    /\ UNCHANGED <<brokerVars, mine, up, pq, run, late, unlocks, changes>>

\* Nothing changes in the client; the broker may still handle the request.
RpcTimeout(c) ==
    /\ rpc[c].pc # "none" /\ rpc[c].age = RpcMax
    /\ IF rpc[c].pc = "lost" THEN UNCHANGED changes ELSE Change
    /\ late' = IF rpc[c].pc \in {"answered", "lost"} THEN late ELSE late \cup {c}
    /\ rpc' = [rpc EXCEPT ![c] = NoRpc]
    /\ Resume(c)
    /\ UNCHANGED <<brokerVars, mine, up, queueVars, run, unlocks, windows>>

LateLock(c) ==
    /\ c \in late /\ late' = late \ {c}
    /\ TakeEntry(c)
    /\ UNCHANGED <<mine, up, queueVars, taskVars, rpc, unlocks, changes, windows>>

LoseLock(c) ==
    /\ c \in late /\ late' = late \ {c}
    /\ UNCHANGED <<brokerVars, mine, up, queueVars, taskVars, rpc, unlocks, changes, windows>>

Consuming(c) == run[c].pc = "consuming"

\* A client that relies on the entry.
Relies(c) == (pq[c] = "held" /\ locked[c]) \/ Consuming(c)

\* A renewal of an entry that is no longer in the table changes nothing.
RenewNothing ==
    rpc' = [c \in Clients |-> IF rpc[c].pc = "renew"
                              THEN [rpc[c] EXCEPT !.pc = "answered", !.ok = TRUE]
                              ELSE rpc[c]]

\* unlockBatch removes the entry if it is the client's.
Unlock(c) ==
    /\ unlocks[c] > 0
    /\ unlocks' = [unlocks EXCEPT ![c] = @ - 1]
    /\ IF owner = c
       THEN /\ owner' = NoClient /\ entryAge' = 0 /\ RenewNothing
            /\ windows' = IF ~Relies(c) THEN windows
                          ELSE windows \cup {IF up[c] = "up" THEN "unlock" ELSE "shutdown"}
       ELSE UNCHANGED <<brokerVars, rpc, windows>>
    /\ UNCHANGED <<mine, up, queueVars, taskVars, late, changes>>

LoseUnlock(c) ==
    /\ unlocks[c] > 0
    /\ unlocks' = [unlocks EXCEPT ![c] = @ - 1]
    /\ UNCHANGED <<brokerVars, mine, up, queueVars, taskVars, rpc, late, changes, windows>>

-----------------------------------------------------------------------------
(* The task that consumes (ConsumeMessageOrderlyService.ConsumeRequest).   *)

\* Mutant of MayConsume: the age of the lock is not tested.
MayConsumeLocked(c) == locked[c]

MayConsume(c) == locked[c] /\ ~LockExpired(c)

\* The tests at the head of the loop.
Check(c) ==
    /\ run[c].pc = "idle" /\ pq[c] = "held" /\ "own" \notin relock[c]
    /\ MayConsume(c)
    /\ run' = [run EXCEPT ![c].pc = "checked"]
    /\ UNCHANGED <<brokerVars, mine, up, queueVars, relock, netVars, changes, windows>>

\* tryLockLaterAndReconsume.
CheckFails(c) ==
    /\ run[c].pc = "idle" /\ pq[c] = "held" /\ "own" \notin relock[c] /\ up[c] = "up"
    /\ ~MayConsume(c)
    /\ relock' = [relock EXCEPT ![c] = @ \cup {"own"}]
    /\ UNCHANGED <<brokerVars, mine, up, queueVars, run, netVars, changes, windows>>

\* Messages are taken, lockConsume is locked, and dropped is tested once more.
Begin(c) ==
    /\ run[c].pc = "checked" /\ ~run[c].gone
    /\ run' = [run EXCEPT ![c].pc = "consuming"]
    /\ UNCHANGED <<brokerVars, mine, up, queueVars, relock, netVars, changes, windows>>

GiveUp(c) ==
    /\ run[c].pc = "checked" /\ run[c].gone
    /\ run' = [run EXCEPT ![c] = Idle]
    /\ UNCHANGED <<brokerVars, mine, up, queueVars, relock, netVars, changes, windows>>

\* The listener returns; whatever its status is, the loop tests again.
End(c) ==
    /\ Consuming(c)
    /\ run' = [run EXCEPT ![c] = Idle]
    /\ UNCHANGED <<brokerVars, mine, up, queueVars, relock, netVars, changes, windows>>

-----------------------------------------------------------------------------
(* Shutdown and crash.  A client that starts again has another identifier, *)
(* which holds the number of its process.                                  *)

\* ConsumeMessageOrderlyService.shutdown gives the locks back without waiting
\* for the listener; the tasks go on until ...
Shutdown(c) ==
    /\ up[c] = "up" /\ rpc[c].pc = "none" /\ unlocks[c] < MaxUnlocks /\ Change
    /\ up' = [up EXCEPT ![c] = "stopping"]
    /\ mine' \in SUBSET (Up \ {c})
    /\ unlocks' = [unlocks EXCEPT ![c] = IF pq[c] = "none" THEN @ ELSE @ + 1]
    /\ relock' = [relock EXCEPT ![c] = {}]
    /\ UNCHANGED <<brokerVars, queueVars, run, rpc, late, windows>>

\* ... the answer, or no answer, and RebalanceImpl.destroy.
Destroy(c) ==
    /\ up[c] = "stopping"
    /\ up' = [up EXCEPT ![c] = "down"]
    /\ pq' = [pq EXCEPT ![c] = "none"]
    /\ locked' = [locked EXCEPT ![c] = FALSE] /\ lockAge' = [lockAge EXCEPT ![c] = 0]
    /\ run' = [run EXCEPT ![c] = Dropped(c)]
    /\ UNCHANGED <<brokerVars, mine, relock, netVars, changes, windows>>

Crash(c) ==
    /\ up[c] = "up" /\ Change
    /\ up' = [up EXCEPT ![c] = "down"]
    /\ mine' \in SUBSET (Up \ {c})
    /\ pq' = [pq EXCEPT ![c] = "none"]
    /\ locked' = [locked EXCEPT ![c] = FALSE] /\ lockAge' = [lockAge EXCEPT ![c] = 0]
    /\ run' = [run EXCEPT ![c] = Idle] /\ relock' = [relock EXCEPT ![c] = {}]
    /\ late' = IF rpc[c].pc \in {"none", "answered", "lost"} THEN late ELSE late \cup {c}
    /\ rpc' = [rpc EXCEPT ![c] = NoRpc]
    /\ UNCHANGED <<brokerVars, unlocks, windows>>

\* The table of locks is in memory only; requests being handled are lost.
BrokerRestart ==
    /\ owner # NoClient /\ Change
    /\ owner' = NoClient /\ entryAge' = 0
    /\ windows' = IF Relies(owner) THEN windows \cup {"restart"} ELSE windows
    /\ rpc' = [c \in Clients |-> IF rpc[c].pc \in {"sent", "renew"}
                                 THEN [rpc[c] EXCEPT !.pc = "lost"] ELSE rpc[c]]
    /\ UNCHANGED <<mine, up, queueVars, taskVars, late, unlocks>>

ClientStep(c) ==
    \/ Drop(c) \/ Remove(c) \/ Add(c)
    \/ \E k \in Kinds : SendLock(c, k)
    \/ Answer(c) \/ RpcTimeout(c)
    \/ Check(c) \/ CheckFails(c) \/ Begin(c) \/ GiveUp(c) \/ End(c) \/ Destroy(c)

BrokerStep(c) == IsLocked(c) \/ Renew(c) \/ TryLock(c) \/ LateLock(c) \/ Unlock(c)

Environment(c) ==
    \/ Shutdown(c) \/ Crash(c)
    \/ LoseLock(c) \/ LoseUnlock(c)

Next ==
    \/ Tick \/ Allocate \/ BrokerRestart
    \/ \E c \in Clients : ClientStep(c) \/ BrokerStep(c) \/ Environment(c)

Spec == Init /\ [][Next]_vars

\* Time passes, the threads of clients and broker run, and a waiting task gets
\* its turn between the periodic requests and, as it runs 10 ms after it got
\* the lock, in the end before the lock expires.
FairSpec ==
    /\ Spec /\ WF_vars(Tick)
    /\ \A c \in Clients :
        /\ WF_vars(Drop(c) \/ Remove(c) \/ Add(c))
        /\ WF_vars(IsLocked(c) \/ Renew(c) \/ TryLock(c) \/ Answer(c) \/ RpcTimeout(c))
        /\ WF_vars(CheckFails(c) \/ Begin(c) \/ GiveUp(c) \/ End(c))
        /\ WF_vars(LateLock(c) \/ LoseLock(c)) /\ WF_vars(Unlock(c) \/ LoseUnlock(c))
        /\ SF_vars(SendLock(c, "own")) /\ SF_vars(Check(c))

-----------------------------------------------------------------------------
(* Properties.                                                             *)

TypeOK ==
    /\ owner \in Clients \cup {NoClient} /\ entryAge \in 0 .. BrokerLive + 1
    /\ mine \subseteq Clients
    /\ up \in [Clients -> {"up", "stopping", "down"}]
    /\ pq \in [Clients -> {"none", "held", "dropped"}]
    /\ locked \in [Clients -> BOOLEAN] /\ lockAge \in [Clients -> 0 .. ClientLive + 1]
    /\ run \in [Clients -> RunState]
    /\ relock \in [Clients -> SUBSET {"own", "old"}]
    /\ rpc \in [Clients -> RpcState]
    /\ late \subseteq Clients /\ unlocks \in [Clients -> 0 .. MaxUnlocks]
    /\ changes \in 0 .. MaxChanges
    /\ windows \subseteq {"renew", "answer", "unlock", "shutdown", "restart"}

AtMostOne == \A c, d \in Clients : Consuming(c) /\ Consuming(d) => c = d

\* Orderly consumption: the listeners of two clients are never at work on the
\* queue at once, through rebalances, expired locks, refused and late requests,
\* lost unlocks and crashes, as long as none of the windows was hit.
OneAtATime == windows = {} => AtMostOne

\* The same when clients may also be shut down with the listener at work: what
\* MessageListenerOrderly promises ("one queue,one thread").
OneThread == windows \subseteq {"shutdown"} => AtMostOne

\* A task past the test of the lock that is going to call the listener or does.
Committed(c) == Consuming(c) \/ (run[c].pc = "checked" /\ ~run[c].gone)

LocalInv(c) ==
    /\ pq[c] = "none" => ~locked[c]
    /\ run[c].pc = "idle" => run[c] = Idle

GrantInv(c) ==
    /\ pq[c] = "held" /\ MayConsume(c) =>
          owner = c /\ entryAge <= RpcMax + lockAge[c]
    /\ Committed(c) =>
          owner = c /\ entryAge <= RpcMax + ClientLive + run[c].age
    /\ Committed(c) /\ ~Consuming(c) => pq[c] = "held" /\ locked[c]
    /\ rpc[c].pc = "answered" /\ rpc[c].ok /\ owner = c => entryAge <= rpc[c].age
    /\ rpc[c].pc = "answered" /\ ~rpc[c].ok =>
          ~(pq[c] = "held" /\ MayConsume(c)) /\ ~Committed(c)

\* The reason for OneAtATime: as long as no window was hit, a client that may
\* consume, or does, owns the broker's entry, and the entry is older than the
\* client's own lock by no more than the answer took; an entry that young is
\* not given to another client.
LockInv ==
    /\ TypeOK
    /\ \A c \in Clients : LocalInv(c) /\ (windows = {} => GrantInv(c))

\* A client that is given the queue for good consumes it in the end: no lock
\* is left with a client that is gone, dropped the queue or asked for it late.
HandedOver ==
    \A c \in Clients : <>[](mine = {c}) => []<>Consuming(c)

=============================================================================
