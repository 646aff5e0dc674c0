-------------------------- MODULE PullRequestHold ---------------------------
(***************************************************************************)
(* Long polling on the broker, for one queue: a pull that finds nothing is *)
(* held, and answered when a message arrives or its time is over.          *)
(*                                                                         *)
(* Three kinds of threads work on the held requests: the pull executor     *)
(* suspends them, every sending thread that has stored a message takes the *)
(* whole list and tests it, and so does the hold service once a second.    *)
(* Messages are stored by the sender and become visible to a pull when the *)
(* dispatch thread has put them into the consume queue.                    *)
(*                                                                         *)
(* A request is one pull; a client that pulls again sends a new one.  Long *)
(* polling is enabled.  The queue begins at offset 0.                      *)
(*                                                                         *)
(* Bound: MaxOffset messages.                                              *)
(***************************************************************************)
EXTENDS Integers, Sequences, FiniteSets

CONSTANTS Requests,      \* pull requests
          Senders,       \* threads of the send executor
          HoldService,   \* the thread of PullRequestHoldService
          QueueCapacity, \* pullThreadPoolQueueCapacity
          MaxOffset      \* bound: messages in the queue

ASSUME HoldAssumption ==
    /\ HoldService \notin Senders
    /\ QueueCapacity \in Nat \ {0} /\ MaxOffset \in Nat

VARIABLES
    stored,          \* messages in the commit log
    dispatched,      \* getMaxOffsetInQuque
    received, offset, \* requests that came in and the offset they ask for
    hasSuspendFlag,  \* those that may be suspended
    executor,        \* tasks waiting in the queue of pullMessageExecutor
    suspending,      \* pulls that found nothing and will suspend
    pullRequestList, \* ManyPullRequest
    expired,         \* requests whose suspension is over its time
    thread,          \* of each notifying thread: where it is, and its maxOffset
    requestList, replayList, \* its local lists
    answers,         \* what the broker wrote to the channel, per request
    lost             \* history: requests dropped with an exception

storeVars == <<stored, dispatched>>
clientVars == <<received, offset, hasSuspendFlag>>
listVars == <<pullRequestList, requestList, replayList>>
vars == <<storeVars, clientVars, executor, suspending, listVars, expired, thread,
          answers, lost>>

Threads == Senders \cup {HoldService}
Offsets == 0 .. MaxOffset
Answers == {"found", "notfound", "moved", "refused", "busy"}

Idle == [pc |-> "idle", maxOffset |-> 0]

Init ==
    /\ stored = 0 /\ dispatched = 0
    /\ received = {} /\ offset = [r \in Requests |-> 0] /\ hasSuspendFlag = {}
    /\ executor = {} /\ suspending = {} /\ expired = {}
    /\ pullRequestList = {}
    /\ thread = [t \in Threads |-> Idle]
    /\ requestList = [t \in Threads |-> {}]
    /\ replayList = [t \in Threads |-> {}]
    /\ answers = [r \in Requests |-> << >>]
    /\ lost = {}

-----------------------------------------------------------------------------
(* The pull executor.                                                      *)

\* A task is a pull: the first time it may suspend, woken up it may not.
Task(r, first) == [request |-> r, brokerAllowSuspend |-> first]

Full == Cardinality(executor) >= QueueCapacity

Answer(r, a) == answers' = [answers EXCEPT ![r] = Append(@, a)]

\* processRequestCommand hands the request to the executor, or answers
\* SYSTEM_BUSY when that refuses it.
Receive(r) ==
    /\ r \notin received
    /\ received' = received \cup {r}
    /\ \E o \in Offsets : offset' = [offset EXCEPT ![r] = o]
    /\ hasSuspendFlag' \in {hasSuspendFlag, hasSuspendFlag \cup {r}}
    /\ IF Full THEN Answer(r, "busy") /\ UNCHANGED executor
               ELSE executor' = executor \cup {Task(r, TRUE)} /\ UNCHANGED answers
    /\ UNCHANGED <<storeVars, suspending, listVars, expired, thread, lost>>

\* DefaultMessageStore.getMessage, as the response code that it leads to.
GetMessage(o) ==
    IF o < dispatched THEN "found"
    ELSE IF o = dispatched THEN "notfound"
    ELSE "moved"

\* processRequest answers or, when nothing was found, goes on to suspend.
ProcessRequest(r, first) ==
    LET code == GetMessage(offset[r])
    IN
    /\ Task(r, first) \in executor
    /\ executor' = executor \ {Task(r, first)}
    /\ IF code = "notfound" /\ first /\ r \in hasSuspendFlag
         THEN suspending' = suspending \cup {r} /\ UNCHANGED answers
         ELSE Answer(r, code) /\ UNCHANGED suspending
    /\ UNCHANGED <<storeVars, clientVars, listVars, expired, thread, lost>>

\* One of the checks before getMessage answers: permission, subscription, topic.
RefuseRequest(r, first) ==
    /\ Task(r, first) \in executor
    /\ executor' = executor \ {Task(r, first)}
    /\ Answer(r, "refused")
    /\ UNCHANGED <<storeVars, clientVars, suspending, listVars, expired, thread, lost>>

\* Messages may have arrived, and their senders looked at the list, meanwhile.
SuspendPullRequest(r) ==
    /\ r \in suspending
    /\ suspending' = suspending \ {r}
    /\ pullRequestList' = pullRequestList \cup {r}
    /\ UNCHANGED <<storeVars, clientVars, executor, requestList, replayList, expired,
                   thread, answers, lost>>

-----------------------------------------------------------------------------
(* Messages, and time.                                                     *)

\* SendMessageProcessor: the message is stored ...
PutMessage(t) ==
    /\ t \in Senders /\ thread[t] = Idle /\ stored < MaxOffset
    /\ stored' = stored + 1
    /\ thread' = [thread EXCEPT ![t] = [pc |-> "notify", maxOffset |-> stored + 1]]
    /\ UNCHANGED <<dispatched, clientVars, executor, suspending, listVars, expired,
                   answers, lost>>

\* ... and dispatched by a thread of its own, before or after the sender goes on.
Dispatch ==
    /\ dispatched < stored
    /\ dispatched' = dispatched + 1
    /\ UNCHANGED <<stored, clientVars, executor, suspending, listVars, expired, thread,
                   answers, lost>>

\* Requests that are suspended: in the list, or taken from it by a thread.
Held == pullRequestList \cup UNION { requestList[t] \cup replayList[t] : t \in Threads }

\* The suspend timeout of a request passes.
Expire(r) ==
    /\ r \in Held \ expired
    /\ expired' = expired \cup {r}
    /\ UNCHANGED <<storeVars, clientVars, executor, suspending, listVars, thread,
                   answers, lost>>

-----------------------------------------------------------------------------
(* notifyMessageArriving, by a sender or by the hold service.              *)

\* checkHoldRequest
CheckHoldRequest ==
    /\ thread[HoldService] = Idle
    /\ thread' = [thread EXCEPT ![HoldService] =
                     [pc |-> "notify", maxOffset |-> dispatched]]
    /\ UNCHANGED <<storeVars, clientVars, executor, suspending, listVars, expired,
                   answers, lost>>

CloneListAndClear(t) ==
    /\ thread[t].pc = "notify"
    /\ requestList' = [requestList EXCEPT ![t] = pullRequestList]
    /\ pullRequestList' = {}
    /\ thread' = [thread EXCEPT ![t] = IF pullRequestList = {} THEN Idle
                                       ELSE [@ EXCEPT !.pc = "loop"]]
    /\ UNCHANGED <<storeVars, clientVars, executor, suspending, replayList, expired,
                   answers, lost>>

\* Mutant of Wakes: a request is woken for a message before the one it waits for.
WakesEarly(t, r) ==
    \/ thread[t].maxOffset >= offset[r]
    \/ dispatched > offset[r]
    \/ r \in expired

\* Mutant of Wakes: the timeout is not looked at.
WakesArrived(t, r) ==
    \/ thread[t].maxOffset > offset[r]
    \/ dispatched > offset[r]

\* The offset the thread came with, the newest offset, the timeout.
Wakes(t, r) ==
    \/ thread[t].maxOffset > offset[r]
    \/ dispatched > offset[r]
    \/ r \in expired

\* excuteRequestWhenWakeup gives the pull to the executor again.
WakeUp(t, r) ==
    /\ thread[t].pc = "loop" /\ r \in requestList[t]
    /\ Wakes(t, r) /\ ~Full
    /\ executor' = executor \cup {Task(r, FALSE)}
    /\ requestList' = [requestList EXCEPT ![t] = @ \ {r}]
    /\ UNCHANGED <<storeVars, clientVars, suspending, pullRequestList, replayList,
                   expired, thread, answers, lost>>

\* The executor refuses the pull: RejectedExecutionException leaves the method,
\* and with it go the requests still in the local lists.
WakeUpRejected(t, r) ==
    /\ thread[t].pc = "loop" /\ r \in requestList[t]
    /\ Wakes(t, r) /\ Full
    /\ lost' = lost \cup requestList[t] \cup replayList[t]
    /\ requestList' = [requestList EXCEPT ![t] = {}]
    /\ replayList' = [replayList EXCEPT ![t] = {}]
    /\ thread' = [thread EXCEPT ![t] = Idle]
    /\ UNCHANGED <<storeVars, clientVars, executor, suspending, pullRequestList,
                   expired, answers>>

KeepHolding(t, r) ==
    /\ thread[t].pc = "loop" /\ r \in requestList[t]
    /\ ~Wakes(t, r)
    /\ requestList' = [requestList EXCEPT ![t] = @ \ {r}]
    /\ replayList' = [replayList EXCEPT ![t] = @ \cup {r}]
    /\ UNCHANGED <<storeVars, clientVars, executor, suspending, pullRequestList,
                   expired, thread, answers, lost>>

\* Mutant of Replay: the list overwrites what was suspended meanwhile.
ReplayOverwrites(t) ==
    /\ thread[t].pc = "loop" /\ requestList[t] = {}
    /\ pullRequestList' = replayList[t]
    /\ replayList' = [replayList EXCEPT ![t] = {}]
    /\ thread' = [thread EXCEPT ![t] = Idle]
    /\ UNCHANGED <<storeVars, clientVars, executor, suspending, requestList, expired,
                   answers, lost>>

\* What was not woken goes back into the list.
Replay(t) ==
    /\ thread[t].pc = "loop" /\ requestList[t] = {}
    /\ pullRequestList' = pullRequestList \cup replayList[t]
    /\ replayList' = [replayList EXCEPT ![t] = {}]
    /\ thread' = [thread EXCEPT ![t] = Idle]
    /\ UNCHANGED <<storeVars, clientVars, executor, suspending, requestList, expired,
                   answers, lost>>

-----------------------------------------------------------------------------
PullStep(r) ==
    \/ \E first \in BOOLEAN : ProcessRequest(r, first) \/ RefuseRequest(r, first)
    \/ SuspendPullRequest(r)

NotifyStep(t) ==
    \/ CloneListAndClear(t)
    \/ \E r \in Requests : WakeUp(t, r) \/ WakeUpRejected(t, r) \/ KeepHolding(t, r)
    \/ Replay(t)

Next ==
    \/ \E r \in Requests : Receive(r) \/ Expire(r) \/ PullStep(r)
    \/ \E t \in Senders : PutMessage(t)
    \/ Dispatch
    \/ CheckHoldRequest
    \/ \E t \in Threads : NotifyStep(t)

Spec == Init /\ [][Next]_vars

\* The threads keep running.  Nothing is assumed of arrivals and of time.
FairSpec ==
    /\ Spec
    /\ \A r \in Requests : WF_vars(PullStep(r))
    /\ \A t \in Threads : WF_vars(NotifyStep(t))
    /\ WF_vars(CheckHoldRequest)

-----------------------------------------------------------------------------
(* Properties                                                              *)

TypeOK ==
    /\ stored \in Offsets /\ dispatched \in 0 .. stored
    /\ received \subseteq Requests /\ hasSuspendFlag \subseteq received
    /\ offset \in [Requests -> Offsets]
    /\ executor \subseteq [request : Requests, brokerAllowSuspend : BOOLEAN]
    /\ Cardinality(executor) <= QueueCapacity
    /\ suspending \subseteq Requests /\ pullRequestList \subseteq Requests
    /\ expired \subseteq Requests /\ lost \subseteq Requests
    /\ thread \in [Threads -> [pc : {"idle", "notify", "loop"}, maxOffset : Offsets]]
    /\ requestList \in [Threads -> SUBSET Requests]
    /\ replayList \in [Threads -> SUBSET Requests]
    /\ answers \in [Requests -> Seq(Answers)]

\* Where a request is, its answers included.
Places(r) ==
    { <<"executor", first>> : first \in { b \in BOOLEAN : Task(r, b) \in executor } }
      \cup { <<"requestList", t>> : t \in { u \in Threads : r \in requestList[u] } }
      \cup { <<"replayList", t>> : t \in { u \in Threads : r \in replayList[u] } }
      \cup { <<"suspending", q>> : q \in suspending \cap {r} }
      \cup { <<"pullRequestList", q>> : q \in pullRequestList \cap {r} }
      \cup { <<"lost", q>> : q \in lost \cap {r} }
      \cup { <<"answer", i>> : i \in DOMAIN answers[r] }

\* Every request that came in is in exactly one place: no thread that takes the
\* list loses or duplicates a request that another puts back or suspends, and no
\* request is answered twice.
InOnePlace ==
    /\ TypeOK
    /\ \A r \in received : Cardinality(Places(r)) = 1

\* A held request is told that there is nothing only when its time is over, or
\* when it was woken for a message that is stored and not yet dispatched.
NotTooEarly ==
    \A r \in hasSuspendFlag :
       answers[r] = <<"notfound">> => r \in expired \/ offset[r] < stored

\* A request is answered once there is a message for it or its time is over,
\* unless the executor refused it; a message that arrives between the look into
\* the queue and the suspension is no exception, although nobody is told of it.
NoLostWakeup == \A r \in Requests :
    (r \in received /\ (offset[r] < dispatched \/ r \in expired))
        ~> (answers[r] # << >> \/ r \in lost)

-----------------------------------------------------------------------------
(* The inductive invariant of the proofs.                                  *)

\* Only a thread in the loop has local lists, so taking the whole list drops
\* nothing.
ListsInv ==
    \A t \in Threads : thread[t].pc # "loop" => requestList[t] = {} /\ replayList[t] = {}

\* A request is in one place once it came in, and nowhere before.
Located ==
    \A r \in Requests : IF r \in received THEN \E p \in Places(r) : Places(r) = {p}
                                           ELSE Places(r) = {}

\* A notifying thread came with an offset that is stored, and a request is only
\* woken for such an offset or because its time is over.
WokenInv ==
    /\ \A t \in Threads : thread[t].maxOffset <= stored
    /\ \A r \in Requests :
          Task(r, FALSE) \in executor => r \in expired \/ offset[r] < stored

HoldInv ==
    /\ TypeOK /\ IsFiniteSet(executor)
    /\ ListsInv /\ Located /\ WokenInv /\ NotTooEarly

=============================================================================
