------------------------ MODULE PullRequestHoldProofs ------------------------
(***************************************************************************)
(* Proofs about PullRequestHold, for every set of requests and senders,    *)
(* every capacity of the executor and every number of messages.            *)
(***************************************************************************)
EXTENDS PullRequestHold, FiniteSetTheorems, SequenceTheorems, TLAPS

(* Places.                                                                 *)

\* What it means to be in a place.
InPlace(r, p) ==
    \/ \E b \in BOOLEAN : p = <<"executor", b>> /\ Task(r, b) \in executor
    \/ \E t \in Threads : p = <<"requestList", t>> /\ r \in requestList[t]
    \/ \E t \in Threads : p = <<"replayList", t>> /\ r \in replayList[t]
    \/ p = <<"suspending", r>> /\ r \in suspending
    \/ p = <<"pullRequestList", r>> /\ r \in pullRequestList
    \/ p = <<"lost", r>> /\ r \in lost
    \/ \E i \in DOMAIN answers[r] : p = <<"answer", i>>

LEMMA PlacesAre == \A r \in Requests : \A p : p \in Places(r) <=> InPlace(r, p)
  BY DEF Places, InPlace

LEMMA PlacesArePrime == \A r \in Requests : \A p : p \in Places(r)' <=> InPlace(r, p)'
  BY DEF Places, InPlace

\* What is in the executor when a task is added, or taken out.
LEMMA TaskAdded ==
  ASSUME NEW r, NEW b \in BOOLEAN, executor' = executor \cup {Task(r, b)}
  PROVE  /\ \A d, c : d # r => (Task(d, c) \in executor' <=> Task(d, c) \in executor)
         /\ \A c \in BOOLEAN : Task(r, c) \in executor' <=> Task(r, c) \in executor \/ c = b
  BY DEF Task

LEMMA TaskTaken ==
  ASSUME NEW r, NEW b \in BOOLEAN, executor' = executor \ {Task(r, b)}
  PROVE  /\ \A d, c : d # r => (Task(d, c) \in executor' <=> Task(d, c) \in executor)
         /\ \A c \in BOOLEAN : Task(r, c) \in executor' <=> Task(r, c) \in executor /\ c # b
  BY DEF Task

\* No request was answered that is not with its answers.
LEMMA OneAnswer ==
  ASSUME NEW a
  PROVE  1 \in DOMAIN <<a>>
  OBVIOUS

LEMMA Codes == <<"busy">> # <<"notfound">> /\ <<"refused">> # <<"notfound">>
  OBVIOUS

\* A request that is in a place came in, and is in no other.
LEMMA OnlyThere ==
  ASSUME Located, NEW r \in Requests, NEW p, InPlace(r, p)
  PROVE  r \in received /\ Places(r) = {p} /\ \A q : InPlace(r, q) <=> q = p
  <1>1. p \in Places(r)
    BY PlacesAre
  <1>2. r \in received /\ Places(r) = {p}
    BY <1>1 DEF Located
  <1> QED
    BY <1>2, PlacesAre

\* ... which is to say, wherever it is named, that is its place.
LEMMA NotElsewhere ==
  ASSUME Located, NEW r \in Requests, NEW p, InPlace(r, p)
  PROVE  /\ \A b \in BOOLEAN : Task(r, b) \in executor => p = <<"executor", b>>
         /\ \A t \in Threads : r \in requestList[t] => p = <<"requestList", t>>
         /\ \A t \in Threads : r \in replayList[t] => p = <<"replayList", t>>
         /\ r \in suspending => p = <<"suspending", r>>
         /\ r \in pullRequestList => p = <<"pullRequestList", r>>
         /\ r \in lost => p = <<"lost", r>>
         /\ \A i \in DOMAIN answers[r] : p = <<"answer", i>>
  <1>1. \A q : InPlace(r, q) => p = q
    BY OnlyThere
  <1>2. ASSUME NEW b \in BOOLEAN, Task(r, b) \in executor PROVE p = <<"executor", b>>
    <2>1. InPlace(r, <<"executor", b>>)
      BY <1>2 DEF InPlace
    <2> QED
      BY <1>1, <2>1
  <1>3. ASSUME NEW t \in Threads, r \in requestList[t] PROVE p = <<"requestList", t>>
    <2>1. InPlace(r, <<"requestList", t>>)
      BY <1>3 DEF InPlace
    <2> QED
      BY <1>1, <2>1
  <1>4. ASSUME NEW t \in Threads, r \in replayList[t] PROVE p = <<"replayList", t>>
    <2>1. InPlace(r, <<"replayList", t>>)
      BY <1>4 DEF InPlace
    <2> QED
      BY <1>1, <2>1
  <1>5. /\ r \in suspending => p = <<"suspending", r>>
        /\ r \in pullRequestList => p = <<"pullRequestList", r>>
        /\ r \in lost => p = <<"lost", r>>
        /\ \A i \in DOMAIN answers[r] : p = <<"answer", i>>
    BY <1>1 DEF InPlace
  <1> QED
    BY <1>2, <1>3, <1>4, <1>5

\* A request that did not come in is nowhere.
LEMMA Nowhere ==
  ASSUME Located, NEW r \in Requests, r \notin received, NEW p
  PROVE  ~InPlace(r, p)
  BY PlacesAre DEF Located

\* A request that is somewhere else has no answer, and gets its first one.
LEMMA AnsweredNow ==
  ASSUME TypeOK, NEW r \in Requests, NEW a \in Answers, Answer(r, a),
         \A i : ~InPlace(r, <<"answer", i>>)
  PROVE  /\ answers' \in [Requests -> Seq(Answers)]
         /\ answers'[r] = <<a>> /\ DOMAIN answers'[r] = {1}
         /\ \A d \in Requests \ {r} : answers'[d] = answers[d]
  <1>1. \A i : i \notin DOMAIN answers[r]
    BY DEF InPlace
  <1>2. answers[r] \in Seq(Answers)
    BY DEF TypeOK
  <1>3. answers[r] = << >>
    <2>1. DOMAIN answers[r] = 1 .. Len(answers[r]) /\ Len(answers[r]) \in Nat
      BY <1>2
    <2>2. 1 \notin 1 .. Len(answers[r])
      BY <1>1, <2>1
    <2>3. Len(answers[r]) = 0
      BY <2>1, <2>2
    <2> QED
      BY <1>2, <2>3, EmptySeq
  <1>4. answers' = [answers EXCEPT ![r] = <<a>>]
    BY <1>3 DEF Answer
  <1> QED
    BY <1>4 DEF TypeOK

\* Every request stays where it is, or has come to a place of its own.
LEMMA LocatedStep ==
  ASSUME Located,
         \A d \in Requests :
            \/ (d \in received' <=> d \in received) /\ \A p : InPlace(d, p)' <=> InPlace(d, p)
            \/ d \in received' /\ \E q : \A p : InPlace(d, p)' <=> p = q
  PROVE  Located'
  <1> SUFFICES ASSUME NEW d \in Requests
               PROVE  IF d \in received' THEN \E p \in Places(d)' : Places(d)' = {p}
                                         ELSE Places(d)' = {}
    BY DEF Located
  <1>1. CASE (d \in received' <=> d \in received) /\ \A p : InPlace(d, p)' <=> InPlace(d, p)
    <2>1. Places(d)' = Places(d)
      BY <1>1, PlacesAre, PlacesArePrime
    <2> QED
      BY <1>1, <2>1 DEF Located
  <1>2. ASSUME d \in received', NEW q, \A p : InPlace(d, p)' <=> p = q
        PROVE  \E p \in Places(d)' : Places(d)' = {p}
    <2>1. Places(d)' = {q}
      BY <1>2, PlacesArePrime
    <2> QED
      BY <2>1
  <1> QED
    BY <1>1, <1>2

-----------------------------------------------------------------------------
(* The queue of the executor keeps its bound.                              *)

ExecutorOK ==
    /\ executor \subseteq [request : Requests, brokerAllowSuspend : BOOLEAN]
    /\ IsFiniteSet(executor) /\ Cardinality(executor) <= QueueCapacity

LEMMA ExecutorAdd ==
  ASSUME ExecutorOK, ~Full, NEW r \in Requests, NEW b \in BOOLEAN,
         executor' = executor \cup {Task(r, b)}
  PROVE  ExecutorOK'
  <1>1. Task(r, b) \in [request : Requests, brokerAllowSuspend : BOOLEAN]
    BY DEF Task
  <1>2. /\ IsFiniteSet(executor')
        /\ Cardinality(executor') \in {Cardinality(executor), Cardinality(executor) + 1}
    BY FS_AddElement DEF ExecutorOK
  <1>3. Cardinality(executor) \in Nat
    BY FS_CardinalityType DEF ExecutorOK
  <1>4. Cardinality(executor') <= QueueCapacity
    BY <1>2, <1>3, HoldAssumption DEF Full
  <1> QED
    BY <1>1, <1>2, <1>4 DEF ExecutorOK

LEMMA ExecutorRemove ==
  ASSUME ExecutorOK, NEW x, executor' = executor \ {x}
  PROVE  ExecutorOK'
  <1>2. /\ IsFiniteSet(executor')
        /\ Cardinality(executor') \in {Cardinality(executor), Cardinality(executor) - 1}
    BY FS_RemoveElement DEF ExecutorOK
  <1>3. Cardinality(executor) \in Nat
    BY FS_CardinalityType DEF ExecutorOK
  <1>4. Cardinality(executor') <= QueueCapacity
    BY <1>2, <1>3, HoldAssumption DEF ExecutorOK
  <1> QED
    BY <1>2, <1>4 DEF ExecutorOK

-----------------------------------------------------------------------------
(* One lemma for each way a request moves.                                 *)

\* The other requests: nothing that names them changes.
LEMMA OthersStay ==
  ASSUME NEW d \in Requests,
         \A b \in BOOLEAN : Task(d, b) \in executor' <=> Task(d, b) \in executor,
         \A t \in Threads : (d \in requestList'[t] <=> d \in requestList[t])
                            /\ (d \in replayList'[t] <=> d \in replayList[t]),
         d \in suspending' <=> d \in suspending,
         d \in pullRequestList' <=> d \in pullRequestList,
         d \in lost' <=> d \in lost,
         answers'[d] = answers[d]
  PROVE  \A p : InPlace(d, p)' <=> InPlace(d, p)
  BY DEF InPlace, Task

LEMMA ReceiveStep ==
  ASSUME HoldInv, NEW r \in Requests, Receive(r)
  PROVE  HoldInv'
  <1> USE HoldAssumption DEF storeVars, clientVars, listVars
  <1>0. TypeOK /\ ExecutorOK /\ ListsInv /\ Located /\ WokenInv /\ NotTooEarly
    BY DEF HoldInv, TypeOK, ExecutorOK
  <1>1. \A p : ~InPlace(r, p)
    BY <1>0, Nowhere DEF Receive
  <1>2. /\ received' = received \cup {r} /\ hasSuspendFlag' \subseteq hasSuspendFlag \cup {r}
        /\ UNCHANGED <<stored, dispatched, suspending, pullRequestList, requestList, replayList,
                       expired, thread, lost>>
    BY DEF Receive
  <1>3. /\ offset' \in [Requests -> Offsets]
        /\ \A d \in Requests \ {r} : offset'[d] = offset[d]
    BY <1>0 DEF Receive, TypeOK
  <1>4. /\ ExecutorOK' /\ Located' /\ answers' \in [Requests -> Seq(Answers)]
        /\ \A d \in Requests : Task(d, FALSE) \in executor' => d # r /\ Task(d, FALSE) \in executor
        /\ \A d \in Requests : answers'[d] = <<"notfound">> => d # r /\ answers'[d] = answers[d]
    <2>a. \A b \in BOOLEAN : Task(r, b) \notin executor
      BY <1>1 DEF InPlace
    <2>1. CASE Full
      <3>1. Answer(r, "busy") /\ executor' = executor
        BY <2>1 DEF Receive
      <3>2. /\ answers' \in [Requests -> Seq(Answers)]
            /\ answers'[r] = <<"busy">> /\ DOMAIN answers'[r] = {1}
            /\ \A d \in Requests \ {r} : answers'[d] = answers[d]
        BY <1>0, <1>1, <3>1, AnsweredNow DEF Answers
      <3>3. \A p : InPlace(r, p)' <=> p = <<"answer", 1>>
        BY <1>1, <1>2, <3>1, <3>2 DEF InPlace
      <3>4. \A d \in Requests \ {r} : \A p : InPlace(d, p)' <=> InPlace(d, p)
        BY <1>2, <3>1, <3>2, OthersStay
      <3>5. Located'
        BY <1>0, <1>2, <3>3, <3>4, LocatedStep
      <3>6. ExecutorOK'
        BY <1>0, <3>1 DEF ExecutorOK
      <3> QED
        BY <2>a, <3>1, <3>2, <3>5, <3>6, Codes
    <2>2. CASE ~Full
      <3>1. executor' = executor \cup {Task(r, TRUE)} /\ answers' = answers
        BY <2>2 DEF Receive
      <3>2. ExecutorOK'
        BY <1>0, <2>2, <3>1, ExecutorAdd
      <3>a. /\ \A d \in Requests \ {r}, b \in BOOLEAN : Task(d, b) \in executor' <=> Task(d, b) \in executor
            /\ \A b \in BOOLEAN : Task(r, b) \in executor' <=> b = TRUE
        BY <2>a, <3>1, TaskAdded
      <3>3. \A p : InPlace(r, p)' <=> p = <<"executor", TRUE>>
        BY <1>1, <1>2, <3>1, <3>a DEF InPlace
      <3>4. \A d \in Requests \ {r} : \A p : InPlace(d, p)' <=> InPlace(d, p)
        BY <1>2, <3>1, <3>a, OthersStay
      <3>5. Located'
        BY <1>0, <1>2, <3>3, <3>4, LocatedStep
      <3>6. answers[r] # <<"notfound">>
        BY <1>1, OneAnswer DEF InPlace
      <3> QED
        BY <1>0, <3>1, <3>2, <3>a, <3>5, <3>6 DEF TypeOK
    <2> QED
      BY <2>1, <2>2
  <1>5. TypeOK'
    BY <1>0, <1>2, <1>3, <1>4 DEF TypeOK, ExecutorOK
  <1>6. ListsInv' /\ WokenInv' /\ NotTooEarly'
    BY <1>0, <1>2, <1>3, <1>4 DEF ListsInv, WokenInv, NotTooEarly, TypeOK
  <1> QED
    BY <1>4, <1>5, <1>6 DEF HoldInv, ExecutorOK

\* The parts of the invariant, with the bound of the executor apart.
LEMMA HoldInvParts ==
  /\ HoldInv => TypeOK /\ ExecutorOK /\ ListsInv /\ Located /\ WokenInv /\ NotTooEarly
  /\ TypeOK' /\ ExecutorOK' /\ ListsInv' /\ Located' /\ WokenInv' /\ NotTooEarly' => HoldInv'
  BY DEF HoldInv, TypeOK, ExecutorOK

\* A pull leaves the executor with an answer; woken up, it may find nothing.
LEMMA AnswerStep ==
  ASSUME HoldInv, NEW r \in Requests, NEW first \in BOOLEAN, NEW a \in Answers,
         Task(r, first) \in executor, executor' = executor \ {Task(r, first)}, Answer(r, a),
         a = "notfound" => ~first \/ r \notin hasSuspendFlag,
         UNCHANGED <<storeVars, clientVars, suspending, listVars, expired, thread, lost>>
  PROVE  HoldInv'
  <1> USE HoldAssumption DEF storeVars, clientVars, listVars
  <1>0. TypeOK /\ ExecutorOK /\ ListsInv /\ Located /\ WokenInv /\ NotTooEarly
    BY HoldInvParts
  <1>1. InPlace(r, <<"executor", first>>)
    BY DEF InPlace
  <1>2. r \in received /\ \A q : InPlace(r, q) <=> q = <<"executor", first>>
    BY <1>0, <1>1, OnlyThere
  <1>3. \A i : ~InPlace(r, <<"answer", i>>)
    BY <1>2
  <1>4. /\ answers' \in [Requests -> Seq(Answers)]
        /\ answers'[r] = <<a>> /\ DOMAIN answers'[r] = {1}
        /\ \A d \in Requests \ {r} : answers'[d] = answers[d]
    BY <1>0, <1>3, AnsweredNow
  <1>5. /\ \A d \in Requests \ {r}, b \in BOOLEAN : Task(d, b) \in executor' <=> Task(d, b) \in executor
        /\ \A b \in BOOLEAN : Task(r, b) \in executor' <=> Task(r, b) \in executor /\ b # first
    BY TaskTaken
  <1>6. \A b \in BOOLEAN : Task(r, b) \notin executor'
    <2> SUFFICES ASSUME NEW b \in BOOLEAN, Task(r, b) \in executor' PROVE FALSE
      OBVIOUS
    <2>1. InPlace(r, <<"executor", b>>) /\ b # first
      BY <1>5 DEF InPlace
    <2> QED
      BY <1>2, <2>1
  <1>7. \A p : InPlace(r, p)' <=> p = <<"answer", 1>>
    BY <1>2, <1>4, <1>6 DEF InPlace
  <1>8. \A d \in Requests \ {r} : \A p : InPlace(d, p)' <=> InPlace(d, p)
    BY <1>4, <1>5, OthersStay
  <1>9. Located'
    BY <1>0, <1>2, <1>7, <1>8, LocatedStep
  <1>10. ExecutorOK'
    BY <1>0, ExecutorRemove
  <1>11. TypeOK'
    BY <1>0, <1>4, <1>10 DEF TypeOK, ExecutorOK
  <1>12. ListsInv'
    BY <1>0 DEF ListsInv
  <1>13. WokenInv'
    BY <1>0, <1>5, <1>6 DEF WokenInv
  <1>14. NotTooEarly'
    <2> SUFFICES ASSUME NEW d \in hasSuspendFlag, answers'[d] = <<"notfound">>
                 PROVE  d \in expired \/ offset[d] < stored
      BY DEF NotTooEarly
    <2>1. CASE d = r
      <3>1. a = "notfound"
        BY <1>4, <2>1
      <3>2. first = FALSE
        BY <2>1, <3>1
      <3> QED
        BY <1>0, <2>1, <3>2 DEF WokenInv
    <2>2. CASE d # r
      BY <1>0, <1>4, <2>2 DEF NotTooEarly, TypeOK
    <2> QED
      BY <2>1, <2>2
  <1> QED
    BY <1>9, <1>10, <1>11, <1>12, <1>13, <1>14, HoldInvParts

\* A pull finds nothing and goes on to suspend.
LEMMA SuspendingStep ==
  ASSUME HoldInv, NEW r \in Requests, NEW first \in BOOLEAN,
         Task(r, first) \in executor, executor' = executor \ {Task(r, first)},
         suspending' = suspending \cup {r},
         UNCHANGED <<storeVars, clientVars, answers, listVars, expired, thread, lost>>
  PROVE  HoldInv'
  <1> USE HoldAssumption DEF storeVars, clientVars, listVars
  <1>0. TypeOK /\ ExecutorOK /\ ListsInv /\ Located /\ WokenInv /\ NotTooEarly
    BY HoldInvParts
  <1>1. InPlace(r, <<"executor", first>>)
    BY DEF InPlace
  <1>2. r \in received /\ \A q : InPlace(r, q) <=> q = <<"executor", first>>
    BY <1>0, <1>1, OnlyThere
  <1>5. /\ \A d \in Requests \ {r}, b \in BOOLEAN : Task(d, b) \in executor' <=> Task(d, b) \in executor
        /\ \A b \in BOOLEAN : Task(r, b) \in executor' <=> Task(r, b) \in executor /\ b # first
    BY TaskTaken
  <1>6. \A b \in BOOLEAN : Task(r, b) \notin executor'
    <2> SUFFICES ASSUME NEW b \in BOOLEAN, Task(r, b) \in executor' PROVE FALSE
      OBVIOUS
    <2>1. InPlace(r, <<"executor", b>>) /\ b # first
      BY <1>5 DEF InPlace
    <2> QED
      BY <1>2, <2>1
  <1>7. \A p : InPlace(r, p)' <=> p = <<"suspending", r>>
    BY <1>2, <1>6 DEF InPlace
  <1>8. \A d \in Requests \ {r} : \A p : InPlace(d, p)' <=> InPlace(d, p)
    BY <1>5, OthersStay
  <1>9. Located'
    BY <1>0, <1>2, <1>7, <1>8, LocatedStep
  <1>10. ExecutorOK'
    BY <1>0, ExecutorRemove
  <1>11. TypeOK'
    BY <1>0, <1>10 DEF TypeOK, ExecutorOK
  <1>12. ListsInv' /\ NotTooEarly'
    BY <1>0 DEF ListsInv, NotTooEarly
  <1>13. WokenInv'
    BY <1>0, <1>5, <1>6 DEF WokenInv
  <1> QED
    BY <1>9, <1>10, <1>11, <1>12, <1>13, HoldInvParts

LEMMA SuspendStep ==
  ASSUME HoldInv, NEW r \in Requests, SuspendPullRequest(r)
  PROVE  HoldInv'
  <1> USE HoldAssumption DEF storeVars, clientVars
  <1>0. TypeOK /\ ExecutorOK /\ ListsInv /\ Located /\ WokenInv /\ NotTooEarly
    BY HoldInvParts
  <1>a. /\ r \in suspending /\ suspending' = suspending \ {r}
        /\ pullRequestList' = pullRequestList \cup {r}
        /\ UNCHANGED <<storeVars, clientVars, executor, requestList, replayList, expired,
                       thread, answers, lost>>
    BY DEF SuspendPullRequest
  <1>1. InPlace(r, <<"suspending", r>>)
    BY <1>a DEF InPlace
  <1>2. r \in received /\ \A q : InPlace(r, q) <=> q = <<"suspending", r>>
    BY <1>0, <1>1, OnlyThere
  <1>7. \A p : InPlace(r, p)' <=> p = <<"pullRequestList", r>>
    BY <1>2, <1>a DEF InPlace
  <1>8. \A d \in Requests \ {r} : \A p : InPlace(d, p)' <=> InPlace(d, p)
    BY <1>a, OthersStay
  <1>9. Located'
    BY <1>0, <1>2, <1>a, <1>7, <1>8, LocatedStep
  <1>10. ExecutorOK' /\ TypeOK'
    BY <1>0, <1>a DEF TypeOK, ExecutorOK
  <1>12. ListsInv' /\ NotTooEarly' /\ WokenInv'
    BY <1>0, <1>a DEF ListsInv, NotTooEarly, WokenInv
  <1> QED
    BY <1>9, <1>10, <1>12, HoldInvParts

-----------------------------------------------------------------------------
(* The threads that notify.                                                *)

\* The whole list moves into a thread that had none.
LEMMA CloneStep ==
  ASSUME HoldInv, NEW t \in Threads, CloneListAndClear(t)
  PROVE  HoldInv'
  <1> USE HoldAssumption DEF storeVars, clientVars
  <1>0. TypeOK /\ ExecutorOK /\ ListsInv /\ Located /\ WokenInv /\ NotTooEarly
    BY HoldInvParts
  <1>a. /\ thread[t].pc = "notify"
        /\ requestList' = [requestList EXCEPT ![t] = pullRequestList]
        /\ pullRequestList' = {}
        /\ UNCHANGED <<storeVars, clientVars, executor, suspending, replayList, expired,
                       answers, lost>>
    BY DEF CloneListAndClear
  <1>b. /\ thread' \in [Threads -> [pc : {"idle", "notify", "loop"}, maxOffset : Offsets]]
        /\ \A u \in Threads : thread'[u].maxOffset \in {0, thread[u].maxOffset}
        /\ \A u \in Threads \ {t} : thread'[u] = thread[u]
        /\ thread'[t].pc = IF pullRequestList = {} THEN "idle" ELSE "loop"
    <2>1. ASSUME NEW x \in [pc : {"idle", "notify", "loop"}, maxOffset : Offsets]
          PROVE  /\ [x EXCEPT !.pc = "loop"] \in [pc : {"idle", "notify", "loop"}, maxOffset : Offsets]
                 /\ [x EXCEPT !.pc = "loop"].pc = "loop"
                 /\ [x EXCEPT !.pc = "loop"].maxOffset = x.maxOffset
      OBVIOUS
    <2>2. /\ Idle \in [pc : {"idle", "notify", "loop"}, maxOffset : Offsets]
          /\ Idle.pc = "idle" /\ Idle.maxOffset = 0
      BY DEF Idle, Offsets
    <2>3. thread' = [thread EXCEPT ![t] = IF pullRequestList = {} THEN Idle
                                          ELSE [thread[t] EXCEPT !.pc = "loop"]]
      BY DEF CloneListAndClear
    <2> QED
      BY <1>0, <2>1, <2>2, <2>3 DEF TypeOK
  <1>1. requestList[t] = {} /\ replayList[t] = {}
    BY <1>0, <1>a DEF ListsInv
  <1>2. /\ requestList' \in [Threads -> SUBSET Requests]
        /\ requestList'[t] = pullRequestList
        /\ \A u \in Threads \ {t} : requestList'[u] = requestList[u]
    BY <1>0, <1>a DEF TypeOK
  <1>3. ASSUME NEW d \in Requests, d \in pullRequestList
        PROVE  d \in received /\ \A p : InPlace(d, p)' <=> p = <<"requestList", t>>
    <2>1. InPlace(d, <<"pullRequestList", d>>)
      BY <1>3 DEF InPlace
    <2>2. d \in received /\ \A q : InPlace(d, q) <=> q = <<"pullRequestList", d>>
      BY <1>0, <2>1, OnlyThere
    <2>3. /\ \A b \in BOOLEAN : Task(d, b) \notin executor
          /\ \A u \in Threads : d \notin requestList[u] /\ d \notin replayList[u]
          /\ d \notin suspending \cup lost /\ \A i : i \notin DOMAIN answers[d]
      BY <1>0, <2>1, NotElsewhere
    <2>4. \A u \in Threads : d \in requestList'[u] <=> u = t
      BY <1>3, <1>2, <2>3
    <2> QED
      BY <1>a, <2>2, <2>3, <2>4 DEF InPlace
  <1>4. ASSUME NEW d \in Requests, d \notin pullRequestList
        PROVE  \A p : InPlace(d, p)' <=> InPlace(d, p)
    BY <1>4, <1>a, <1>1, <1>2, OthersStay
  <1>5. Located'
    BY <1>0, <1>a, <1>3, <1>4, LocatedStep
  <1>6. ExecutorOK' /\ TypeOK'
    BY <1>0, <1>a, <1>b, <1>2 DEF TypeOK, ExecutorOK
  <1>7. ListsInv'
    BY <1>0, <1>a, <1>b, <1>1, <1>2 DEF ListsInv
  <1>8. WokenInv'
    <2>1. \A u \in Threads : thread'[u].maxOffset <= stored
      <3>1. stored \in Nat /\ \A u \in Threads : thread[u].maxOffset <= stored
        BY <1>0 DEF TypeOK, WokenInv, Offsets
      <3> QED
        BY <1>b, <3>1
    <2> QED
      BY <1>0, <1>a, <2>1 DEF WokenInv
  <1>9. NotTooEarly'
    BY <1>0, <1>a DEF NotTooEarly
  <1> QED
    BY <1>5, <1>6, <1>7, <1>8, <1>9, HoldInvParts

\* A request of the thread's list goes to the executor, for a reason that lasts.
LEMMA WakeUpStep ==
  ASSUME HoldInv, NEW t \in Threads, NEW r \in Requests, WakeUp(t, r)
  PROVE  HoldInv'
  <1> USE HoldAssumption DEF storeVars, clientVars
  <1>0. TypeOK /\ ExecutorOK /\ ListsInv /\ Located /\ WokenInv /\ NotTooEarly
    BY HoldInvParts
  <1>a. /\ thread[t].pc = "loop" /\ r \in requestList[t] /\ Wakes(t, r) /\ ~Full
        /\ executor' = executor \cup {Task(r, FALSE)}
        /\ requestList' = [requestList EXCEPT ![t] = @ \ {r}]
        /\ UNCHANGED <<storeVars, clientVars, suspending, pullRequestList, replayList,
                       expired, thread, answers, lost>>
    BY DEF WakeUp
  <1>1. InPlace(r, <<"requestList", t>>)
    BY <1>a DEF InPlace
  <1>2. r \in received /\ \A q : InPlace(r, q) <=> q = <<"requestList", t>>
    BY <1>0, <1>1, OnlyThere
  <1>3. /\ requestList' \in [Threads -> SUBSET Requests]
        /\ requestList'[t] = requestList[t] \ {r}
        /\ \A u \in Threads \ {t} : requestList'[u] = requestList[u]
    BY <1>0, <1>a DEF TypeOK
  <1>4. /\ \A d \in Requests \ {r}, b \in BOOLEAN : Task(d, b) \in executor' <=> Task(d, b) \in executor
        /\ \A b \in BOOLEAN : Task(r, b) \in executor' <=> Task(r, b) \in executor \/ b = FALSE
    BY <1>a, TaskAdded
  <1>5. \A b \in BOOLEAN : Task(r, b) \in executor' <=> b = FALSE
    <2>1. \A b \in BOOLEAN : Task(r, b) \notin executor
      BY <1>0, <1>1, NotElsewhere
    <2> QED
      BY <1>4, <2>1
  <1>6. \A u \in Threads : r \notin requestList'[u] /\ r \notin replayList[u]
    <2>1. \A u \in Threads \ {t} : r \notin requestList[u]
      BY <1>0, <1>1, NotElsewhere
    <2>2. \A u \in Threads : r \notin replayList[u]
      BY <1>0, <1>1, NotElsewhere
    <2> QED
      BY <1>3, <2>1, <2>2
  <1>7. r \notin suspending \cup pullRequestList \cup lost /\ \A i : i \notin DOMAIN answers[r]
    BY <1>0, <1>1, NotElsewhere
  <1>8. \A p : InPlace(r, p)' <=> p = <<"executor", FALSE>>
    BY <1>a, <1>5, <1>6, <1>7 DEF InPlace
  <1>9. \A d \in Requests \ {r} : \A p : InPlace(d, p)' <=> InPlace(d, p)
    BY <1>a, <1>3, <1>4, OthersStay
  <1>10. Located'
    BY <1>0, <1>2, <1>a, <1>8, <1>9, LocatedStep
  <1>11. ExecutorOK'
    BY <1>0, <1>a, ExecutorAdd
  <1>12. TypeOK'
    BY <1>0, <1>a, <1>3, <1>11 DEF TypeOK, ExecutorOK
  <1>13. ListsInv' /\ NotTooEarly'
    BY <1>0, <1>a, <1>3 DEF ListsInv, NotTooEarly
  <1>14. r \in expired \/ offset[r] < stored
    <2>1. /\ offset[r] \in Nat /\ stored \in Nat /\ dispatched \in Nat /\ dispatched <= stored
          /\ thread[t].maxOffset \in Nat /\ thread[t].maxOffset <= stored
      BY <1>0 DEF TypeOK, WokenInv, Offsets
    <2> QED
      BY <1>a, <2>1 DEF Wakes
  <1>15. WokenInv'
    BY <1>0, <1>a, <1>4, <1>14 DEF WokenInv
  <1> QED
    BY <1>10, <1>11, <1>12, <1>13, <1>15, HoldInvParts

LEMMA KeepStep ==
  ASSUME HoldInv, NEW t \in Threads, NEW r \in Requests, KeepHolding(t, r)
  PROVE  HoldInv'
  <1> USE HoldAssumption DEF storeVars, clientVars
  <1>0. TypeOK /\ ExecutorOK /\ ListsInv /\ Located /\ WokenInv /\ NotTooEarly
    BY HoldInvParts
  <1>a. /\ thread[t].pc = "loop" /\ r \in requestList[t]
        /\ requestList' = [requestList EXCEPT ![t] = @ \ {r}]
        /\ replayList' = [replayList EXCEPT ![t] = @ \cup {r}]
        /\ UNCHANGED <<storeVars, clientVars, executor, suspending, pullRequestList,
                       expired, thread, answers, lost>>
    BY DEF KeepHolding
  <1>1. InPlace(r, <<"requestList", t>>)
    BY <1>a DEF InPlace
  <1>2. r \in received /\ \A q : InPlace(r, q) <=> q = <<"requestList", t>>
    BY <1>0, <1>1, OnlyThere
  <1>3. /\ requestList' \in [Threads -> SUBSET Requests]
        /\ requestList'[t] = requestList[t] \ {r}
        /\ \A u \in Threads \ {t} : requestList'[u] = requestList[u]
        /\ replayList' \in [Threads -> SUBSET Requests]
        /\ replayList'[t] = replayList[t] \cup {r}
        /\ \A u \in Threads \ {t} : replayList'[u] = replayList[u]
    BY <1>0, <1>a DEF TypeOK
  <1>4. \A u \in Threads : r \notin requestList'[u] /\ (r \in replayList'[u] <=> u = t)
    <2>1. \A u \in Threads \ {t} : r \notin requestList[u]
      BY <1>0, <1>1, NotElsewhere
    <2>2. \A u \in Threads : r \notin replayList[u]
      BY <1>0, <1>1, NotElsewhere
    <2> QED
      BY <1>3, <2>1, <2>2
  <1>5. /\ r \notin suspending \cup pullRequestList \cup lost /\ \A i : i \notin DOMAIN answers[r]
        /\ \A b \in BOOLEAN : Task(r, b) \notin executor
    BY <1>0, <1>1, NotElsewhere
  <1>6. \A p : InPlace(r, p)' <=> p = <<"replayList", t>>
    BY <1>a, <1>4, <1>5 DEF InPlace
  <1>7. \A d \in Requests \ {r} : \A p : InPlace(d, p)' <=> InPlace(d, p)
    BY <1>a, <1>3, OthersStay
  <1>8. Located'
    BY <1>0, <1>2, <1>a, <1>6, <1>7, LocatedStep
  <1>9. ExecutorOK' /\ TypeOK'
    BY <1>0, <1>a, <1>3 DEF TypeOK, ExecutorOK
  <1>10. ListsInv' /\ NotTooEarly' /\ WokenInv'
    BY <1>0, <1>a, <1>3 DEF ListsInv, NotTooEarly, WokenInv
  <1> QED
    BY <1>8, <1>9, <1>10, HoldInvParts

\* The executor refuses a request: what the thread has in its lists is lost.
LEMMA RejectedStep ==
  ASSUME HoldInv, NEW t \in Threads, NEW r \in Requests, WakeUpRejected(t, r)
  PROVE  HoldInv'
  <1> USE HoldAssumption DEF storeVars, clientVars
  <1>0. TypeOK /\ ExecutorOK /\ ListsInv /\ Located /\ WokenInv /\ NotTooEarly
    BY HoldInvParts
  <1>a. /\ lost' = lost \cup requestList[t] \cup replayList[t]
        /\ requestList' = [requestList EXCEPT ![t] = {}]
        /\ replayList' = [replayList EXCEPT ![t] = {}]
        /\ thread' = [thread EXCEPT ![t] = Idle]
        /\ UNCHANGED <<storeVars, clientVars, executor, suspending, pullRequestList,
                       expired, answers>>
    BY DEF WakeUpRejected
  <1>3. /\ requestList' \in [Threads -> SUBSET Requests] /\ requestList'[t] = {}
        /\ \A u \in Threads \ {t} : requestList'[u] = requestList[u]
        /\ replayList' \in [Threads -> SUBSET Requests] /\ replayList'[t] = {}
        /\ \A u \in Threads \ {t} : replayList'[u] = replayList[u]
    BY <1>0, <1>a DEF TypeOK
  <1>4. ASSUME NEW d \in Requests, d \in requestList[t] \cup replayList[t]
        PROVE  d \in received /\ \A p : InPlace(d, p)' <=> p = <<"lost", d>>
    <2>1. PICK l \in {"requestList", "replayList"} : InPlace(d, <<l, t>>)
      BY <1>4 DEF InPlace
    <2>2. d \in received
      BY <1>0, <2>1, OnlyThere
    <2>3. /\ \A b \in BOOLEAN : Task(d, b) \notin executor
          /\ \A u \in Threads \ {t} : d \notin requestList[u] /\ d \notin replayList[u]
          /\ d \notin suspending \cup pullRequestList /\ \A i : i \notin DOMAIN answers[d]
      BY <1>0, <2>1, NotElsewhere
    <2>4. d \in lost' /\ \A u \in Threads : d \notin requestList'[u] /\ d \notin replayList'[u]
      BY <1>4, <1>a, <1>3, <2>3
    <2> QED
      BY <1>a, <2>2, <2>3, <2>4 DEF InPlace
  <1>5. ASSUME NEW d \in Requests, d \notin requestList[t] \cup replayList[t]
        PROVE  \A p : InPlace(d, p)' <=> InPlace(d, p)
    BY <1>5, <1>a, <1>3, OthersStay
  <1>6. Located'
    BY <1>0, <1>a, <1>4, <1>5, LocatedStep
  <1>7. ExecutorOK' /\ TypeOK'
    BY <1>0, <1>a, <1>3 DEF TypeOK, ExecutorOK, Idle, Offsets
  <1>8. ListsInv'
    BY <1>0, <1>a, <1>3 DEF ListsInv, TypeOK
  <1>9. NotTooEarly' /\ WokenInv'
    <2>1. \A u \in Threads : thread'[u].maxOffset \in {0, thread[u].maxOffset}
      BY <1>0, <1>a DEF Idle, TypeOK
    <2>2. stored \in Nat
      BY <1>0 DEF TypeOK, Offsets
    <2>3. \A u \in Threads : thread[u].maxOffset <= stored
      BY <1>0 DEF WokenInv
    <2>4. \A u \in Threads : thread'[u].maxOffset <= stored
      BY <2>1, <2>2, <2>3
    <2> QED
      BY <1>0, <1>a, <2>4 DEF NotTooEarly, WokenInv
  <1> QED
    BY <1>6, <1>7, <1>8, <1>9, HoldInvParts

\* What was not woken goes back, next to what was suspended meanwhile.
LEMMA ReplayStep ==
  ASSUME HoldInv, NEW t \in Threads, Replay(t)
  PROVE  HoldInv'
  <1> USE HoldAssumption DEF storeVars, clientVars
  <1>0. TypeOK /\ ExecutorOK /\ ListsInv /\ Located /\ WokenInv /\ NotTooEarly
    BY HoldInvParts
  <1>a. /\ requestList[t] = {}
        /\ pullRequestList' = pullRequestList \cup replayList[t]
        /\ replayList' = [replayList EXCEPT ![t] = {}]
        /\ thread' = [thread EXCEPT ![t] = Idle]
        /\ UNCHANGED <<storeVars, clientVars, executor, suspending, requestList, expired,
                       answers, lost>>
    BY DEF Replay
  <1>3. /\ replayList' \in [Threads -> SUBSET Requests] /\ replayList'[t] = {}
        /\ \A u \in Threads \ {t} : replayList'[u] = replayList[u]
    BY <1>0, <1>a DEF TypeOK
  <1>4. ASSUME NEW d \in Requests, d \in replayList[t]
        PROVE  d \in received /\ \A p : InPlace(d, p)' <=> p = <<"pullRequestList", d>>
    <2>1. InPlace(d, <<"replayList", t>>)
      BY <1>4 DEF InPlace
    <2>2. d \in received
      BY <1>0, <2>1, OnlyThere
    <2>3. /\ \A b \in BOOLEAN : Task(d, b) \notin executor
          /\ \A u \in Threads \ {t} : d \notin replayList[u]
          /\ \A u \in Threads : d \notin requestList[u]
          /\ d \notin suspending \cup lost /\ \A i : i \notin DOMAIN answers[d]
      BY <1>0, <2>1, NotElsewhere
    <2>4. d \in pullRequestList' /\ \A u \in Threads : d \notin replayList'[u]
      BY <1>4, <1>a, <1>3, <2>3
    <2> QED
      BY <1>a, <2>2, <2>3, <2>4 DEF InPlace
  <1>5. ASSUME NEW d \in Requests, d \notin replayList[t]
        PROVE  \A p : InPlace(d, p)' <=> InPlace(d, p)
    BY <1>5, <1>a, <1>3, OthersStay
  <1>6. Located'
    BY <1>0, <1>a, <1>4, <1>5, LocatedStep
  <1>7. ExecutorOK' /\ TypeOK'
    BY <1>0, <1>a, <1>3 DEF TypeOK, ExecutorOK, Idle, Offsets
  <1>8. ListsInv'
    BY <1>0, <1>a, <1>3 DEF ListsInv, TypeOK
  <1>9. NotTooEarly' /\ WokenInv'
    <2>1. \A u \in Threads : thread'[u].maxOffset \in {0, thread[u].maxOffset}
      BY <1>0, <1>a DEF Idle, TypeOK
    <2>2. stored \in Nat
      BY <1>0 DEF TypeOK, Offsets
    <2>3. \A u \in Threads : thread[u].maxOffset <= stored
      BY <1>0 DEF WokenInv
    <2>4. \A u \in Threads : thread'[u].maxOffset <= stored
      BY <2>1, <2>2, <2>3
    <2> QED
      BY <1>0, <1>a, <2>4 DEF NotTooEarly, WokenInv
  <1> QED
    BY <1>6, <1>7, <1>8, <1>9, HoldInvParts

\* The steps that move no request: a message is stored or dispatched, time passes,
\* a thread begins to notify.
LEMMA OtherStep ==
  ASSUME HoldInv, Dispatch \/ CheckHoldRequest \/ (\E t \in Senders : PutMessage(t))
                  \/ (\E r \in Requests : Expire(r)) \/ UNCHANGED vars
  PROVE  HoldInv'
  <1> USE HoldAssumption DEF storeVars, clientVars, listVars, vars
  <1>0. TypeOK /\ ExecutorOK /\ ListsInv /\ Located /\ WokenInv /\ NotTooEarly
    BY HoldInvParts
  <1>1. /\ UNCHANGED <<clientVars, executor, suspending, listVars, answers, lost>>
        /\ expired \subseteq expired'
    BY DEF Dispatch, CheckHoldRequest, PutMessage, Expire
  <1>2. expired' \subseteq Requests
    BY <1>0 DEF Dispatch, CheckHoldRequest, PutMessage, Expire, TypeOK
  <1>3. /\ stored' \in Offsets /\ dispatched' \in 0 .. stored' /\ stored <= stored'
        /\ thread' \in [Threads -> [pc : {"idle", "notify", "loop"}, maxOffset : Offsets]]
        /\ \A t \in Threads : thread'[t].maxOffset <= stored'
        /\ \A t \in Threads : thread'[t].pc # "loop" => thread[t].pc # "loop"
    <2> USE DEF TypeOK, Offsets, WokenInv
    <2>1. CASE Dispatch
      BY <1>0, <2>1 DEF Dispatch
    <2>2. CASE CheckHoldRequest
      BY <1>0, <2>2 DEF CheckHoldRequest, Idle, Threads
    <2>3. ASSUME NEW u \in Senders, PutMessage(u) PROVE <1>3!:
      BY <1>0, <2>3 DEF PutMessage, Idle, Threads
    <2>4. CASE (\E r \in Requests : Expire(r)) \/ UNCHANGED vars
      BY <1>0, <2>4 DEF Expire
    <2> QED
      BY <2>1, <2>2, <2>3, <2>4
  <1>4. \A d \in Requests : \A p : InPlace(d, p)' <=> InPlace(d, p)
    BY <1>1, OthersStay
  <1>5. Located'
    BY <1>0, <1>1, <1>4, LocatedStep
  <1>6. ExecutorOK' /\ TypeOK'
    BY <1>0, <1>1, <1>2, <1>3 DEF TypeOK, ExecutorOK
  <1>7. ListsInv'
    BY <1>0, <1>1, <1>3 DEF ListsInv
  <1>8. NotTooEarly' /\ WokenInv'
    <2>1. stored \in Nat /\ stored' \in Nat /\ \A r \in Requests : offset[r] \in Nat
      BY <1>0, <1>3 DEF TypeOK, Offsets
    <2>2. \A r \in Requests : offset[r] < stored => offset'[r] < stored'
      BY <1>1, <1>3, <2>1
    <2> QED
      BY <1>0, <1>1, <1>3, <2>2 DEF NotTooEarly, WokenInv, TypeOK
  <1> QED
    BY <1>5, <1>6, <1>7, <1>8, HoldInvParts

-----------------------------------------------------------------------------
(* The invariant is inductive.                                             *)

LEMMA InitHold == Init => HoldInv
  <1> SUFFICES ASSUME Init PROVE HoldInv
    OBVIOUS
  <1> USE HoldAssumption DEF Init
  <1>1. IsFiniteSet(executor) /\ Cardinality(executor) = 0
    BY FS_EmptySet
  <1>2. TypeOK
    BY <1>1 DEF TypeOK, Offsets, Idle
  <1>3. \A r \in Requests : \A p : ~InPlace(r, p)
    BY DEF InPlace
  <1>4. Located
    BY <1>3, PlacesAre DEF Located
  <1>5. ListsInv /\ WokenInv /\ NotTooEarly
    BY DEF ListsInv, WokenInv, NotTooEarly, Idle
  <1> QED
    BY <1>1, <1>2, <1>4, <1>5 DEF HoldInv

LEMMA PullStepInv ==
  ASSUME HoldInv, NEW r \in Requests, PullStep(r)
  PROVE  HoldInv'
  <1>1. ASSUME NEW first \in BOOLEAN, ProcessRequest(r, first) PROVE HoldInv'
    <2>1. GetMessage(offset[r]) \in Answers
      BY DEF GetMessage, Answers
    <2>2. CASE GetMessage(offset[r]) = "notfound" /\ first /\ r \in hasSuspendFlag
      BY <1>1, <2>2, SuspendingStep DEF ProcessRequest
    <2>3. CASE ~(GetMessage(offset[r]) = "notfound" /\ first /\ r \in hasSuspendFlag)
      BY <1>1, <2>1, <2>3, AnswerStep DEF ProcessRequest
    <2> QED
      BY <2>2, <2>3
  <1>2. ASSUME NEW first \in BOOLEAN, RefuseRequest(r, first) PROVE HoldInv'
    <2>1. "refused" \in Answers /\ "refused" # "notfound"
      BY DEF Answers
    <2> QED
      BY <1>2, <2>1, AnswerStep DEF RefuseRequest
  <1> QED
    BY <1>1, <1>2, SuspendStep DEF PullStep

LEMMA NextHold == HoldInv /\ [Next]_vars => HoldInv'
  <1> SUFFICES ASSUME HoldInv, [Next]_vars PROVE HoldInv'
    OBVIOUS
  <1>1. ASSUME NEW t \in Threads, NotifyStep(t) PROVE HoldInv'
    BY <1>1, CloneStep, WakeUpStep, KeepStep, RejectedStep, ReplayStep DEF NotifyStep
  <1>2. ASSUME NEW r \in Requests, Receive(r) \/ Expire(r) \/ PullStep(r) PROVE HoldInv'
    BY <1>2, ReceiveStep, PullStepInv, OtherStep
  <1>3. CASE Dispatch \/ CheckHoldRequest \/ (\E t \in Senders : PutMessage(t)) \/ UNCHANGED vars
    BY <1>3, OtherStep
  <1> QED
    BY <1>1, <1>2, <1>3 DEF Next

\* Where the held requests are, for any number of requests, senders and messages.
THEOREM HoldInductive == Spec => []HoldInv
<1>1. QED
  BY InitHold, NextHold, PTL DEF Spec

\* Every pull request that came in is in exactly one place: the threads that take
\* ManyPullRequest's list and put it back lose none, duplicate none, and none
\* is answered twice.
THEOREM OnePlace == Spec => []InOnePlace
<1>1. HoldInv => InOnePlace
  <2> SUFFICES ASSUME HoldInv, NEW r \in received PROVE Cardinality(Places(r)) = 1
    BY DEF HoldInv, InOnePlace
  <2>1. PICK p \in Places(r) : Places(r) = {p}
    BY DEF HoldInv, Located, TypeOK
  <2> QED
    BY <2>1, FS_Singleton
<1>2. QED
  BY <1>1, HoldInductive, PTL

\* A request that may be suspended is told PULL_NOT_FOUND only when its time is
\* over or a message it waits for is stored.
THEOREM NotEarly == Spec => []NotTooEarly
<1>1. HoldInv => NotTooEarly
  BY DEF HoldInv
<1>2. QED
  BY <1>1, HoldInductive, PTL

=============================================================================
