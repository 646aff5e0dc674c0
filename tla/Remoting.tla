------------------------------ MODULE Remoting ------------------------------
(***************************************************************************)
(* Calls over one channel, as NettyRemotingAbstract makes them: synchronous *)
(* calls, asynchronous calls with a callback, and one-way calls.           *)
(*                                                                         *)
(* Four threads complete an asynchronous call, in any order and at the     *)
(* same time: the invoker, the channel's thread that runs the listener of  *)
(* the write, the thread that handles the answers, and the timer that      *)
(* scans the table for calls that are overdue.  Whatever they do, the      *)
(* callback runs and the permit goes back, once.                           *)
(*                                                                         *)
(* The other side may answer, answer twice (a processor that has answered  *)
(* and then throws) or never.  An opaque stands for one call; that the     *)
(* counter wraps around after 2^32 calls is left out.                      *)
(*                                                                         *)
(* Bounds: the calls of one set of Together are made; a call is answered    *)
(* once, those in Twice up to two times.                                   *)
(***************************************************************************)
EXTENDS Integers, Sequences, FiniteSets

CONSTANTS Sync, Async, Oneway, \* the calls
          NoCall,              \* not a call
          Permits,             \* of semaphoreAsync and of semaphoreOneway
          Together,            \* bound: sets of calls that are made together
          Twice                \* bound: the calls that may be answered twice

Calls == Sync \cup Async \cup Oneway

ASSUME RemotingAssumption ==
    /\ Sync \cap Async = {} /\ Sync \cap Oneway = {} /\ Async \cap Oneway = {}
    /\ NoCall \notin Calls
    /\ Permits \in Nat \ {0} /\ Twice \subseteq Calls
    /\ Together \subseteq SUBSET Calls

VARIABLES
    invoker,       \* where the invoking thread of each call is
    permits,       \* the two semaphores
    responseTable, \* calls in the table
    age,           \* of each ResponseFuture: young, timedOut, expired
    wire,          \* what became of writing the request
    answered, read, \* answers sent by the other side, and those handled here
    responseCommand, latch, executed, released, \* calls with these fields set
    reader, scanner, \* the thread that handles answers, and the timer
    callbackTasks,   \* callbacks waiting in the callback executor
    outcome          \* per call, what callback or invoker were given

threadVars == <<invoker, wire, reader, scanner, callbackTasks>>
futureVars == <<responseCommand, latch, executed, released>>
remoteVars == <<answered, read>>
vars == <<threadVars, permits, responseTable, age, remoteVars, futureVars, outcome>>

Semaphores == {"async", "oneway"}
Semaphore(c) == IF c \in Async THEN "async" ELSE "oneway"

Idle == [call |-> NoCall, pc |-> "idle"]

Init ==
    /\ \E made \in Together :
          invoker = [c \in Calls |-> IF c \in made THEN "new" ELSE "unused"]
    /\ permits = [s \in Semaphores |-> Permits]
    /\ responseTable = {}
    /\ age = [c \in Calls |-> "young"]
    /\ wire = [c \in Calls |-> "none"]
    /\ answered = [c \in Calls |-> 0] /\ read = [c \in Calls |-> 0]
    /\ responseCommand = {} /\ latch = {} /\ executed = {} /\ released = {}
    /\ reader = Idle /\ scanner = Idle /\ callbackTasks = {}
    /\ outcome = [c \in Calls |-> << >>]

-----------------------------------------------------------------------------
(* ResponseFuture                                                          *)

\* Mutant of Release: released once per caller.
ReleaseAgain(c) ==
    /\ IF c \in Sync THEN UNCHANGED permits
       ELSE permits' = [permits EXCEPT ![Semaphore(c)] = @ + 1]
    /\ released' = released \cup {c}

\* SemaphoreReleaseOnlyOnce; the future of a synchronous call has none.
Release(c) ==
    IF c \in Sync \cup released THEN UNCHANGED <<permits, released>>
    ELSE /\ released' = released \cup {c}
         /\ permits' = [permits EXCEPT ![Semaphore(c)] = @ + 1]

Complete(c) ==
    outcome' = [outcome EXCEPT ![c] =
        Append(@, IF c \in responseCommand THEN "answer" ELSE "none")]

\* Mutant of ExecuteInvokeCallback: the flag is not tested.
ExecuteInvokeCallbackAgain(c) ==
    IF c \in Async THEN executed' = executed \cup {c} /\ Complete(c)
                   ELSE UNCHANGED <<executed, outcome>>

ExecuteInvokeCallback(c) ==
    IF c \in Async \ executed
    THEN executed' = executed \cup {c} /\ Complete(c)
    ELSE UNCHANGED <<executed, outcome>>

-----------------------------------------------------------------------------
(* The invoker                                                             *)

At(c, from, to) ==
    /\ invoker[c] = from
    /\ invoker' = [invoker EXCEPT ![c] = to]

Acquire(c) ==
    /\ c \in Async \cup Oneway /\ permits[Semaphore(c)] > 0
    /\ At(c, "new", "acquired")
    /\ permits' = [permits EXCEPT ![Semaphore(c)] = @ - 1]
    /\ UNCHANGED <<wire, reader, scanner, callbackTasks, responseTable, age,
                   remoteVars, futureVars, outcome>>

\* The time to wait for a permit is over.
AcquireFails(c) ==
    /\ c \in Async \cup Oneway /\ permits[Semaphore(c)] = 0
    /\ At(c, "new", "refused")
    /\ UNCHANGED <<wire, reader, scanner, callbackTasks, permits, responseTable, age,
                   remoteVars, futureVars, outcome>>

PutFuture(c) ==
    /\ \/ c \in Sync /\ At(c, "new", "put")
       \/ c \in Async /\ At(c, "acquired", "put")
    /\ responseTable' = responseTable \cup {c}
    /\ UNCHANGED <<wire, reader, scanner, callbackTasks, permits, age, remoteVars,
                   futureVars, outcome>>

Write(c) ==
    /\ \/ c \in Sync /\ At(c, "put", "waiting")
       \/ c \in Async /\ At(c, "put", "returned")
       \/ c \in Oneway /\ At(c, "acquired", "returned")
    /\ wire' = [wire EXCEPT ![c] = "writing"]
    /\ UNCHANGED <<reader, scanner, callbackTasks, permits, responseTable, age,
                   remoteVars, futureVars, outcome>>

\* writeAndFlush throws: an asynchronous call keeps its future in the table.
WriteThrows(c) ==
    /\ IF c \in Oneway THEN At(c, "acquired", "threw") ELSE At(c, "put", "threw")
    /\ Release(c)
    /\ responseTable' = responseTable \ (Sync \cap {c})
    /\ UNCHANGED <<wire, reader, scanner, callbackTasks, age, remoteVars,
                   responseCommand, latch, executed, outcome>>

\* waitResponse ends with the latch or with the timeout; finally the future goes.
WaitEnds(c) ==
    /\ c \in latch \/ age[c] # "young"
    /\ At(c, "waiting", "returned")
    /\ Complete(c)
    /\ responseTable' = responseTable \ {c}
    /\ UNCHANGED <<wire, reader, scanner, callbackTasks, permits, age, remoteVars,
                   futureVars>>

-----------------------------------------------------------------------------
(* The channel: the request leaves, and then the listener is told.         *)

Flush(c) ==
    /\ wire[c] = "writing"
    /\ wire' = [wire EXCEPT ![c] = "flushed"]
    /\ UNCHANGED <<invoker, reader, scanner, callbackTasks, permits, responseTable, age,
                   remoteVars, futureVars, outcome>>

ListenerSucceeds(c) ==
    /\ wire[c] = "flushed"
    /\ wire' = [wire EXCEPT ![c] = "sent"]
    /\ IF c \in Oneway THEN Release(c) ELSE UNCHANGED <<permits, released>>
    /\ UNCHANGED <<invoker, reader, scanner, callbackTasks, responseTable, age,
                   remoteVars, responseCommand, latch, executed, outcome>>

\* The send failed: putResponse(null) and the future goes; for an asynchronous
\* call the callback and the permit are next.
ListenerFails(c) ==
    /\ wire[c] = "writing"
    /\ wire' = [wire EXCEPT ![c] = IF c \in Async THEN "callback" ELSE "failed"]
    /\ responseTable' = responseTable \ {c}
    /\ responseCommand' = responseCommand \ {c}
    /\ latch' = IF c \in Oneway THEN latch ELSE latch \cup {c}
    /\ IF c \in Oneway THEN Release(c) ELSE UNCHANGED <<permits, released>>
    /\ UNCHANGED <<invoker, reader, scanner, callbackTasks, age, remoteVars, executed,
                   outcome>>

FailCallback(c) ==
    /\ wire[c] = "callback"
    /\ wire' = [wire EXCEPT ![c] = "release"]
    /\ ExecuteInvokeCallback(c)
    /\ UNCHANGED <<invoker, reader, scanner, callbackTasks, permits, responseTable, age,
                   remoteVars, responseCommand, latch, released>>

FailRelease(c) ==
    /\ wire[c] = "release"
    /\ wire' = [wire EXCEPT ![c] = "failed"]
    /\ Release(c)
    /\ UNCHANGED <<invoker, reader, scanner, callbackTasks, responseTable, age,
                   remoteVars, responseCommand, latch, executed, outcome>>

\* The other side answers.
Answer(c) ==
    /\ c \notin Oneway /\ wire[c] \in {"flushed", "sent"}
    /\ answered[c] < IF c \in Twice THEN 2 ELSE 1
    /\ answered' = [answered EXCEPT ![c] = @ + 1]
    /\ UNCHANGED <<threadVars, permits, responseTable, age, read, futureVars, outcome>>

-----------------------------------------------------------------------------
(* processResponseCommand, for one answer at a time.                       *)

Goes(thread, from, c, to) ==
    /\ thread = [call |-> c, pc |-> from]
    /\ thread' = IF to = "idle" THEN Idle ELSE [call |-> c, pc |-> to]

\* An answer whose call is not in the table any more is dropped.
GetFuture(c) ==
    /\ reader = Idle /\ read[c] < answered[c]
    /\ read' = [read EXCEPT ![c] = @ + 1]
    /\ reader' = IF c \in responseTable THEN [call |-> c, pc |-> "set"] ELSE Idle
    /\ UNCHANGED <<invoker, wire, scanner, callbackTasks, permits, responseTable, age,
                   answered, futureVars, outcome>>

SetResponse(c) ==
    /\ Goes(reader, "set", c, "remove")
    /\ responseCommand' = responseCommand \cup {c}
    /\ UNCHANGED <<invoker, wire, scanner, callbackTasks, permits, responseTable, age,
                   remoteVars, latch, executed, released, outcome>>

\* Mutant of RemoveFuture: the permit is left to the callback.
RemoveFutureOnly(c) ==
    /\ Goes(reader, "remove", c, "complete")
    /\ responseTable' = responseTable \ {c}
    /\ UNCHANGED <<invoker, wire, scanner, callbackTasks, permits, age, remoteVars,
                   futureVars, outcome>>

RemoveFuture(c) ==
    /\ Goes(reader, "remove", c, "complete")
    /\ Release(c)
    /\ responseTable' = responseTable \ {c}
    /\ UNCHANGED <<invoker, wire, scanner, callbackTasks, age, remoteVars,
                   responseCommand, latch, executed, outcome>>

SubmitCallback(c) ==
    /\ c \in Async /\ Goes(reader, "complete", c, "idle")
    /\ callbackTasks' = callbackTasks \cup {c}
    /\ UNCHANGED <<invoker, wire, scanner, permits, responseTable, age, remoteVars,
                   futureVars, outcome>>

\* There is no callback executor, or it refuses the task.
RunInThisThread(c) ==
    /\ c \in Async /\ Goes(reader, "complete", c, "idle")
    /\ ExecuteInvokeCallback(c)
    /\ UNCHANGED <<invoker, wire, scanner, callbackTasks, permits, responseTable, age,
                   remoteVars, responseCommand, latch, released>>

PutResponse(c) ==
    /\ c \in Sync /\ Goes(reader, "complete", c, "idle")
    /\ latch' = latch \cup {c}
    /\ UNCHANGED <<invoker, wire, scanner, callbackTasks, permits, responseTable, age,
                   remoteVars, responseCommand, executed, released, outcome>>

RunCallback(c) ==
    /\ c \in callbackTasks
    /\ callbackTasks' = callbackTasks \ {c}
    /\ ExecuteInvokeCallback(c)
    /\ UNCHANGED <<invoker, wire, reader, scanner, permits, responseTable, age,
                   remoteVars, responseCommand, latch, released>>

-----------------------------------------------------------------------------
(* Time, and scanResponseTable.                                            *)

\* The timeout of the call passes, which only a waiting invoker notices, and
\* then the second the scan leaves it.
Pass(c) ==
    /\ invoker[c] \in {"put", "waiting", "returned", "threw"} /\ c \notin Oneway
    /\ age[c] # "expired"
    /\ age' = [age EXCEPT ![c] = IF @ = "young" /\ c \in Sync THEN "timedOut" ELSE "expired"]
    /\ UNCHANGED <<threadVars, permits, responseTable, remoteVars, futureVars, outcome>>

\* Mutant of ScanOverdue: the scan does not leave the call its time.
ScanEvery(c) ==
    /\ scanner = Idle /\ c \in responseTable
    /\ scanner' = [call |-> c, pc |-> "callback"]
    /\ UNCHANGED <<invoker, wire, reader, callbackTasks, permits, responseTable, age,
                   remoteVars, futureVars, outcome>>

ScanOverdue(c) ==
    /\ scanner = Idle /\ c \in responseTable /\ age[c] = "expired"
    /\ scanner' = [call |-> c, pc |-> "callback"]
    /\ UNCHANGED <<invoker, wire, reader, callbackTasks, permits, responseTable, age,
                   remoteVars, futureVars, outcome>>

\* Meanwhile the answer may have come.
ScanCallback(c) ==
    /\ Goes(scanner, "callback", c, "release")
    /\ responseTable' = responseTable \ {c}
    /\ ExecuteInvokeCallback(c)
    /\ UNCHANGED <<invoker, wire, reader, callbackTasks, permits, age, remoteVars,
                   responseCommand, latch, released>>

ScanRelease(c) ==
    /\ Goes(scanner, "release", c, "idle")
    /\ Release(c)
    /\ UNCHANGED <<invoker, wire, reader, callbackTasks, responseTable, age, remoteVars,
                   responseCommand, latch, executed, outcome>>

-----------------------------------------------------------------------------
InvokerStep(c) == PutFuture(c) \/ Write(c) \/ WriteThrows(c) \/ WaitEnds(c)

ChannelStep(c) ==
    \/ Flush(c) \/ ListenerSucceeds(c)
    \/ ListenerFails(c) \/ FailCallback(c) \/ FailRelease(c)

ReaderStep(c) ==
    \/ GetFuture(c) \/ SetResponse(c) \/ RemoveFuture(c)
    \/ SubmitCallback(c) \/ RunInThisThread(c) \/ PutResponse(c)

ScannerStep(c) == ScanOverdue(c) \/ ScanCallback(c) \/ ScanRelease(c)

Next == \E c \in Calls :
    \/ Acquire(c) \/ AcquireFails(c) \/ InvokerStep(c)
    \/ ChannelStep(c) \/ Answer(c)
    \/ ReaderStep(c) \/ RunCallback(c)
    \/ Pass(c) \/ ScannerStep(c)

Spec == Init /\ [][Next]_vars

\* Threads keep running and time passes; nothing is assumed of the other side.
\* A call takes finitely many steps, so it is enough that some thread goes on.
Progress == \E c \in Calls :
    \/ InvokerStep(c) \/ ChannelStep(c) \/ ReaderStep(c) \/ RunCallback(c)
    \/ Pass(c) \/ ScannerStep(c)

FairSpec == Spec /\ WF_vars(Progress)

-----------------------------------------------------------------------------
(* Properties                                                              *)

TypeOK ==
    /\ invoker \in [Calls -> {"unused", "new", "acquired", "refused", "put",
                              "waiting", "returned", "threw"}]
    /\ permits \in [Semaphores -> 0 .. Permits]
    /\ responseTable \subseteq Calls /\ responseCommand \subseteq Calls
    /\ latch \subseteq Calls /\ executed \subseteq Calls /\ released \subseteq Calls
    /\ callbackTasks \subseteq Calls
    /\ age \in [Calls -> {"young", "timedOut", "expired"}]
    /\ wire \in [Calls -> {"none", "writing", "flushed", "sent", "callback", "release",
                           "failed"}]
    /\ answered \in [Calls -> 0 .. 2] /\ read \in [Calls -> 0 .. 2]
    /\ reader \in [call : Calls \cup {NoCall}, pc : {"idle", "set", "remove", "complete"}]
    /\ scanner \in [call : Calls \cup {NoCall}, pc : {"idle", "callback", "release"}]
    /\ outcome \in [Calls -> Seq({"answer", "none"})]

HoldsPermit(c) ==
    invoker[c] \notin {"unused", "new", "refused"} /\ c \notin released /\ c \notin Sync

Holders(s) == { c \in Calls \ Sync : Semaphore(c) = s /\ HoldsPermit(c) }

\* Nobody works on the call any more, or ever will.
Over(c) ==
    /\ invoker[c] \in {"returned", "threw"} /\ wire[c] \in {"none", "sent", "failed"}
    /\ c \notin responseTable \cup callbackTasks
    /\ reader.call # c /\ scanner.call # c

\* No permit is returned twice and none is invented, although up to four
\* threads release the one of a call; and it is back when they are done with the
\* call: none of them leaves that to another that does not do it.
PermitsConserved ==
    /\ TypeOK
    /\ \A s \in Semaphores : permits[s] + Cardinality(Holders(s)) = Permits
    /\ \A c \in Calls : Over(c) => ~HoldsPermit(c)

\* The callback runs exactly once: never twice, and when everybody is done with
\* the call it has run.  The invoker gets at most one result.
CompletedOnce == \A c \in Calls :
    /\ Len(outcome[c]) <= 1
    /\ c \in Async /\ Over(c) => outcome[c] # << >>

\* A call is reported as failed only when its time is over or its request was
\* not sent: a call that was answered in time never ends without its answer.
NoFalseFailure == \A c \in Calls :
    outcome[c] = <<"none">> =>
       age[c] # "young" \/ wire[c] \in {"callback", "release", "failed"}

\* Every call that gets its permit ends, with a result and without the permit,
\* although the other side may never answer.
Ends == \A c \in Calls :
    invoker[c] \in {"acquired", "put"} ~>
       /\ c \notin responseTable
       /\ c \in Async \cup Oneway => c \in released
       /\ c \in Async => outcome[c] # << >>

-----------------------------------------------------------------------------
(* The inductive invariant of the proofs, in five parts.                   *)

\* The invoker has come as far as the table or the channel.
Under(c) == invoker[c] \in {"put", "waiting", "returned", "threw"}

\* Where a call can be: only calls under way are in the table, with a thread or
\* on the channel, and each kind of call goes its own way.
StageInv ==
    /\ callbackTasks \subseteq Async
    /\ reader.pc = "idle" <=> reader.call = NoCall
    /\ scanner.pc = "idle" <=> scanner.call = NoCall
    /\ \A c \in Calls :
          /\ (c \in responseTable \/ reader.call = c \/ scanner.call = c)
                => c \notin Oneway /\ Under(c)
          /\ c \in released => c \notin Sync /\ Under(c)
          /\ wire[c] # "none" => invoker[c] \in {"waiting", "returned"}
          /\ wire[c] \in {"callback", "release"} => c \in Async
          /\ invoker[c] = "put" => c \notin Oneway
          /\ invoker[c] = "waiting" => c \in Sync
          /\ invoker[c] = "acquired" => c \notin Sync

\* The permits are those that nobody holds.
PermitInv == \A s \in Semaphores :
    IsFiniteSet(Holders(s)) /\ permits[s] + Cardinality(Holders(s)) = Permits

\* Who is going to return the permit, and to run the callback, of a call.
OwedInv == \A c \in Calls :
    /\ c \in Async /\ Under(c) =>
          \/ c \in released \cup responseTable
          \/ wire[c] \in {"callback", "release"}
          \/ scanner.call = c /\ scanner.pc = "release"
    /\ c \in Async /\ Under(c) =>
          \/ c \in executed \cup responseTable \cup callbackTasks
          \/ wire[c] = "callback"
          \/ reader.call = c /\ reader.pc = "complete"
    /\ c \in Oneway /\ Under(c) => c \in released \/ wire[c] \in {"writing", "flushed"}

\* The flag of the future and the runs of the callback.
OutcomeInv == \A c \in Calls :
    /\ Len(outcome[c]) <= 1
    /\ c \in Async /\ c \notin executed => outcome[c] = << >>
    /\ c \in Async /\ c \in executed => outcome[c] # << >>
    /\ c \in Sync /\ invoker[c] # "returned" => outcome[c] = << >>

\* An answer is only there for a request that left, so that the listener does
\* not take it away again, and whoever completes a call with an answer has it.
AnswerInv == \A c \in Calls :
    /\ (c \in responseCommand \/ answered[c] > 0 \/ reader.call = c)
          => wire[c] \in {"flushed", "sent"}
    /\ reader.call = c /\ reader.pc \in {"remove", "complete"} => c \in responseCommand
    /\ c \in callbackTasks => c \in responseCommand
    /\ c \in latch => c \in responseCommand \/ wire[c] \in {"callback", "release", "failed"}
    /\ scanner.call = c /\ scanner.pc = "callback" => age[c] = "expired"

CallInv ==
    /\ TypeOK /\ StageInv /\ PermitInv /\ OwedInv
    /\ OutcomeInv /\ AnswerInv /\ NoFalseFailure

=============================================================================
