--------------------------- MODULE RemotingProofs ---------------------------
(***************************************************************************)
(* Proofs about Remoting, for every set of calls of each kind, every       *)
(* number of permits and whatever the other side answers.                  *)
(***************************************************************************)
EXTENDS Remoting, FiniteSetTheorems, TLAPS

(* The step that one call takes.                                           *)
Step(c) ==
    \/ Acquire(c) \/ AcquireFails(c) \/ InvokerStep(c)
    \/ ChannelStep(c) \/ Answer(c)
    \/ ReaderStep(c) \/ RunCallback(c)
    \/ Pass(c) \/ ScannerStep(c)

LEMMA AppendEmpty ==
  ASSUME NEW x \in {"answer", "none"}
  PROVE  Append(<< >>, x) = << x >>
  OBVIOUS

\* What executeInvokeCallback does for a future whose flag tells the truth.
LEMMA Executed ==
  ASSUME CallInv, NEW c \in Calls, ExecuteInvokeCallback(c)
  PROVE  /\ outcome' \in [Calls -> Seq({"answer", "none"})]
         /\ executed \subseteq executed' /\ executed' \subseteq executed \cup (Async \cap {c})
         /\ c \in Async => c \in executed' /\ outcome'[c] # << >>
         /\ c \in Async \ executed =>
               outcome'[c] = << IF c \in responseCommand THEN "answer" ELSE "none" >>
         /\ \A d \in Calls : d # c \/ d \notin Async \ executed => outcome'[d] = outcome[d]
  <1> USE DEF CallInv, TypeOK, OutcomeInv
  <1>1. CASE c \in Async \ executed
    <2>1. outcome[c] = << >> /\ executed' = executed \cup {c}
      BY <1>1 DEF ExecuteInvokeCallback
    <2>2. outcome' = [outcome EXCEPT ![c] =
                        << IF c \in responseCommand THEN "answer" ELSE "none" >>]
      BY <1>1, <2>1, AppendEmpty DEF ExecuteInvokeCallback, Complete
    <2> QED
      BY <1>1, <2>1, <2>2
  <1>2. CASE c \notin Async \ executed
    BY <1>2 DEF ExecuteInvokeCallback
  <1> QED
    BY <1>1, <1>2

LEMMA StageStep ==
  ASSUME CallInv, NEW c \in Calls, Step(c)
  PROVE  StageInv'
  <1> USE RemotingAssumption DEF CallInv, TypeOK, StageInv, Under, Calls,
          threadVars, futureVars, remoteVars
  <1>1. CASE Acquire(c)
    BY <1>1 DEF Acquire, At
  <1>2. CASE AcquireFails(c)
    BY <1>2 DEF AcquireFails, At
  <1>3. CASE PutFuture(c)
    BY <1>3 DEF PutFuture, At
  <1>4. CASE Write(c)
    BY <1>4 DEF Write, At
  <1>5. CASE WriteThrows(c)
    BY <1>5 DEF WriteThrows, At, Release
  <1>6. CASE WaitEnds(c)
    BY <1>6 DEF WaitEnds, At, Complete
  <1>7. CASE Flush(c)
    BY <1>7 DEF Flush
  <1>8. CASE ListenerSucceeds(c)
    BY <1>8 DEF ListenerSucceeds, Release
  <1>9. CASE ListenerFails(c)
    BY <1>9 DEF ListenerFails, Release
  <1>10. CASE FailCallback(c)
    BY <1>10 DEF FailCallback, ExecuteInvokeCallback, Complete
  <1>11. CASE FailRelease(c)
    BY <1>11 DEF FailRelease, Release
  <1>12. CASE Answer(c)
    BY <1>12 DEF Answer
  <1>13. CASE GetFuture(c)
    BY <1>13 DEF GetFuture, Idle
  <1>14. CASE SetResponse(c)
    BY <1>14 DEF SetResponse, Goes
  <1>15. CASE RemoveFuture(c)
    BY <1>15 DEF RemoveFuture, Goes, Release
  <1>16. CASE SubmitCallback(c)
    BY <1>16 DEF SubmitCallback, Goes, Idle
  <1>17. CASE RunInThisThread(c)
    BY <1>17 DEF RunInThisThread, Goes, Idle, ExecuteInvokeCallback, Complete
  <1>18. CASE PutResponse(c)
    BY <1>18 DEF PutResponse, Goes, Idle
  <1>19. CASE RunCallback(c)
    BY <1>19 DEF RunCallback, ExecuteInvokeCallback, Complete
  <1>20. CASE Pass(c)
    BY <1>20 DEF Pass
  <1>21. CASE ScanOverdue(c)
    BY <1>21 DEF ScanOverdue, Idle
  <1>22. CASE ScanCallback(c)
    BY <1>22 DEF ScanCallback, Goes, ExecuteInvokeCallback, Complete
  <1>23. CASE ScanRelease(c)
    BY <1>23 DEF ScanRelease, Goes, Idle, Release
  <1> QED
    BY <1>1, <1>2, <1>3, <1>4, <1>5, <1>6, <1>7, <1>8, <1>9, <1>10, <1>11, <1>12, <1>13, <1>14, <1>15, <1>16, <1>17, <1>18, <1>19, <1>20, <1>21, <1>22, <1>23
       DEF Step, InvokerStep, ChannelStep, ReaderStep, ScannerStep

LEMMA OwedStep ==
  ASSUME CallInv, NEW c \in Calls, Step(c)
  PROVE  OwedInv'
  <1> USE RemotingAssumption DEF CallInv, TypeOK, StageInv, Under, Calls, OwedInv,
          threadVars, futureVars, remoteVars
  <1>1. CASE Acquire(c)
    BY <1>1 DEF Acquire, At
  <1>2. CASE AcquireFails(c)
    BY <1>2 DEF AcquireFails, At
  <1>3. CASE PutFuture(c)
    BY <1>3 DEF PutFuture, At
  <1>4. CASE Write(c)
    BY <1>4 DEF Write, At
  <1>5. CASE WriteThrows(c)
    BY <1>5 DEF WriteThrows, At, Release
  <1>6. CASE WaitEnds(c)
    BY <1>6 DEF WaitEnds, At, Complete
  <1>7. CASE Flush(c)
    BY <1>7 DEF Flush
  <1>8. CASE ListenerSucceeds(c)
    BY <1>8 DEF ListenerSucceeds, Release
  <1>9. CASE ListenerFails(c)
    BY <1>9 DEF ListenerFails, Release
  <1>10. CASE FailCallback(c)
    BY <1>10 DEF FailCallback, ExecuteInvokeCallback, Complete
  <1>11. CASE FailRelease(c)
    BY <1>11 DEF FailRelease, Release
  <1>12. CASE Answer(c)
    BY <1>12 DEF Answer
  <1>13. CASE GetFuture(c)
    BY <1>13 DEF GetFuture, Idle
  <1>14. CASE SetResponse(c)
    BY <1>14 DEF SetResponse, Goes
  <1>15. CASE RemoveFuture(c)
    BY <1>15 DEF RemoveFuture, Goes, Release
  <1>16. CASE SubmitCallback(c)
    BY <1>16 DEF SubmitCallback, Goes, Idle
  <1>17. CASE RunInThisThread(c)
    BY <1>17 DEF RunInThisThread, Goes, Idle, ExecuteInvokeCallback, Complete
  <1>18. CASE PutResponse(c)
    BY <1>18 DEF PutResponse, Goes, Idle
  <1>19. CASE RunCallback(c)
    BY <1>19 DEF RunCallback, ExecuteInvokeCallback, Complete
  <1>20. CASE Pass(c)
    BY <1>20 DEF Pass
  <1>21. CASE ScanOverdue(c)
    BY <1>21 DEF ScanOverdue, Idle
  <1>22. CASE ScanCallback(c)
    BY <1>22 DEF ScanCallback, Goes, ExecuteInvokeCallback, Complete
  <1>23. CASE ScanRelease(c)
    BY <1>23 DEF ScanRelease, Goes, Idle, Release
  <1> QED
    BY <1>1, <1>2, <1>3, <1>4, <1>5, <1>6, <1>7, <1>8, <1>9, <1>10, <1>11, <1>12, <1>13, <1>14, <1>15, <1>16, <1>17, <1>18, <1>19, <1>20, <1>21, <1>22, <1>23
       DEF Step, InvokerStep, ChannelStep, ReaderStep, ScannerStep

LEMMA OutcomeStep ==
  ASSUME CallInv, NEW c \in Calls, Step(c)
  PROVE  OutcomeInv'
  <1> USE RemotingAssumption DEF CallInv, TypeOK, StageInv, Under, Calls, OutcomeInv,
          threadVars, futureVars, remoteVars
  <1>1. CASE Acquire(c)
    BY <1>1 DEF Acquire, At
  <1>2. CASE AcquireFails(c)
    BY <1>2 DEF AcquireFails, At
  <1>3. CASE PutFuture(c)
    BY <1>3 DEF PutFuture, At
  <1>4. CASE Write(c)
    BY <1>4 DEF Write, At
  <1>5. CASE WriteThrows(c)
    BY <1>5 DEF WriteThrows, At, Release
  <1>6. CASE WaitEnds(c)
    BY <1>6 DEF WaitEnds, At, Complete
  <1>7. CASE Flush(c)
    BY <1>7 DEF Flush
  <1>8. CASE ListenerSucceeds(c)
    BY <1>8 DEF ListenerSucceeds, Release
  <1>9. CASE ListenerFails(c)
    BY <1>9 DEF ListenerFails, Release
  <1>10. CASE FailCallback(c)
    BY <1>10 DEF FailCallback, ExecuteInvokeCallback, Complete
  <1>11. CASE FailRelease(c)
    BY <1>11 DEF FailRelease, Release
  <1>12. CASE Answer(c)
    BY <1>12 DEF Answer
  <1>13. CASE GetFuture(c)
    BY <1>13 DEF GetFuture, Idle
  <1>14. CASE SetResponse(c)
    BY <1>14 DEF SetResponse, Goes
  <1>15. CASE RemoveFuture(c)
    BY <1>15 DEF RemoveFuture, Goes, Release
  <1>16. CASE SubmitCallback(c)
    BY <1>16 DEF SubmitCallback, Goes, Idle
  <1>17. CASE RunInThisThread(c)
    BY <1>17 DEF RunInThisThread, Goes, Idle, ExecuteInvokeCallback, Complete
  <1>18. CASE PutResponse(c)
    BY <1>18 DEF PutResponse, Goes, Idle
  <1>19. CASE RunCallback(c)
    BY <1>19 DEF RunCallback, ExecuteInvokeCallback, Complete
  <1>20. CASE Pass(c)
    BY <1>20 DEF Pass
  <1>21. CASE ScanOverdue(c)
    BY <1>21 DEF ScanOverdue, Idle
  <1>22. CASE ScanCallback(c)
    BY <1>22 DEF ScanCallback, Goes, ExecuteInvokeCallback, Complete
  <1>23. CASE ScanRelease(c)
    BY <1>23 DEF ScanRelease, Goes, Idle, Release
  <1> QED
    BY <1>1, <1>2, <1>3, <1>4, <1>5, <1>6, <1>7, <1>8, <1>9, <1>10, <1>11, <1>12, <1>13, <1>14, <1>15, <1>16, <1>17, <1>18, <1>19, <1>20, <1>21, <1>22, <1>23
       DEF Step, InvokerStep, ChannelStep, ReaderStep, ScannerStep

LEMMA AnswerStep ==
  ASSUME CallInv, NEW c \in Calls, Step(c)
  PROVE  AnswerInv'
  <1> USE RemotingAssumption DEF CallInv, TypeOK, StageInv, Under, Calls, AnswerInv,
          threadVars, futureVars, remoteVars
  <1>1. CASE Acquire(c)
    BY <1>1 DEF Acquire, At
  <1>2. CASE AcquireFails(c)
    BY <1>2 DEF AcquireFails, At
  <1>3. CASE PutFuture(c)
    BY <1>3 DEF PutFuture, At
  <1>4. CASE Write(c)
    BY <1>4 DEF Write, At
  <1>5. CASE WriteThrows(c)
    BY <1>5 DEF WriteThrows, At, Release
  <1>6. CASE WaitEnds(c)
    BY <1>6 DEF WaitEnds, At, Complete
  <1>7. CASE Flush(c)
    BY <1>7 DEF Flush
  <1>8. CASE ListenerSucceeds(c)
    BY <1>8 DEF ListenerSucceeds, Release
  <1>9. CASE ListenerFails(c)
    BY <1>9 DEF ListenerFails, Release
  <1>10. CASE FailCallback(c)
    BY <1>10 DEF FailCallback, ExecuteInvokeCallback, Complete
  <1>11. CASE FailRelease(c)
    BY <1>11 DEF FailRelease, Release
  <1>12. CASE Answer(c)
    BY <1>12 DEF Answer
  <1>13. CASE GetFuture(c)
    <2>0. read[c] \in 0 .. 2 /\ answered[c] \in 0 .. 2
      OBVIOUS
    <2>1. answered[c] > 0 /\ answered' = answered
      BY <1>13, <2>0 DEF GetFuture
    <2>2. reader'.call \in {c, NoCall} /\ reader'.pc \in {"set", "idle"}
      BY <1>13 DEF GetFuture, Idle
    <2> QED
      BY <1>13, <2>1, <2>2 DEF GetFuture
  <1>14. CASE SetResponse(c)
    BY <1>14 DEF SetResponse, Goes
  <1>15. CASE RemoveFuture(c)
    BY <1>15 DEF RemoveFuture, Goes, Release
  <1>16. CASE SubmitCallback(c)
    BY <1>16 DEF SubmitCallback, Goes, Idle
  <1>17. CASE RunInThisThread(c)
    BY <1>17 DEF RunInThisThread, Goes, Idle, ExecuteInvokeCallback, Complete
  <1>18. CASE PutResponse(c)
    BY <1>18 DEF PutResponse, Goes, Idle
  <1>19. CASE RunCallback(c)
    BY <1>19 DEF RunCallback, ExecuteInvokeCallback, Complete
  <1>20. CASE Pass(c)
    BY <1>20 DEF Pass
  <1>21. CASE ScanOverdue(c)
    BY <1>21 DEF ScanOverdue, Idle
  <1>22. CASE ScanCallback(c)
    BY <1>22 DEF ScanCallback, Goes, ExecuteInvokeCallback, Complete
  <1>23. CASE ScanRelease(c)
    BY <1>23 DEF ScanRelease, Goes, Idle, Release
  <1> QED
    BY <1>1, <1>2, <1>3, <1>4, <1>5, <1>6, <1>7, <1>8, <1>9, <1>10, <1>11, <1>12, <1>13, <1>14, <1>15, <1>16, <1>17, <1>18, <1>19, <1>20, <1>21, <1>22, <1>23
       DEF Step, InvokerStep, ChannelStep, ReaderStep, ScannerStep

LEMMA FailureStep ==
  ASSUME CallInv, NEW c \in Calls, Step(c)
  PROVE  NoFalseFailure'
  <1> USE RemotingAssumption DEF CallInv, TypeOK, StageInv, Under, Calls, AnswerInv, OutcomeInv, NoFalseFailure,
          threadVars, futureVars, remoteVars
  <1>1. CASE Acquire(c)
    BY <1>1 DEF Acquire, At
  <1>2. CASE AcquireFails(c)
    BY <1>2 DEF AcquireFails, At
  <1>3. CASE PutFuture(c)
    BY <1>3 DEF PutFuture, At
  <1>4. CASE Write(c)
    BY <1>4 DEF Write, At
  <1>5. CASE WriteThrows(c)
    BY <1>5 DEF WriteThrows, At, Release
  <1>6. CASE WaitEnds(c)
    <2>1. outcome[c] = << >>
      BY <1>6 DEF WaitEnds, At
    <2>2. \A d \in Calls \ {c} : outcome'[d] = outcome[d]
      BY <1>6 DEF WaitEnds, Complete
    <2>3. outcome'[c] = << IF c \in responseCommand THEN "answer" ELSE "none" >>
      BY <1>6, <2>1, AppendEmpty DEF WaitEnds, Complete
    <2>4. outcome'[c] = << "none" >> => age[c] # "young" \/ wire[c] \in {"callback", "release", "failed"}
      BY <1>6, <2>3 DEF WaitEnds
    <2> QED
      BY <1>6, <2>2, <2>4 DEF WaitEnds
  <1>7. CASE Flush(c)
    BY <1>7 DEF Flush
  <1>8. CASE ListenerSucceeds(c)
    BY <1>8 DEF ListenerSucceeds, Release
  <1>9. CASE ListenerFails(c)
    BY <1>9 DEF ListenerFails, Release
  <1>10. CASE FailCallback(c)
    BY <1>10 DEF FailCallback, ExecuteInvokeCallback, Complete
  <1>11. CASE FailRelease(c)
    BY <1>11 DEF FailRelease, Release
  <1>12. CASE Answer(c)
    BY <1>12 DEF Answer
  <1>13. CASE GetFuture(c)
    BY <1>13 DEF GetFuture, Idle
  <1>14. CASE SetResponse(c)
    BY <1>14 DEF SetResponse, Goes
  <1>15. CASE RemoveFuture(c)
    BY <1>15 DEF RemoveFuture, Goes, Release
  <1>16. CASE SubmitCallback(c)
    BY <1>16 DEF SubmitCallback, Goes, Idle
  <1>17. CASE RunInThisThread(c)
    BY <1>17 DEF RunInThisThread, Goes, Idle, ExecuteInvokeCallback, Complete
  <1>18. CASE PutResponse(c)
    BY <1>18 DEF PutResponse, Goes, Idle
  <1>19. CASE RunCallback(c)
    <2>1. c \in responseCommand
      BY <1>19 DEF RunCallback
    <2>2. \A d \in Calls : outcome'[d] = << "none" >> => outcome[d] = << "none" >>
      BY <1>19, <2>1, Executed DEF RunCallback
    <2> QED
      BY <1>19, <2>2 DEF RunCallback
  <1>20. CASE Pass(c)
    BY <1>20 DEF Pass
  <1>21. CASE ScanOverdue(c)
    BY <1>21 DEF ScanOverdue, Idle
  <1>22. CASE ScanCallback(c)
    <2>1. age[c] = "expired"
      BY <1>22 DEF ScanCallback, Goes
    <2>2. \A d \in Calls \ {c} : outcome'[d] = outcome[d]
      BY <1>22, Executed DEF ScanCallback
    <2> QED
      BY <1>22, <2>1, <2>2 DEF ScanCallback
  <1>23. CASE ScanRelease(c)
    BY <1>23 DEF ScanRelease, Goes, Idle, Release
  <1> QED
    BY <1>1, <1>2, <1>3, <1>4, <1>5, <1>6, <1>7, <1>8, <1>9, <1>10, <1>11, <1>12, <1>13, <1>14, <1>15, <1>16, <1>17, <1>18, <1>19, <1>20, <1>21, <1>22, <1>23
       DEF Step, InvokerStep, ChannelStep, ReaderStep, ScannerStep

-----------------------------------------------------------------------------
(* The permits: who holds one, before and after.                           *)

LEMMA HoldersInSemaphores ==
  ASSUME NEW c \in Calls
  PROVE  Semaphore(c) \in Semaphores
  BY DEF Semaphore, Semaphores

LEMMA HoldersSame ==
  ASSUME CallInv, permits' = permits, \A d \in Calls : HoldsPermit(d)' <=> HoldsPermit(d)
  PROVE  PermitInv' /\ permits' \in [Semaphores -> 0 .. Permits]
  <1>1. \A s \in Semaphores : Holders(s)' = Holders(s)
    BY DEF Holders, Semaphore
  <1> QED
    BY <1>1 DEF PermitInv, CallInv, TypeOK

LEMMA HoldersReleased ==
  ASSUME CallInv, NEW c \in Calls, Release(c),
         {invoker[c], invoker'[c]} \cap {"unused", "new", "refused"} = {},
         \A d \in Calls \ {c} : invoker'[d] = invoker[d]
  PROVE  PermitInv' /\ permits' \in [Semaphores -> 0 .. Permits]
  <1> USE RemotingAssumption DEF HoldsPermit
  <1>1. CASE c \in Sync \cup released
    <2>1. permits' = permits /\ released' = released
      BY <1>1 DEF Release
    <2>2. \A d \in Calls : HoldsPermit(d)' <=> HoldsPermit(d)
      BY <1>1, <2>1
    <2> QED
      BY <2>1, <2>2, HoldersSame
  <1>2. CASE c \notin Sync \cup released
    <2> DEFINE s == Semaphore(c)
    <2>1. s \in Semaphores
      BY HoldersInSemaphores
    <2>2. released' = released \cup {c} /\ permits' = [permits EXCEPT ![s] = @ + 1]
      BY <1>2 DEF Release
    <2>3. c \in Holders(s)
      BY <1>2 DEF Holders
    <2>4. Holders(s)' = Holders(s) \ {c}
      BY <1>2, <2>2 DEF Holders, Semaphore
    <2>5. \A t \in Semaphores \ {s} : Holders(t)' = Holders(t)
      BY <1>2, <2>2 DEF Holders, Semaphore
    <2>6. IsFiniteSet(Holders(s)) /\ permits[s] + Cardinality(Holders(s)) = Permits
      BY <2>1 DEF CallInv, PermitInv
    <2>7. IsFiniteSet(Holders(s)') /\ Cardinality(Holders(s)') = Cardinality(Holders(s)) - 1
      BY <2>3, <2>4, <2>6, FS_RemoveElement
    <2>8. Cardinality(Holders(s)) \in Nat /\ Cardinality(Holders(s)') \in Nat
      BY <2>6, <2>7, FS_CardinalityType
    <2>9. permits[s] \in 0 .. Permits /\ permits'[s] = permits[s] + 1
      BY <2>1, <2>2 DEF CallInv, TypeOK
    <2>10. permits'[s] \in 0 .. Permits /\ permits'[s] + Cardinality(Holders(s)') = Permits
      BY <2>6, <2>7, <2>8, <2>9
    <2>11. \A t \in Semaphores \ {s} : permits'[t] = permits[t]
      BY <2>2 DEF CallInv, TypeOK
    <2>12. permits' \in [Semaphores -> 0 .. Permits]
      BY <2>1, <2>2, <2>10 DEF CallInv, TypeOK
    <2>13. PermitInv'
      BY <2>5, <2>7, <2>10, <2>11 DEF CallInv, PermitInv
    <2> QED
      BY <2>12, <2>13
  <1> QED
    BY <1>1, <1>2

LEMMA HoldersAcquired ==
  ASSUME CallInv, NEW c \in Calls, Acquire(c)
  PROVE  PermitInv' /\ permits' \in [Semaphores -> 0 .. Permits]
  <1> USE RemotingAssumption
  <1> DEFINE s == Semaphore(c)
  <1>1. s \in Semaphores
    BY HoldersInSemaphores
  <1>2. /\ permits' = [permits EXCEPT ![s] = @ - 1] /\ released' = released
        /\ permits[s] > 0 /\ invoker[c] = "new" /\ c \notin Sync
        /\ invoker' = [invoker EXCEPT ![c] = "acquired"]
    BY DEF Acquire, At, futureVars
  <1>3. c \notin released
    BY <1>2 DEF CallInv, StageInv, Under
  <1>4. c \notin Holders(s)
    BY <1>2 DEF Holders, HoldsPermit
  <1>5. Holders(s)' = Holders(s) \cup {c}
    BY <1>2, <1>3 DEF Holders, HoldsPermit, Semaphore, CallInv, TypeOK
  <1>6. \A t \in Semaphores \ {s} : Holders(t)' = Holders(t)
    BY <1>2 DEF Holders, HoldsPermit, Semaphore, CallInv, TypeOK
  <1>7. IsFiniteSet(Holders(s)) /\ permits[s] + Cardinality(Holders(s)) = Permits
    BY <1>1 DEF CallInv, PermitInv
  <1>8. IsFiniteSet(Holders(s)') /\ Cardinality(Holders(s)') = Cardinality(Holders(s)) + 1
    BY <1>4, <1>5, <1>7, FS_AddElement
  <1>9. Cardinality(Holders(s)) \in Nat
    BY <1>7, FS_CardinalityType
  <1>10. permits[s] \in 0 .. Permits /\ permits'[s] = permits[s] - 1
    BY <1>1, <1>2 DEF CallInv, TypeOK
  <1>11. permits'[s] \in 0 .. Permits /\ permits'[s] + Cardinality(Holders(s)') = Permits
    BY <1>2, <1>7, <1>8, <1>9, <1>10
  <1>12. \A t \in Semaphores \ {s} : permits'[t] = permits[t]
    BY <1>2 DEF CallInv, TypeOK
  <1>13. permits' \in [Semaphores -> 0 .. Permits]
    BY <1>1, <1>2, <1>11 DEF CallInv, TypeOK
  <1>14. PermitInv'
    BY <1>6, <1>8, <1>11, <1>12 DEF CallInv, PermitInv
  <1> QED
    BY <1>13, <1>14

LEMMA PermitStep ==
  ASSUME CallInv, NEW c \in Calls, Step(c)
  PROVE  PermitInv' /\ permits' \in [Semaphores -> 0 .. Permits]
  <1> USE RemotingAssumption DEF CallInv, TypeOK, StageInv, Under, Calls, HoldsPermit,
          threadVars, futureVars, remoteVars
  <1>1. CASE Acquire(c)
    BY <1>1, HoldersAcquired
  <1>2. CASE AcquireFails(c)
    BY <1>2, HoldersSame DEF AcquireFails, At
  <1>3. CASE PutFuture(c)
    BY <1>3, HoldersSame DEF PutFuture, At
  <1>4. CASE Write(c)
    BY <1>4, HoldersSame DEF Write, At
  <1>5. CASE WriteThrows(c)
    BY <1>5, HoldersReleased DEF WriteThrows, At
  <1>6. CASE WaitEnds(c)
    BY <1>6, HoldersSame DEF WaitEnds, At
  <1>7. CASE Flush(c)
    BY <1>7, HoldersSame DEF Flush
  <1>8. CASE ListenerSucceeds(c)
    <2>1. CASE c \in Oneway
      BY <1>8, <2>1, HoldersReleased DEF ListenerSucceeds
    <2>2. CASE c \notin Oneway
      BY <1>8, <2>2, HoldersSame DEF ListenerSucceeds
    <2> QED
      BY <2>1, <2>2
  <1>9. CASE ListenerFails(c)
    <2>1. CASE c \in Oneway
      BY <1>9, <2>1, HoldersReleased DEF ListenerFails
    <2>2. CASE c \notin Oneway
      BY <1>9, <2>2, HoldersSame DEF ListenerFails
    <2> QED
      BY <2>1, <2>2
  <1>10. CASE FailCallback(c)
    BY <1>10, HoldersSame DEF FailCallback
  <1>11. CASE FailRelease(c)
    BY <1>11, HoldersReleased DEF FailRelease
  <1>12. CASE Answer(c)
    BY <1>12, HoldersSame DEF Answer
  <1>13. CASE GetFuture(c)
    BY <1>13, HoldersSame DEF GetFuture
  <1>14. CASE SetResponse(c)
    BY <1>14, HoldersSame DEF SetResponse
  <1>15. CASE RemoveFuture(c)
    BY <1>15, HoldersReleased DEF RemoveFuture, Goes
  <1>16. CASE SubmitCallback(c)
    BY <1>16, HoldersSame DEF SubmitCallback
  <1>17. CASE RunInThisThread(c)
    BY <1>17, HoldersSame DEF RunInThisThread
  <1>18. CASE PutResponse(c)
    BY <1>18, HoldersSame DEF PutResponse
  <1>19. CASE RunCallback(c)
    BY <1>19, HoldersSame DEF RunCallback
  <1>20. CASE Pass(c)
    BY <1>20, HoldersSame DEF Pass
  <1>21. CASE ScanOverdue(c)
    BY <1>21, HoldersSame DEF ScanOverdue
  <1>22. CASE ScanCallback(c)
    BY <1>22, HoldersSame DEF ScanCallback
  <1>23. CASE ScanRelease(c)
    BY <1>23, HoldersReleased DEF ScanRelease, Goes
  <1> QED
    BY <1>1, <1>2, <1>3, <1>4, <1>5, <1>6, <1>7, <1>8, <1>9, <1>10, <1>11, <1>12, <1>13, <1>14, <1>15, <1>16, <1>17, <1>18, <1>19, <1>20, <1>21, <1>22, <1>23
       DEF Step, InvokerStep, ChannelStep, ReaderStep, ScannerStep

-----------------------------------------------------------------------------
(* Types.                                                                  *)

LEMMA TypeStep ==
  ASSUME CallInv, NEW c \in Calls, Step(c)
  PROVE  TypeOK'
  <1> USE RemotingAssumption, PermitStep DEF CallInv, TypeOK, Calls, threadVars, futureVars,
          remoteVars
  <1>1. CASE Acquire(c)
    BY <1>1 DEF Acquire, At
  <1>2. CASE AcquireFails(c)
    BY <1>2 DEF AcquireFails, At
  <1>3. CASE PutFuture(c)
    BY <1>3 DEF PutFuture, At
  <1>4. CASE Write(c)
    BY <1>4 DEF Write, At
  <1>5. CASE WriteThrows(c)
    <2>1. permits' \in [Semaphores -> 0 .. Permits]
      BY PermitStep
    <2>2. released' \subseteq Calls
      BY <1>5 DEF WriteThrows, Release
    <2>3. responseTable' \subseteq Calls
      BY <1>5 DEF WriteThrows
    <2>4. invoker' = [invoker EXCEPT ![c] = "threw"]
      BY <1>5 DEF WriteThrows, At
    <2>5. invoker' \in [Calls -> {"unused", "new", "acquired", "refused", "put",
                                  "waiting", "returned", "threw"}]
      BY <2>4
    <2> QED
      BY <1>5, <2>1, <2>2, <2>3, <2>5 DEF WriteThrows
  <1>6. CASE WaitEnds(c)
    BY <1>6 DEF WaitEnds, At, Complete
  <1>7. CASE Flush(c)
    BY <1>7 DEF Flush
  <1>8. CASE ListenerSucceeds(c)
    BY <1>8 DEF ListenerSucceeds, Release
  <1>9. CASE ListenerFails(c)
    BY <1>9 DEF ListenerFails, Release
  <1>10. CASE FailCallback(c)
    <2>1. executed' \subseteq Calls /\ outcome' \in [Calls -> Seq({"answer", "none"})]
      BY <1>10, Executed DEF FailCallback
    <2> QED
      BY <1>10, <2>1 DEF FailCallback
  <1>11. CASE FailRelease(c)
    BY <1>11 DEF FailRelease, Release
  <1>12. CASE Answer(c)
    BY <1>12 DEF Answer
  <1>13. CASE GetFuture(c)
    BY <1>13 DEF GetFuture, Idle
  <1>14. CASE SetResponse(c)
    BY <1>14 DEF SetResponse, Goes
  <1>15. CASE RemoveFuture(c)
    BY <1>15 DEF RemoveFuture, Goes, Release
  <1>16. CASE SubmitCallback(c)
    BY <1>16 DEF SubmitCallback, Goes, Idle
  <1>17. CASE RunInThisThread(c)
    <2>1. executed' \subseteq Calls /\ outcome' \in [Calls -> Seq({"answer", "none"})]
      BY <1>17, Executed DEF RunInThisThread
    <2> QED
      BY <1>17, <2>1 DEF RunInThisThread, Goes, Idle
  <1>18. CASE PutResponse(c)
    BY <1>18 DEF PutResponse, Goes, Idle
  <1>19. CASE RunCallback(c)
    <2>1. executed' \subseteq Calls /\ outcome' \in [Calls -> Seq({"answer", "none"})]
      BY <1>19, Executed DEF RunCallback
    <2> QED
      BY <1>19, <2>1 DEF RunCallback
  <1>20. CASE Pass(c)
    BY <1>20 DEF Pass
  <1>21. CASE ScanOverdue(c)
    BY <1>21 DEF ScanOverdue, Idle
  <1>22. CASE ScanCallback(c)
    <2>1. executed' \subseteq Calls /\ outcome' \in [Calls -> Seq({"answer", "none"})]
      BY <1>22, Executed DEF ScanCallback
    <2> QED
      BY <1>22, <2>1 DEF ScanCallback, Goes
  <1>23. CASE ScanRelease(c)
    BY <1>23 DEF ScanRelease, Goes, Idle, Release
  <1> QED
    BY <1>1, <1>2, <1>3, <1>4, <1>5, <1>6, <1>7, <1>8, <1>9, <1>10, <1>11, <1>12, <1>13, <1>14, <1>15, <1>16, <1>17, <1>18, <1>19, <1>20, <1>21, <1>22, <1>23
       DEF Step, InvokerStep, ChannelStep, ReaderStep, ScannerStep

-----------------------------------------------------------------------------
(* The invariant is inductive.                                             *)

LEMMA InitCalls == Init => CallInv
  <1> SUFFICES ASSUME Init PROVE CallInv
    OBVIOUS
  <1> USE RemotingAssumption DEF Init
  <1>1. TypeOK
    BY DEF TypeOK, Idle, Semaphores
  <1>2. StageInv /\ OwedInv /\ AnswerInv /\ OutcomeInv /\ NoFalseFailure
    BY DEF StageInv, OwedInv, AnswerInv, OutcomeInv, NoFalseFailure, Under, Idle
  <1>3. \A s \in Semaphores : Holders(s) = {}
    BY DEF Holders, HoldsPermit
  <1>4. IsFiniteSet({}) /\ Cardinality({}) = 0
    BY FS_EmptySet
  <1>5. PermitInv
    <2>1. \A s \in Semaphores : permits[s] = Permits /\ Permits \in Nat
      OBVIOUS
    <2> SUFFICES ASSUME NEW s \in Semaphores
                 PROVE  IsFiniteSet(Holders(s)) /\ permits[s] + Cardinality(Holders(s)) = Permits
      BY DEF PermitInv
    <2>2. Holders(s) = {}
      BY <1>3
    <2>3. IsFiniteSet(Holders(s)) /\ Cardinality(Holders(s)) = 0
      BY <1>4, <2>2
    <2> HIDE DEF Init
    <2> QED
      BY <2>1, <2>3
  <1> QED
    BY <1>1, <1>2, <1>5 DEF CallInv

LEMMA NextCalls == CallInv /\ [Next]_vars => CallInv'
  <1> SUFFICES ASSUME CallInv, [Next]_vars PROVE CallInv'
    OBVIOUS
  <1>1. ASSUME NEW c \in Calls, Step(c) PROVE CallInv'
    BY <1>1, TypeStep, StageStep, PermitStep, OwedStep, OutcomeStep, AnswerStep, FailureStep
       DEF CallInv
  <1>2. CASE UNCHANGED vars
    <2>1. PermitInv' /\ permits' \in [Semaphores -> 0 .. Permits]
      BY <1>2, HoldersSame DEF vars, threadVars, futureVars, HoldsPermit
    <2> QED
      BY <1>2, <2>1
         DEF CallInv, vars, threadVars, futureVars, remoteVars, TypeOK, StageInv, OwedInv,
             OutcomeInv, AnswerInv, NoFalseFailure, Under
  <1> QED
    BY <1>1, <1>2 DEF Next, Step

\* What is known of every call, whatever the four threads do, holds for any
\* number of calls of each kind.
THEOREM CallsInductive == Spec => []CallInv
<1>1. QED
  BY InitCalls, NextCalls, PTL DEF Spec

\* No permit of semaphoreAsync or semaphoreOneway is lost or returned twice, and
\* it is back when the last thread is done with the call.
THEOREM Permitted == Spec => []PermitsConserved
<1>1. CallInv => PermitsConserved
  <2> SUFFICES ASSUME CallInv PROVE PermitsConserved
    OBVIOUS
  <2>1. \A c \in Calls : Over(c) => ~HoldsPermit(c)
    BY RemotingAssumption DEF CallInv, OwedInv, StageInv, Over, HoldsPermit, Under, Calls
  <2> QED
    BY <2>1 DEF CallInv, PermitInv, PermitsConserved
<1>2. QED
  BY <1>1, CallsInductive, PTL

\* The callback of an asynchronous call runs exactly once, and an invoker gets at
\* most one result.
THEOREM Completed == Spec => []CompletedOnce
<1>1. CallInv => CompletedOnce
  BY DEF CallInv, OwedInv, OutcomeInv, CompletedOnce, Over, Under
<1>2. QED
  BY <1>1, CallsInductive, PTL

\* A call whose request was sent and whose time is not over never ends without
\* its answer.
THEOREM Truthful == Spec => []NoFalseFailure
<1>1. CallInv => NoFalseFailure
  BY DEF CallInv
<1>2. QED
  BY <1>1, CallsInductive, PTL

=============================================================================
