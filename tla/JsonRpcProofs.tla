--------------------------- MODULE JsonRpcProofs ---------------------------
(***************************************************************************)
(* Theorems about JsonRpc, for every set of documents, every selection of  *)
(* message kinds and irregular inputs, and every bound.                    *)
(***************************************************************************)
EXTENDS JsonRpc, SequenceTheorems, TLAPS

\* The worker is working on a message.
Busy == {"lock", "process", "handler", "publishBody", "noticeBody",
         "unregister", "send", "sendBody", "unlock"}

\* What TypeOK needs to be inductive: the numbers the threads pass on exist.
NumbersExist ==
    /\ reader = "push" => Len(received) > 0
    /\ worker \in Busy => cur \in Ids

TypeInv == TypeOK /\ NumbersExist

\* Message records have the fields the code reads.
LEMMA MessageFields ==
    \A m \in Message : m.kind \in Kinds /\ (m.kind = "change" => m.uri \in Uris)
BY DEF Message

LEMMA TypeInvInit == Init => TypeInv
<1> SUFFICES ASSUME Init PROVE TypeInv
    OBVIOUS
<1>1. received \in Seq(Message) /\ queue \in Seq(Ids) /\ Len(received) = 0
    BY EmptySeq DEF Init
<1>2. inputFinished \in BOOLEAN /\ shutdown \in BOOLEAN
    BY DEF Init
<1>3. QED
    BY <1>1, <1>2, JsonRpcAssumption
       DEF Init, TypeInv, TypeOK, NumbersExist, Busy, Outcome

LEMMA ReadExtraTypes ==
    TypeOK /\ ReadExtra =>
        extra' \in 0..MaxExtra /\ shutdown' \in BOOLEAN /\ parseFailures' \in Nat
<1> SUFFICES ASSUME TypeOK, ReadExtra
             PROVE  /\ extra' \in 0..MaxExtra
                    /\ shutdown' \in BOOLEAN
                    /\ parseFailures' \in Nat
    OBVIOUS
<1>1. extra' \in 0..MaxExtra
    BY JsonRpcAssumption DEF TypeOK, ReadExtra
<1>2. CASE loop = "main"
  <2>1. shutdown' = FALSE /\ parseFailures' = 0
      BY <1>2 DEF ReadExtra
  <2>2. QED
      BY <1>1, <2>1
<1>3. CASE loop # "main"
    BY <1>1, <1>3 DEF TypeOK, ReadExtra
<1>4. QED
    BY <1>2, <1>3

LEMMA TypeInvClient == TypeInv /\ ClientStep => TypeInv'
<1> SUFFICES ASSUME TypeInv, ClientStep PROVE TypeInv'
    OBVIOUS
<1> USE JsonRpcAssumption DEF TypeInv, TypeOK, NumbersExist, Busy
<1>1. CASE RejectUninitialized
    BY <1>1, ReadExtraTypes DEF RejectUninitialized, CanRead, queueVars, contextVars,
                workerVars, historyVars
<1>2. CASE Initialize
    BY <1>2 DEF Initialize, CanRead, queueVars, contextVars, historyVars
<1>3. ASSUME NEW m \in Message, enqueue(m) PROVE TypeInv'
  <2>1. received' \in Seq(Message) /\ Len(received') = Len(received) + 1
      BY <1>3 DEF enqueue
  <2>2. Len(received) + 1 \in Ids
      BY <1>3 DEF enqueue, Ids
  <2>3. activeRequests' \subseteq Ids
      BY <1>3, <2>2 DEF enqueue, registerContext
  <2>4. /\ cancelled' \subseteq Ids
        /\ pendingDocumentChanges' \in [Uris -> Ids \cup {0}]
    <3>1. CASE m.kind = "change"
      <4>1. m.uri \in Uris
          BY <3>1, MessageFields
      <4>2. pendingDocumentChanges[m.uri] \in Ids \cup {0}
          BY <4>1
      <4>3. cancelled' \subseteq Ids
          BY <1>3, <3>1, <4>2 DEF enqueue, registerContext
      <4>4. pendingDocumentChanges' \in [Uris -> Ids \cup {0}]
          BY <1>3, <3>1, <2>2, <4>1 DEF enqueue, registerContext
      <4>5. QED
          BY <4>3, <4>4
    <3>2. CASE m.kind # "change"
        BY <1>3, <3>2 DEF enqueue, registerContext
    <3>3. QED
        BY <3>1, <3>2
  <2>5. shutdown' \in BOOLEAN
      BY <1>3 DEF enqueue
  <2>6. QED
      BY <1>3, <2>1, <2>2, <2>3, <2>4, <2>5
         DEF enqueue, CanRead, Ids, queueVars, workerVars, historyVars
<1>4. CASE EnqueueThrows
    BY <1>4 DEF EnqueueThrows, CanRead, queueVars, contextVars, workerVars,
                historyVars
<1>5. ASSUME NEW n \in 1..Len(received), handleCancelRequest(n) PROVE TypeInv'
  <2>1. n \in Ids
      BY DEF Ids
  <2>2. /\ cancelled' \subseteq Ids
        /\ UNCHANGED <<activeRequests, pendingDocumentChanges>>
      BY <1>5, <2>1 DEF handleCancelRequest, cancelRequest
  <2>3. QED
      BY <1>5, <2>2, ReadExtraTypes
         DEF handleCancelRequest, CanRead, queueVars, workerVars, historyVars
<1>6. CASE BadCancelRequest
    BY <1>6, ReadExtraTypes DEF BadCancelRequest, CanRead, queueVars, contextVars,
                workerVars, historyVars
<1>7. CASE BadJson
    BY <1>7 DEF BadJson, CanRead, queueVars, contextVars, workerVars, historyVars
<1>8. CASE ReadThrows
    BY <1>8 DEF ReadThrows, CanRead, queueVars, contextVars, workerVars,
                historyVars
<1>9. CASE RejectAfterShutdown
    BY <1>9, ReadExtraTypes DEF RejectAfterShutdown, CanRead, queueVars, contextVars,
                workerVars, historyVars
<1>10. CASE Exit
    BY <1>10 DEF Exit, CanRead, queueVars, contextVars, workerVars, historyVars
<1>11. CASE CloseInput
    BY <1>11 DEF CloseInput, queueVars, contextVars, workerVars, historyVars
<1>12. QED
    BY <1>1, <1>2, <1>3, <1>4, <1>5, <1>6, <1>7, <1>8, <1>9, <1>10, <1>11
       DEF ClientStep

LEMMA TypeInvReader == TypeInv /\ ReaderStep => TypeInv'
<1> SUFFICES ASSUME TypeInv, ReaderStep PROVE TypeInv'
    OBVIOUS
<1> USE JsonRpcAssumption DEF TypeInv, TypeOK, NumbersExist, Busy
<1>1. CASE Push
  <2>1. Len(received) \in Ids
      BY <1>1 DEF Push, Ids
  <2>2. queue' \in Seq(Ids)
      BY <1>1, <2>1 DEF Push
  <2>3. QED
      BY <1>1, <2>2 DEF Push, contextVars, workerVars, historyVars
<1>2. CASE Notify
    BY <1>2 DEF Notify, WakeWorker, queueVars, contextVars, historyVars
<1>3. CASE CatchLock
    BY <1>3 DEF CatchLock, queueVars, contextVars, workerVars, historyVars
<1>4. CASE ReaderWritesBody
    BY <1>4 DEF ReaderWritesBody, queueVars, contextVars, workerVars, historyVars
<1>5. CASE Finish
    BY <1>5 DEF Finish, contextVars, workerVars, historyVars
<1>6. CASE FinishNotify
    BY <1>6 DEF FinishNotify, WakeWorker, queueVars, contextVars, historyVars
<1>7. CASE Join
    BY <1>7 DEF Join, queueVars, contextVars, workerVars, historyVars
<1>8. QED
    BY <1>1, <1>2, <1>3, <1>4, <1>5, <1>6, <1>7 DEF ReaderStep

LEMMA TypeInvWorker ==
    TypeInv /\ (WorkerStep \/ HandlerPublishes \/ SpuriousWakeup) => TypeInv'
<1> SUFFICES ASSUME TypeInv, WorkerStep \/ HandlerPublishes \/ SpuriousWakeup
             PROVE  TypeInv'
    OBVIOUS
<1> USE DEF TypeInv, TypeOK, NumbersExist, Busy
<1>1. CASE WorkerTakes
  <2>1. Head(queue) \in Ids /\ Tail(queue) \in Seq(Ids)
      BY <1>1, HeadTailProperties DEF WorkerTakes
  <2>2. QED
      BY <1>1, <2>1 DEF WorkerTakes, readerVars, contextVars, historyVars
<1>2. CASE WorkerWaits
    BY <1>2 DEF WorkerWaits, readerVars, queueVars, contextVars, historyVars
<1>3. CASE WorkerLocks
    BY <1>3 DEF WorkerLocks, readerVars, queueVars, contextVars, historyVars
<1>4. CASE CallNotification
    BY <1>4 DEF CallNotification, readerVars, queueVars, contextVars
<1>5. CASE SkipUnknown
    BY <1>5 DEF SkipUnknown, readerVars, queueVars, contextVars, historyVars
<1>6. CASE startRequest
    BY <1>6 DEF startRequest, readerVars, queueVars, contextVars, Outcome
<1>7. CASE HandlerPublishes \/ HandlerPublished
    BY <1>7 DEF HandlerPublishes, HandlerPublished, readerVars, queueVars,
                contextVars, historyVars
<1>8. CASE HandlerReturns
    BY <1>8 DEF HandlerReturns, readerVars, queueVars, contextVars, historyVars,
                Outcome
<1>9. CASE HandlerThrows
    BY <1>9 DEF HandlerThrows, readerVars, queueVars, contextVars, historyVars,
                Outcome
<1>10. CASE NoticeWritten
    BY <1>10 DEF NoticeWritten, readerVars, queueVars, contextVars, historyVars
<1>11. CASE Unregister
    BY <1>11 DEF Unregister, unregisterContext, readerVars, queueVars, historyVars
<1>12. CASE SendResponse
    BY <1>12 DEF SendResponse, readerVars, queueVars, contextVars, historyVars,
                 Outcome
<1>13. CASE ResponseWritten
    BY <1>13 DEF ResponseWritten, readerVars, queueVars, contextVars
<1>14. CASE WorkerUnlocks
    BY <1>14 DEF WorkerUnlocks, readerVars, queueVars, contextVars, historyVars
<1>15. CASE SpuriousWakeup
    BY <1>15 DEF SpuriousWakeup, readerVars, queueVars, contextVars, historyVars
<1>16. QED
    BY <1>1, <1>2, <1>3, <1>4, <1>5, <1>6, <1>7, <1>8, <1>9, <1>10, <1>11,
       <1>12, <1>13, <1>14, <1>15 DEF WorkerStep

LEMMA TypeInvStutter == TypeInv /\ UNCHANGED vars => TypeInv'
BY DEF TypeInv, TypeOK, NumbersExist, vars

LEMMA TypeInvariant == SafetySpec => []TypeInv
<1>1. TypeInv /\ [Next]_vars => TypeInv'
    BY TypeInvClient, TypeInvReader, TypeInvWorker, TypeInvStutter
       DEF Next, Exited
<1>2. QED
    BY TypeInvInit, <1>1, PTL DEF SafetySpec

\* Every variable of the message loop keeps its type: in particular no thread
\* ever handles a message number that does not exist.
THEOREM TypeCorrect == SafetySpec => []TypeOK
<1>1. TypeInv => TypeOK
    BY DEF TypeInv
<1>2. QED
    BY <1>1, TypeInvariant, PTL

-----------------------------------------------------------------------------
(* The inductive invariant behind the safety theorems.                     *)

\* The worker has left the message cur behind.
Between == {"unlock", "check", "wait", "done"}

\* cur is the last message taken; the queue holds the ones after it, in order,
\* up to the one the reader is about to push.
QueueExact ==
    /\ cur + Len(queue) = Len(received) - (IF reader = "push" THEN 1 ELSE 0)
    /\ \A i \in 1..Len(queue) : queue[i] = cur + i

\* The worker does not exist before initialize.
InitStage == loop = "init" => worker = "none" /\ cur = 0

\* What processMessage has to hand over at each point of the worker.
ResultExact ==
    /\ worker \in {"process", "handler", "publishBody"} => result = "none"
    /\ worker \in {"handler", "publishBody"} => received[cur].kind # "unknown"
    /\ worker \in {"noticeBody", "unregister"} =>
         (result # "none" <=> received[cur] \in Expecting)
    /\ worker \in {"send", "sendBody"} =>
         result # "none" /\ received[cur] \in Expecting

\* Exactly the requests the worker has left behind are answered.
AnswersExact ==
    \A n \in Ids : answer[n] # "none" <=>
        /\ n <= Len(received)
        /\ received[n] \in Expecting
        /\ n < cur \/ (n = cur /\ worker \in Between)

ServiceInv == TypeInv /\ QueueExact /\ InitStage /\ ResultExact /\ AnswersExact

\* The lock discipline of the frames.
FrameInv ==
    /\ MessageHoldsLock
    /\ reader = "noticeBody" => serverStateMutex = "reader"
    /\ loop = "init" => worker = "none"

-----------------------------------------------------------------------------
(* Frames: which steps leave which variables alone.                        *)

\* The reader's steps other than enqueue and Push.
OtherReader ==
    \/ RejectUninitialized \/ Initialize \/ EnqueueThrows
    \/ \E n \in 1..Len(received) : handleCancelRequest(n)
    \/ BadCancelRequest \/ BadJson \/ ReadThrows \/ RejectAfterShutdown
    \/ Exit \/ CloseInput \/ Notify \/ CatchLock \/ ReaderWritesBody
    \/ Finish \/ FinishNotify \/ Join

\* The worker's steps other than WorkerTakes.
OtherWorker ==
    \/ WorkerWaits \/ WorkerLocks \/ CallNotification \/ SkipUnknown
    \/ startRequest \/ HandlerPublishes \/ HandlerPublished \/ HandlerReturns
    \/ HandlerThrows \/ NoticeWritten \/ Unregister \/ SendResponse
    \/ ResponseWritten \/ WorkerUnlocks \/ SpuriousWakeup

LEMMA NextCases ==
    ASSUME [Next]_vars
    PROVE  \/ \E m \in Message : enqueue(m)
           \/ Push \/ WorkerTakes \/ OtherReader \/ OtherWorker
           \/ UNCHANGED vars
BY DEF Next, ClientStep, ReaderStep, WorkerStep, Exited, OtherReader, OtherWorker

\* Apart from enqueue and Push, the reader moves no message; the worker is at
\* most created or woken up.
LEMMA OtherReaderFrame ==
    ASSUME OtherReader
    PROVE  /\ UNCHANGED <<received, queue, cur, result, started, handled, answer,
                          activeRequests, pendingDocumentChanges>>
           /\ reader # "push" /\ reader' # "push"
           /\ \/ UNCHANGED worker
              \/ worker = "wait" /\ worker' = "check"
              \/ Initialize
<1> USE DEF queueVars, contextVars, workerVars, historyVars, CanRead
<1>1. CASE RejectUninitialized \/ EnqueueThrows \/ BadCancelRequest \/ BadJson
    BY <1>1 DEF RejectUninitialized, EnqueueThrows, BadCancelRequest, BadJson
<1>2. CASE Initialize
    BY <1>2 DEF Initialize
<1>3. CASE \E n \in 1..Len(received) : handleCancelRequest(n)
    BY <1>3 DEF handleCancelRequest, cancelRequest
<1>4. CASE ReadThrows
    BY <1>4 DEF ReadThrows
<1>5. CASE RejectAfterShutdown \/ Exit \/ CloseInput \/ Join
    BY <1>5 DEF RejectAfterShutdown, Exit, CloseInput, Join
<1>6. CASE Notify \/ FinishNotify
    BY <1>6 DEF Notify, FinishNotify, WakeWorker
<1>7. CASE CatchLock \/ ReaderWritesBody \/ Finish
    BY <1>7 DEF CatchLock, ReaderWritesBody, Finish
<1>8. QED
    BY <1>1, <1>2, <1>3, <1>4, <1>5, <1>6, <1>7 DEF OtherReader

\* The worker's steps leave everything of the reader alone.
LEMMA OtherWorkerFrame ==
    ASSUME OtherWorker
    PROVE  UNCHANGED <<reader, loop, shutdown, received, queue, inputFinished,
                       cur, cancelled>>
<1> USE DEF queueVars, contextVars, readerVars
<1>1. CASE WorkerWaits \/ WorkerLocks \/ CallNotification \/ SkipUnknown
    BY <1>1 DEF WorkerWaits, WorkerLocks, CallNotification, SkipUnknown
<1>2. CASE startRequest \/ HandlerPublishes \/ HandlerPublished \/ HandlerReturns
    BY <1>2 DEF startRequest, HandlerPublishes, HandlerPublished, HandlerReturns
<1>3. CASE HandlerThrows \/ NoticeWritten \/ Unregister \/ SendResponse
    BY <1>3 DEF HandlerThrows, NoticeWritten, Unregister, unregisterContext,
                SendResponse
<1>4. CASE ResponseWritten \/ WorkerUnlocks \/ SpuriousWakeup
    BY <1>4 DEF ResponseWritten, WorkerUnlocks, SpuriousWakeup
<1>5. QED
    BY <1>1, <1>2, <1>3, <1>4 DEF OtherWorker

-----------------------------------------------------------------------------
(* The queue.                                                              *)

LEMMA QueueStep == TypeInv /\ QueueExact /\ [Next]_vars => QueueExact'
<1> SUFFICES ASSUME TypeInv, QueueExact, [Next]_vars PROVE QueueExact'
    OBVIOUS
<1> USE DEF TypeInv, TypeOK, NumbersExist, QueueExact, Ids
<1>1. ASSUME NEW m \in Message, enqueue(m) PROVE QueueExact'
  <2>1. Len(received') = Len(received) + 1 /\ reader # "push" /\ reader' = "push"
      BY <1>1 DEF enqueue, CanRead
  <2>2. UNCHANGED <<cur, queue>>
      BY <1>1 DEF enqueue, queueVars, workerVars
  <2>3. QED
      BY <2>1, <2>2
<1>2. CASE Push
  <2>1. reader = "push" /\ reader' # "push" /\ UNCHANGED <<cur, received>>
      BY <1>2 DEF Push, workerVars
  <2>2. queue' = Append(queue, Len(received)) /\ Len(queue') = Len(queue) + 1
      BY <1>2 DEF Push
  <2>3. ASSUME NEW i \in 1..Len(queue') PROVE queue'[i] = cur + i
    <3>1. CASE i \in 1..Len(queue)
        BY <2>2, <3>1
    <3>2. CASE i = Len(queue) + 1
      <4>1. queue'[i] = Len(received)
          BY <2>2, <3>2
      <4>2. /\ cur + Len(queue) = Len(received) - 1
            /\ cur \in Nat /\ Len(queue) \in Nat /\ Len(received) \in Nat
          BY <2>1, LenProperties
      <4>3. cur + (Len(queue) + 1) = Len(received)
          BY ONLY <4>2
      <4>4. QED
          BY ONLY <3>2, <4>1, <4>3
    <3>3. QED
        BY <2>2, <3>1, <3>2
  <2>4. QED
      BY <2>1, <2>2, <2>3
<1>3. CASE WorkerTakes
  <2>1. queue # <<>> /\ cur' = Head(queue) /\ queue' = Tail(queue)
        /\ UNCHANGED <<received, reader>>
      BY <1>3 DEF WorkerTakes, readerVars
  <2>2. Len(queue) > 0 /\ cur' = cur + 1
      BY <2>1
  <2>3. Len(queue') = Len(queue) - 1
        /\ \A i \in 1..Len(queue') : queue'[i] = queue[i + 1]
      BY <2>1, <2>2
  <2>4. \A i \in 1..Len(queue') : queue'[i] = cur' + i
      BY <2>2, <2>3
  <2>5. cur' + Len(queue') = cur + Len(queue)
      BY <2>2, <2>3
  <2>6. QED
      BY <2>1, <2>4, <2>5
<1>4. CASE OtherReader
    BY <1>4, OtherReaderFrame
<1>5. CASE OtherWorker
    BY <1>5, OtherWorkerFrame
<1>6. CASE UNCHANGED vars
    BY <1>6 DEF vars
<1>7. QED
    BY <1>1, <1>2, <1>3, <1>4, <1>5, <1>6, NextCases

-----------------------------------------------------------------------------
(* Results and answers.                                                    *)

LEMMA ServiceInvInit == Init => ServiceInv
<1> SUFFICES ASSUME Init PROVE ServiceInv
    OBVIOUS
<1>1. TypeInv
    BY TypeInvInit
<1>2. Len(received) = 0 /\ Len(queue) = 0 /\ cur = 0 /\ reader = "read"
      /\ worker = "none"
    BY DEF Init
<1>3. QueueExact /\ InitStage /\ ResultExact
    BY <1>2 DEF QueueExact, InitStage, ResultExact
<1>4. AnswersExact
  <2>1. ASSUME NEW n \in Ids PROVE answer[n] = "none" /\ ~(n <= Len(received))
      BY <1>2, JsonRpcAssumption DEF Init, Ids
  <2>2. QED
      BY <2>1 DEF AnswersExact
<1>5. QED
    BY <1>1, <1>3, <1>4 DEF ServiceInv

LEMMA InitStageStep == InitStage /\ [Next]_vars => InitStage'
<1> SUFFICES ASSUME InitStage, [Next]_vars PROVE InitStage'
    OBVIOUS
<1> USE DEF InitStage
<1>1. ASSUME NEW m \in Message, enqueue(m) PROVE InitStage'
    BY <1>1 DEF enqueue, CanRead
<1>2. CASE Push
    BY <1>2 DEF Push, workerVars
<1>3. CASE WorkerTakes
    BY <1>3 DEF WorkerTakes, readerVars
<1>4. CASE OtherReader
  <2>1. loop' = "init" => loop = "init" /\ ~Initialize
      BY <1>4 DEF OtherReader, RejectUninitialized, Initialize, EnqueueThrows,
          handleCancelRequest, BadCancelRequest, BadJson, ReadThrows,
          RejectAfterShutdown, Exit, CloseInput, Notify, CatchLock,
          ReaderWritesBody, Finish, FinishNotify, Join
  <2>2. QED
      BY <1>4, <2>1, OtherReaderFrame
<1>5. CASE OtherWorker
  <2>1. worker # "none"
      BY <1>5 DEF OtherWorker, WorkerWaits, WorkerLocks, CallNotification,
          SkipUnknown, startRequest, HandlerPublishes, HandlerPublished,
          HandlerReturns, HandlerThrows, NoticeWritten, Unregister,
          SendResponse, ResponseWritten, WorkerUnlocks, SpuriousWakeup
  <2>2. QED
      BY <1>5, <2>1, OtherWorkerFrame
<1>6. CASE UNCHANGED vars
    BY <1>6 DEF vars
<1>7. QED
    BY <1>1, <1>2, <1>3, <1>4, <1>5, <1>6, NextCases

\* A message keeps its number when later ones arrive.
LEMMA EarlierStay ==
    ASSUME TypeInv, NEW m \in Message, enqueue(m), NEW n \in 1..Len(received)
    PROVE  received'[n] = received[n]
BY DEF TypeInv, TypeOK, enqueue

\* A busy worker's message is one of those received.
LEMMA CurReceived ==
    ASSUME TypeInv, QueueExact, worker \in Busy
    PROVE  cur \in 1..Len(received) /\ received[cur] \in Message
<1>1. cur \in Nat /\ cur # 0
    BY DEF TypeInv, TypeOK, NumbersExist, Ids
<1>2. Len(queue) \in Nat /\ Len(received) \in Nat
    BY LenProperties DEF TypeInv, TypeOK
<1>3. cur <= Len(received)
    BY <1>1, <1>2 DEF QueueExact
<1>4. QED
    BY <1>1, <1>2, <1>3 DEF TypeInv, TypeOK

LEMMA ResultStep ==
    TypeInv /\ QueueExact /\ ResultExact /\ [Next]_vars => ResultExact'
<1> SUFFICES ASSUME TypeInv, QueueExact, ResultExact, [Next]_vars
             PROVE  ResultExact'
    OBVIOUS
<1>0. worker \in Busy => cur \in 1..Len(received) /\ received[cur] \in Message
    BY CurReceived
<1> USE DEF ResultExact, Busy
<1>1. ASSUME NEW m \in Message, enqueue(m) PROVE ResultExact'
  <2>1. UNCHANGED <<worker, cur, result>>
      BY <1>1 DEF enqueue, workerVars
  <2>2. worker \in Busy => received'[cur] = received[cur]
      BY <1>0, <1>1, EarlierStay
  <2>3. QED
      BY <2>1, <2>2
<1>2. CASE Push
    BY <1>2 DEF Push, workerVars
<1>3. CASE WorkerTakes
    BY <1>3 DEF WorkerTakes
<1>4. CASE OtherReader
  <2>1. Initialize => worker' = "check"
      BY DEF Initialize
  <2>2. QED
      BY <1>4, <2>1, OtherReaderFrame
<1>5. CASE OtherWorker
  <2>0. UNCHANGED <<received, cur>>
      BY <1>5, OtherWorkerFrame
  <2>1. CASE WorkerWaits \/ WorkerUnlocks \/ SpuriousWakeup \/ WorkerLocks
      BY <2>1 DEF WorkerWaits, WorkerUnlocks, SpuriousWakeup, WorkerLocks
  <2>2. CASE CallNotification
      BY <2>0, <2>2 DEF CallNotification, IsRequest, Expecting
  <2>3. CASE SkipUnknown
      BY <2>0, <2>3 DEF SkipUnknown, Expecting
  <2>4. CASE startRequest
      BY <2>0, <2>4 DEF startRequest, Expecting
  <2>5. CASE HandlerPublishes \/ HandlerPublished
      BY <2>0, <2>5 DEF HandlerPublishes, HandlerPublished
  <2>6. CASE HandlerReturns \/ HandlerThrows
    <3>1. received[cur] \in Expecting <=> IsRequest(received[cur])
        BY <2>6, <1>0 DEF HandlerReturns, HandlerThrows, IsRequest, Expecting
    <3>2. QED
        BY <2>0, <2>6, <3>1 DEF HandlerReturns, HandlerThrows
  <2>7. CASE NoticeWritten \/ Unregister
      BY <2>0, <2>7 DEF NoticeWritten, Unregister
  <2>8. CASE SendResponse \/ ResponseWritten
      BY <2>0, <2>8 DEF SendResponse, ResponseWritten
  <2>9. QED
      BY <1>5, <2>1, <2>2, <2>3, <2>4, <2>5, <2>6, <2>7, <2>8 DEF OtherWorker
<1>6. CASE UNCHANGED vars
    BY <1>6 DEF vars
<1>7. QED
    BY <1>1, <1>2, <1>3, <1>4, <1>5, <1>6, NextCases

LEMMA AnswersStep == ServiceInv /\ [Next]_vars => AnswersExact'
<1> SUFFICES ASSUME ServiceInv, [Next]_vars PROVE AnswersExact'
    OBVIOUS
<1> USE DEF ServiceInv
<1>0. /\ cur \in Nat /\ Len(received) \in Nat /\ cur <= Len(received)
      /\ Len(queue) \in Nat
    BY LenProperties DEF QueueExact, TypeInv, TypeOK, Ids
<1>a. /\ worker \in Busy => cur \in 1..Len(received) /\ received[cur] \in Message
      /\ worker \in Busy => cur \in Ids
    BY CurReceived DEF TypeInv, NumbersExist
<1>1. ASSUME NEW m \in Message, enqueue(m) PROVE AnswersExact'
  <2>1. UNCHANGED <<worker, cur, answer>> /\ Len(received') = Len(received) + 1
      BY <1>1 DEF enqueue, workerVars, historyVars, TypeInv, TypeOK
  <2>2. SUFFICES ASSUME NEW n \in Ids
                 PROVE  answer[n] # "none" <=>
                          /\ n <= Len(received')
                          /\ received'[n] \in Expecting
                          /\ n < cur \/ (n = cur /\ worker \in Between)
      BY <2>1 DEF AnswersExact
  <2>3. CASE n <= Len(received)
    <3>1. received'[n] = received[n]
        BY <1>1, <2>3, EarlierStay DEF Ids
    <3>2. QED
        BY <1>0, <2>1, <2>3, <3>1 DEF AnswersExact, Ids
  <2>4. CASE n > Len(received)
      BY <1>0, <2>1, <2>4 DEF AnswersExact, Ids
  <2>5. QED
      BY <1>0, <2>3, <2>4 DEF Ids
<1>2. CASE Push
    BY <1>2 DEF Push, workerVars, historyVars, AnswersExact
<1>3. CASE WorkerTakes
  <2>1. /\ worker = "check" /\ worker' = "lock" /\ UNCHANGED <<received, answer>>
        /\ cur' = Head(queue) /\ queue # <<>>
      BY <1>3 DEF WorkerTakes, readerVars, historyVars
  <2>2. cur' = cur + 1
      BY <2>1 DEF QueueExact, TypeInv, TypeOK
  <2>3. QED
      BY <1>0, <2>1, <2>2 DEF AnswersExact, Between, Ids
<1>4. CASE OtherReader
  <2>1. UNCHANGED <<received, cur, answer>>
      BY <1>4, OtherReaderFrame
  <2>2. CASE Initialize
    <3>1. cur = 0
        BY <2>2 DEF Initialize, CanRead, InitStage
    <3>2. QED
        BY <2>1, <3>1 DEF AnswersExact, Ids
  <2>3. CASE ~Initialize
    <3>1. worker' \in Between <=> worker \in Between
        BY <1>4, <2>3, OtherReaderFrame DEF Between
    <3>2. QED
        BY <2>1, <3>1 DEF AnswersExact
  <2>4. QED
      BY <2>2, <2>3
<1>5. CASE OtherWorker
  <2>0. UNCHANGED <<received, cur>>
      BY <1>5, OtherWorkerFrame
  <2>1. CASE WorkerWaits \/ WorkerUnlocks \/ SpuriousWakeup
    <3>1. UNCHANGED answer /\ worker' \in Between /\ worker \in Between
        BY <2>1 DEF WorkerWaits, WorkerUnlocks, SpuriousWakeup, historyVars, Between
    <3>2. QED
        BY <2>0, <3>1 DEF AnswersExact
  <2>2. CASE \/ WorkerLocks \/ CallNotification \/ SkipUnknown \/ startRequest
             \/ HandlerPublishes \/ HandlerPublished \/ HandlerReturns
             \/ HandlerThrows \/ NoticeWritten \/ SendResponse
    <3>1. UNCHANGED answer /\ worker' \notin Between /\ worker \notin Between
        BY <2>2 DEF WorkerLocks, CallNotification, SkipUnknown, startRequest,
            HandlerPublishes, HandlerPublished, HandlerReturns, HandlerThrows,
            NoticeWritten, SendResponse, historyVars, Between
    <3>2. QED
        BY <2>0, <3>1 DEF AnswersExact
  <2>3. CASE Unregister
    <3>1. /\ UNCHANGED answer /\ worker \notin Between
          /\ worker' \in Between => received[cur] \notin Expecting
        BY <2>3 DEF Unregister, historyVars, Between, ResultExact
    <3>2. QED
        BY <2>0, <3>1 DEF AnswersExact
  <2>4. CASE ResponseWritten
    <3>1. /\ received[cur] \in Expecting /\ result # "none"
          /\ worker \notin Between /\ worker' \in Between
          /\ answer' = [answer EXCEPT ![cur] = result]
          /\ cur \in Ids /\ cur <= Len(received)
        BY <1>0, <1>a, <2>4 DEF ResponseWritten, ResultExact, Between, Busy
    <3>2. \A n \in Ids : answer'[n] = IF n = cur THEN result ELSE answer[n]
        BY <3>1 DEF TypeInv, TypeOK
    <3>3. QED
        BY <2>0, <3>1, <3>2 DEF AnswersExact
  <2>5. QED
      BY <1>5, <2>1, <2>2, <2>3, <2>4 DEF OtherWorker
<1>6. CASE UNCHANGED vars
    BY <1>6 DEF vars, AnswersExact
<1>7. QED
    BY <1>1, <1>2, <1>3, <1>4, <1>5, <1>6, NextCases

LEMMA TypeInvStep == TypeInv /\ [Next]_vars => TypeInv'
BY TypeInvClient, TypeInvReader, TypeInvWorker, TypeInvStutter DEF Next, Exited

LEMMA ServiceInvariant == SafetySpec => []ServiceInv
<1>1. ServiceInv /\ [Next]_vars => ServiceInv'
    BY TypeInvStep, QueueStep, InitStageStep, ResultStep, AnswersStep
       DEF ServiceInv
<1>2. QED
    BY ServiceInvInit, <1>1, PTL DEF SafetySpec

\* Every step of the two threads is an Accept, a Reply or nothing at all to the
\* client: a request is answered at most once, never before an older one, and
\* never changed, whatever the interleaving, cancellations and failures.
THEOREM ImplementsServiceSafety == SafetySpec => Svc!ServiceSafety
<1>1. Init => Svc!ServiceInit
    BY DEF Init, Svc!ServiceInit, Ids
<1>2. ServiceInv /\ [Next]_vars => [Svc!ServiceNext]_<<received, answer>>
  <2> SUFFICES ASSUME ServiceInv, [Next]_vars
               PROVE  Svc!ServiceNext \/ UNCHANGED <<received, answer>>
      OBVIOUS
  <2>1. ASSUME NEW m \in Message, enqueue(m) PROVE Svc!ServiceNext
      BY <2>1 DEF enqueue, historyVars, Svc!ServiceNext, Svc!Accept
  <2>2. CASE Push \/ WorkerTakes
      BY <2>2 DEF Push, WorkerTakes, readerVars, historyVars
  <2>3. CASE OtherReader
      BY <2>3, OtherReaderFrame
  <2>4. CASE ResponseWritten
    <3>1. cur \in 1..Len(received) /\ cur \in Ids /\ UNCHANGED received
        BY <2>4, CurReceived DEF ResponseWritten, readerVars, Busy, ServiceInv,
                                 TypeInv, NumbersExist
    <3>2. received[cur] \in Expecting /\ result \in Outcome
        BY <2>4 DEF ResponseWritten, ServiceInv, ResultExact, TypeInv, TypeOK
    <3>3. answer[cur] = "none"
        BY <2>4, <3>1 DEF ResponseWritten, ServiceInv, AnswersExact, Between, Ids
    <3>4. \A k \in 1..(cur - 1) : received[k] \in Expecting => answer[k] # "none"
      <4>1. Len(received) <= MaxMessages /\ Len(received) \in Nat
          BY LenProperties DEF ServiceInv, TypeInv, TypeOK
      <4>2. TAKE k \in 1..(cur - 1)
      <4>3. k \in Ids /\ k < cur /\ k <= Len(received)
          BY <3>1, <4>1, JsonRpcAssumption DEF Ids
      <4>4. QED
          BY <4>3 DEF ServiceInv, AnswersExact
    <3>5. Svc!Reply(cur, result)
        BY <2>4, <3>1, <3>2, <3>3, <3>4
           DEF ResponseWritten, Svc!Reply, Svc!IsNextOwed
    <3>6. QED
        BY <3>1, <3>2, <3>5 DEF Svc!ServiceNext, Ids
  <2>5. CASE OtherWorker /\ ~ResponseWritten
    <3>1. UNCHANGED answer
        BY <2>5 DEF OtherWorker, WorkerWaits, WorkerUnlocks, SpuriousWakeup,
            WorkerLocks, CallNotification, SkipUnknown, startRequest,
            HandlerPublishes, HandlerPublished, HandlerReturns, HandlerThrows,
            NoticeWritten, Unregister, SendResponse, historyVars
    <3>2. QED
        BY <2>5, <3>1, OtherWorkerFrame
  <2>6. CASE UNCHANGED vars
      BY <2>6 DEF vars
  <2>7. QED
      BY <2>1, <2>2, <2>3, <2>4, <2>5, <2>6, NextCases DEF OtherWorker
<1>3. QED
    BY <1>1, <1>2, ServiceInvariant, PTL
       DEF SafetySpec, Svc!ServiceSafety, Svc!serviceVars

-----------------------------------------------------------------------------
(* The condition variable.                                                 *)

\* The worker never sleeps through a message or through the end of the input.
THEOREM NoWakeupIsLost == SafetySpec => []NoLostWakeup
<1>1. Init => NoLostWakeup
    BY DEF Init, NoLostWakeup
<1>2. NoLostWakeup /\ [Next]_vars => NoLostWakeup'
  <2> SUFFICES ASSUME NoLostWakeup, [Next]_vars PROVE NoLostWakeup'
      OBVIOUS
  <2> USE DEF NoLostWakeup, queueVars, workerVars
  <2>1. ASSUME NEW m \in Message, enqueue(m) PROVE NoLostWakeup'
      BY <2>1 DEF enqueue, CanRead
  <2>2. CASE Push
      BY <2>2 DEF Push
  <2>3. CASE WorkerTakes
      BY <2>3 DEF WorkerTakes
  <2>4. CASE OtherReader
    <3>1. CASE Notify \/ FinishNotify
        BY <3>1 DEF Notify, FinishNotify, WakeWorker
    <3>2. CASE Finish
        BY <3>2 DEF Finish
    <3>3. CASE Initialize \/ CatchLock \/ ReaderWritesBody \/ Join
        BY <3>3 DEF Initialize, CatchLock, ReaderWritesBody, Join
    <3>4. CASE RejectUninitialized \/ EnqueueThrows \/ BadCancelRequest \/ BadJson
        BY <3>4 DEF RejectUninitialized, EnqueueThrows, BadCancelRequest, BadJson,
                    CanRead
    <3>5. CASE ReadThrows
        BY <3>5 DEF ReadThrows, CanRead
    <3>6. CASE RejectAfterShutdown \/ Exit \/ CloseInput
        BY <3>6 DEF RejectAfterShutdown, Exit, CloseInput, CanRead
    <3>7. CASE \E n \in 1..Len(received) : handleCancelRequest(n)
        BY <3>7 DEF handleCancelRequest
    <3>8. QED
        BY <2>4, <3>1, <3>2, <3>3, <3>4, <3>5, <3>6, <3>7 DEF OtherReader
  <2>5. CASE OtherWorker
    <3>1. worker' = "wait" => queue = <<>> /\ ~inputFinished
        BY <2>5 DEF OtherWorker, WorkerWaits, WorkerLocks, CallNotification,
            SkipUnknown, startRequest, HandlerPublishes, HandlerPublished,
            HandlerReturns, HandlerThrows, NoticeWritten, Unregister,
            SendResponse, ResponseWritten, WorkerUnlocks, SpuriousWakeup
    <3>2. QED
        BY <2>5, <3>1, OtherWorkerFrame
  <2>6. CASE UNCHANGED vars
      BY <2>6 DEF vars
  <2>7. QED
      BY <2>1, <2>2, <2>3, <2>4, <2>5, <2>6, NextCases
<1>3. QED
    BY <1>1, <1>2, PTL DEF SafetySpec

-----------------------------------------------------------------------------
(* Frames on stdout.                                                       *)

LEMMA FrameStep ==
    ASSUME FrameInv, [Next]_vars
    PROVE  FrameInv'
<1> USE DEF FrameInv, MessageHoldsLock
<1>1. ASSUME NEW m \in Message, enqueue(m) PROVE FrameInv'
    BY <1>1 DEF enqueue, CanRead, workerVars
<1>2. CASE Push \/ WorkerTakes
    BY <1>2 DEF Push, WorkerTakes, workerVars, readerVars
<1>3. CASE OtherReader
  <2>1. CASE Notify \/ FinishNotify
      BY <2>1 DEF Notify, FinishNotify, WakeWorker
  <2>2. CASE Initialize \/ CatchLock \/ Finish \/ Join
      BY <2>2 DEF Initialize, CanRead, CatchLock, Finish, Join, workerVars
  <2>3. CASE ReaderWritesBody
      BY <2>3 DEF ReaderWritesBody, workerVars
  <2>4. CASE RejectUninitialized \/ EnqueueThrows \/ Exit \/ CloseInput
      BY <2>4 DEF RejectUninitialized, EnqueueThrows, Exit, CloseInput, CanRead,
                  workerVars
  <2>5. CASE ReadThrows
      BY <2>5 DEF ReadThrows, CanRead, workerVars
  <2>6. CASE \E n \in 1..Len(received) : handleCancelRequest(n)
      BY <2>6 DEF handleCancelRequest, CanRead, workerVars
  <2>7. CASE BadCancelRequest \/ BadJson \/ RejectAfterShutdown
      BY <2>7 DEF BadCancelRequest, BadJson, RejectAfterShutdown, CanRead, workerVars
  <2>8. QED
      BY <1>3, <2>1, <2>2, <2>3, <2>4, <2>5, <2>6, <2>7 DEF OtherReader
<1>4. CASE OtherWorker
  <2>1. UNCHANGED <<reader, loop>> /\ worker # "none"
    <3>1. worker # "none"
        BY <1>4 DEF OtherWorker, WorkerWaits, WorkerLocks, CallNotification,
            SkipUnknown, startRequest, HandlerPublishes, HandlerPublished,
            HandlerReturns, HandlerThrows, NoticeWritten, Unregister,
            SendResponse, ResponseWritten, WorkerUnlocks, SpuriousWakeup
    <3>2. QED
        BY <1>4, <3>1, OtherWorkerFrame
  <2>2. CASE WorkerLocks \/ WorkerUnlocks
      BY <2>1, <2>2 DEF WorkerLocks, WorkerUnlocks
  <2>3. CASE \/ WorkerWaits \/ SpuriousWakeup \/ CallNotification \/ SkipUnknown
             \/ startRequest
      BY <2>1, <2>3 DEF WorkerWaits, SpuriousWakeup, CallNotification,
          SkipUnknown, startRequest
  <2>4. CASE \/ HandlerPublishes \/ HandlerPublished \/ HandlerReturns
             \/ HandlerThrows \/ NoticeWritten
      BY <2>1, <2>4 DEF HandlerPublishes, HandlerPublished, HandlerReturns,
          HandlerThrows, NoticeWritten
  <2>5. CASE Unregister \/ SendResponse \/ ResponseWritten
      BY <2>1, <2>5 DEF Unregister, SendResponse, ResponseWritten
  <2>6. QED
      BY <1>4, <2>2, <2>3, <2>4, <2>5 DEF OtherWorker
<1>5. CASE UNCHANGED vars
    BY <1>5 DEF vars
<1>6. QED
    BY <1>1, <1>2, <1>3, <1>4, <1>5, NextCases

\* Whatever the client sends, no frame written under serverStateMutex or before the
\* worker exists is split by a frame of the other thread (JsonRpcServer.h).
THEOREM FramesAreWhole == SafetySpec => []WellFramed
<1>1. Init => FrameInv
    BY DEF Init, FrameInv, MessageHoldsLock
<1>2. FrameInv /\ [Next]_vars => FrameInv'
    BY FrameStep
<1>3. FrameInv => WellFramed
    BY DEF FrameInv, MessageHoldsLock, WellFramed
<1>4. QED
    BY <1>1, <1>2, <1>3, PTL DEF SafetySpec

-----------------------------------------------------------------------------
(* Cancellation: the registries follow the messages in flight exactly,     *)
(* superseding a didChange spares its analysis and never its edit, and     *)
(* $/cancelRequest never cancels a handler that could not notice.          *)

\* The context of message n has not been unregistered.
Registered(n) == n > cur \/ (n = cur /\ worker \in Unregistered)

\* activeRequests holds exactly the requests not yet unregistered.
ActiveExact ==
    \A n \in Ids : n \in activeRequests <=>
        n <= Len(received) /\ IsRequest(received[n]) /\ Registered(n)

\* Changes of document u whose context is registered.
ChangesOf(u) ==
    {n \in 1..Len(received) :
        IsChange(n) /\ received[n].uri = u /\ Registered(n)}

\* The registry of changes holds the newest of each document.
PendingExact ==
    \A u \in Uris :
        /\ pendingDocumentChanges[u] # 0 => pendingDocumentChanges[u] \in ChangesOf(u)
        /\ \A n \in ChangesOf(u) : n <= pendingDocumentChanges[u]

\* Only messages that exist are cancelled; a didChange is, as soon as a newer one
\* for the same document has arrived.
CancelledExact ==
    /\ \A n \in cancelled : n <= Len(received)
    /\ \A n \in 1..Len(received) : IsChange(n) /\ Registered(n) =>
         (n \in cancelled <=>
             \E m \in 1..Len(received) : m > n /\ SameDocument(m, n))

ContextInv == ActiveExact /\ PendingExact /\ CancelledExact

\* From here on the worker only reports what the handler of cur did.
Reporting == {"noticeBody", "unregister", "send", "sendBody"}

\* Requests: what was started, what was handed over, and what was answered agree
\* with what was cancelled before.
StartedExact ==
    /\ \A n \in started \cup handled : n <= cur
    /\ worker \in {"lock", "process"} => cur \notin started \cup handled
    /\ worker \in {"handler", "publishBody"} => cur \in handled
    /\ \A n \in handled : received[n] \in Expecting => n \in started
    /\ worker \in Reporting /\ result \in {"result", "InternalError"} =>
         cur \in started
    /\ \A n \in cancelled : received[n].kind \in {"plain", "shutdown"} =>
         n \notin started /\ answer[n] \in {"none", "RequestCancelled"}

\* Notifications: exactly the registered ones that were taken were handed over.
NotificationsExact ==
    \A n \in 1..Len(received) : ~IsRequest(received[n]) =>
        (n \in handled <=> received[n].kind # "ignored" /\ n \in Dispatched)

-----------------------------------------------------------------------------
(* Which steps touch the contexts.                                         *)

LEMMA ContextCases ==
    ASSUME [Next]_vars
    PROVE  \/ \E m \in Message : enqueue(m)
           \/ \E n \in 1..Len(received) : handleCancelRequest(n)
           \/ Unregister
           \/ /\ ~Unregister
              /\ UNCHANGED <<received, activeRequests, pendingDocumentChanges,
                             cancelled>>
<1> USE DEF queueVars, contextVars, readerVars
<1>1. CASE Push \/ WorkerTakes \/ UNCHANGED vars
    BY <1>1 DEF Push, WorkerTakes, vars
<1>2. CASE OtherReader
  <2>1. UNCHANGED <<received, activeRequests, pendingDocumentChanges>>
      BY <1>2, OtherReaderFrame
  <2>2. (\E n \in 1..Len(received) : handleCancelRequest(n)) \/ UNCHANGED cancelled
      BY <1>2 DEF OtherReader, RejectUninitialized, Initialize, EnqueueThrows,
          BadCancelRequest, BadJson, ReadThrows, RejectAfterShutdown, Exit,
          CloseInput, Notify, CatchLock, ReaderWritesBody, Finish, FinishNotify,
          Join
  <2>3. QED
      BY <2>1, <2>2
<1>3. CASE OtherWorker
    BY <1>3 DEF OtherWorker, WorkerWaits, WorkerLocks, CallNotification,
        SkipUnknown, startRequest, HandlerPublishes, HandlerPublished,
        HandlerReturns, HandlerThrows, NoticeWritten, SendResponse,
        ResponseWritten, WorkerUnlocks, SpuriousWakeup
<1>4. QED
    BY <1>1, <1>2, <1>3, NextCases

\* A context stays registered until unregisterContext is called for it.
LEMMA RegisteredStays ==
    ASSUME ServiceInv, [Next]_vars, ~Unregister, NEW n \in Nat
    PROVE  Registered(n)' <=> Registered(n)
<1> USE DEF Registered, Unregistered
<1>1. CASE (\E m \in Message : enqueue(m)) \/ Push \/ UNCHANGED vars
    BY <1>1 DEF enqueue, Push, workerVars, vars
<1>2. CASE WorkerTakes
  <2>1. worker = "check" /\ worker' = "lock" /\ cur' = Head(queue) /\ queue # <<>>
      BY <1>2 DEF WorkerTakes
  <2>2. cur' = cur + 1 /\ cur \in Nat
      BY <2>1 DEF ServiceInv, QueueExact, TypeInv, TypeOK, Ids
  <2>3. QED
      BY <2>1, <2>2
<1>3. CASE OtherReader
  <2>1. Initialize => worker = "none" /\ worker' = "check"
      BY DEF Initialize, CanRead, ServiceInv, InitStage
  <2>2. QED
      BY <1>3, <2>1, OtherReaderFrame
<1>4. CASE OtherWorker
  <2>1. worker' \in Unregistered <=> worker \in Unregistered
      BY <1>4 DEF OtherWorker, WorkerWaits, WorkerLocks, CallNotification,
          SkipUnknown, startRequest, HandlerPublishes, HandlerPublished,
          HandlerReturns, HandlerThrows, NoticeWritten, SendResponse,
          ResponseWritten, WorkerUnlocks, SpuriousWakeup
  <2>2. QED
      BY <1>4, <2>1, OtherWorkerFrame
<1>5. QED
    BY <1>1, <1>2, <1>3, <1>4, NextCases

\* What the arrival of message m does to the other messages.
LEMMA Arrival ==
    ASSUME ServiceInv, NEW m \in Message, enqueue(m)
    PROVE  /\ Len(received) \in Nat /\ Len(received') = Len(received) + 1
           /\ Len(received) + 1 \in Ids
           /\ received'[Len(received) + 1] = m
           /\ \A n \in 1..Len(received) : received'[n] = received[n]
           /\ \A n \in Nat : Registered(n)' <=> Registered(n)
           /\ cur \in Nat /\ cur <= Len(received)
<1>1. /\ received \in Seq(Message) /\ Len(received) \in Nat
      /\ received' = Append(received, m)
      /\ UNCHANGED <<worker, cur>> /\ Len(received) < MaxMessages
    BY LenProperties DEF enqueue, workerVars, ServiceInv, TypeInv, TypeOK
<1>2. Len(queue) \in Nat /\ cur \in Nat /\ Len(received) + 1 \in Ids
    BY <1>1, LenProperties, JsonRpcAssumption DEF ServiceInv, TypeInv, TypeOK, Ids
<1>3. cur <= Len(received)
    BY <1>1, <1>2 DEF ServiceInv, QueueExact
<1>4. QED
    BY <1>1, <1>2, <1>3 DEF Registered

-----------------------------------------------------------------------------
(* The registries.                                                         *)

LEMMA ActiveStep == ServiceInv /\ ActiveExact /\ [Next]_vars => ActiveExact'
<1> SUFFICES ASSUME ServiceInv, ActiveExact, [Next]_vars PROVE ActiveExact'
    OBVIOUS
<1>0. Len(received) \in Nat
    BY LenProperties DEF ServiceInv, TypeInv, TypeOK
<1>1. ASSUME NEW m \in Message, enqueue(m) PROVE ActiveExact'
  <2> DEFINE N == Len(received) + 1
  <2>1. activeRequests' = IF IsRequest(m) THEN activeRequests \cup {N}
                                          ELSE activeRequests
      BY <1>1 DEF enqueue, registerContext
  <2>2. SUFFICES ASSUME NEW n \in Ids
                 PROVE  n \in activeRequests' <=>
                          /\ n <= Len(received')
                          /\ IsRequest(received'[n])
                          /\ Registered(n)'
      BY DEF ActiveExact
  <2>3. n \in Nat /\ n >= 1
      BY DEF Ids
  <2>4. CASE n <= Len(received)
    <3>1. received'[n] = received[n] /\ n # N /\ (Registered(n)' <=> Registered(n))
          /\ n <= Len(received')
        BY <1>0, <1>1, <2>3, <2>4, Arrival
    <3>2. n \in activeRequests' <=> n \in activeRequests
        BY <2>1, <3>1
    <3>3. QED
        BY <2>4, <3>1, <3>2 DEF ActiveExact
  <2>5. CASE n = N
    <3>1. received'[n] = m /\ n <= Len(received') /\ n > cur
          /\ (Registered(n)' <=> Registered(n))
        BY <1>0, <1>1, <2>3, <2>5, Arrival
    <3>2. n \notin activeRequests
        BY <1>0, <2>5 DEF ActiveExact
    <3>3. Registered(n)
        BY <3>1 DEF Registered
    <3>4. QED
        BY <2>1, <2>5, <3>1, <3>2, <3>3
  <2>6. CASE n > N
    <3>1. n \notin activeRequests /\ n # N /\ ~(n <= Len(received'))
        BY <1>0, <1>1, <2>3, <2>6, Arrival DEF ActiveExact
    <3>2. QED
        BY <2>1, <3>1
  <2>7. QED
      BY <1>0, <2>3, <2>4, <2>5, <2>6
<1>2. ASSUME NEW k \in 1..Len(received), handleCancelRequest(k) PROVE ActiveExact'
    BY <1>2 DEF handleCancelRequest, cancelRequest, workerVars, ActiveExact,
                Registered
<1>3. CASE Unregister
  <2>1. /\ activeRequests' = activeRequests \ {cur}
        /\ worker = "unregister" /\ worker' \notin Unregistered
        /\ UNCHANGED <<received, cur>>
      BY <1>3 DEF Unregister, unregisterContext, readerVars, Unregistered
  <2>2. cur \in Nat
      BY DEF ServiceInv, TypeInv, TypeOK, Ids
  <2>3. QED
      BY <2>1, <2>2 DEF ActiveExact, Registered, Unregistered, Ids
<1>4. CASE ~Unregister /\ UNCHANGED <<received, activeRequests>>
    BY <1>4, RegisteredStays DEF ActiveExact, Ids
<1>5. QED
    BY <1>1, <1>2, <1>3, <1>4, ContextCases

\* The changes of a document that are registered after the arrival of m.
LEMMA ChangesAfterArrival ==
    ASSUME ServiceInv, NEW m \in Message, enqueue(m), NEW u \in Uris
    PROVE  ChangesOf(u)' = IF m.kind = "change" /\ m.uri = u
                           THEN ChangesOf(u) \cup {Len(received) + 1}
                           ELSE ChangesOf(u)
<1>0. PICK N \in Nat : N = Len(received) + 1
    BY Arrival
<1>1. N \in 1..Len(received') /\ received'[N] = m /\ Registered(N)'
      /\ N \notin 1..Len(received)
  <2>1. N > cur
      BY <1>0, Arrival
  <2>2. QED
      BY <1>0, <2>1, Arrival DEF Registered
<1>2. ASSUME NEW n \in 1..Len(received)
      PROVE  /\ n \in 1..Len(received') /\ received'[n] = received[n]
             /\ Registered(n)' <=> Registered(n)
    BY Arrival
<1>3. \A n \in 1..Len(received') : n \in 1..Len(received) \/ n = N
    BY <1>0, Arrival
<1>4. QED
    BY <1>0, <1>1, <1>2, <1>3 DEF ChangesOf, IsChange

\* A step that is not an arrival and does not unregister changes no document's set.
LEMMA ChangesStay ==
    ASSUME ServiceInv, [Next]_vars, ~Unregister, UNCHANGED received, NEW u \in Uris
    PROVE  ChangesOf(u)' = ChangesOf(u)
BY RegisteredStays DEF ChangesOf, IsChange

LEMMA PendingStep == ServiceInv /\ PendingExact /\ [Next]_vars => PendingExact'
<1> SUFFICES ASSUME ServiceInv, PendingExact, [Next]_vars, NEW u \in Uris
             PROVE  /\ pendingDocumentChanges'[u] # 0 =>
                         pendingDocumentChanges'[u] \in ChangesOf(u)'
                    /\ \A n \in ChangesOf(u)' : n <= pendingDocumentChanges'[u]
    BY DEF PendingExact
<1>0. /\ Len(received) \in Nat /\ cur \in Nat
      /\ pendingDocumentChanges \in [Uris -> Ids \cup {0}]
      /\ ChangesOf(u) \subseteq 1..Len(received)
    BY LenProperties DEF ServiceInv, TypeInv, TypeOK, Ids, ChangesOf
<1>1. ASSUME NEW m \in Message, enqueue(m)
      PROVE  /\ pendingDocumentChanges'[u] # 0 =>
                  pendingDocumentChanges'[u] \in ChangesOf(u)'
             /\ \A n \in ChangesOf(u)' : n <= pendingDocumentChanges'[u]
  <2>1. CASE m.kind = "change" /\ m.uri = u
    <3>1. pendingDocumentChanges'[u] = Len(received) + 1
        BY <1>0, <1>1, <2>1 DEF enqueue, registerContext
    <3>2. ChangesOf(u)' = ChangesOf(u) \cup {Len(received) + 1}
        BY <1>1, <2>1, ChangesAfterArrival
    <3>3. QED
        BY <1>0, <3>1, <3>2
  <2>2. CASE ~(m.kind = "change" /\ m.uri = u)
    <3>1. pendingDocumentChanges'[u] = pendingDocumentChanges[u]
        BY <1>0, <1>1, <2>2, MessageFields DEF enqueue, registerContext
    <3>2. ChangesOf(u)' = ChangesOf(u)
        BY <1>1, <2>2, ChangesAfterArrival
    <3>3. QED
        BY <3>1, <3>2 DEF PendingExact
  <2>3. QED
      BY <2>1, <2>2
<1>2. ASSUME NEW k \in 1..Len(received), handleCancelRequest(k)
      PROVE  UNCHANGED pendingDocumentChanges /\ ChangesOf(u)' = ChangesOf(u)
    BY <1>2 DEF handleCancelRequest, cancelRequest, workerVars, ChangesOf, IsChange,
                Registered
<1>3. CASE Unregister
  <2>1. /\ worker = "unregister" /\ worker' \notin Unregistered
        /\ UNCHANGED <<received, cur>>
        /\ pendingDocumentChanges' =
             IF received[cur].kind = "change"
                  /\ pendingDocumentChanges[received[cur].uri] = cur
             THEN [pendingDocumentChanges EXCEPT ![received[cur].uri] = 0]
             ELSE pendingDocumentChanges
      BY <1>3 DEF Unregister, unregisterContext, readerVars, Unregistered
  <2>2. ChangesOf(u)' = ChangesOf(u) \ {cur}
      BY <1>0, <2>1 DEF ChangesOf, IsChange, Registered, Unregistered
  <2>3. \A n \in ChangesOf(u) : n >= cur
      BY <1>0 DEF ChangesOf, Registered
  <2>4. CASE pendingDocumentChanges[u] = cur
    <3>1. cur # 0 /\ cur \in ChangesOf(u)
        BY <2>1, <2>4 DEF PendingExact, ServiceInv, TypeInv, NumbersExist, Busy, Ids
    <3>2. pendingDocumentChanges'[u] = 0
        BY <1>0, <2>1, <2>4, <3>1 DEF ChangesOf, IsChange
    <3>3. ChangesOf(u) \subseteq {cur}
        BY <1>0, <2>3, <2>4 DEF PendingExact
    <3>4. QED
        BY <2>2, <3>2, <3>3
  <2>5. CASE pendingDocumentChanges[u] # cur
    <3>1. pendingDocumentChanges'[u] = pendingDocumentChanges[u]
        BY <1>0, <2>1, <2>5
    <3>2. QED
        BY <2>2, <2>5, <3>1 DEF PendingExact
  <2>6. QED
      BY <2>4, <2>5
<1>4. CASE ~Unregister /\ UNCHANGED <<received, pendingDocumentChanges>>
    BY <1>4, ChangesStay DEF PendingExact
<1>5. QED
    BY <1>1, <1>2, <1>3, <1>4, ContextCases DEF PendingExact

-----------------------------------------------------------------------------
(* Superseded changes.                                                     *)

\* A newer change of the same document has arrived.
Superseded(n) == \E m \in 1..Len(received) : m > n /\ SameDocument(m, n)

\* The arrival of a change supersedes exactly those of its document.
LEMMA SupersededByArrival ==
    ASSUME ServiceInv, NEW m \in Message, enqueue(m),
           NEW n \in 1..Len(received), IsChange(n)
    PROVE  Superseded(n)' <=>
             Superseded(n) \/ (m.kind = "change" /\ m.uri = received[n].uri)
<1>0. PICK N \in Nat : N = Len(received) + 1
    BY Arrival
<1>1. /\ 1..Len(received') = 1..Len(received) \cup {N} /\ N > n
      /\ received'[N] = m
    BY <1>0, Arrival
<1>2. \A k \in 1..Len(received) : SameDocument(k, n)' <=> SameDocument(k, n)
    BY Arrival DEF SameDocument, IsChange
<1>3. SameDocument(N, n)' <=> m.kind = "change" /\ m.uri = received[n].uri
    BY <1>1, Arrival DEF SameDocument, IsChange
<1>4. QED
    BY <1>1, <1>2, <1>3 DEF Superseded

LEMMA CancelledArrival ==
    ASSUME ServiceInv, PendingExact, CancelledExact, NEW m \in Message, enqueue(m)
    PROVE  CancelledExact'
<1>0. PICK N \in Nat : N = Len(received) + 1
    BY Arrival
<1>a. /\ 1..Len(received') = 1..Len(received) \cup {N} /\ Len(received') = N
      /\ Len(received) \in Nat /\ cancelled \subseteq Nat
      /\ received'[N] = m
    BY <1>0, Arrival DEF ServiceInv, TypeInv, TypeOK, Ids
<1>b. ~Superseded(N)'
    BY <1>0, <1>a DEF Superseded
<1>1. CASE m.kind # "change"
  <2>1. cancelled' = cancelled
      BY <1>1 DEF enqueue, registerContext
  <2>2. \A n \in cancelled' : n <= Len(received')
      BY <1>0, <1>a, <2>1 DEF CancelledExact
  <2>3. ASSUME NEW n \in 1..Len(received'), IsChange(n)', Registered(n)'
        PROVE  n \in cancelled' <=> Superseded(n)'
    <3>1. n \in 1..Len(received) /\ IsChange(n) /\ Registered(n)
        BY <1>1, <1>a, <2>3, Arrival DEF IsChange
    <3>2. QED
        BY <1>1, <2>1, <3>1, SupersededByArrival DEF CancelledExact, Superseded
  <2>4. QED
      BY <2>2, <2>3 DEF CancelledExact, Superseded
<1>2. CASE m.kind = "change"
  <2> DEFINE p == pendingDocumentChanges[m.uri]
  <2>1. m.uri \in Uris /\ cancelled' = cancelled \cup ({p} \ {0})
      BY <1>2, MessageFields DEF enqueue, registerContext
  <2>2. p # 0 => p \in ChangesOf(m.uri)
      BY <2>1 DEF PendingExact
  <2>3. p \in Nat /\ p <= Len(received)
      BY <1>a, <2>1, <2>2 DEF ChangesOf, ServiceInv, TypeInv, TypeOK, Ids
  <2>4. \A n \in cancelled' : n <= Len(received')
    <3>1. \A n \in cancelled : n <= Len(received)
        BY DEF CancelledExact
    <3>2. \A n \in cancelled' : n \in Nat /\ n <= Len(received)
        BY <1>a, <2>1, <2>3, <3>1
    <3>3. QED
        BY <1>0, <1>a, <3>2
  <2>5. ASSUME NEW n \in 1..Len(received'), IsChange(n)', Registered(n)'
        PROVE  n \in cancelled' <=> Superseded(n)'
    <3>1. CASE n = N
      <4>1. N \notin cancelled'
          BY <1>0, <1>a, <2>1, <2>3 DEF CancelledExact
      <4>2. QED
          BY <1>b, <3>1, <4>1
    <3>2. CASE n # N
      <4>1. n \in 1..Len(received) /\ IsChange(n) /\ Registered(n)
            /\ received'[n] = received[n]
          BY <1>a, <2>5, <3>2, Arrival DEF IsChange
      <4>2. n \in cancelled <=> Superseded(n)
          BY <4>1 DEF CancelledExact, Superseded
      <4>3. CASE received[n].uri = m.uri
        <5>1. n \in ChangesOf(m.uri)
            BY <4>1, <4>3 DEF ChangesOf
        <5>2. n <= p /\ p # 0 /\ p \in ChangesOf(m.uri)
            BY <2>1, <2>2, <4>1, <5>1 DEF PendingExact
        <5>3. n # p => Superseded(n)
            BY <2>3, <4>1, <4>3, <5>2 DEF Superseded, SameDocument, ChangesOf
        <5>4. n \in cancelled'
            BY <2>1, <4>2, <5>2, <5>3
        <5>5. QED
            BY <1>2, <4>1, <4>3, <5>4, SupersededByArrival
      <4>4. CASE received[n].uri # m.uri
        <5>1. n # p
            BY <2>2, <4>1, <4>4 DEF ChangesOf
        <5>2. QED
            BY <1>2, <2>1, <4>1, <4>2, <4>4, <5>1, SupersededByArrival
      <4>5. QED
          BY <4>3, <4>4
    <3>3. QED
        BY <3>1, <3>2
  <2>6. QED
      BY <2>4, <2>5 DEF CancelledExact, Superseded
<1>3. QED
    BY <1>1, <1>2

LEMMA CancelledStep == ServiceInv /\ ContextInv /\ [Next]_vars => CancelledExact'
<1> SUFFICES ASSUME ServiceInv, ContextInv, [Next]_vars PROVE CancelledExact'
    OBVIOUS
<1> USE DEF ContextInv
<1>1. ASSUME NEW m \in Message, enqueue(m) PROVE CancelledExact'
    BY <1>1, CancelledArrival
<1>2. ASSUME NEW k \in 1..Len(received), handleCancelRequest(k)
      PROVE  CancelledExact'
  <2>1. /\ cancelled' \in {cancelled, cancelled \cup {k}}
        /\ cancelled' # cancelled => k \in activeRequests
        /\ UNCHANGED <<received, worker, cur>>
      BY <1>2 DEF handleCancelRequest, cancelRequest, workerVars
  <2>2. k \in activeRequests => ~IsChange(k)
      BY DEF ActiveExact, IsChange, IsRequest, ServiceInv, TypeInv, TypeOK
  <2>3. QED
      BY <2>1, <2>2 DEF CancelledExact, Registered, IsChange, SameDocument
<1>3. CASE Unregister
  <2>1. /\ worker' \notin Unregistered
        /\ UNCHANGED <<received, cur, cancelled>>
      BY <1>3 DEF Unregister, unregisterContext, readerVars, Unregistered
  <2>2. QED
      BY <2>1 DEF CancelledExact, Registered, IsChange, SameDocument
<1>4. CASE ~Unregister /\ UNCHANGED <<received, cancelled>>
    BY <1>4, RegisteredStays DEF CancelledExact, IsChange, SameDocument
<1>5. QED
    BY <1>1, <1>2, <1>3, <1>4, ContextCases

LEMMA ContextInvInit == Init => ContextInv
<1> SUFFICES ASSUME Init PROVE ContextInv
    OBVIOUS
<1>1. Len(received) = 0 /\ 1..Len(received) = {}
    BY DEF Init
<1>2. QED
    BY <1>1 DEF Init, ContextInv, ActiveExact, PendingExact, CancelledExact,
                ChangesOf, Ids

LEMMA ContextInvariant == SafetySpec => [](ServiceInv /\ ContextInv)
<1>1. ServiceInv /\ ContextInv /\ [Next]_vars => (ServiceInv /\ ContextInv)'
    BY TypeInvStep, QueueStep, InitStageStep, ResultStep, AnswersStep, ActiveStep,
       PendingStep, CancelledStep DEF ServiceInv, ContextInv
<1>2. QED
    BY ServiceInvInit, ContextInvInit, <1>1, PTL DEF SafetySpec

\* The messages in flight are those whose context is registered.
LEMMA InFlightIsRegistered ==
    ServiceInv => InFlight = {n \in 1..Len(received) : Registered(n)}
<1> SUFFICES ASSUME ServiceInv
             PROVE  InFlight = {n \in 1..Len(received) : Registered(n)}
    OBVIOUS
<1>1. /\ cur \in Nat /\ Len(queue) \in Nat /\ Len(received) \in Nat
      /\ reader = "push" => Len(received) > 0
      /\ worker \in Unregistered => cur # 0
    BY LenProperties DEF ServiceInv, TypeInv, TypeOK, NumbersExist, Busy,
                         Unregistered, Ids
<1>2. /\ cur + Len(queue) = Len(received) - (IF reader = "push" THEN 1 ELSE 0)
      /\ \A i \in 1..Len(queue) : queue[i] = cur + i
    BY DEF ServiceInv, QueueExact
<1>3. ASSUME NEW n \in InFlight PROVE n \in 1..Len(received) /\ Registered(n)
    BY <1>1, <1>2 DEF InFlight, Registered
<1>4. ASSUME NEW n \in 1..Len(received), Registered(n) PROVE n \in InFlight
  <2>1. CASE n = cur
      BY <1>4, <2>1 DEF Registered, InFlight
  <2>2. CASE n > cur /\ n - cur \in 1..Len(queue)
    <3>1. queue[n - cur] = n
        BY <1>1, <1>2, <2>2
    <3>2. QED
        BY <2>2, <3>1 DEF InFlight
  <2>3. CASE n > cur /\ n - cur \notin 1..Len(queue)
    <3>1. reader = "push" /\ n = Len(received)
        BY <1>1, <1>2, <2>3
    <3>2. QED
        BY <3>1 DEF InFlight
  <2>4. QED
      BY <1>1, <1>4, <2>1, <2>2, <2>3 DEF Registered
<1>5. QED
    BY <1>3, <1>4

\* registerContext, unregisterContext and $/cancelRequest, in every interleaving:
\* the registries hold exactly the contexts of the messages in flight, and a
\* didChange is superseded if and only if a newer one of its document has arrived.
THEOREM ChangesAreSupersededExactly == SafetySpec => []SupersededExactly
<1>1. ServiceInv /\ ContextInv => SupersededExactly
  <2> SUFFICES ASSUME ServiceInv, ContextInv PROVE SupersededExactly
      OBVIOUS
  <2>0. /\ InFlight = {n \in 1..Len(received) : Registered(n)}
        /\ 1..Len(received) \subseteq Ids /\ activeRequests \subseteq Ids
        /\ Len(received) \in Nat
      BY InFlightIsRegistered, LenProperties, JsonRpcAssumption
         DEF ServiceInv, TypeInv, TypeOK, Ids
  <2>1. activeRequests = {n \in InFlight : IsRequest(received[n])}
    <3>1. \A n \in Ids : n <= Len(received) <=> n \in 1..Len(received)
        BY <2>0 DEF Ids
    <3>2. QED
        BY <2>0, <3>1 DEF ContextInv, ActiveExact
  <2>2. ASSUME NEW u \in Uris
        PROVE  {n \in InFlight : IsChange(n) /\ received[n].uri = u} = ChangesOf(u)
      BY <2>0 DEF ChangesOf
  <2>3. ASSUME NEW u \in Uris
        PROVE  IF ChangesOf(u) = {} THEN pendingDocumentChanges[u] = 0
               ELSE /\ pendingDocumentChanges[u] \in ChangesOf(u)
                    /\ \A n \in ChangesOf(u) : n <= pendingDocumentChanges[u]
      BY <2>0 DEF ContextInv, PendingExact, ChangesOf
  <2>4. RegistryExact
      BY <2>1, <2>2, <2>3 DEF RegistryExact
  <2>5. QED
      BY <2>0, <2>4 DEF SupersededExactly, ContextInv, CancelledExact
<1>2. QED
    BY <1>1, ContextInvariant, PTL

-----------------------------------------------------------------------------
(* What was handed to a handler.                                           *)

LEMMA NumbersInRange ==
    ASSUME ServiceInv
    PROVE  /\ cur \in Nat /\ Len(received) \in Nat /\ cur <= Len(received)
           /\ cancelled \subseteq Ids /\ started \subseteq Ids /\ handled \subseteq Ids
           /\ \A n \in Ids : n \in Nat /\ n >= 1
           /\ worker \in Busy => cur \in 1..Len(received) /\ received[cur] \in Message
<1>1. cur \in Nat /\ Len(received) \in Nat /\ Len(queue) \in Nat
    BY LenProperties DEF ServiceInv, TypeInv, TypeOK, Ids
<1>2. cur <= Len(received)
    BY <1>1 DEF ServiceInv, QueueExact
<1>3. QED
    BY <1>1, <1>2, CurReceived DEF ServiceInv, TypeInv, TypeOK, Ids

\* The reader's steps leave the history of the worker alone.
LEMMA StartedReader ==
    ASSUME ServiceInv, ContextInv, StartedExact,
           \/ \E m \in Message : enqueue(m)
           \/ Push \/ OtherReader \/ UNCHANGED vars
    PROVE  StartedExact'
<1>1. ASSUME NEW m \in Message, enqueue(m) PROVE StartedExact'
  <2>1. UNCHANGED <<worker, cur, result, started, handled, answer>>
      BY <1>1 DEF enqueue, workerVars, historyVars
  <2>2. \A n \in 1..Len(received) : received'[n] = received[n]
      BY <1>1, Arrival
  <2>3. \A n \in handled : n \in 1..Len(received)
      BY NumbersInRange DEF StartedExact
  <2>4. ASSUME NEW n \in cancelled', received'[n].kind \in {"plain", "shutdown"}
        PROVE  n \notin started /\ answer[n] \in {"none", "RequestCancelled"}
    <3>1. CASE n \in cancelled
      <4>1. n \in 1..Len(received)
          BY <3>1, NumbersInRange DEF ContextInv, CancelledExact
      <4>2. QED
          BY <2>2, <2>4, <3>1, <4>1 DEF StartedExact
    <3>2. CASE n \notin cancelled
      <4>1. m.kind = "change" /\ n = pendingDocumentChanges[m.uri] /\ n # 0
          BY <1>1, <2>4, <3>2 DEF enqueue, registerContext
      <4>2. n \in ChangesOf(m.uri)
          BY <4>1, MessageFields DEF ContextInv, PendingExact
      <4>3. QED
          BY <2>2, <2>4, <4>2 DEF ChangesOf, IsChange
    <3>3. QED
        BY <3>1, <3>2
  <2>5. QED
      BY <2>1, <2>2, <2>3, <2>4 DEF StartedExact
<1>2. CASE Push \/ UNCHANGED vars
    BY <1>2 DEF Push, vars, workerVars, historyVars, contextVars, StartedExact
<1>3. ASSUME NEW k \in 1..Len(received), handleCancelRequest(k)
      PROVE  StartedExact'
  <2>1. /\ UNCHANGED <<received, worker, cur, result, started, handled, answer>>
        /\ \/ UNCHANGED cancelled
           \/ /\ cancelled' = cancelled \cup {k}
              /\ k \in activeRequests
              /\ k \notin started \/ SupportsCancellation(received[k])
      BY <1>3 DEF handleCancelRequest, cancelRequest, workerVars, historyVars
  <2>2. k \in activeRequests => answer[k] = "none"
    <3>1. SUFFICES ASSUME k \in activeRequests PROVE answer[k] = "none"
        OBVIOUS
    <3>2. k \in Ids /\ Registered(k)
        BY <3>1 DEF ContextInv, ActiveExact, ServiceInv, TypeInv, TypeOK
    <3>3. ~(k < cur \/ (k = cur /\ worker \in Between))
        BY <3>2, NumbersInRange DEF Registered, Between, Unregistered
    <3>4. QED
        BY <3>2, <3>3 DEF ServiceInv, AnswersExact
  <2>3. QED
      BY <2>1, <2>2 DEF StartedExact, SupportsCancellation
<1>4. CASE OtherReader /\ ~(\E n \in 1..Len(received) : handleCancelRequest(n))
  <2>1. UNCHANGED cancelled
      BY <1>4 DEF OtherReader, RejectUninitialized, Initialize, EnqueueThrows,
          BadCancelRequest, BadJson, ReadThrows, RejectAfterShutdown, Exit,
          CloseInput, Notify, CatchLock, ReaderWritesBody, Finish, FinishNotify,
          Join, contextVars
  <2>2. /\ UNCHANGED <<received, cur, result, started, handled, answer>>
        /\ UNCHANGED worker \/ worker' = "check"
      BY <1>4, OtherReaderFrame DEF Initialize
  <2>3. QED
      BY <2>1, <2>2 DEF StartedExact, Reporting
<1>5. QED
    BY <1>1, <1>2, <1>3, <1>4

LEMMA StartedWorker ==
    ASSUME ServiceInv, ContextInv, StartedExact, WorkerTakes \/ OtherWorker
    PROVE  StartedExact'
<1> USE NumbersInRange
<1>1. CASE WorkerTakes
  <2>1. /\ UNCHANGED <<received, result, started, handled, answer, cancelled>>
        /\ worker' = "lock" /\ cur' = Head(queue) /\ queue # <<>>
      BY <1>1 DEF WorkerTakes, readerVars, historyVars, contextVars
  <2>2. cur' = cur + 1
      BY <2>1 DEF ServiceInv, QueueExact, TypeInv, TypeOK
  <2>3. QED
      BY <2>1, <2>2 DEF StartedExact, Reporting
<1>2. CASE OtherWorker
  <2>0. UNCHANGED <<received, cur, cancelled>>
      BY <1>2, OtherWorkerFrame
  <2>1. CASE WorkerWaits \/ WorkerUnlocks \/ SpuriousWakeup \/ WorkerLocks
      BY <2>0, <2>1 DEF WorkerWaits, WorkerUnlocks, SpuriousWakeup, WorkerLocks,
                        historyVars, StartedExact, Reporting
  <2>2. CASE CallNotification
    <3>1. received[cur] \notin Expecting
        BY <2>2 DEF CallNotification, IsRequest, Expecting
    <3>2. result = "none"
        BY <2>2 DEF CallNotification, ServiceInv, ResultExact
    <3>3. QED
        BY <2>0, <2>2, <3>1, <3>2 DEF CallNotification, StartedExact, Reporting
  <2>3. CASE SkipUnknown
    <3>1. result = "none"
        BY <2>3 DEF SkipUnknown, ServiceInv, ResultExact
    <3>2. QED
        BY <2>0, <2>3, <3>1 DEF SkipUnknown, historyVars, StartedExact, Reporting
  <2>4. CASE startRequest
    <3>1. CASE cur \in cancelled
        BY <2>0, <2>4, <3>1 DEF startRequest, StartedExact, Reporting
    <3>2. CASE cur \notin cancelled
        BY <2>0, <2>4, <3>2 DEF startRequest, StartedExact, Reporting
    <3>3. QED
        BY <3>1, <3>2
  <2>5. CASE HandlerPublishes \/ HandlerPublished
      BY <2>0, <2>5 DEF HandlerPublishes, HandlerPublished, historyVars,
                        StartedExact, Reporting
  <2>6. CASE HandlerReturns \/ HandlerThrows
    <3>1. /\ worker = "handler" /\ UNCHANGED <<started, handled, answer>>
          /\ worker' \in {"noticeBody", "unregister"}
          /\ result' # "none" => IsRequest(received[cur])
        BY <2>6 DEF HandlerReturns, HandlerThrows, historyVars
    <3>2. IsRequest(received[cur]) => received[cur] \in Expecting
        BY <3>1 DEF ServiceInv, ResultExact, IsRequest, Expecting, Busy
    <3>3. QED
        BY <2>0, <3>1, <3>2 DEF StartedExact, Reporting
  <2>7. CASE NoticeWritten \/ Unregister
      BY <2>0, <2>7 DEF NoticeWritten, Unregister, historyVars, StartedExact,
                        Reporting
  <2>8. CASE SendResponse
      BY <2>0, <2>8 DEF SendResponse, historyVars, StartedExact, Reporting
  <2>9. CASE ResponseWritten
    <3>1. /\ worker = "sendBody" /\ worker' = "unlock"
          /\ UNCHANGED <<result, started, handled>>
          /\ answer' = [answer EXCEPT ![cur] = result]
        BY <2>9 DEF ResponseWritten
    <3>2. result \in {"RequestCancelled", "result", "InternalError"}
        BY <3>1 DEF ServiceInv, ResultExact, TypeInv, TypeOK, Outcome
    <3>3. ASSUME NEW n \in cancelled, received[n].kind \in {"plain", "shutdown"}
          PROVE  n \notin started /\ answer'[n] \in {"none", "RequestCancelled"}
      <4>1. n \notin started /\ answer[n] \in {"none", "RequestCancelled"}
          BY <3>3 DEF StartedExact
      <4>2. n = cur => result = "RequestCancelled"
          BY <3>1, <3>2, <4>1 DEF StartedExact, Reporting
      <4>3. n \in Ids /\ answer \in [Ids -> Outcome \cup {"none"}]
          BY DEF ServiceInv, TypeInv, TypeOK
      <4>4. QED
          BY <3>1, <4>1, <4>2, <4>3
    <3>4. QED
        BY <2>0, <3>1, <3>3 DEF StartedExact, Reporting
  <2>10. QED
      BY <1>2, <2>1, <2>2, <2>3, <2>4, <2>5, <2>6, <2>7, <2>8, <2>9 DEF OtherWorker
<1>3. QED
    BY <1>1, <1>2

LEMMA StartedInvariant == SafetySpec => [](ServiceInv /\ ContextInv /\ StartedExact)
<1>1. Init => StartedExact
    BY DEF Init, StartedExact, Reporting
<1>2. ServiceInv /\ ContextInv /\ StartedExact /\ [Next]_vars => StartedExact'
    BY StartedReader, StartedWorker, NextCases
<1>3. QED
    BY <1>1, <1>2, ContextInvariant, PTL DEF SafetySpec

\* The race of $/cancelRequest with startRequest: a request whose handler takes no
\* context and that is cancelled is never handed to its handler, and the client
\* hears nothing but RequestCancelled of it.
THEOREM CancelledRequestsNeverRun == SafetySpec => []CancelledNeverRuns
<1>1. ServiceInv /\ ContextInv /\ StartedExact => CancelledNeverRuns
  <2> SUFFICES ASSUME ServiceInv, ContextInv, StartedExact, NEW n \in cancelled,
                      received[n].kind \in {"plain", "shutdown"}
               PROVE  n \notin handled /\ answer[n] \in {"none", "RequestCancelled"}
      BY DEF CancelledNeverRuns
  <2>1. n \in 1..Len(received)
      BY NumbersInRange DEF ContextInv, CancelledExact
  <2>2. received[n] \in Expecting
      BY <2>1 DEF Expecting, ServiceInv, TypeInv, TypeOK
  <2>3. QED
      BY <2>2 DEF StartedExact
<1>2. QED
    BY <1>1, StartedInvariant, PTL

LEMMA NotificationsStep ==
    ASSUME ServiceInv, StartedExact, NotificationsExact, [Next]_vars
    PROVE  NotificationsExact'
<1> USE NumbersInRange
<1>1. ASSUME NEW m \in Message, enqueue(m) PROVE NotificationsExact'
  <2>1. UNCHANGED <<worker, cur, handled>>
      BY <1>1 DEF enqueue, workerVars, historyVars
  <2>2. SUFFICES ASSUME NEW n \in 1..Len(received'), ~IsRequest(received'[n])
                 PROVE  n \in handled <=>
                          /\ received'[n].kind # "ignored"
                          /\ n < cur \/ (n = cur /\ worker \notin {"lock", "process"})
      BY <2>1 DEF NotificationsExact, Dispatched
  <2>3. CASE n \in 1..Len(received)
    <3>1. received'[n] = received[n]
        BY <1>1, <2>3, Arrival
    <3>2. QED
        BY <2>2, <2>3, <3>1 DEF NotificationsExact, Dispatched
  <2>4. CASE n = Len(received) + 1
      BY <2>4 DEF StartedExact
  <2>5. QED
      BY <1>1, <2>3, <2>4, Arrival
<1>2. CASE Push \/ UNCHANGED vars
    BY <1>2 DEF Push, vars, workerVars, historyVars, NotificationsExact, Dispatched
<1>3. CASE WorkerTakes
  <2>1. /\ UNCHANGED <<received, handled>> /\ worker = "check"
        /\ worker' = "lock" /\ cur' = Head(queue) /\ queue # <<>>
      BY <1>3 DEF WorkerTakes, readerVars, historyVars
  <2>2. cur' = cur + 1
      BY <2>1 DEF ServiceInv, QueueExact, TypeInv, TypeOK
  <2>3. QED
      BY <2>1, <2>2 DEF NotificationsExact, Dispatched
<1>4. CASE OtherReader
  <2>1. UNCHANGED <<received, cur, handled>>
      BY <1>4, OtherReaderFrame
  <2>2. Initialize => cur = 0
      BY DEF Initialize, CanRead, ServiceInv, InitStage
  <2>3. \A n \in 1..Len(received) : n \in Dispatched' <=> n \in Dispatched
      BY <1>4, <2>1, <2>2, OtherReaderFrame DEF Dispatched
  <2>4. QED
      BY <2>1, <2>3 DEF NotificationsExact
<1>5. CASE OtherWorker
  <2>0. UNCHANGED <<received, cur>>
      BY <1>5, OtherWorkerFrame
  <2>1. CASE CallNotification
    <3>1. /\ worker = "process" /\ worker' \notin {"lock", "process"}
          /\ handled' = IF received[cur].kind = "ignored" THEN handled
                                                          ELSE handled \cup {cur}
          /\ cur \notin handled
        BY <2>1 DEF CallNotification, StartedExact
    <3>2. QED
        BY <2>0, <3>1 DEF NotificationsExact, Dispatched
  <2>2. CASE SkipUnknown \/ startRequest
    <3>1. /\ IsRequest(received[cur]) /\ handled' \in {handled, handled \cup {cur}}
          /\ worker = "process" /\ worker' \notin {"lock", "process"}
        BY <2>2 DEF SkipUnknown, startRequest, IsRequest, Expecting, historyVars
    <3>2. QED
        BY <2>0, <3>1 DEF NotificationsExact, Dispatched
  <2>3. CASE OtherWorker /\ ~(CallNotification \/ SkipUnknown \/ startRequest)
    <3>1. /\ UNCHANGED handled
          /\ worker' \in {"lock", "process"} <=> worker \in {"lock", "process"}
        BY <2>3 DEF OtherWorker, WorkerWaits, WorkerLocks, HandlerPublishes,
            HandlerPublished, HandlerReturns, HandlerThrows, NoticeWritten,
            Unregister, SendResponse, ResponseWritten, WorkerUnlocks,
            SpuriousWakeup, historyVars
    <3>2. QED
        BY <2>0, <3>1 DEF NotificationsExact, Dispatched
  <2>4. QED
      BY <1>5, <2>1, <2>2, <2>3
<1>6. QED
    BY <1>1, <1>2, <1>3, <1>4, <1>5, NextCases

\* A superseded didChange still reaches its handler: exactly the registered
\* notifications that the worker has taken were handed over.
THEOREM EditsAreNeverSkipped == SafetySpec => []EditsNeverSkipped
<1>1. Init => NotificationsExact
    BY DEF Init, NotificationsExact
<1>2. /\ ServiceInv /\ StartedExact /\ NotificationsExact /\ [Next]_vars
      => NotificationsExact'
    BY NotificationsStep
<1>3. ServiceInv /\ StartedExact /\ NotificationsExact => EditsNeverSkipped
  <2> SUFFICES ASSUME ServiceInv, StartedExact, NotificationsExact
               PROVE  EditsNeverSkipped
      OBVIOUS
  <2>1. \A n \in handled : n \in 1..Len(received)
      BY NumbersInRange DEF StartedExact
  <2>2. \A n \in 1..Len(received) : received[n].kind \in AllKinds
      BY MessageFields, JsonRpcAssumption DEF ServiceInv, TypeInv, TypeOK
  <2>3. \A n \in 1..Len(received) :
          received[n].kind \in {"change", "notification"} <=>
            ~IsRequest(received[n]) /\ received[n].kind # "ignored"
      BY <2>2 DEF AllKinds, IsRequest
  <2>4. QED
      BY <2>1, <2>3 DEF EditsNeverSkipped, NotificationsExact, Dispatched
<1>4. QED
    BY <1>1, <1>2, <1>3, StartedInvariant, PTL DEF SafetySpec
=============================================================================
