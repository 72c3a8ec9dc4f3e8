------------------------------- MODULE JsonRpc -------------------------------
(***************************************************************************)
(* The message loop of slang-server, include/lsp/JsonRpcServer.h.          *)
(*                                                                         *)
(* The main thread (the reader) reads stdin, registers a cancellation      *)
(* context for every message and appends it to a queue; one worker thread  *)
(* takes the messages off the queue in order and runs their handlers.      *)
(* $/cancelRequest is handled on the reader at once, and so races with the *)
(* worker.  Three mutexes are involved: queueMutex and cancellationMutex   *)
(* guard short sections that take no other lock, so each such section is   *)
(* one step here; serverStateMutex is held for a whole message and is the  *)
(* variable serverStateMutex.  A frame is written to stdout by two calls   *)
(* (header, then body): a thread is between the two while its program      *)
(* counter is at one of the "...Body" values.                              *)
(*                                                                         *)
(* The n-th message that is queued has context number n; the client's      *)
(* request ids are unique, so n also stands for the id of a request.       *)
(***************************************************************************)
EXTENDS Naturals, Sequences, FiniteSets

CONSTANTS Uris,               \* documents a didChange can name
          NoUri,              \* the uri of every other message
          Kinds,              \* kinds of message the client uses
          Irregular,          \* kinds of irregular input the client produces
          MaxMessages,        \* bound: messages queued
          MaxExtra,           \* bound: inputs that are not queued
          MaxInputs,          \* bound: inputs of both sorts
          ParseFailureLimit   \* reader gives up after more failures (5)

AllKinds == {"plain", "cancellable", "shutdown", "unknown",
             "change", "notification", "ignored"}

AllIrregular == {"badJson", "readThrows", "badCancel", "late", "enqueueThrows"}

ASSUME JsonRpcAssumption ==
    /\ MaxMessages \in Nat
    /\ MaxExtra \in Nat
    /\ MaxInputs \in Nat
    /\ ParseFailureLimit \in Nat
    /\ Kinds \subseteq AllKinds
    /\ Irregular \subseteq AllIrregular
    /\ NoUri \notin Uris

\* "plain": a request whose handler takes no RequestContext; "cancellable":
\* one whose handler does; "unknown": a request for a method that is not
\* registered; "change": textDocument/didChange; "notification": any other
\* registered notification; "ignored": an unregistered notification.
Message ==
    {[kind |-> k, uri |-> NoUri] : k \in Kinds \ {"change"}}
        \cup {[kind |-> k, uri |-> u] : k \in Kinds \cap {"change"}, u \in Uris}

Ids == 1..MaxMessages

VARIABLES
    received,         \* messages queued (or about to be), in order of arrival
    queue,            \* std::deque of the messages the worker has not taken
    inputFinished,    \* set by the reader when no more input will come
    activeRequests,   \* ids of the requests with a registered context
    pendingDocumentChanges, \* uri -> context of its newest didChange, 0: none
    cancelled,        \* contexts whose State::cancelled is set
    started,          \* contexts whose State::started is set
    serverStateMutex, \* its holder
    worker,           \* program counter of the worker thread
    cur,              \* the message the worker took last, 0 before the first
    result,           \* what processMessage returned for cur
    reader,           \* program counter of the reader thread
    loop,             \* which of run()'s three loops the reader is in
    shutdown,         \* the local of run()
    parseFailures,    \* the local of run()
    extra,            \* inputs read that were not queued
    handled,          \* history: messages whose handler was called
    answer            \* history: the response sent for each message

queueVars == <<queue, inputFinished>>
contextVars == <<activeRequests, pendingDocumentChanges, cancelled>>
readerVars == <<reader, loop, shutdown, parseFailures, extra, received>>
workerVars == <<worker, cur, result>>
historyVars == <<handled, answer>>
vars == <<received, queue, inputFinished, activeRequests,
          pendingDocumentChanges, cancelled, started, serverStateMutex, worker,
          cur, result, reader, loop, shutdown, parseFailures, extra, handled,
          answer>>

Expecting == {m \in Message : m.kind \in {"plain", "cancellable", "shutdown"}}
IsRequest(m) == m.kind \in {"plain", "cancellable", "shutdown", "unknown"}
SupportsCancellation(m) == m.kind \in {"cancellable", "change"}
Outcome == {"result", "RequestCancelled", "InternalError"}

Init ==
    /\ received = <<>>
    /\ queue = <<>>
    /\ inputFinished = FALSE
    /\ activeRequests = {}
    /\ pendingDocumentChanges = [u \in Uris |-> 0]
    /\ cancelled = {}
    /\ started = {}
    /\ serverStateMutex = "free"
    /\ worker = "none"
    /\ cur = 0
    /\ result = "none"
    /\ reader = "read"
    /\ loop = "init"
    /\ shutdown = FALSE
    /\ parseFailures = 0
    /\ extra = 0
    /\ handled = {}
    /\ answer = [n \in Ids |-> "none"]

-----------------------------------------------------------------------------
(* Cancellation contexts.  Each of these is a section of cancellationMutex. *)

\* Variant of registerContext: an older didChange is left running.
registerContext_keepsOlder(m, n) ==
    /\ activeRequests' = IF IsRequest(m) THEN activeRequests \cup {n}
                                         ELSE activeRequests
    /\ pendingDocumentChanges' =
           IF m.kind = "change"
           THEN [pendingDocumentChanges EXCEPT ![m.uri] = n]
           ELSE pendingDocumentChanges
    /\ UNCHANGED cancelled

\* registerContext for message m with context number n: a registered didChange
\* cancels the one that is pending for the same document.
registerContext(m, n) ==
    /\ activeRequests' = IF IsRequest(m) THEN activeRequests \cup {n}
                                         ELSE activeRequests
    /\ IF m.kind = "change"
       THEN /\ cancelled' = cancelled \cup ({pendingDocumentChanges[m.uri]} \ {0})
            /\ pendingDocumentChanges' = [pendingDocumentChanges EXCEPT ![m.uri] = n]
       ELSE UNCHANGED <<cancelled, pendingDocumentChanges>>

\* unregisterContext: the entry of a newer didChange is left alone.
unregisterContext(n) ==
    LET m == received[n] IN
    /\ activeRequests' = activeRequests \ {n}
    /\ pendingDocumentChanges' =
           IF m.kind = "change" /\ pendingDocumentChanges[m.uri] = n
           THEN [pendingDocumentChanges EXCEPT ![m.uri] = 0]
           ELSE pendingDocumentChanges
    /\ UNCHANGED cancelled

\* Variant of cancelRequest: hasStarted() is not consulted.
cancelRequest_always(n) ==
    /\ cancelled' = IF n \in activeRequests THEN cancelled \cup {n} ELSE cancelled
    /\ UNCHANGED <<activeRequests, pendingDocumentChanges>>

\* cancelRequest: a request that has started is cancelled only if its handler
\* can notice.
cancelRequest(n) ==
    /\ cancelled' =
           IF /\ n \in activeRequests
              /\ n \notin started \/ SupportsCancellation(received[n])
           THEN cancelled \cup {n}
           ELSE cancelled
    /\ UNCHANGED <<activeRequests, pendingDocumentChanges>>

-----------------------------------------------------------------------------
(* The reader thread: run(), readJson(), enqueue, handleCancelRequest.      *)

CanRead(l) == reader = "read" /\ loop \in l
MoreInput == Len(received) + extra < MaxInputs

\* An input that is not queued; the two message loops assign `shutdown` and
\* reset `parseFailures` for every message that could be read.
ReadExtra ==
    /\ extra < MaxExtra /\ MoreInput
    /\ extra' = extra + 1
    /\ IF loop = "main"
       THEN shutdown' = FALSE /\ parseFailures' = 0
       ELSE UNCHANGED <<shutdown, parseFailures>>

\* Init loop: everything before `initialize` is refused.
RejectUninitialized ==
    /\ CanRead({"init"})
    /\ ReadExtra
    /\ reader' = "errorBody"
    /\ UNCHANGED <<received, loop, queueVars, contextVars, started,
                   serverStateMutex, workerVars, historyVars>>

\* `initialize` is handled on the reader itself, before the worker exists.
Initialize ==
    /\ CanRead({"init"})
    /\ loop' = "main"
    /\ worker' = "check"
    /\ UNCHANGED <<received, reader, shutdown, parseFailures, extra, queueVars,
                   contextVars, started, serverStateMutex, cur, result,
                   historyVars>>

\* Main loop: the context is created and registered, ...
enqueue(m) ==
    /\ CanRead({"main"})
    /\ Len(received) < MaxMessages /\ MoreInput
    /\ received' = Append(received, m)
    /\ registerContext(m, Len(received) + 1)
    /\ shutdown' = (m.kind = "shutdown")
    /\ parseFailures' = 0
    /\ reader' = "push"
    /\ UNCHANGED <<loop, extra, queueVars, started, serverStateMutex,
                   workerVars, historyVars>>

\* ... the message is appended under queueMutex, ...
Push ==
    /\ reader = "push"
    /\ queue' = Append(queue, Len(received))
    /\ reader' = "notify"
    /\ UNCHANGED <<received, loop, shutdown, parseFailures, extra,
                   inputFinished, contextVars, started, serverStateMutex,
                   workerVars, historyVars>>

\* queueCondition.notify_one: wakes the worker if it is waiting.
WakeWorker == worker' = IF worker = "wait" THEN "check" ELSE worker

\* ... and the worker is notified.  A queued shutdown ends the main loop.
Notify ==
    /\ reader = "notify"
    /\ WakeWorker
    /\ reader' = "read"
    /\ loop' = IF shutdown THEN "shutdown" ELSE loop
    /\ UNCHANGED <<received, shutdown, parseFailures, extra, queueVars,
                   contextVars, started, serverStateMutex, cur, result,
                   historyVars>>

\* An exception while queueing: the message is dropped, and the user is told
\* under serverStateMutex.
EnqueueThrows ==
    /\ "enqueueThrows" \in Irregular
    /\ CanRead({"main"})
    /\ extra < MaxExtra /\ MoreInput
    /\ extra' = extra + 1
    /\ shutdown' \in BOOLEAN
    /\ parseFailures' = 0
    /\ reader' = "catch"
    /\ UNCHANGED <<received, loop, queueVars, contextVars, started,
                   serverStateMutex, workerVars, historyVars>>

\* Variant of CatchLock: the notice is written without the lock.
CatchLock_unlocked ==
    /\ reader = "catch"
    /\ reader' \in {"noticeBody", "read"}
    /\ UNCHANGED <<received, loop, shutdown, parseFailures, extra, queueVars,
                   contextVars, started, serverStateMutex, workerVars,
                   historyVars>>

\* The catch block takes the lock; onInternalError is rate limited, so there
\* may be nothing to write.
CatchLock ==
    /\ reader = "catch"
    /\ serverStateMutex = "free"
    /\ \/ reader' = "noticeBody" /\ serverStateMutex' = "reader"
       \/ reader' = "read" /\ UNCHANGED serverStateMutex
    /\ UNCHANGED <<received, loop, shutdown, parseFailures, extra, queueVars,
                   contextVars, started, workerVars, historyVars>>

\* $/cancelRequest, in the main and in the shutdown loop: not queued.
handleCancelRequest(n) ==
    /\ CanRead({"main", "shutdown"})
    /\ ReadExtra
    /\ cancelRequest(n)
    /\ UNCHANGED <<received, reader, loop, queueVars, started,
                   serverStateMutex, workerVars, historyVars>>

\* $/cancelRequest whose params do not parse: processMessage reports it from
\* the reader thread, without serverStateMutex (or is rate limited).
BadCancelRequest ==
    /\ "badCancel" \in Irregular
    /\ CanRead({"main", "shutdown"})
    /\ ReadExtra
    /\ reader' \in {"errorBody", "read"}
    /\ UNCHANGED <<received, loop, queueVars, contextVars, started,
                   serverStateMutex, workerVars, historyVars>>

\* readJson answers a message that is not a request itself, and reads on.
BadJson ==
    /\ "badJson" \in Irregular
    /\ CanRead({"init", "main", "shutdown"})
    /\ extra < MaxExtra /\ MoreInput
    /\ extra' = extra + 1
    /\ reader' = "errorBody"
    /\ UNCHANGED <<received, loop, shutdown, parseFailures, queueVars,
                   contextVars, started, serverStateMutex, workerVars,
                   historyVars>>

\* readJson throws: fatal before initialisation, counted in the main loop,
\* and the end of the shutdown loop.
ReadThrows ==
    /\ "readThrows" \in Irregular
    /\ CanRead({"init", "main", "shutdown"})
    /\ extra < MaxExtra /\ MoreInput
    /\ extra' = extra + 1
    /\ \/ /\ loop = "init"
          /\ reader' = "exited"
          /\ UNCHANGED <<loop, parseFailures>>
       \/ /\ loop = "main"
          /\ parseFailures' = parseFailures + 1
          /\ IF parseFailures + 1 > ParseFailureLimit
             THEN IF shutdown THEN loop' = "shutdown" /\ reader' = "read"
                              ELSE UNCHANGED loop /\ reader' = "finish"
             ELSE UNCHANGED <<loop, reader>>
       \/ /\ loop = "shutdown"
          /\ reader' = "finish"
          /\ UNCHANGED <<loop, parseFailures>>
    /\ UNCHANGED <<received, shutdown, queueVars, contextVars, started,
                   serverStateMutex, workerVars, historyVars>>

\* The body of a frame the reader writes; a lock taken by the catch block is
\* released with it.
ReaderWritesBody ==
    /\ reader \in {"errorBody", "noticeBody"}
    /\ reader' = "read"
    /\ serverStateMutex' = IF serverStateMutex = "reader" THEN "free"
                                                          ELSE serverStateMutex
    /\ UNCHANGED <<received, loop, shutdown, parseFailures, extra, queueVars,
                   contextVars, started, workerVars, historyVars>>

\* Shutdown loop: anything but exit and $/cancelRequest is refused.
RejectAfterShutdown ==
    /\ "late" \in Irregular
    /\ CanRead({"shutdown"})
    /\ ReadExtra
    /\ reader' = "errorBody"
    /\ UNCHANGED <<received, loop, queueVars, contextVars, started,
                   serverStateMutex, workerVars, historyVars>>

Exit ==
    /\ CanRead({"shutdown"})
    /\ reader' = "finish"
    /\ UNCHANGED <<received, loop, shutdown, parseFailures, extra, queueVars,
                   contextVars, started, serverStateMutex, workerVars,
                   historyVars>>

\* The client closes the stream, at any time.
CloseInput ==
    /\ reader = "read"
    /\ reader' = IF loop = "init" THEN "exited" ELSE "finish"
    /\ UNCHANGED <<received, loop, shutdown, parseFailures, extra, queueVars,
                   contextVars, started, serverStateMutex, workerVars,
                   historyVars>>

\* Variant of Finish: nobody is notified.
Finish_silently ==
    /\ reader = "finish"
    /\ inputFinished' = TRUE
    /\ reader' = "join"
    /\ UNCHANGED <<received, loop, shutdown, parseFailures, extra, queue,
                   contextVars, started, serverStateMutex, workerVars,
                   historyVars>>

\* The end of run(): inputFinished is set under queueMutex, ...
Finish ==
    /\ reader = "finish"
    /\ inputFinished' = TRUE
    /\ reader' = "finishNotify"
    /\ UNCHANGED <<received, loop, shutdown, parseFailures, extra, queue,
                   contextVars, started, serverStateMutex, workerVars,
                   historyVars>>

\* ... the worker is notified ...
FinishNotify ==
    /\ reader = "finishNotify"
    /\ WakeWorker
    /\ reader' = "join"
    /\ UNCHANGED <<received, loop, shutdown, parseFailures, extra, queueVars,
                   contextVars, started, serverStateMutex, cur, result,
                   historyVars>>

\* ... and joined.
Join ==
    /\ reader = "join"
    /\ worker = "done"
    /\ reader' = "exited"
    /\ UNCHANGED <<received, loop, shutdown, parseFailures, extra, queueVars,
                   contextVars, started, serverStateMutex, workerVars,
                   historyVars>>

-----------------------------------------------------------------------------
(* The worker thread: its loop, handleMessage, processMessage.              *)

\* One evaluation of the wait predicate, under queueMutex.
WorkerTakes ==
    /\ worker = "check"
    /\ queue # <<>>
    /\ cur' = Head(queue)
    /\ queue' = Tail(queue)
    /\ worker' = "lock"
    /\ UNCHANGED <<inputFinished, result, readerVars, contextVars, started,
                   serverStateMutex, historyVars>>

WorkerWaits ==
    /\ worker = "check"
    /\ queue = <<>>
    /\ worker' = IF inputFinished THEN "done" ELSE "wait"
    /\ UNCHANGED <<cur, result, readerVars, queueVars, contextVars, started,
                   serverStateMutex, historyVars>>

SpuriousWakeup ==
    /\ worker = "wait"
    /\ worker' = "check"
    /\ UNCHANGED <<cur, result, readerVars, queueVars, contextVars, started,
                   serverStateMutex, historyVars>>

WorkerLocks ==
    /\ worker = "lock"
    /\ serverStateMutex = "free"
    /\ serverStateMutex' = "worker"
    /\ worker' = "process"
    /\ result' = "none"
    /\ UNCHANGED <<cur, readerVars, queueVars, contextVars, started,
                   historyVars>>

\* Variant of CallNotification: cancelled notifications are not delivered.
CallNotification_checksFirst ==
    /\ worker = "process"
    /\ ~IsRequest(received[cur])
    /\ IF received[cur].kind = "ignored" \/ cur \in cancelled
       THEN worker' = "unregister" /\ UNCHANGED handled
       ELSE worker' = "handler" /\ handled' = handled \cup {cur}
    /\ UNCHANGED <<cur, result, readerVars, queueVars, contextVars, started,
                   serverStateMutex, answer>>

\* processMessage, for a notification: its handler runs even if the context is
\* cancelled already.
CallNotification ==
    /\ worker = "process"
    /\ ~IsRequest(received[cur])
    /\ IF received[cur].kind = "ignored"
       THEN worker' = "unregister" /\ UNCHANGED handled
       ELSE worker' = "handler" /\ handled' = handled \cup {cur}
    /\ UNCHANGED <<cur, result, readerVars, queueVars, contextVars, started,
                   serverStateMutex, answer>>

\* processMessage, for a request whose method is not registered.
SkipUnknown ==
    /\ worker = "process"
    /\ received[cur].kind = "unknown"
    /\ worker' = "unregister"
    /\ UNCHANGED <<cur, result, readerVars, queueVars, contextVars, started,
                   serverStateMutex, historyVars>>

\* processMessage, for a request: the check and markStarted are one section of
\* cancellationMutex.
startRequest ==
    /\ worker = "process"
    /\ received[cur] \in Expecting
    /\ IF cur \in cancelled
       THEN /\ result' = "RequestCancelled"
            /\ worker' = "unregister"
            /\ UNCHANGED <<started, handled>>
       ELSE /\ started' = started \cup {cur}
            /\ handled' = handled \cup {cur}
            /\ worker' = "handler"
            /\ UNCHANGED result
    /\ UNCHANGED <<cur, readerVars, queueVars, contextVars, serverStateMutex,
                   answer>>

\* A handler may write notifications (diagnostics, for one) as it goes.
HandlerPublishes ==
    /\ worker = "handler"
    /\ worker' = "publishBody"
    /\ UNCHANGED <<cur, result, readerVars, queueVars, contextVars, started,
                   serverStateMutex, historyVars>>

HandlerPublished ==
    /\ worker = "publishBody"
    /\ worker' = "handler"
    /\ UNCHANGED <<cur, result, readerVars, queueVars, contextVars, started,
                   serverStateMutex, historyVars>>

\* The handler returns, or throws RequestCancelled at one of its checkpoints;
\* throwIfCancelled is called once more before the response.
HandlerReturns ==
    /\ worker = "handler"
    /\ worker' = "unregister"
    /\ result' = CASE ~IsRequest(received[cur]) -> "none"
                   [] IsRequest(received[cur]) /\ cur \in cancelled -> "RequestCancelled"
                   [] OTHER -> "result"
    /\ UNCHANGED <<cur, readerVars, queueVars, contextVars, started,
                   serverStateMutex, historyVars>>

\* The handler throws: notifyInternalError writes to the user (unless it is
\* rate limited), under the lock the worker holds.
HandlerThrows ==
    /\ worker = "handler"
    /\ worker' \in {"noticeBody", "unregister"}
    /\ result' = IF IsRequest(received[cur]) THEN "InternalError" ELSE "none"
    /\ UNCHANGED <<cur, readerVars, queueVars, contextVars, started,
                   serverStateMutex, historyVars>>

NoticeWritten ==
    /\ worker = "noticeBody"
    /\ worker' = "unregister"
    /\ UNCHANGED <<cur, result, readerVars, queueVars, contextVars, started,
                   serverStateMutex, historyVars>>

\* Variant of Unregister: only results are sent.
Unregister_dropsErrors ==
    /\ worker = "unregister"
    /\ unregisterContext(cur)
    /\ worker' = IF result = "result" THEN "send" ELSE "unlock"
    /\ UNCHANGED <<cur, result, readerVars, queueVars, started,
                   serverStateMutex, historyVars>>

\* handleMessage after processMessage: unregisterContext, whatever happened.
Unregister ==
    /\ worker = "unregister"
    /\ unregisterContext(cur)
    /\ worker' = IF result = "none" THEN "unlock" ELSE "send"
    /\ UNCHANGED <<cur, result, readerVars, queueVars, started,
                   serverStateMutex, historyVars>>

\* The response is serialized and its header written; a result that cannot be
\* serialized is replaced by an error response of fixed text.
SendResponse ==
    /\ worker = "send"
    /\ worker' = "sendBody"
    /\ \/ UNCHANGED result
       \/ result = "result" /\ result' = "InternalError"
    /\ UNCHANGED <<cur, readerVars, queueVars, contextVars, started,
                   serverStateMutex, historyVars>>

ResponseWritten ==
    /\ worker = "sendBody"
    /\ worker' = "unlock"
    /\ answer' = [answer EXCEPT ![cur] = result]
    /\ UNCHANGED <<cur, result, readerVars, queueVars, contextVars, started,
                   serverStateMutex, handled>>

WorkerUnlocks ==
    /\ worker = "unlock"
    /\ serverStateMutex' = "free"
    /\ worker' = "check"
    /\ UNCHANGED <<cur, result, readerVars, queueVars, contextVars, started,
                   historyVars>>

-----------------------------------------------------------------------------
\* What the environment decides: the client's inputs.
ClientStep ==
    \/ RejectUninitialized \/ Initialize
    \/ \E m \in Message : enqueue(m)
    \/ EnqueueThrows
    \/ \E n \in 1..Len(received) : handleCancelRequest(n)
    \/ BadCancelRequest \/ BadJson \/ ReadThrows \/ RejectAfterShutdown
    \/ Exit \/ CloseInput

\* What the reader does on its own.
ReaderStep ==
    \/ Push \/ Notify \/ CatchLock \/ ReaderWritesBody
    \/ Finish \/ FinishNotify \/ Join

\* The steps that take the worker towards the end of a message.
WorkerStep ==
    \/ WorkerTakes \/ WorkerWaits \/ WorkerLocks
    \/ CallNotification \/ SkipUnknown \/ startRequest
    \/ HandlerPublished \/ HandlerReturns \/ HandlerThrows \/ NoticeWritten
    \/ Unregister \/ SendResponse \/ ResponseWritten \/ WorkerUnlocks

\* Exited is the only state in which nothing is left to do.
Exited == reader = "exited" /\ UNCHANGED vars

Next == ClientStep \/ ReaderStep \/ WorkerStep
        \/ HandlerPublishes \/ SpuriousWakeup \/ Exited

SafetySpec == Init /\ [][Next]_vars

\* Both threads keep running, and handlers terminate.
Fairness ==
    /\ WF_vars(ReaderStep)
    /\ WF_vars(WorkerStep)
    /\ SF_vars(HandlerReturns \/ HandlerThrows)

Spec == SafetySpec /\ Fairness
-----------------------------------------------------------------------------
(* Properties.                                                             *)

TypeOK ==
    /\ received \in Seq(Message) /\ Len(received) <= MaxMessages
    /\ queue \in Seq(Ids)
    /\ inputFinished \in BOOLEAN
    /\ activeRequests \subseteq Ids
    /\ pendingDocumentChanges \in [Uris -> Ids \cup {0}]
    /\ cancelled \subseteq Ids
    /\ started \subseteq Ids
    /\ serverStateMutex \in {"free", "reader", "worker"}
    /\ worker \in {"none", "check", "wait", "lock", "process", "handler",
                   "publishBody", "noticeBody", "unregister", "send",
                   "sendBody", "unlock", "done"}
    /\ cur \in Ids \cup {0}
    /\ result \in Outcome \cup {"none"}
    /\ reader \in {"read", "push", "notify", "catch", "errorBody", "noticeBody",
                   "finish", "finishNotify", "join", "exited"}
    /\ loop \in {"init", "main", "shutdown"}
    /\ shutdown \in BOOLEAN
    /\ parseFailures \in Nat
    /\ extra \in 0..MaxExtra
    /\ handled \subseteq Ids
    /\ answer \in [Ids -> Outcome \cup {"none"}]

\* The worker holds cur between taking it and unregistering its context.
Unregistered == {"lock", "process", "handler", "publishBody", "noticeBody",
                 "unregister"}

\* Messages whose context is registered: about to be queued, queued, or taken.
InFlight ==
    {queue[i] : i \in 1..Len(queue)}
        \cup (IF reader = "push" THEN {Len(received)} ELSE {})
        \cup (IF worker \in Unregistered THEN {cur} ELSE {})

IsChange(n) == received[n].kind = "change"
SameDocument(m, n) ==
    IsChange(m) /\ IsChange(n) /\ received[m].uri = received[n].uri

\* The registries hold exactly the contexts of the messages in flight: nothing
\* leaks, no entry is lost, and a didChange that finishes never removes the
\* entry of a newer one (the id() comparisons of (un)registerContext).
RegistryExact ==
    /\ activeRequests = {n \in InFlight : IsRequest(received[n])}
    /\ \A u \in Uris :
         LET changes == {n \in InFlight : IsChange(n) /\ received[n].uri = u} IN
         IF changes = {} THEN pendingDocumentChanges[u] = 0
         ELSE /\ pendingDocumentChanges[u] \in changes
              /\ \A n \in changes : n <= pendingDocumentChanges[u]

\* A didChange in flight is superseded if and only if a newer one for the same
\* document has arrived: the newest is always analysed, no older one is, and what
\* decides it, the registries, is exact.
SupersededExactly ==
    /\ RegistryExact
    /\ \A n \in InFlight : IsChange(n) =>
         (n \in cancelled <=>
             \E m \in 1..Len(received) : m > n /\ SameDocument(m, n))

\* The race of $/cancelRequest with startRequest: a request whose handler
\* cannot notice cancellation is either cancelled, and then its handler is
\* never called and the client is told so, or it runs to its end.
CancelledNeverRuns ==
    \A n \in cancelled : received[n].kind \in {"plain", "shutdown"} =>
        n \notin handled /\ answer[n] \in {"none", "RequestCancelled"}

\* Everything before cur has left processMessage's handler call behind.
Dispatched == {n \in 1..Len(received) :
                 n < cur \/ (n = cur /\ worker \notin {"lock", "process"})}

\* Superseding a didChange spares its analysis, never its edit: every
\* registered notification is handed to its handler, in the order of arrival.
EditsNeverSkipped ==
    {n \in 1..Len(received) : received[n].kind \in {"change", "notification"}}
        \cap Dispatched = {n \in handled : ~IsRequest(received[n])}

\* queueCondition: the worker never sleeps through a message or the end of the
\* input, unless the notification for it is about to be sent.
NoLostWakeup ==
    worker = "wait" =>
        /\ queue = <<>> \/ reader = "notify"
        /\ ~inputFinished \/ reader = "finishNotify"

\* serverStateMutex is held by the worker for the whole of a message.
MessageHoldsLock ==
    (serverStateMutex = "worker") <=>
        worker \in {"process", "handler", "publishBody", "noticeBody",
                    "unregister", "send", "sendBody", "unlock"}

\* No thread writes a header between another thread's header and body, whatever
\* the input.  The exception is a frame that the reader writes once the worker
\* exists and that is not the notice of its catch block: the refusal of a malformed
\* or late message, and the notice for a $/cancelRequest whose params do not parse,
\* which the code writes without serverStateMutex (JsonRpcServer.h).
WellFramed ==
    worker \in {"publishBody", "noticeBody", "sendBody"} =>
        /\ reader # "noticeBody"
        /\ ~(reader = "errorBody" /\ loop = "init")

\* Once the input is over, the process exits: the worker drains the queue,
\* sees inputFinished and is joined.
Terminates == (reader = "finish") ~> (reader = "exited")

\* Every accepted request is answered exactly once, in order, eventually.
Svc == INSTANCE RpcService WITH Bound <- MaxMessages, Unanswered <- "none",
                                accepted <- received
ImplementsService == Svc!Service
=============================================================================
