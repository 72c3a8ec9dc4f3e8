------------------------------ MODULE WcpClient ------------------------------
(***************************************************************************)
(* A session with a waveform viewer: SlangServer's openWaveform and        *)
(* addToWaveform, run by the worker of the message loop, and WcpClient     *)
(* with its thread.  The worker holds the server's mutex during a handler, *)
(* so it holds it for as long as openWaveform waits for the viewer; the    *)
(* thread takes it for each message.                                       *)
(*                                                                         *)
(* The byte stream from the viewer is a sequence of tokens: a message is   *)
(* its text followed by Nul, and recv returns any number of tokens.        *)
(***************************************************************************)
EXTENDS Naturals, Sequences

CONSTANTS Events,      \* events that the viewer sends
          Answered,    \* add_drivers and add_loads: answered with a command
          Greeting, BadGreeting, Nul,
          MaxEvents, MaxRequests   \* bounds: messages of the viewer, of the client

Message == Events \cup {Greeting, BadGreeting}
ASSUME WcpAssumption ==
    /\ Answered \subseteq Events
    /\ Nul \notin Message /\ {Greeting, BadGreeting} \cap Events = {}
    /\ MaxEvents \in Nat /\ MaxRequests \in Nat

VARIABLES
    worker,     \* what openWaveform waits for, or "idle"
    running,    \* m_running of the session; FALSE if there is none
    thread,     \* m_clientThread: "none", "reading", "message", "ended"
    buffer,     \* m_recvBuffer
    message,    \* what getMessage returned to the thread last
    viewer,     \* "none", "starting", "connected", "gone"; "absent": gone, never connected
    stream,     \* tokens sent by the viewer and not received
    commands,   \* commands that reached the viewer
    sent, handled,  \* history: messages of the viewer, and those taken from the buffer
    crashed,    \* the server has ended: std::terminate, or SIGPIPE
    requests

vars == <<worker, running, thread, buffer, message, viewer, stream, commands, sent,
          handled, crashed, requests>>
session == <<running, thread, buffer, message>>
peer == <<viewer, stream, sent>>

Init ==
    /\ worker = "idle" /\ running = FALSE /\ thread = "none"
    /\ buffer = <<>> /\ message = <<>>
    /\ viewer = "none" /\ stream = <<>> /\ commands = <<>>
    /\ sent = <<>> /\ handled = <<>>
    /\ crashed = FALSE /\ requests = 0

-----------------------------------------------------------------------------
(* Sockets.                                                                *)

\* sendMessage, two calls of send: lost with a log entry when stop has closed the socket.
\* When the viewer has closed its end, a call is lost unnoticed or, once the answer of the
\* other side has come, raises SIGPIPE, which nothing handles.
sendMessage(c, open) ==
    \/ /\ open /\ viewer = "connected"
       /\ commands' = Append(commands, c)
       /\ UNCHANGED crashed
    \/ /\ open /\ viewer # "connected"
       /\ crashed' \in BOOLEAN
       /\ UNCHANGED commands
    \/ ~open /\ UNCHANGED <<commands, crashed>>

\* Position of the first Nul of b, or 0.
FirstNul(b) ==
    IF \E i \in DOMAIN b : b[i] = Nul
    THEN CHOOSE i \in DOMAIN b : b[i] = Nul /\ \A j \in 1..(i - 1) : b[j] # Nul
    ELSE 0

\* Variant: all that was received is dropped with the message.
getMessage_clear(n) ==
    LET b == buffer \o SubSeq(stream, 1, n)
        i == FirstNul(b)
    IN [message |-> SubSeq(b, 1, i - 1), buffer |-> IF i = 0 THEN b ELSE <<>>]
\* getMessage when n tokens are received: the buffer is searched only now, and only
\* for one message.  <<>> stands for nullopt.
getMessage(n) ==
    LET b == buffer \o SubSeq(stream, 1, n)
        i == FirstNul(b)
    IN [message |-> SubSeq(b, 1, i - 1), buffer |-> SubSeq(b, i + 1, Len(b))]

Receive(n) ==
    /\ stream' = SubSeq(stream, n + 1, Len(stream))
    /\ buffer' = getMessage(n).buffer
    /\ handled' = handled \o getMessage(n).message

\* recv returns 0.
Disconnected == viewer = "gone" /\ stream = <<>>

-----------------------------------------------------------------------------
(* The worker.                                                             *)

Request == worker = "idle" /\ ~crashed /\ requests < MaxRequests /\ requests' = requests + 1

\* openWaveform: a session that runs is reused.
ReuseSession ==
    /\ Request /\ running
    /\ sendMessage("load", TRUE)
    /\ UNCHANGED <<worker, session, peer, handled>>

\* emplace destroys the old client first, whose thread nobody joined.
DestroySession ==
    /\ Request /\ ~running /\ thread # "none"
    /\ crashed' = TRUE
    /\ UNCHANGED <<worker, session, peer, commands, handled>>

\* The constructor, up to accept; a viewer is started.
initClient ==
    /\ Request /\ ~running /\ thread = "none"
    /\ worker' = "accepting" /\ running' = TRUE
    /\ viewer' = "starting"
    /\ UNCHANGED <<thread, buffer, message, stream, sent, commands, handled, crashed>>

\* A viewer that has connected is accepted even when it has closed its end since.
accept ==
    /\ worker = "accepting" /\ viewer \in {"connected", "gone"}
    /\ worker' = "greeting"
    /\ sendMessage("greeting", TRUE)
    /\ UNCHANGED <<session, peer, handled, requests>>

\* The constructor starts the thread whatever became of the greeting, and openWaveform
\* loads the file.
Constructed(ok) ==
    /\ worker' = "idle" /\ running' = (running /\ ok) /\ thread' = "reading"
    /\ sendMessage("load", running /\ ok)

greet ==
    /\ worker = "greeting" /\ running /\ ~crashed
    /\ \E n \in 1..Len(stream) :
         LET m == getMessage(n).message IN
         /\ Receive(n)
         /\ IF m = <<>> THEN UNCHANGED <<worker, running, thread, commands, crashed>>
            ELSE Constructed(m = <<Greeting>>)
    /\ UNCHANGED <<message, viewer, sent, requests>>

\* stop is called, and the loop goes on until its time is over.
greetDisconnected ==
    /\ worker = "greeting" /\ running /\ ~crashed /\ Disconnected
    /\ running' = FALSE
    /\ UNCHANGED <<worker, thread, buffer, message, peer, commands, handled, crashed, requests>>

\* Variant: there is no time limit.
greetTimeout_never == FALSE /\ UNCHANGED vars
\* The time is over after a getMessage that returned nothing: none has come, only a part
\* of a message has, or the session has stopped.
greetTimeout ==
    /\ worker = "greeting" /\ ~crashed
    /\ Constructed(FALSE)
    /\ UNCHANGED <<buffer, message, peer, handled, requests>>

addToWaveform ==
    /\ Request
    /\ IF running THEN sendMessage("add_items", TRUE) ELSE UNCHANGED <<commands, crashed>>
    /\ UNCHANGED <<worker, session, peer, handled>>

-----------------------------------------------------------------------------
(* The thread.                                                             *)

runClientReceives ==
    /\ thread = "reading" /\ running /\ ~crashed
    /\ \E n \in 1..Len(stream) :
         /\ Receive(n)
         /\ message' = getMessage(n).message
         /\ thread' = IF message' = <<>> THEN "reading" ELSE "message"
    /\ UNCHANGED <<worker, running, viewer, sent, commands, crashed, requests>>

runClientDisconnects ==
    /\ thread = "reading" /\ running /\ ~crashed /\ Disconnected
    /\ running' = FALSE
    /\ UNCHANGED <<worker, thread, buffer, message, peer, commands, handled, crashed, requests>>

runClientEnds ==
    /\ thread = "reading" /\ ~running /\ ~crashed
    /\ thread' = "ended"
    /\ UNCHANGED <<worker, running, buffer, message, peer, commands, handled, crashed, requests>>

\* With the server's mutex: a message is decoded and its handler is called; what cannot
\* be decoded, and responses to commands, are passed over.
runClientHandles ==
    /\ thread = "message" /\ worker = "idle" /\ ~crashed
    /\ thread' = "reading" /\ message' = <<>>
    /\ IF message[1] \in Answered THEN sendMessage("add_variables", running)
       ELSE UNCHANGED <<commands, crashed>>
    /\ UNCHANGED <<worker, running, buffer, peer, handled, requests>>

-----------------------------------------------------------------------------
(* The viewer.                                                             *)

ViewerConnects ==
    /\ viewer = "starting"
    /\ viewer' = "connected"
    /\ UNCHANGED <<worker, session, stream, sent, commands, handled, crashed, requests>>

ViewerSends(m) ==
    /\ viewer = "connected" /\ Len(sent) < MaxEvents
    /\ sent = <<>> <=> m \notin Events
    /\ sent' = Append(sent, m)
    /\ stream' = stream \o <<m, Nul>>
    /\ UNCHANGED <<worker, session, viewer, commands, handled, crashed, requests>>

\* It may also be gone before it connects: then accept waits for ever.
ViewerExits ==
    /\ \/ viewer = "starting" /\ viewer' = "absent"
       \/ viewer = "connected" /\ viewer' = "gone"
    /\ UNCHANGED <<worker, session, stream, sent, commands, handled, crashed, requests>>

Worker == accept \/ greet \/ greetDisconnected \/ greetTimeout
Thread == runClientReceives \/ runClientDisconnects \/ runClientEnds \/ runClientHandles
Next ==
    \/ ReuseSession \/ DestroySession \/ initClient \/ addToWaveform
    \/ Worker \/ Thread
    \/ ViewerConnects \/ ViewerExits \/ \E m \in Message : ViewerSends(m)

\* The worker and the thread take their steps; clocks run; the viewer need not do anything.
Spec == Init /\ [][Next]_vars /\ WF_vars(Worker) /\ WF_vars(Thread)

-----------------------------------------------------------------------------
(* Properties.                                                             *)

\* However the bytes are cut into packets, the messages of the viewer are taken from the
\* receive buffer whole, in order, and none is lost or taken twice: those that were taken
\* are the first ones sent, and what is still buffered or in transit is the others, each
\* with its Nul.
NothingLostInPackets ==
    LET rest == buffer \o stream
        left == Len(sent) - Len(handled)
    IN /\ handled = SubSeq(sent, 1, Len(handled)) /\ Len(rest) = 2 * left
       /\ \A i \in 1..left : rest[2 * i - 1] = sent[Len(handled) + i] /\ rest[2 * i] = Nul
       /\ Len(message) <= 1

\* Once the viewer has connected, openWaveform returns and gives the server's mutex
\* back, whether the greeting is good, bad or never comes and even if the viewer is gone
\* by then; and when it has gone, running() becomes false, so that the next waveform is
\* not sent to a closed socket.  Or the server has ended, by a signal for a message to a
\* viewer that has gone (WcpClient::greet, WcpClient::getMessage).
SessionSettles ==
    /\ (worker \in {"accepting", "greeting"} /\ viewer \in {"connected", "gone"})
         ~> (worker = "idle" \/ crashed)
    /\ (viewer = "gone" /\ thread = "reading") ~> (~running \/ crashed)
=============================================================================
