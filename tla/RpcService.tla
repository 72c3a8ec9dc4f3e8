----------------------------- MODULE RpcService -----------------------------
(***************************************************************************)
(* What the JSON-RPC layer of slang-server promises its client: messages   *)
(* are accepted one after the other, and every request whose method the    *)
(* server knows is answered exactly once, in the order of acceptance.      *)
(* JsonRpc.tla, the threaded implementation, is shown to implement this    *)
(* specification.                                                          *)
(***************************************************************************)
EXTENDS Naturals, Sequences

CONSTANTS Message,        \* what a client can send
          Expecting,      \* the messages that are owed a response
          Outcome,        \* the possible responses
          Unanswered,     \* "no response was sent yet"
          Bound           \* at most this many messages are accepted

VARIABLES accepted,       \* the messages, in the order of their acceptance
          answer          \* the response sent to each of them

serviceVars == <<accepted, answer>>

ServiceInit ==
    /\ accepted = <<>>
    /\ answer = [n \in 1..Bound |-> Unanswered]

Accept(m) ==
    /\ Len(accepted) < Bound
    /\ accepted' = Append(accepted, m)
    /\ UNCHANGED answer

\* n is the oldest request still waiting for its response.
IsNextOwed(n) ==
    /\ n \in 1..Len(accepted)
    /\ accepted[n] \in Expecting
    /\ answer[n] = Unanswered
    /\ \A k \in 1..(n - 1) : accepted[k] \in Expecting => answer[k] # Unanswered

Reply(n, o) ==
    /\ IsNextOwed(n)
    /\ answer' = [answer EXCEPT ![n] = o]
    /\ UNCHANGED accepted

ServiceNext ==
    \/ \E m \in Message : Accept(m)
    \/ \E n \in 1..Bound, o \in Outcome : Reply(n, o)

ServiceSafety == ServiceInit /\ [][ServiceNext]_serviceVars

\* The server is never allowed to sit on a request for ever.
ServiceLiveness ==
    WF_serviceVars(\E n \in 1..Bound, o \in Outcome : Reply(n, o))

Service == ServiceSafety /\ ServiceLiveness
=============================================================================
