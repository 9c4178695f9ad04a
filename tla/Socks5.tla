------------------------------- MODULE Socks5 -------------------------------
(***************************************************************************)
(* One SOCKS5 server of the controlling side, Socks5Server of              *)
(* src/app/protocol/socks5/server.rs: an accept loop, a Receiver that runs *)
(* the handshake of each client, and a second one, fed by the handshakes,  *)
(* that runs the sessions.                                                 *)
(*                                                                         *)
(* A session asks the node for a forward (exec_ack) and hands its socket   *)
(* over to the node's task: what flows through it is the node's business.  *)
(***************************************************************************)
EXTENDS Naturals, FiniteSets

CONSTANTS
    Client,     \* clients that connect (a bound)
    HsCap,      \* capacity of the handshake channel (10 in the code)
    SessCap     \* capacity of the session channel (10 in the code)

VARIABLES
    token,      \* the CancellationToken of the group of workers
    server,     \* Socks5Server::serve and start
    hsLoop, hs,         \* the Receiver of handshakes
    step,               \* how far the handshake of a client is
    sessLoop, sess      \* the Receiver of sessions

vars == <<server, hsLoop, hs, step, sessLoop, sess>>

H == INSTANCE Receiver WITH Job <- Client, Cap <- HsCap, loop <- hsLoop, job <- hs
S == INSTANCE Receiver WITH Job <- Client, Cap <- SessCap, loop <- sessLoop, job <- sess

Typed ==
    /\ server \in {"bind", "accept", "sending", "join", "ok", "err"}
    /\ step \in [Client -> {"none", "offered", "auth", "request", "passing"}]
    /\ H!Typed
    /\ S!Typed

Init ==
    /\ server = "bind"
    /\ step = [c \in Client |-> "none"]
    /\ H!Init
    /\ S!Init

Go(c, s) == step' = [step EXCEPT ![c] = s]

-----------------------------------------------------------------------------
(* start *)

\* Without the port there is nothing to join: serve fails at once.
Bind ==
    /\ server = "bind"
    /\ server' \in {"accept", "err"}
    /\ UNCHANGED <<step, hsLoop, hs, sessLoop, sess>>

\* A client connects; without a Handle of the target it is turned away.
Accept(c) ==
    /\ server = "accept"
    /\ step[c] = "none"
    /\ hs[c] = "new"
    /\ \/ server' = "sending" /\ Go(c, "offered") /\ UNCHANGED hs
       \/ H!Set(c, "over") /\ UNCHANGED <<server, step>>
    /\ UNCHANGED <<hsLoop, sessLoop, sess>>

\* tx.send inside the branch body; its failure is only logged.
Offer(c) ==
    /\ server = "sending"
    /\ step[c] = "offered"
    /\ H!Send(c)
    /\ Go(c, "none")
    /\ server' = "accept"
    /\ UNCHANGED <<sessLoop, sess>>

\* The token, or an error of accept, ends the loop for good.
StopAccept ==
    /\ server = "accept"
    /\ server' = "join"
    /\ UNCHANGED <<step, hsLoop, hs, sessLoop, sess>>

\* Mutant: only the handshakes are joined.
JoinHandshakes ==
    /\ server = "join"
    /\ hsLoop = "done"
    /\ server' = "ok"
    /\ UNCHANGED <<step, hsLoop, hs, sessLoop, sess>>

\* try_join of both loops, which only the token ends: start holds their senders.
Join ==
    /\ server = "join"
    /\ hsLoop = "done"
    /\ sessLoop = "done"
    /\ server' = "ok"
    /\ UNCHANGED <<step, hsLoop, hs, sessLoop, sess>>

-----------------------------------------------------------------------------
(* Handshake::serve *)

HandshakeBegin(c) ==
    /\ H!Recv(c)
    /\ Go(c, "auth")
    /\ UNCHANGED <<server, sessLoop, sess>>

\* Authentication, under the token, and then the request, under nothing.
HandshakeStep(c) ==
    /\ \/ step[c] = "auth" /\ Go(c, "request")
       \/ step[c] = "request" /\ Go(c, "passing")
    /\ UNCHANGED <<server, hsLoop, hs, sessLoop, sess>>

HandshakeFail(c) ==
    /\ step[c] \in {"auth", "request"}
    /\ Go(c, "none")
    /\ H!Finish(c)
    /\ UNCHANGED <<server, sessLoop, sess>>

\* The session is sent on, or refused by a loop that has ended.
HandshakePass(c) ==
    /\ step[c] = "passing"
    /\ S!Send(c)
    /\ Go(c, "none")
    /\ H!Finish(c)
    /\ UNCHANGED server

-----------------------------------------------------------------------------
(* The loops *)

SessionBegin(c) == S!Recv(c) /\ UNCHANGED <<server, step, hsLoop, hs>>

\* exec_ack was answered and the socket handed over, or either failed.
SessionEnd(c) == S!Finish(c) /\ UNCHANGED <<server, step, hsLoop, hs>>

Loops ==
    \/ (H!Break \/ H!Done) /\ UNCHANGED <<server, step, sessLoop, sess>>
    \/ (S!Break \/ S!Done) /\ UNCHANGED <<server, step, hsLoop, hs>>

Next ==
    \/ Bind \/ StopAccept \/ Join \/ Loops
    \/ \E c \in Client :
          \/ Accept(c) \/ Offer(c)
          \/ HandshakeBegin(c) \/ HandshakeStep(c) \/ HandshakeFail(c) \/ HandshakePass(c)
          \/ SessionBegin(c) \/ SessionEnd(c)

\* A client that has authenticated and sends no request: conn.wait() looks at
\* neither the token nor a timeout.
Stalled == \E c \in Client : step[c] = "request"

\* The server goes on, whatever its clients do.
Moves ==
    \/ server = "bind" \/ (server = "accept" /\ token)
    \/ server = "join" /\ hsLoop = "done" /\ sessLoop = "done"
    \/ server = "sending" /\ H!Receives /\ \E c \in Client : step[c] = "offered"
    \/ \E c \in Client : (step[c] = "auth" /\ token) \/ (step[c] = "passing" /\ S!Receives)
    \/ H!LoopMoves \/ S!LoopMoves \/ S!Stage("running") # {}

\* Nothing of the server is left.
Quiet == H!Quiet /\ S!Quiet /\ \A c \in Client : step[c] = "none"

=============================================================================
