----------------------------- MODULE TcpForward -----------------------------
(***************************************************************************)
(* One TCP forward of the controlling side, TcpForwarderWorker of          *)
(* src/app/protocol/forwarder/tcp_worker.rs: an accept loop and a Receiver *)
(* that asks the node for a forward on behalf of each connection.  Unlike  *)
(* the SOCKS5 server it goes on after an error of accept.                  *)
(***************************************************************************)
EXTENDS Naturals, FiniteSets

CONSTANTS
    Conn,       \* connections that are accepted (a bound)
    FwdCap      \* capacity of the channel (10 in the code)

VARIABLES
    token,      \* the CancellationToken of the group of workers
    acceptor,   \* TcpForwarderWorker::serve
    held,       \* the connection it waits with for room, as a set
    fwdLoop, fwd    \* the Receiver

vars == <<acceptor, held, fwdLoop, fwd>>

F == INSTANCE Receiver WITH Job <- Conn, Cap <- FwdCap, loop <- fwdLoop, job <- fwd

Typed ==
    /\ acceptor \in {"bind", "accept", "join", "ok", "err"}
    /\ held \in SUBSET Conn /\ Cardinality(held) <= 1
    /\ F!Typed

Init ==
    /\ acceptor = "bind"
    /\ held = {}
    /\ F!Init

Bind ==
    /\ acceptor = "bind"
    /\ acceptor' \in {"accept", "err"}
    /\ UNCHANGED <<held, fwdLoop, fwd>>

\* Without a Handle of the target, or without keepalive, the connection closes.
Accept(c) ==
    /\ acceptor = "accept"
    /\ held = {}
    /\ fwd[c] = "new"
    /\ \/ held' = {c} /\ UNCHANGED fwd
       \/ F!Set(c, "over") /\ UNCHANGED held
    /\ UNCHANGED <<acceptor, fwdLoop>>

\* tx.send inside the branch body: its failure ends the loop.
Hand(c) ==
    /\ acceptor = "accept"
    /\ c \in held
    /\ F!Send(c)
    /\ held' = {}
    /\ acceptor' = IF fwdLoop = "run" THEN "accept" ELSE "join"

StopAccept ==
    /\ acceptor = "accept"
    /\ held = {}
    /\ token
    /\ acceptor' = "join"
    /\ UNCHANGED <<held, fwdLoop, fwd>>

Join ==
    /\ acceptor = "join"
    /\ fwdLoop = "done"
    /\ acceptor' = "ok"
    /\ UNCHANGED <<held, fwdLoop, fwd>>

\* exec_ack was answered and the socket handed over, or either failed.
Forward(c) == (F!Recv(c) \/ F!Finish(c)) /\ UNCHANGED <<acceptor, held>>

Loop == (F!Break \/ F!Done) /\ UNCHANGED <<acceptor, held>>

Next ==
    \/ Bind \/ StopAccept \/ Join \/ Loop
    \/ \E c \in Conn : Accept(c) \/ Hand(c) \/ Forward(c)

\* The forward goes on.
Moves ==
    \/ acceptor = "bind" \/ (acceptor = "accept" /\ held = {} /\ token)
    \/ acceptor = "join" /\ fwdLoop = "done"
    \/ acceptor = "accept" /\ held # {} /\ F!Receives
    \/ F!LoopMoves \/ F!Stage("running") # {}

Quiet == held = {} /\ F!Quiet

=============================================================================
