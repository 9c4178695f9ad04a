------------------------------ MODULE Endpoint ------------------------------
(***************************************************************************)
(* The connection supervisor of one process: LocalEndpointInner of         *)
(* src/crab/endpoint.rs with the registry of connected nodes that          *)
(* src/app/protocol/proto.rs keeps in src/app/manager.rs.                  *)
(*                                                                         *)
(* Four kinds of tasks run concurrently.  One start_remote_node task per   *)
(* configured address dials, hands the connection over and waits for the   *)
(* oneshot that says the node is gone; listen accepts connections;         *)
(* serve_all_connection runs one handshake task per connection; and        *)
(* serve_all_node runs one task per accepted node.  Two bounded channels   *)
(* join them.  A connection is in one place at a time, its stage:          *)
(*                                                                         *)
(*   idle        no connection                                             *)
(*   incoming    QUIC handshake running in listen's JoinSet                *)
(*   arrived     listen holds it while it waits for room in the channel    *)
(*   queued      a ConnTask in the channel of capacity ConnCap             *)
(*   handshake   application handshake running                             *)
(*   checked     on_handshake found no entry, the reply is being written   *)
(*   accepted    on_node_accepted has run, the result is in the JoinSet    *)
(*   handoff     serve_all_connection waits for room in the node channel   *)
(*   nodeq       a NodeTask in the channel of capacity NodeCap             *)
(*   serving     RemoteNode::serve runs                                    *)
(*                                                                         *)
(* The first three are for connections that peers open.  The oneshot of an *)
(* outbound connection travels with it: while stage[r] is not idle its     *)
(* sender exists; once idle, fired[r] tells sent from dropped.             *)
(***************************************************************************)
EXTENDS Naturals, FiniteSets

CONSTANTS
    Remotes,        \* the addresses in endpoint.remote_addr
    Inbound,        \* slots for connections that peers open (a bound)
    NodeIds,        \* node ids
    PeerId,         \* the id the peer of a connection presents
    ListenModes,    \* the values of endpoint.listen to start with
    HasRemoteList,  \* endpoint.remote_addr is Some(_), maybe empty
    ConnCap,        \* capacity of the ConnTask channel (64 in the code)
    NodeCap,        \* capacity of the NodeTask channel (20 in the code)
    NoConn          \* "no entry" in the registry

Conns == Remotes \cup Inbound

\* serve returns at once when neither is configured; that case has no state.
ASSUME ConfigAssumption ==
    /\ ListenModes \subseteq BOOLEAN
    /\ HasRemoteList \in BOOLEAN
    /\ FALSE \in ListenModes => HasRemoteList
    /\ Remotes # {} => HasRemoteList
    /\ Remotes \cap Inbound = {}
    /\ PeerId \in [Conns -> NodeIds]
    /\ IsFiniteSet(Conns)
    /\ NoConn \notin Conns
    /\ ConnCap \in Nat \ {0}
    /\ NodeCap \in Nat \ {0}

VARIABLES
    cancelled,  \* the CancellationToken given to serve
    worker,     \* start_remote_node of each address
    fired,      \* the retry oneshot of the address was sent
    stage,      \* where each connection is
    listener,   \* the listen task
    connLoop,   \* serve_all_connection
    nodeLoop,   \* serve_all_node
    endpoint,   \* LocalEndpointInner::serve
    registry    \* Manager.nodes: whose Handle each id maps to

vars == <<cancelled, worker, fired, stage, listener, connLoop, nodeLoop,
          endpoint, registry>>

In(s) == {c \in Conns : stage[c] \in s}

\* Connections whose task lives in the JoinSet of serve_all_connection.
Spawned == {"handshake", "checked", "accepted"}

\* Connections whose Handle has been put into the registry.
Joined == {"accepted", "handoff", "nodeq", "serving"}

\* The bounds of the two channels.
ChannelBounds ==
    /\ Cardinality(In({"queued"})) <= ConnCap
    /\ Cardinality(In({"nodeq"})) <= NodeCap

Typed ==
    /\ cancelled \in BOOLEAN
    /\ worker \in [Remotes -> {"delay", "connect", "send", "wait", "exited"}]
    /\ fired \in [Remotes -> BOOLEAN]
    /\ stage \in [Conns -> {"idle", "incoming", "arrived", "queued", "handshake",
                            "checked", "accepted", "handoff", "nodeq", "serving"}]
    /\ listener \in {"run", "sending", "done"}
    /\ connLoop \in {"run", "sending", "wait", "done"}
    /\ nodeLoop \in {"run", "drain", "done"}
    /\ endpoint \in {"run", "done"}
    /\ registry \in [NodeIds -> Conns \cup {NoConn}]

\* A select! body that sends a connection on holds no other.
SingleHolder ==
    \A c, d \in Conns : stage[c] = stage[d] /\ stage[c] \in {"arrived", "handoff"} => c = d

\* Type invariant: with the types, the bounds of the channels and of the two
\* select! bodies that send to them.
TypeOK ==
    /\ Typed
    /\ SingleHolder
    /\ ChannelBounds

Init ==
    /\ cancelled = FALSE
    /\ worker = [r \in Remotes |-> "delay"]
    /\ fired = [r \in Remotes |-> FALSE]
    /\ stage = [c \in Conns |-> "idle"]
    /\ \E listen \in ListenModes : listener = IF listen THEN "run" ELSE "done"
    /\ connLoop = "run"
    /\ nodeLoop = "run"
    /\ endpoint = "run"
    /\ registry = [n \in NodeIds |-> NoConn]

-----------------------------------------------------------------------------
(* Manager: a concurrent map.  insert overwrites, remove goes by id alone. *)

exists(id) == registry[id] # NoConn

insert(id, c) == registry' = [registry EXCEPT ![id] = c]

remove(id) == registry' = [registry EXCEPT ![id] = NoConn]

-----------------------------------------------------------------------------
(* The token: a signal, or another top-level worker that failed. *)

Cancel ==
    /\ ~cancelled
    /\ cancelled' = TRUE
    /\ UNCHANGED <<worker, fired, stage, listener, connLoop, nodeLoop, endpoint, registry>>

-----------------------------------------------------------------------------
(* start_remote_node *)

SetWorker(r, pc) ==
    /\ worker' = [worker EXCEPT ![r] = pc]
    /\ UNCHANGED <<cancelled, listener, connLoop, nodeLoop, endpoint, registry>>

\* Mutant: loop, with no look at the token.
LoopHeadForever == "delay"

\* while !cancel.is_cancelled()
LoopHead == IF cancelled THEN "exited" ELSE "delay"

\* The select! of the delay: either branch when both are ready.
WorkerDelay(r) ==
    /\ worker[r] = "delay"
    /\ \/ SetWorker(r, "connect")
       \/ cancelled /\ SetWorker(r, "exited")
    /\ UNCHANGED <<fired, stage>>

\* connect_remote_node: every address tried, each with a timeout, or cancelled.
WorkerConnect(r) ==
    /\ worker[r] = "connect"
    /\ \/ SetWorker(r, "send")
       \/ SetWorker(r, LoopHead)
    /\ UNCHANGED <<fired, stage>>

\* rx.send: waits for room, fails once serve_all_connection has returned.
WorkerSend(r) ==
    /\ worker[r] = "send"
    /\ \/ /\ connLoop # "done"
          /\ Cardinality(In({"queued"})) < ConnCap
          /\ stage' = [stage EXCEPT ![r] = "queued"]
          /\ fired' = [fired EXCEPT ![r] = FALSE]
          /\ SetWorker(r, "wait")
       \/ /\ connLoop = "done"
          /\ SetWorker(r, "exited")
          /\ UNCHANGED <<fired, stage>>

\* Mutant: retry_rx is not awaited before the next dial.
WorkerResumeEarly(r) ==
    /\ worker[r] = "wait"
    /\ SetWorker(r, LoopHead)
    /\ UNCHANGED <<fired, stage>>

\* Mutant: the task ends on either outcome of the oneshot.
WorkerResumeOnce(r) ==
    /\ worker[r] = "wait"
    /\ stage[r] = "idle"
    /\ SetWorker(r, "exited")
    /\ UNCHANGED <<fired, stage>>

\* retry_rx.await: sent means dial again, dropped ends the task for good.
WorkerResume(r) ==
    /\ worker[r] = "wait"
    /\ stage[r] = "idle"
    /\ SetWorker(r, IF fired[r] THEN LoopHead ELSE "exited")
    /\ fired' = [fired EXCEPT ![r] = FALSE]
    /\ UNCHANGED stage

Worker(r) ==
    \/ WorkerDelay(r)
    \/ WorkerConnect(r)
    \/ WorkerSend(r)
    \/ WorkerResume(r)

-----------------------------------------------------------------------------
(* listen *)

SetListener(pc) ==
    /\ listener' = pc
    /\ UNCHANGED <<cancelled, worker, fired, connLoop, nodeLoop, endpoint, registry>>

Incoming(i) ==
    /\ listener = "run"
    /\ stage[i] = "idle"
    /\ stage' = [stage EXCEPT ![i] = "incoming"]
    /\ SetListener("run")

IncomingResolved(i) ==
    /\ listener = "run"
    /\ stage[i] = "incoming"
    /\ \/ /\ stage' = [stage EXCEPT ![i] = "arrived"]
          /\ SetListener("sending")
       \/ /\ stage' = [stage EXCEPT ![i] = "idle"]
          /\ SetListener("run")

\* tx.send inside the branch body: cancellation is not looked at here.
ListenSend(i) ==
    /\ listener = "sending"
    /\ stage[i] = "arrived"
    /\ \/ /\ connLoop # "done"
          /\ Cardinality(In({"queued"})) < ConnCap
          /\ stage' = [stage EXCEPT ![i] = "queued"]
       \/ /\ connLoop = "done"
          /\ stage' = [stage EXCEPT ![i] = "idle"]
    /\ SetListener("run")

\* break, then join_set.shutdown() aborts the QUIC handshakes.
ListenCancel ==
    /\ listener = "run"
    /\ cancelled
    /\ stage' = [c \in Conns |-> IF stage[c] = "incoming" THEN "idle" ELSE stage[c]]
    /\ SetListener("done")

Listener ==
    \/ \E i \in Inbound : Incoming(i) \/ IncomingResolved(i) \/ ListenSend(i)
    \/ ListenCancel

-----------------------------------------------------------------------------
(* serve_all_connection *)

Move(c, s) == stage' = [stage EXCEPT ![c] = s]

\* rx.recv: the handshake of the connection gets a task of its own.
RecvConn(c) ==
    /\ connLoop = "run"
    /\ stage[c] = "queued"
    /\ Move(c, "handshake")
    /\ UNCHANGED <<cancelled, worker, fired, listener, connLoop, nodeLoop, endpoint, registry>>

\* The peer, the timeout or the token ends the task: it drops the oneshot.
HandshakeFail(c) ==
    /\ stage[c] \in {"handshake", "checked"}
    /\ Move(c, "idle")
    /\ UNCHANGED <<cancelled, worker, fired, listener, connLoop, nodeLoop, endpoint, registry>>

\* on_handshake runs where the peer opened the connection, and only there.
HandshakeCheck(i) ==
    /\ stage[i] = "handshake"
    /\ Move(i, IF exists(PeerId[i]) THEN "idle" ELSE "checked")
    /\ UNCHANGED <<cancelled, worker, fired, listener, connLoop, nodeLoop, endpoint, registry>>

\* Mutant: the Handle is registered only where the peer opened the connection.
AcceptListening(c) ==
    /\ stage[c] = IF c \in Inbound THEN "checked" ELSE "handshake"
    /\ Move(c, "accepted")
    /\ IF c \in Inbound THEN insert(PeerId[c], c) ELSE UNCHANGED registry
    /\ UNCHANGED <<cancelled, worker, fired, listener, connLoop, nodeLoop, endpoint>>

\* The handshake is over: on_node_accepted inserts the Handle.
Accept(c) ==
    /\ stage[c] = IF c \in Inbound THEN "checked" ELSE "handshake"
    /\ Move(c, "accepted")
    /\ insert(PeerId[c], c)
    /\ UNCHANGED <<cancelled, worker, fired, listener, connLoop, nodeLoop, endpoint>>

\* join_set.join_next() returned a node.
HarvestReady(c) ==
    /\ connLoop = "run"
    /\ stage[c] = "accepted"
    /\ Move(c, "handoff")
    /\ connLoop' = "sending"
    /\ UNCHANGED <<cancelled, worker, fired, listener, nodeLoop, endpoint, registry>>

\* Mutant: an unbounded node channel.
SendNodeUnbounded(c) ==
    /\ stage[c] = "handoff"
    /\ Move(c, "nodeq")
    /\ connLoop' = "run"
    /\ UNCHANGED <<cancelled, worker, fired, listener, nodeLoop, endpoint, registry>>

\* Mutant: try_send drops the node when the channel is full.
TrySendNode(c) ==
    /\ stage[c] = "handoff"
    /\ Move(c, IF Cardinality(In({"nodeq"})) < NodeCap THEN "nodeq" ELSE "idle")
    /\ connLoop' = "run"
    /\ UNCHANGED <<cancelled, worker, fired, listener, nodeLoop, endpoint, registry>>

\* node_tx.send inside the branch body; its receiver outlives this loop.
SendNode(c) ==
    /\ stage[c] = "handoff"
    /\ Cardinality(In({"nodeq"})) < NodeCap
    /\ Move(c, "nodeq")
    /\ connLoop' = "run"
    /\ UNCHANGED <<cancelled, worker, fired, listener, nodeLoop, endpoint, registry>>

\* Every clone of tx is gone: serve's own moves into the remote task.
SendersGone ==
    /\ HasRemoteList
    /\ listener = "done"
    /\ \A r \in Remotes : worker[r] = "exited"

\* Mutant: rx.recv returning None does not end the loop.
ConnLoopBreakOnCancel ==
    /\ connLoop = "run"
    /\ cancelled
    /\ connLoop' = "wait"
    /\ stage' = [c \in Conns |-> IF stage[c] \in Spawned THEN "idle" ELSE stage[c]]
    /\ UNCHANGED <<cancelled, worker, fired, listener, nodeLoop, endpoint, registry>>

\* The loop ends and join_set.shutdown() aborts the tasks it holds.
ConnLoopBreak ==
    /\ connLoop = "run"
    /\ cancelled \/ (SendersGone /\ In({"queued"}) = {})
    /\ connLoop' = "wait"
    /\ stage' = [c \in Conns |-> IF stage[c] \in Spawned THEN "idle" ELSE stage[c]]
    /\ UNCHANGED <<cancelled, worker, fired, listener, nodeLoop, endpoint, registry>>

\* Mutant: the handle of serve_all_node is not awaited.
ConnLoopDoneEarly ==
    /\ connLoop = "wait"
    /\ connLoop' = "done"
    /\ stage' = [c \in Conns |-> IF stage[c] = "queued" THEN "idle" ELSE stage[c]]
    /\ UNCHANGED <<cancelled, worker, fired, listener, nodeLoop, endpoint, registry>>

\* handle.await returned; rx goes out of scope with what it still holds.
ConnLoopDone ==
    /\ connLoop = "wait"
    /\ nodeLoop = "done"
    /\ connLoop' = "done"
    /\ stage' = [c \in Conns |-> IF stage[c] = "queued" THEN "idle" ELSE stage[c]]
    /\ UNCHANGED <<cancelled, worker, fired, listener, nodeLoop, endpoint, registry>>

Connection ==
    \/ \E c \in Conns : \/ RecvConn(c)
                        \/ HandshakeFail(c)
                        \/ Accept(c)
                        \/ HarvestReady(c)
                        \/ SendNode(c)
    \/ \E i \in Inbound : HandshakeCheck(i)
    \/ ConnLoopBreak
    \/ ConnLoopDone

-----------------------------------------------------------------------------
(* serve_all_node and serve *)

\* Mutant: nodes are served in the loop itself, not in tasks of their own.
RecvNodeInline(c) ==
    /\ nodeLoop = "run"
    /\ stage[c] = "nodeq"
    /\ In({"serving"}) = {}
    /\ Move(c, "serving")
    /\ UNCHANGED <<cancelled, worker, fired, listener, connLoop, nodeLoop, endpoint, registry>>

RecvNode(c) ==
    /\ nodeLoop = "run"
    /\ stage[c] = "nodeq"
    /\ Move(c, "serving")
    /\ UNCHANGED <<cancelled, worker, fired, listener, connLoop, nodeLoop, endpoint, registry>>

\* Mutant: on_node_exited is not called.
NodeExitSilent(c) ==
    /\ stage[c] = "serving"
    /\ Move(c, "idle")
    /\ fired' = [r \in Remotes |-> r = c \/ fired[r]]
    /\ UNCHANGED <<cancelled, worker, listener, connLoop, nodeLoop, endpoint, registry>>

\* RemoteNode::serve returned: on_node_exited removes the id, whoever has it
\* now, and only then is the retry oneshot sent.
NodeExit(c) ==
    /\ stage[c] = "serving"
    /\ Move(c, "idle")
    /\ remove(PeerId[c])
    /\ fired' = [r \in Remotes |-> r = c \/ fired[r]]
    /\ UNCHANGED <<cancelled, worker, listener, connLoop, nodeLoop, endpoint>>

\* Mutant: the loop looks at the token, like the one that feeds it.
NodeLoopDrainOnCancel ==
    /\ nodeLoop = "run"
    /\ cancelled \/ (connLoop \in {"wait", "done"} /\ In({"nodeq"}) = {})
    /\ nodeLoop' = "drain"
    /\ UNCHANGED <<cancelled, worker, fired, stage, listener, connLoop, endpoint, registry>>

\* rx.recv returned None: node_tx was dropped and the channel is empty.
NodeLoopDrain ==
    /\ nodeLoop = "run"
    /\ connLoop \in {"wait", "done"}
    /\ In({"nodeq"}) = {}
    /\ nodeLoop' = "drain"
    /\ UNCHANGED <<cancelled, worker, fired, stage, listener, connLoop, endpoint, registry>>

NodeLoopDone ==
    /\ nodeLoop = "drain"
    /\ In({"serving"}) = {}
    /\ nodeLoop' = "done"
    /\ UNCHANGED <<cancelled, worker, fired, stage, listener, connLoop, endpoint, registry>>

ServeNodes ==
    \/ \E c \in Conns : RecvNode(c) \/ NodeExit(c)
    \/ NodeLoopDrain
    \/ NodeLoopDone

\* serve joins listen, start_all_remote_node and serve_all_connection.
ServeDone ==
    /\ endpoint = "run"
    /\ listener = "done"
    /\ \A r \in Remotes : worker[r] = "exited"
    /\ connLoop = "done"
    /\ endpoint' = "done"
    /\ UNCHANGED <<cancelled, worker, fired, stage, listener, connLoop, nodeLoop, registry>>

Terminated == endpoint = "done" /\ UNCHANGED vars

Next ==
    \/ Cancel
    \/ \E r \in Remotes : Worker(r)
    \/ Listener
    \/ Connection
    \/ ServeNodes
    \/ ServeDone
    \/ Terminated

\* tokio polls every ready task, and a select! with several ready branches takes
\* a random one: a branch that is ready again and again is taken.  Handshakes and
\* dials have timeouts.  That a node that is served ever stops is not assumed.
Fairness ==
    /\ \A r \in Remotes : WF_vars(Worker(r))
    /\ \A i \in Inbound : WF_vars(IncomingResolved(i)) /\ WF_vars(ListenSend(i))
    /\ SF_vars(ListenCancel)
    /\ \A c \in Conns :
        /\ WF_vars(RecvConn(c))
        /\ WF_vars(HandshakeFail(c) \/ Accept(c))
        /\ SF_vars(HarvestReady(c))
        /\ WF_vars(SendNode(c))
        /\ WF_vars(RecvNode(c))
    /\ SF_vars(ConnLoopBreak)
    /\ WF_vars(ConnLoopDone)
    /\ WF_vars(NodeLoopDrain)
    /\ WF_vars(NodeLoopDone)
    /\ WF_vars(ServeDone)

Spec == Init /\ [][Next]_vars

FairSpec == Spec /\ Fairness

-----------------------------------------------------------------------------
(* Safety.  The registry is written by handshake tasks and by node tasks and *)
(* read by neither: what it says of a connection follows from their order.   *)

\* Until shutdown, the Handle an id maps to belongs to a connection that has
\* been accepted with that id and has not exited.  (serve_all_connection aborts
\* accepted tasks on cancel without on_node_exited, so not afterwards.)
NoStaleHandle ==
    ~cancelled =>
        \A n \in NodeIds : registry[n] # NoConn =>
            stage[registry[n]] \in Joined /\ PeerId[registry[n]] = n

\* A connection whose id no other connection presents stays registered from
\* on_node_accepted to on_node_exited, through both channels.
UncontestedMirror ==
    \A c \in Conns :
        /\ stage[c] \in Joined
        /\ \A d \in Conns \ {c} : PeerId[d] # PeerId[c]
        => registry[PeerId[c]] = c

\* start_remote_node never dials while the connection it dialled before is still
\* anywhere in the pipeline, and never ends while it is: the oneshot reports the
\* exit only after on_node_exited has run.
OneOutbound == \A r \in Remotes : worker[r] # "wait" => stage[r] = "idle" /\ ~fired[r]

\* When serve returns, no connection, task or loop is left behind.
QuiescentAtExit ==
    endpoint = "done" =>
        /\ \A c \in Conns : stage[c] = "idle"
        /\ nodeLoop = "done"

\* An accepted node leaves only by being served to its exit; it is dropped from
\* a JoinSet by shutdown alone.
AcceptedNotLost ==
    [][\A c \in Conns :
          stage[c] \in Joined /\ stage'[c] \notin Joined => stage[c] = "serving" \/ cancelled]_vars

\* Who can go on.  Handshakes and dials end by themselves; of a node that is served
\* see RemoteNode: once it sees the token it can go on, or works for its callers.
WorkerMoves(r) ==
    \/ worker[r] \in {"delay", "connect"}
    \/ worker[r] = "send" /\ (connLoop = "done" \/ Cardinality(In({"queued"})) < ConnCap)
    \/ worker[r] = "wait" /\ stage[r] = "idle"

ListenerMoves ==
    \/ listener = "run" /\ cancelled
    \/ /\ listener = "sending" /\ In({"arrived"}) # {}
       /\ connLoop = "done" \/ Cardinality(In({"queued"})) < ConnCap

ConnLoopMoves ==
    \/ In({"handshake", "checked"}) # {}
    \/ connLoop = "run" /\ (In({"queued", "accepted"}) # {} \/ cancelled \/ SendersGone)
    \/ connLoop = "sending" /\ In({"handoff"}) # {} /\ Cardinality(In({"nodeq"})) < NodeCap
    \/ connLoop = "wait" /\ nodeLoop = "done"

NodeLoopMoves ==
    \/ nodeLoop = "run" /\ (In({"nodeq"}) # {} \/ connLoop \in {"wait", "done"})
    \/ nodeLoop = "drain" /\ In({"serving"}) = {}
    \/ cancelled /\ In({"serving"}) # {}

ServeReturns ==
    /\ endpoint = "run" /\ listener = "done" /\ connLoop = "done"
    /\ \A r \in Remotes : worker[r] = "exited"

\* The two full channels, the oneshots and the joins never close a circle: who
\* waits for a loop waits for one that can go on, a dialling task otherwise only
\* for its own node; and an endpoint that has to end has a step left to do so.
NeverStuck ==
    LET loops == ConnLoopMoves \/ NodeLoopMoves
    IN  /\ connLoop = "sending" => loops
        /\ listener = "sending" => ListenerMoves \/ loops
        /\ \A r \in Remotes :
              worker[r] # "exited" => WorkerMoves(r) \/ loops \/ stage[r] = "serving"
        /\ cancelled \/ SendersGone =>
              \/ endpoint = "done" \/ ServeReturns
              \/ loops \/ ListenerMoves \/ \E r \in Remotes : WorkerMoves(r)

\* What the README's mutual configuration and its /ctrl/{node_id} routes promise:
\* a node that is being served can be found under its id.
ServingReachable == \A c \in Conns : stage[c] = "serving" => exists(PeerId[c])

\* What README "remote_addr" promises (the instance connects by itself) and the
\* loop condition of start_remote_node says: it stops dialling only on cancel.
KeepsTrying == \A r \in Remotes : worker[r] = "exited" => cancelled

(* Liveness. *)

\* After the token fires, serve returns, unless a node that is served does not.
Shutdown ==
    \/ cancelled ~> endpoint = "done"
    \/ \E c \in Conns : <>[](stage[c] = "serving")

\* An accepted node is served, whatever the other connections do.
AcceptedServed == \A c \in Conns : stage[c] = "accepted" ~> stage[c] = "serving" \/ cancelled

\* An exited outbound node is dialled again.
Redial == \A r \in Remotes : fired[r] ~> worker[r] = "connect" \/ cancelled

\* An instance that only dials ends once every address has been given up.
ClientDrains == SendersGone /\ ~cancelled ~> endpoint = "done"

=============================================================================
