----------------------------- MODULE RemoteNode -----------------------------
(***************************************************************************)
(* One connected node from the moment it is registered: RemoteNode::serve  *)
(* of src/crab/nodes.rs with its three tasks, and the callers that reach   *)
(* it through a Handle (src/crab/node_handle.rs).                          *)
(*                                                                         *)
(*   serve            first heartbeat, heartbeats until one fails or the   *)
(*                    token fires, then the join of the other two          *)
(*   serve_all_tasks  one task per command that callers queue              *)
(*   accept, with     streams the peer opens, through a channel to         *)
(*   handle_all_...   one handler each                                     *)
(*                                                                         *)
(* A command is two oneshots and a stream: the caller waits for the first  *)
(* answer (exec), and for exec_ack then says what to do with the stream.   *)
(* Neither the commands nor the handlers are aborted on cancel: the node   *)
(* is over when the last of them is.                                       *)
(***************************************************************************)
EXTENDS Naturals, FiniteSets

CONSTANTS
    Exec,       \* calls of Handle::exec
    ExecAck,    \* calls of Handle::exec_ack
    Streams,    \* streams the peer may open (a bound)
    TaskCap,    \* capacity of the command channel (10 in the code)
    StreamCap   \* capacity of the channel of accepted streams (32 in the code)

Call == Exec \cup ExecAck

ASSUME RemoteNodeAssumption ==
    /\ Exec \cap ExecAck = {}
    /\ IsFiniteSet(Call) /\ IsFiniteSet(Streams)
    /\ TaskCap \in Nat \ {0}
    /\ StreamCap \in Nat \ {0}

VARIABLES
    token,      \* the node's child token is cancelled
    lost,       \* the QUIC connection is dead
    listed,     \* the registry maps the node's id to its Handle
    node,       \* RemoteNode::serve, and the task of serve_all_node around it
    status,     \* NodeStatus
    taskLoop,   \* serve_all_tasks
    acceptor,   \* accept
    handlers,   \* handle_all_streams
    lastMark,   \* the None that ends the stream channel is in it
    stream,     \* each stream the peer opens
    caller,     \* each call's future
    task,       \* each call's AsyncTask
    ans         \* what the call's oneshot holds

serveVars == <<token, node, status>>
loopVars == <<taskLoop, acceptor, handlers, lastMark>>
callVars == <<caller, task, ans>>
vars == <<token, lost, listed, node, status, taskLoop, acceptor, handlers, lastMark,
          stream, caller, task, ans>>

Typed ==
    /\ token \in BOOLEAN /\ lost \in BOOLEAN /\ listed \in BOOLEAN /\ lastMark \in BOOLEAN
    /\ node \in {"first", "running", "joining", "exited", "dropped"}
    /\ status \in {"Ready", "Running", "Stopping", "Stopped"}
    /\ taskLoop \in {"idle", "run", "drain", "done"}
    /\ acceptor \in {"idle", "run", "sending", "closing", "join", "done"}
    /\ handlers \in {"idle", "run", "drain", "done"}
    /\ stream \in [Streams -> {"none", "accepted", "queued", "handled", "done"}]
    /\ caller \in [Call -> {"idle", "sending", "awaiting", "holding", "done", "gone"}]
    /\ task \in [Call -> {"none", "queued", "open", "ack", "initial", "parked", "run", "done"}]
    /\ ans \in [Call -> {"none", "ok", "err", "exit"}]

Init ==
    /\ token = FALSE /\ lost = FALSE /\ listed = TRUE /\ lastMark = FALSE
    /\ node = "first"
    /\ status = "Ready"
    /\ taskLoop = "idle" /\ acceptor = "idle" /\ handlers = "idle"
    /\ stream = [s \in Streams |-> "none"]
    /\ caller = [k \in Call |-> "idle"]
    /\ task = [k \in Call |-> "none"]
    /\ ans = [k \in Call |-> "none"]

TasksIn(ts) == {k \in Call : task[k] \in ts}
StreamsIn(ss) == {s \in Streams : stream[s] \in ss}

\* Type invariant, with the bounds of both channels.
TypeOK ==
    /\ Typed
    /\ Cardinality(TasksIn({"queued"})) <= TaskCap
    /\ Cardinality(StreamsIn({"queued"})) <= StreamCap

-----------------------------------------------------------------------------
(* Around the node. *)

\* The endpoint's token, of which the node has a child.
Cancel ==
    /\ ~token
    /\ token' = TRUE
    /\ UNCHANGED <<lost, listed, node, status, loopVars, stream, callVars>>

\* The peer or the network is gone; QUIC's idle timeout sees to it.
ConnLost ==
    /\ ~lost
    /\ lost' = TRUE
    /\ UNCHANGED <<serveVars, listed, loopVars, stream, callVars>>

\* on_node_exited, or another connection with this id: it overwrote the entry
\* when it was accepted or removed it when it exited.
Unlist ==
    /\ listed
    /\ listed' = FALSE
    /\ UNCHANGED <<serveVars, lost, loopVars, stream, callVars>>

-----------------------------------------------------------------------------
(* serve *)

\* A first heartbeat in time starts the tasks; any other outcome ends serve at
\* once, with the status it had.
FirstHeartbeat ==
    /\ node = "first"
    /\ \/ /\ ~lost
          /\ node' = "running" /\ status' = "Running"
          /\ taskLoop' = "run" /\ acceptor' = "run" /\ handlers' = "run"
       \/ /\ node' = "exited"
          /\ UNCHANGED <<status, taskLoop, acceptor, handlers>>
    /\ UNCHANGED <<token, lost, listed, lastMark, stream, callVars>>

\* Mutant: hb_cancel.cancel() is missing.
HeartbeatFailQuiet ==
    /\ node = "running"
    /\ node' = "joining" /\ status' = "Stopping"
    /\ UNCHANGED <<token, lost, listed, loopVars, stream, callVars>>

\* A heartbeat that fails cancels the token the tasks look at.
HeartbeatFail ==
    /\ node = "running"
    /\ node' = "joining" /\ status' = "Stopping"
    /\ token' = TRUE
    /\ UNCHANGED <<lost, listed, loopVars, stream, callVars>>

\* Mutant: serve_all_tasks is not joined.
ServeReturnEarly ==
    /\ node = "joining"
    /\ acceptor = "done"
    /\ node' = "exited" /\ status' = "Stopped"
    /\ UNCHANGED <<token, lost, listed, loopVars, stream, callVars>>

\* Mutant: accept is not joined.
ServeReturnUnjoined ==
    /\ node = "joining"
    /\ taskLoop = "done"
    /\ node' = "exited" /\ status' = "Stopped"
    /\ UNCHANGED <<token, lost, listed, loopVars, stream, callVars>>

ServeReturn ==
    /\ node = "joining"
    /\ taskLoop = "done" /\ acceptor = "done"
    /\ node' = "exited" /\ status' = "Stopped"
    /\ UNCHANGED <<token, lost, listed, loopVars, stream, callVars>>

\* Mutant: the receiver of the commands outlives the node.
NodeDroppedHalf ==
    /\ node = "exited"
    /\ ~listed
    /\ node' = "dropped"
    /\ UNCHANGED <<token, status, lost, listed, loopVars, stream, callVars>>

\* The task of serve_all_node ends after on_node_exited: RemoteNode, with the
\* receiver serve_all_tasks may not have taken, is dropped.
NodeDropped ==
    /\ node = "exited"
    /\ ~listed
    /\ node' = "dropped"
    /\ task' = [k \in Call |-> IF task[k] = "queued" THEN "done" ELSE task[k]]
    /\ UNCHANGED <<token, status, lost, listed, loopVars, stream, caller, ans>>

Serve == FirstHeartbeat \/ HeartbeatFail \/ ServeReturn \/ NodeDropped

-----------------------------------------------------------------------------
(* serve_all_tasks and the tasks *)

Receiver == taskLoop \in {"idle", "run"} /\ node # "dropped"

\* Callers keep their clone of the Handle until they return.
Handles == listed \/ \E k \in Call : caller[k] \in {"sending", "awaiting", "holding"}

TaskStep(k, t) ==
    /\ task' = [task EXCEPT ![k] = t]
    /\ UNCHANGED <<serveVars, lost, listed, loopVars, stream, caller>>

\* The oneshot goes nowhere when the caller has stopped to wait.
Tell(k, v) == ans' = [ans EXCEPT ![k] = IF caller[k] = "gone" THEN "none" ELSE v]

\* Mutant: commands are taken as soon as they are queued.
TaskRecvEarly(k) ==
    /\ taskLoop \in {"idle", "run"}
    /\ task[k] = "queued"
    /\ TaskStep(k, "open")
    /\ UNCHANGED ans

TaskRecv(k) ==
    /\ taskLoop = "run"
    /\ task[k] = "queued"
    /\ TaskStep(k, "open")
    /\ UNCHANGED ans

\* Stream::open and the write of the command.  A task that fails here drops its
\* oneshot, except that MultiStageTask reports a failed write.
TaskOpen(k) ==
    /\ task[k] = "open"
    /\ \/ ~lost /\ TaskStep(k, "ack") /\ UNCHANGED ans
       \/ TaskStep(k, "done") /\ UNCHANGED ans
       \/ k \in ExecAck /\ TaskStep(k, "done") /\ Tell(k, "err")

\* read_ack.  For Delete and Ping nothing more is read: the ack is the result.
TaskAck(k) ==
    /\ task[k] = "ack"
    /\ \/ ~lost /\ TaskStep(k, IF k \in Exec THEN "run" ELSE "initial") /\ UNCHANGED ans
       \/ TaskStep(k, "done") /\ Tell(k, "err")

\* MultiStageTask hands the first message and the second oneshot to the caller.
TaskInitial(k) ==
    /\ task[k] = "initial"
    /\ \/ ~lost /\ TaskStep(k, IF caller[k] = "gone" THEN "done" ELSE "parked") /\ Tell(k, "ok")
       \/ TaskStep(k, "done") /\ Tell(k, "err")

\* The callback of exec, or the Executor the caller sent.
TaskRun(k) ==
    /\ task[k] = "run"
    /\ TaskStep(k, "done")
    /\ IF k \in Exec THEN \E v \in {"ok", "err"} : Tell(k, v) ELSE UNCHANGED ans

\* ack_rx.await fails when the caller dropped what it was handed.
TaskDeserted(k) ==
    /\ task[k] = "parked"
    /\ caller[k] = "gone"
    /\ TaskStep(k, "done")
    /\ UNCHANGED ans

\* Mutant: join_set.shutdown() aborts the tasks.
TaskLoopAbort ==
    /\ taskLoop = "run"
    /\ token \/ (~Handles /\ TasksIn({"queued"}) = {})
    /\ taskLoop' = "drain"
    /\ task' = [k \in Call |-> IF task[k] = "none" THEN "none" ELSE "done"]
    /\ UNCHANGED <<serveVars, lost, listed, acceptor, handlers, lastMark, stream, caller, ans>>

\* Cancelled, or no Handle is left and the queue is empty: the receiver is
\* dropped and with it the oneshots of what it holds.
TaskLoopBreak ==
    /\ taskLoop = "run"
    /\ token \/ (~Handles /\ TasksIn({"queued"}) = {})
    /\ taskLoop' = "drain"
    /\ task' = [k \in Call |-> IF task[k] = "queued" THEN "done" ELSE task[k]]
    /\ UNCHANGED <<serveVars, lost, listed, acceptor, handlers, lastMark, stream, caller, ans>>

TaskLoopDone ==
    /\ taskLoop = "drain"
    /\ TasksIn({"open", "ack", "initial", "parked", "run"}) = {}
    /\ taskLoop' = "done"
    /\ UNCHANGED <<serveVars, lost, listed, acceptor, handlers, lastMark, stream, callVars>>

TaskWork(k) == TaskOpen(k) \/ TaskAck(k) \/ TaskInitial(k) \/ TaskRun(k) \/ TaskDeserted(k)

Tasks ==
    \/ \E k \in Call : TaskRecv(k) \/ TaskWork(k)
    \/ TaskLoopBreak
    \/ TaskLoopDone

-----------------------------------------------------------------------------
(* Handle::exec and exec_ack *)

CallStep(k, c) ==
    /\ caller' = [caller EXCEPT ![k] = c]
    /\ UNCHANGED <<serveVars, lost, listed, loopVars, stream>>

\* Manager::get found the Handle.
Issue(k) ==
    /\ caller[k] = "idle"
    /\ listed
    /\ CallStep(k, "sending")
    /\ UNCHANGED <<task, ans>>

\* Mutant: an unbounded command channel.
SendTaskUnbounded(k) ==
    /\ caller[k] = "sending"
    /\ \/ /\ Receiver
          /\ task' = [task EXCEPT ![k] = "queued"]
          /\ CallStep(k, "awaiting")
          /\ UNCHANGED ans
       \/ /\ ~Receiver
          /\ ans' = [ans EXCEPT ![k] = "exit"]
          /\ CallStep(k, "done")
          /\ UNCHANGED task

\* cmd_tx.send: waits for room, fails once the receiver is dropped.
SendTask(k) ==
    /\ caller[k] = "sending"
    /\ \/ /\ Receiver
          /\ Cardinality(TasksIn({"queued"})) < TaskCap
          /\ task' = [task EXCEPT ![k] = "queued"]
          /\ CallStep(k, "awaiting")
          /\ UNCHANGED ans
       \/ /\ ~Receiver
          /\ ans' = [ans EXCEPT ![k] = "exit"]
          /\ CallStep(k, "done")
          /\ UNCHANGED task

\* rx.await: the value, or NODE_ALREADY_EXIT when the sender was dropped.
CallReturn(k) ==
    /\ caller[k] = "awaiting"
    /\ ans[k] # "none" \/ task[k] = "done"
    /\ ans' = [ans EXCEPT ![k] = IF @ = "none" THEN "exit" ELSE @]
    /\ CallStep(k, IF k \in ExecAck /\ ans[k] = "ok" THEN "holding" ELSE "done")
    /\ UNCHANGED task

\* The holder of the second oneshot sends an Executor.
HolderSend(k) ==
    /\ caller[k] = "holding"
    /\ task' = [task EXCEPT ![k] = "run"]
    /\ CallStep(k, "done")
    /\ UNCHANGED ans

\* The caller's future is dropped, which drops what it holds: an HTTP client
\* that hangs up, or a holder that does not want the stream.
CallerGone(k) ==
    /\ caller[k] \in {"sending", "awaiting", "holding"}
    /\ CallStep(k, "gone")
    /\ UNCHANGED <<task, ans>>

Callers == \E k \in Call : Issue(k) \/ SendTask(k) \/ CallReturn(k) \/ HolderSend(k) \/ CallerGone(k)

-----------------------------------------------------------------------------
(* accept and handle_all_streams *)

StreamStep(s, v) ==
    /\ stream' = [stream EXCEPT ![s] = v]
    /\ UNCHANGED <<serveVars, lost, listed, taskLoop, handlers, callVars>>

Room == Cardinality(StreamsIn({"queued"})) + (IF lastMark THEN 1 ELSE 0) < StreamCap

AcceptStream(s) ==
    /\ acceptor = "run"
    /\ ~lost
    /\ stream[s] = "none"
    /\ acceptor' = "sending"
    /\ StreamStep(s, "accepted")
    /\ UNCHANGED lastMark

\* tx.send(Some(stream)): waits for room, fails when the receiver is closed.
PassStream(s) ==
    /\ acceptor = "sending"
    /\ stream[s] = "accepted"
    /\ \/ handlers = "run" /\ Room /\ StreamStep(s, "queued")
       \/ handlers # "run" /\ StreamStep(s, "done")
    /\ acceptor' = "run"
    /\ UNCHANGED lastMark

AcceptBreak ==
    /\ acceptor = "run"
    /\ token
    /\ acceptor' = "closing"
    /\ UNCHANGED <<serveVars, lost, listed, taskLoop, handlers, lastMark, stream, callVars>>

\* tx.send(None), whose failure is ignored.
AcceptClose ==
    /\ acceptor = "closing"
    /\ \/ handlers = "run" /\ Room /\ lastMark' = TRUE
       \/ handlers # "run" /\ UNCHANGED lastMark
    /\ acceptor' = "join"
    /\ UNCHANGED <<serveVars, lost, listed, taskLoop, handlers, stream, callVars>>

AcceptDone ==
    /\ acceptor = "join"
    /\ handlers = "done"
    /\ acceptor' = "done"
    /\ UNCHANGED <<serveVars, lost, listed, taskLoop, handlers, lastMark, stream, callVars>>

HandleStream(s) ==
    /\ handlers = "run"
    /\ stream[s] = "queued"
    /\ StreamStep(s, "handled")
    /\ UNCHANGED <<acceptor, lastMark>>

\* Hook::handle_stream returns: the command is done, or its stream broke.
StreamDone(s) ==
    /\ stream[s] = "handled"
    /\ StreamStep(s, "done")
    /\ UNCHANGED <<acceptor, lastMark>>

\* Cancelled: the channel is closed.  Or its last element, None, was received.
HandlersBreak ==
    /\ handlers = "run"
    /\ token \/ (lastMark /\ StreamsIn({"queued"}) = {})
    /\ handlers' = "drain"
    /\ UNCHANGED <<serveVars, lost, listed, taskLoop, acceptor, lastMark, stream, callVars>>

\* The last handler has returned, and the receiver is dropped with the rest.
HandlersDone ==
    /\ handlers = "drain"
    /\ StreamsIn({"handled"}) = {}
    /\ handlers' = "done"
    /\ stream' = [s \in Streams |-> IF stream[s] = "queued" THEN "done" ELSE stream[s]]
    /\ UNCHANGED <<serveVars, lost, listed, taskLoop, acceptor, lastMark, callVars>>

Accepting ==
    \/ \E s \in Streams : AcceptStream(s) \/ PassStream(s) \/ HandleStream(s) \/ StreamDone(s)
    \/ AcceptBreak
    \/ AcceptClose
    \/ AcceptDone
    \/ HandlersBreak
    \/ HandlersDone

-----------------------------------------------------------------------------
Terminated ==
    /\ node = "dropped"
    /\ \A k \in Call : caller[k] \in {"idle", "done", "gone"}
    /\ UNCHANGED vars

Next ==
    \/ Cancel
    \/ ConnLost
    \/ Unlist
    \/ Serve
    \/ Tasks
    \/ Callers
    \/ Accepting
    \/ Terminated

\* The runtime runs every ready task.  First heartbeats, dials and dead
\* connections have timeouts.  That a command or handler ends, because the peer
\* answers or its connection dies, and that the holder of a second oneshot uses
\* or drops it, is assumed of the peer and of the callers.  Nothing is assumed
\* of an executor: the copy of a file into an HTTP response waits for its client
\* and looks neither at the token nor, while it waits, at the stream.
Executing(k) == k \in ExecAck /\ task[k] = "run"

Fairness ==
    /\ WF_vars(FirstHeartbeat)
    /\ WF_vars((token \/ lost) /\ HeartbeatFail)
    /\ WF_vars(ServeReturn)
    /\ WF_vars(node = "exited" /\ Unlist)
    /\ WF_vars(NodeDropped)
    /\ \A k \in Call :
        /\ WF_vars(TaskRecv(k)) /\ WF_vars(~Executing(k) /\ TaskWork(k))
        /\ WF_vars(SendTask(k)) /\ WF_vars(CallReturn(k))
        /\ WF_vars(HolderSend(k) \/ (caller[k] = "holding" /\ CallerGone(k)))
    /\ WF_vars(TaskLoopBreak) /\ WF_vars(TaskLoopDone)
    /\ \A s \in Streams : WF_vars(PassStream(s)) /\ WF_vars(HandleStream(s)) /\ WF_vars(StreamDone(s))
    /\ SF_vars(AcceptBreak) /\ WF_vars(AcceptClose) /\ WF_vars(AcceptDone)
    /\ WF_vars(HandlersBreak) /\ WF_vars(HandlersDone)

Spec == Init /\ [][Next]_vars

FairSpec == Spec /\ Fairness

-----------------------------------------------------------------------------
(* Properties. *)

\* When serve returns no command and no handler is left that could use the
\* connection, and no accepted stream is forgotten in a channel.
DrainedAtExit ==
    node \in {"exited", "dropped"} =>
        /\ TasksIn({"open", "ack", "initial", "parked", "run"}) = {}
        /\ StreamsIn({"accepted", "queued", "handled"}) = {}

\* A Handle is in the registry before the first heartbeat; commands sent through
\* it wait, so that the first stream the peer accepts is the heartbeat's.
QuietBeforeHeartbeat ==
    node = "first" =>
        /\ \A k \in Call : task[k] \in {"none", "queued"}
        /\ \A s \in Streams : stream[s] = "none"

\* Who holds the second oneshot of a two-stage command always finds its task
\* waiting: cancel, loss of the connection and exit of the node leave it alone.
HolderServed == \A k \in Call : caller[k] = "holding" => task[k] = "parked"

\* A command or a handler that ends by itself, or whose peer or holder ends it;
\* or an executor, which may wait for the client of its caller.
Working ==
    \/ TasksIn({"open", "ack", "initial", "run"}) # {}
    \/ \E k \in Call : task[k] = "parked" /\ (caller[k] \in {"gone", "holding"} \/ ans[k] = "ok")
    \/ StreamsIn({"handled"}) # {}

\* serve, accept, handle_all_streams or serve_all_tasks takes a step of its own.
LoopMoves ==
    \/ node \in {"first", "running", "exited"}
    \/ node = "joining" /\ taskLoop = "done" /\ acceptor = "done"
    \/ token /\ (taskLoop = "run" \/ acceptor = "run" \/ handlers = "run")
    \/ taskLoop = "drain" /\ TasksIn({"open", "ack", "initial", "parked", "run"}) = {}
    \/ acceptor = "sending" /\ StreamsIn({"accepted"}) # {} /\ (Room \/ handlers # "run")
    \/ acceptor = "closing" /\ (Room \/ handlers # "run")
    \/ acceptor = "join" /\ handlers = "done"
    \/ handlers = "drain" /\ StreamsIn({"handled"}) = {}

\* Someone is at work for the call, or it can return.
CallMoves(k) ==
    LET taken == taskLoop = "run" \/ node \in {"first", "exited"}
    IN  \/ caller[k] = "sending" /\ (Receiver => taken)
        \/ /\ caller[k] = "awaiting"
           /\ \/ ans[k] # "none"
              \/ task[k] \in {"open", "ack", "initial", "run", "done"}
              \/ task[k] = "queued" /\ taken

\* No two of the node's tasks and its callers wait for each other: a node that
\* is to stop can go on or has work to finish, a call that waits has an answer
\* or someone who owes it one.
NeverStuck ==
    /\ token \/ lost => node = "dropped" \/ LoopMoves \/ Working
    /\ \A k \in Call : caller[k] \in {"sending", "awaiting"} => CallMoves(k)

\* A node whose token fires or whose connection dies ends and is dropped, its
\* joins never wait for each other; unless an executor never returns.
NodeEnds ==
    \/ token \/ lost ~> node = "dropped"
    \/ \E k \in ExecAck : <>[]Executing(k)

\* The node as its callers see it.
C == INSTANCE Calls WITH
        up <- node \notin {"exited", "dropped"},
        reply <- [k \in Call |->
                    IF ans[k] # "none" THEN ans[k]
                    ELSE IF caller[k] = "idle" THEN "none"
                    ELSE IF caller[k] = "gone" THEN "gone"
                    ELSE "pending"]

\* An answer is never changed and never comes from a peer whose node is over;
\* only callers that wait are refused.
CallsKept == C!Safe

\* Every call that is not abandoned is answered exactly once, by the peer only
\* while the node is up.
CallsAnswered == C!Spec

=============================================================================
