# Formal models of crab

crab connects nodes over QUIC. Each process runs one *endpoint*, which dials the
configured addresses and accepts connections from others; each accepted
connection becomes a *node* that exchanges heartbeats and carries commands (file
reads and writes, TCP/UDP forwards, an HTTP proxy) as streams. This directory
holds TLA+ models of that program, the TLC configurations that check them on
small instances and the TLAPS proofs of what holds for every instance. Paths
below are relative to `src/src/`.

## Running

    tlc -config endpoint.cfg MCEndpoint       # one run; all are in PROJECT.json
    tlapm EndpointProofs.tla                  # the proofs of one module; the others
                                              # are *Proofs.tla and ChannelLemmas.tla

A run that PROJECT.json calls a `violation` ends in a counterexample: it
shows a disagreement between the code and what its documentation says of it.
Operators commented `Mutant:` are wrong versions of the definition that follows
them. They are not part of any specification; each names a plausible bug that a
property catches.

## Inventory

| Component | Source | State it keeps | Operations | Model |
|---|---|---|---|---|
| Connection supervisor | `crab/endpoint.rs` | the token, two channels (64 and 20), one retry oneshot per dialled connection, JoinSets of handshakes and of nodes | listen, dial, handshake, hand over, serve, shut down | `Endpoint` |
| Registry of nodes | `app/manager.rs` | concurrent map id -> Handle | exists, insert, remove, get | in `Endpoint` and `RemoteNode` |
| Connected node | `crab/nodes.rs`, `crab/node_handle.rs` | status, child token, command channel (10), stream channel (32), one oneshot per call | serve, heartbeat, run commands, accept streams, exec, exec_ack | `RemoteNode` over `Calls` |
| Heartbeat | `crab/nodes.rs:171-241`, `crab/proto/hook_wrapper.rs` | timers of both ends | first heartbeat, rounds | `Heartbeat` |
| Command tasks | `crab/proto/tasks.rs` | stage of an AsyncJob or MultiStageTask, its oneshots | execute | waiting in `RemoteNode`, what goes over the stream in `Command` and `WriteFile` |
| File commands | `app/protocol/commands.rs`, `util.rs` | target and temporary file | read, write, delete, list | `WriteFile` over `AtomicFile`; the others in `Command` |
| Command dispatch and types | `app/protocol/base.rs`, `types.rs`, `proto.rs` | none | one caller and one handler per command | scripts of `Command` |
| HTTP control API | `app/workers/ctrl/` | none of its own | one route per command | controller in `WriteFile`, callers and sinks in `Command` |
| Framing | `crab/proto/util.rs` | the two halves of a stream | read_message, write_message, error frames | `Stream` |
| Worker groups | `crab/utils/runit*.rs`, `main.rs` | set of workers, one token, the first error | run all, serve the jobs of a channel, cancel on the first error | `Receiver`, `Process` |
| SOCKS5 server | `app/protocol/socks5/` | two channels (10 each), the handshakes and sessions they feed | accept, handshake, session | `Socks5` |
| TCP forwarding | `app/protocol/forwarder/tcp*.rs` | channel (10), sessions | accept, ask the node, copy both ways with half close | `TcpForward`, `Command` over `Pipe` |
| UDP forwarding | `app/protocol/forwarder/udp*.rs` | associations, packet buffers | frame, unframe, relay | `Command` over `Pipe` |
| HTTP proxy command | `app/protocol/forwarder/http.rs` | a spawned copy of the request body | one request per stream | `Command` over `Pipe` |
| TLS, configuration, errors | `crab/utils/crypto.rs`, `app/config.rs`, `crab/errors.rs` | none | parsing, construction | not modelled: values without state |

How they interact. `LocalEndpointInner::serve` joins `listen`,
`start_all_remote_node` and `serve_all_connection`, which itself joins
`serve_all_node`. A connection goes from `listen` or a dialling task through the
ConnTask channel to a handshake task, which calls back into the protocol
(`on_handshake` looks the id up in the registry, `on_node_accepted` inserts the
Handle), then through the NodeTask channel to a task that runs
`RemoteNode::serve`; when that returns, `on_node_exited` removes the id and the
retry oneshot tells the dialling task to dial again. Meanwhile HTTP handlers and
forwarders take Handles out of the registry and send tasks to the node, each of
which opens a stream that the other node hands to the handler of its command. One
CancellationToken stops everything; every node has a child of it.

What is hard, and the property that says what correct means there:

* **Supervisor.** Two loops block on a bounded channel inside a `select!` body,
  where they see neither the token nor their other branches; tasks in a JoinSet
  are aborted after they have had side effects; the registry is checked and
  written in different steps and its entries are removed by id alone. Correct:
  accepted nodes are neither lost nor stuck, the registry mirrors the nodes that
  are alive, an address has one connection at a time and is dialled again, and
  serve returns after a cancel with nothing left behind.
* **Node.** A command can be queued before the first heartbeat, while the loop
  breaks, and after; neither commands nor stream handlers are aborted, so four
  joins must end in every order. Correct: every caller gets one answer, who holds
  the second oneshot of a command finds its task alive, and a cancelled or
  disconnected node ends unless it works for a client that keeps it waiting.
* **Heartbeat.** Only one end has a timeout after the first round, and no
  transport option is set, so QUIC's idle timeout matters. Correct: no healthy
  node is ended, no silent one is kept.
* **Commands.** Messages and the raw bytes of a copy share a stream, and nothing on
  it tells one from the other; both ends must switch at the same place, past acks,
  errors in the place of an answer, a caller that hangs up, an early end. Afterwards each
  direction ends by itself, and a cancel, a lost connection or a broken source ends
  both. Correct: no end takes one thing for another, who is told ok is told the
  truth, each direction is a pipe of its own, and nothing of a command outlives its node.
* **File writes.** Any of the connection, the disk, the HTTP body, the token and
  the process can fail at any step, and two writes can meet on one path. Correct:
  the target goes from one complete content to another.
* **Process.** Workers fail, end early or are cancelled in any order; a SOCKS5
  server is a pipeline of two channels whose loops end at different moments, with
  tasks that wait for room in them, for a client or for a node. Correct: nobody is
  cancelled without a cause, the first error is the one returned, every worker is
  joined with nothing of its own left, and the process ends when it is told to,
  unless a client keeps one of them waiting.

PROJECT.json lists these hazards one by one, each at the line where it bites.

## Endpoint

`Endpoint.tla` follows each connection through one variable, `stage`, from
`idle` through the QUIC handshake, the queue, the application handshake, the
JoinSet, the node channel and `serving` back to `idle`. The head of the
module lists the stages. `worker`, `listener`, `connLoop`, `nodeLoop` and
`endpoint` are the program counters of the tasks. A channel is the set of
connections in stage `queued` or `nodeq` with its capacity: every property speaks
about single connections, so the order inside a channel is left open, which
allows more behaviours than FIFO does. The retry oneshot has no variable for its
sender: it lives as long as the connection's stage is not `idle`, and `fired`
tells a value from a drop. `registry` is Manager's map.

| Action | Code |
|---|---|
| `WorkerDelay`, `WorkerConnect`, `WorkerSend`, `WorkerResume` | `start_remote_node` and `connect_remote_node`; a dropped oneshot (`retry_rx.await?`) ends the task |
| `Incoming`, `IncomingResolved`, `ListenSend`, `ListenCancel` | `listen`; a send inside the branch body looks at nothing else |
| `RecvConn`, `HandshakeFail`, `HandshakeCheck`, `Accept`, `HarvestReady`, `SendNode`, `ConnLoopBreak`, `ConnLoopDone` | `serve_all_connection` with its handshake tasks; only the accepting side checks the registry, both insert |
| `RecvNode`, `NodeExit`, `NodeLoopDrain`, `NodeLoopDone` | `serve_all_node`; `NodeExit` is serve's return, `on_node_exited` and the oneshot |
| `Cancel`, `ServeDone` | the token and the outer joins |

`HandshakeCheck` and `Accept` are two steps because the reply of the handshake
is written between them. Not modelled: panics of tasks, and
`endpoint.accept()` returning None (nobody closes the QUIC endpoint).

| Run | Instance | What it shows |
|---|---|---|
| `endpoint` | two addresses, an inbound slot for the same peer as the first, capacities 1, listening or not | `TypeOK`, `NoStaleHandle`, `UncontestedMirror`, `OneOutbound`, `QuiescentAtExit`, `AcceptedNotLost`, `NeverStuck`, and under fairness `Shutdown`, `AcceptedServed`, `Redial`, `ClientDrains` |
| `ep_reach` (violation) | one address and one inbound slot for the same peer | `ServingReachable` fails: the exit of one of two connections of a peer unregisters the other |
| `ep_redial` (violation) | one address | `KeepsTrying` fails: one failed handshake and the address is never dialled again |

*Bounds.* Three connections are one more than a channel of capacity 1 and the
loop behind it hold, so both sends block; a dialled and an accepted connection of the
same peer contend for the registry while the other address is alone with its id.
Slots are reused without limit, so any number of connections happens one after
another. Capacity 1 makes a full channel common; the proofs cover all other sizes.

*Fairness.* tokio polls every task that is ready (WF), and a `select!` with
several ready branches picks one at random, so a branch that is ready again and
again is taken (SF for `ListenCancel`, `HarvestReady` and `ConnLoopBreak`, which
compete with others in their loop). Dials and handshakes have timeouts. A node is
never assumed to exit: that it does once the token has fired is `NodeEnds` of
`RemoteNode`, which has an exception, and so `Shutdown` has the case of a node that is
served for ever. Peers are never assumed to connect.

## Connected node

`RemoteNode.tla` is one node and the callers that reach it. `node` is the program
counter of `serve`, `taskLoop`, `acceptor` and `handlers` those of
`serve_all_tasks`, `accept` and `handle_all_streams`; `stream` follows each
stream the peer opens; `caller`, `task` and `ans` are the three places where
a call lives: the caller's future, the AsyncTask and the oneshot. The command loop ends when
all Handles are gone too, which `Handles` counts: the registry's and those of
calls in progress. The heartbeat's outcome is a choice here; when it fails is
the subject of `Heartbeat`. Other connections act on this node's registry
entry as `Unlist`.

`Calls.tla` is the abstract specification: a call is issued, then answered by
the peer (only while serve runs), refused with NODE_ALREADY_EXIT or abandoned, and
no call stays pending. `C` in `RemoteNode` maps to it and `CallsAnswered == C!Spec`
checks safety and liveness of the implementation; `CallsKept == C!Safe` is its safety part,
which is proved.

| Run | Instance | What it shows |
|---|---|---|
| `node` | an exec, an exec_ack, one stream of the peer, capacities 1, fair | `TypeOK`, `DrainedAtExit`, `QuietBeforeHeartbeat`, `HolderServed`, `NeverStuck`, `CallsKept`, `CallsAnswered`, `NodeEnds`, and no deadlock before the node is dropped |

*Bounds.* Two calls fill the command channel with one sender blocked on it, and the
mark that ends the stream channel fills it behind one stream, with `accept` blocked.
A second stream adds no wait that these do not have, and makes the liveness check too
large. The proofs cover all calls, streams and capacities.

*Fairness.* As above. Beyond that: a command or handler under way ends (`TaskWork`,
`StreamDone`), as the token is passed to it or its stream fails; the
holder of a second oneshot acts or drops it (`HolderSend`, `CallerGone`);
nothing is assumed of the executor that such a holder sends (`Executing`), since the one that
copies a file into an HTTP response ignores the token it is given (`ctrl.rs:112`) and, while it
waits for its client (`ctrl.rs:121`), does not see that its stream has failed. `NodeEnds` has
the case of an executor that never returns, and is otherwise unconditional;
after serve returns, its task calls `on_node_exited` (`Unlist`). A heartbeat is
only assumed to fail once the token has fired or the connection is lost.

## Heartbeat

`Heartbeat.tla` has both ends of a connection and explicit time: `Tick` advances
all timers by one and is disabled while a message is due or a timer has
expired. Messages carry their age, at most `MaxDelay`. The end that accepted
(`as_client` in the code, *asker* here) has no timeout after the first round. QUIC
is external: it is silent from some moment on, closes when one end is done, or
times out when nothing was heard for `IdleTimeout`. `Traffic` stands for
commands that keep it from being idle. The error frames of failing hooks are left
out: `AppProtocol::make_heartbeat` and `on_heartbeat` return `Ok`.

Run `heartbeat`: options in the order of the defaults (4, 5, 8 and 9 for first_heartbeat,
interval, timeout and idle timeout, delay and skew up to 1). `NoFalseAlarm`: if the
options leave room for three messages (`Timely`), no healthy node is ended. Both bounds
that matter are met with equality, and one less makes it fail. `SilenceNoticed`:
the server end leaves a silent peer after its timeout, the asker only after an
interval and QUIC's idle timeout. Both are tight.

## File writes

`WriteFile.tla` has several writes of one path: for each the handler of
`commands.rs:148-230`, the controller of `ctrl.rs:132-181` and the stream
between them. Files are inodes, so that a rename moves a file under an open
descriptor; contents are chunks tagged with their writer. The temporary path is
one for all writes of a target, as in `util.rs:23`. Faults: lost connection, disk
errors, cancel, a body that breaks off, a crash of the handling process with its
temporary file left behind.

`AtomicFile.tla` is what the README promises; `A` maps to it.

| Run | Instance | What it shows |
|---|---|---|
| `write` | two writes, either one after the other with whole bodies (`Calm`), or overlapping with bodies that break off; all other faults in both | `TypeOK`, `TargetStays`, `WritesAtomic == A!Spec` |
| `write_broken` (violation) | one write whose body breaks off | `CompleteTarget`: a part replaces the target |
| `write_overwrite` (violation) | one write without overwrite | `OverwriteProtects`: it replaces an existing file |

*Bounds.* `mode` is chosen at the start, from `Modes`. `WritesAtomic` claims something in
the mode `Calm` only, and both of its conditions are needed. Without whole bodies
`write_broken` shows a torn target. With two writes of one path that overlap the
second opens the same temporary file (`util.rs:23`), truncates it and goes on
writing to the inode that the first renames, so that the target mixes both; no
document speaks of concurrent writes, hence this is no finding. Bodies of one and two chunks
against an old file of two: short over long and a break in the middle both
occur. Two writes are enough for each pair of steps to interleave. These runs claim
safety only.

## Commands over a stream

`Stream.tla` is one bidirectional QUIC stream as `crab/proto/util.rs` uses it: in each
direction the messages that are under way (`say`), the bytes behind them (`flow`)
and the end behind those (`fin`). `wr` and `rd` are the halves: held by the
end itself (`own`), by a copy (`copy`), finished or dropped (`shut`). A dropped half ends
the stream as a finished one does, and its reader discards what it has not read.
`Lose` kills the connection and drops any suffix of what was under way.

`Command.tla` runs one command over it, from both ends: the task that was queued
through a Handle and the handler on the other node. Each end follows a script of
messages, then one copy per direction runs from a source at one end to a sink at the other.

| Command | Task | Handler |
|---|---|---|
| ping, delete, list | `Call`, `ListTask`: `base.rs`, `tasks.rs` | `SimpleCommandHandler` of `types.rs` and the handlers of `commands.rs` |
| read | `TwoStageTask`, then the second ack and the copy into the HTTP response (`ctrl.rs`) | `ReadFile` of `commands.rs` |
| http | `do_http_request_proxy` of `http.rs`, with the spawned copy of the body | its handler: the request starts before the body is through |
| tcp, udp | `TwoStageTask` with the address that was bound | connect or bind, then `tcp_util.rs` or `udp.rs` |

| Action | Code |
|---|---|
| `Say`, `Hear`, `Wait`, `Answer` | one step of a script; `Fail` is the early return of each and what the caller is told then |
| `StartBody`, `Advance` | where halves are handed to a copy |
| `Pull`, `PullEnd`, `Push`, `PushFail`, `PushEnd` | a copy reads its source, writes its sink, and finishes or drops the half it holds |
| `Finish`, `Leave` | the join of the copies, then the drops when the function returns; the body copy of an HTTP request stays |
| `Cancel`, `CancelBody`, `AssociateClosed` | the places that look at a token, and the end of a SOCKS5 association |
| `Source`, `Sink`, `Stop`, `ConnLost` | the environment |

`Pipe.tla` says what one direction of a copy promises: what the sink has got is what
the source has yielded, in order, and the sink's end comes when all of it has
arrived, or when something has cut the pipe (`Cut`: a lost connection, a broken
source, a cancel, a handler that reports an error, or UDP, which has no end). A sink that
is cut may also get a text in place of the bytes (`Replace`), though never after some of them: the
executor of a file download that fails to read the second ack writes the error into the body of
the response, whose status has been sent (`ctrl.rs:114-118`, `Ending`). `Up` and `Down` map the
two directions to it, so that `Pipes` says neither can be cut by the other.

| Run | Instance | What it shows |
|---|---|---|
| `command` | all seven commands, each fault of `MCFaults` | `TypeOK`, `Understood`, `OkMeansDone`, `NeverStuck`, `Pipes`, and under fairness `EndsArrive`, `EndsLeave` |
| `command_delete` (violation) | ping, delete, list | `DeleteDone`: delete answers with the first ack, and the result that follows is dropped unread |
| `command_udp` (violation) | udp | `UdpIntact`: a frame that the reader cannot read, or one that it reads with another payload |

*Bounds.* With `Window` 1 each writer waits for its reader, which is what a wait of both
ends on each other would need, and a message is on the wire while the
other direction carries bytes. `Chunks` is 1 in the fair run: a chunk is in the
source, on the wire or at the sink, and the end can overtake it at each
place. `Mtu` 2 and `HeaderLen` 1 let datagrams of no and one byte fit and one of
two not. `MCFaults` pairs a lost connection and a cancel with a sink that stalls, and
has a broken source and a closed sink by themselves. The proofs cover
every window, number of chunks and set of faults.

*Fairness.* Ready tasks are polled. `Stop` is fair once the connection is lost or the
other node is cancelled, since the heartbeat, which is a stream of that connection, then
fails on both sides (`Heartbeat`) and takes the node's token with it. The target of an HTTP request may
never answer, a source may never end and a stalled sink never go on, so that
`EndsLeave` has the exception the code has: the copy of a file into an HTTP response
looks at neither the token nor a timeout (`ctrl.rs:121`).

## Process

`Process.tla` is `start` in `main.rs`: a `Vec<Worker>` (`Harvest`, `Exit`) under a
token that a signal or the first error fires. It instantiates `Socks5` and
`TcpForward`, which run in detail, and leaves what the control API and the
endpoint come to open (`Other`): both may end by themselves, with or without an error.
`Receiver` is the channel and loop that both servers use, instantiated once for
each stage: `H` and `S` for the handshakes and sessions of `Socks5`, `F` in
`TcpForward`.

| Action | Code |
|---|---|
| `Send`, `Recv`, `Finish`, `Break`, `Done` of `Receiver` | `mpsc::Sender::send`, and `OnceWorker for Receiver<T>` with its JoinSet |
| `Accept`, `Offer`, `StopAccept`, `Join` | the accept loops; the send is inside the branch body and looks at nothing else |
| `HandshakeBegin`, `HandshakeStep`, `HandshakeFail`, `HandshakePass` | `Handshake::serve`: authentication under the token, the request under nothing, then the send of the session |
| `Signal`, `OtherEnds`, `Harvest`, `Exit` | `wait_exit` and `Vec<Worker>::serve` |

Two differences of the accept loops are in the model because the code has them.
An error of accept ends that of `Socks5` for good (`server.rs:40`), though the worker
stays until the token fires, since `start` holds a sender of each channel; the
TCP forward goes on. And `Socks5` ignores a failed send, where `TcpForward` leaves its
loop.

Run `process`: two SOCKS5 clients, one TCP connection, one other worker, capacities 1.
`NothingLeft`: when start returns every worker has ended, and those that listened
have left nothing in a channel or a task. `CancelHasCause`: a worker that ends early
without an error leaves the others running. `FirstErrorKept`: the first error joined
is what start returns. `NeverStuck`: no sender, loop or join waits in a circle, and once the
token has fired both servers can go on until they have ended. `Exits`: after a signal or a
failure the process ends. Both exceptions are the code's. `conn.wait()` (`server.rs:84`) looks
at neither the token nor a timeout, so one client that authenticates and then says nothing keeps
the handshake, its channel, the server and the process from ending (`Stalled`). And a
worker of `Other` need not end: the HTTP server of the control API waits without a timeout for the
responses it has begun (`workers.rs:21-23`), and the endpoint for the node whose file download has a
client that does not read (`ctrl.rs:121`).

*Bounds.* With capacity 1 and two clients the session channel can be full while a
handshake waits to pass its session on, and a client can wait in the accept
loop while the other is queued. One connection through `TcpForward` is sent before, while
or after its loop ends.

*Fairness.* Ready tasks are polled. Authentication is assumed to end once the token
has fired, as its `select!` has that branch; a client need not do anything else. A session or
forward ends because the node answers its `exec_ack` (`CallsAnswered`). Nothing is
assumed of `Other`, so that `Exits` has the case of one of them that runs for ever.

## Waits

Each of `Endpoint`, `RemoteNode`, `Process` and `Command` has bounded channels with senders that
look at nothing else, oneshots, joins and copies, and so each could come to a stop with
everyone waiting for someone else. TLC's own deadlock check sees that only when nothing in
the environment can move either, and liveness says it for small instances only. `NeverStuck` says it for each
state: whoever waits has someone who can take a step, and an endpoint, node, process or command that has
to end has a step left to do so. It is written with the guards of the steps the code takes by itself
(`WorkerMoves`, `ConnLoopMoves`, `LoopMoves`, `CallMoves`, `Moves`, `EndGoes`, `CopyGoes`), since the
prover has no ENABLED; steps of peers, clients, callers, sources and sinks are not among them.
What may be waited for is named where the code does so:

| Module | Still waited for |
|---|---|
| `Endpoint` | a node that is being served, by the dialling task of its address, and by all once the token has fired |
| `RemoteNode` | a handler or a command under way, its peer, the holder of a second oneshot, an executor and the client it works for |
| `Process` | a client that has authenticated and not sent its request (`Stalled`); a worker of `Other`, once it has been told to end |
| `Command` | the target of an HTTP request, sources and sinks; after both nodes have stopped only the HTTP client that a file is copied to |

`Window` 1 and capacity 1 are where a circle would close first, and the proofs below
cover every other size.

## Proofs

`EndpointProofs.tla` proves the safety properties of run `endpoint` for every set of
addresses, slots and ids and every capacity, from `ConfigAssumption` alone
(the slots are finite, ids are assigned, capacities are positive, serve is only
called with something to do).

None of the properties is inductive. `IInv` adds what makes them so:

* `Holders`: which loop holds a connection that is between two channels;
* `SingleHolder`: that it holds only one;
* `Progress`: what is over when a loop has moved on (nothing is
  accepted once the connection loop has broken, nothing is queued once it is
  done, no inbound connection exists when listen ended without a cancel);
* `FiredWaits`: the oneshot is fired only for a task that waits for it.

The argument for the registry is the instructive one. `NoStaleHandle` is
threatened by `ConnLoopBreak`, which aborts accepted tasks without
`on_node_exited`. That is allowed after a cancel; without one the loop breaks
only when all senders are gone, and then `OneOutbound` and `Progress` say no
connection is in the JoinSet. So the registry part of the invariant needs the oneshot part.
Two connections of one id can overwrite and remove each other's entry, which is
why `UncontestedMirror` speaks of ids that one connection presents.

`InitIInv` and `StepIInv` are the two halves, the latter one step per action and one per
conjunct below it. The channel capacities are not in `IInv`, since no other
fact needs them: `ChannelStep` proves them from `Shrinks` and `GrowsByOne` of `ChannelLemmas.tla`, which the other
proofs about channels use as well. `Invariance`, `TypeCorrect`, `NoStaleHandleHolds`,
`UncontestedMirrorHolds`, `OneOutboundHolds`, `QuiescentAtExitHolds` and
`AcceptedNotLostHolds` are the results. For `NeverStuck`, `Waits` adds that a body that sends
holds what it sends and that the connection loop ends for a reason that lasts. The chain
then runs from the back: nodes wait for nobody, so the node loop goes on; hence the connection
loop, which waits for room in its channel only; hence who sends to that.

`RemoteNodeProofs.tla` proves the invariants of run `node` and the step refinement of `Calls` for all calls, streams and
capacities, from `RemoteNodeAssumption` (calls and streams are finite, a call is of one kind,
capacities are positive). `Phases` relates the program counters of the three loops to
that of serve: they start together, and serve returns when they have ended. `TasksHeld`
and `StreamsHeld` say that only a running loop holds a task or a stream and that `accept`
holds one at most; `Oneshots` says where a call can be when its task is in a given
place, and contains `HolderServed`. Channel bounds come from `ChannelStep` as above.
`Waits` has, for each place where a task can be, who owes whom an answer; from it follow `NeverStuck` and,
step by step, `CallsKept`.

`WriteFileProofs.tla` proves `TypeOK` and `TargetStays` in every mode, from `Fresh`: a
write that has not yet created its file is nowhere on the disk. The refinement
`WritesAtomic` is proved for any number of writes and any lengths of bodies. In the
calm mode `Uploaded` says how much of a body has arrived in each state of both ends,
`Owned` that a handler that is writing has the temporary file for itself, with as much in it
as its offset says, and `CompleteTarget` follows for the rename. `Content` and `Outcome` are
the mapping, with `HandlerRefines` and `ControllerRefines` for the steps.

`HeartbeatProofs.tla` proves `NoFalseAlarm` and `SilenceNoticed` for all timeouts, delays
and skews (`MaxDelay` is positive). A message queue is a sequence of ages, so the proof looks at
the state through scalars (`Scalar`: counters, two ages, timers) and shows once
that each action is one of the `Moves` on them; the rest is linear arithmetic. `Budget` bounds
the messages under way, `Timers` each timer by where its end is. For `NoFalseAlarm`, `Rounds` says
where a healthy round is, from `Beginning` through `Asked`, `Replied` and `Acked` to
`Resting`, and in each how far the timer that runs can be ahead of the message it waits for; for
`SilenceNoticed`, `Heard` and `Waited` say how old the last message is and how long since.

`ProcessProofs.tla` proves `TypeOK` and the other invariants of run `process`, from
`ProcessAssumption` (the workers are distinct, clients and connections are finite
sets, capacities are positive). `GInv` adds to `CancelHasCause` that joined workers have
ended and that `firstErr` records whether one of them failed (`Recorded`). It is
inductive because a result is final, which `ResultsFinal` shows for each step of the two
servers. For `NothingLeft`, `LInv` says where a client can be: with the accept loop
(one at most) or with a handshake that is running (`SocksInv`), and that a loop that was
left has nothing queued and one that was joined has nothing running (`Drained`, used
for all three channels). `SocksKeeps` and `TcpKeeps` are the steps of the servers,
`SocksMoves` and `TcpMoves` what these do to the three channels, which bounds them.
For `NeverStuck`, `Waits` says that a client is there on whose behalf the accept loop sends, that
every handshake that runs is at a step of its own, and that an error that was joined has fired the token.

`CommandProofs.tla` proves `TypeOK`, `Understood` and `OkMeansDone` for every set of commands and
faults, any window, any number of chunks and sizes of datagrams, from `CommandAssumption`.
The scripts are read off once into tables: `Msgs`, what each direction of a command
carries, and `WritesAt` and `ReadsAt`, how much of that each end has written and read at
each place of its script; `ScriptsFit` proves that the scripts say the same. The
invariant `Agreed` is stated per direction over the tables: as long as the connection
lives, what is under way is what the writer has written less what the reader has read,
an error is the last thing its writer says, and bytes follow only when all messages are
written. `Counted` bounds the chunks, `Dropped` says which halves are dropped, and `Honest` which
answers are under way for what the node has done.

`PipeProofs.tla` proves `Pipes`, the refinement of `Pipe` by each direction of a command, from
the same assumption. A chunk is at its sink or under way (`Exact`), so the question is why a
half can be dropped before all is there. `PInv` answers it for a command that nothing has cut
(`Hard`: loss, a token, a handler that failed, or a datagram forward). An end that leaves in
the middle of its script is `Excused`: its caller or HTTP client is gone, or the other end
left before it, since otherwise no write is refused and no message is missing (`Trusted`, with `Agreed` of
`CommandProofs`). One that leaves later is `Through` with its copies, but for a request body.
So a stream that ends is `Whole`: its source is at its end and every chunk is under way, or
nobody wants them. `Answered` carries this from the copy of an HTTP response to the moment
the task is dropped, which is what ends the response; if it is dropped before its copy has begun,
the response is empty so far (`Untouched`) and may end with the text of the error. `StepMoves` then gives the step of `Pipe` for
each step of `Command`.

`NeverStuck` of `Command` rests on the tables and on `PInv`, with `Standing` for ends that are over. Lines of a
script are reads and writes in the same order at both ends (`ScriptsTakeTurns`), so while
no end has failed they are never both reading (`TakeTurns`), nor both held up by a full window
(`FullWindow`): one of them writes what the other is about to read. If an end has left, what it held
is finished, so that a reader sees the end and a writer is refused (`TalkGoes`). Once
the scripts are through each copy moves by itself (`CopiesGo`) or waits for its source or sink.

Only model-checked: all liveness (in `endpoint`, `node`, `process` and `command`; the prover
has no fairness or ENABLED), and with it the liveness half of the refinement
`CallsAnswered`, whose safety half is `CallsKept`. That every invariant and action property of a passing
run is proved says nothing of the fairness assumed; `NeverStuck` is as far as a proof
gets without it.

## Findings

* A peer connected twice (both sides dial and listen) loses its registry entry when
  either connection exits (`ep_reach`).
* A failed handshake ends redialling for good (`ep_redial`). This includes a
  reconnect that is refused because the peer still has the old connection.
* A broken upload replaces the target by a part of itself (`write_broken`).
* The overwrite flag is read the wrong way round (`write_overwrite`).
* Delete reports success with the first ack, before anything is deleted, and nobody reads the
  result (`command_delete`).
* A UDP header is written without the type of its address and read with one, and
  what was read is returned up to the end of the buffer (`command_udp`).

## Not modelled

* TLS, configuration and errors (`crab/utils/crypto.rs`, `app/config.rs`, `crab/errors.rs`):
  parsing and construction of values, without state.
* How a value is encoded, and with it the limit of 16 MiB of `crab/proto/util.rs:28`, which only the
  reader enforces: no property here speaks of the size of a message.
* Addresses. A frame of `udp.rs:54` carries the sender's address back to it; the model
  has the lengths of header and payload, since these decide whether a frame can be read.
* `OnceRunnerWorker`: `start` serves each worker once, so its ALREADY_SERVED never occurs.
* Panics of tasks, and `endpoint.accept()` returning None.

## Plan

Done, in this order: `Endpoint`, `RemoteNode` over `Calls`, `WriteFile` over
`AtomicFile`, `Heartbeat`, `Process`, `Command` over `Stream` and `Pipe`, each with its proofs.
What is left:

1. **Mesh**: two `Endpoint` instances that dial each other, for what the registries of both
   say of one connection.
