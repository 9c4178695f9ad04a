-------------------------- MODULE RemoteNodeProofs --------------------------
(***************************************************************************)
(* Proofs about RemoteNode, for any calls and streams and channels of any  *)
(* capacity: nothing runs before the first heartbeat or after serve has    *)
(* returned, and who holds the second oneshot of a command is served.      *)
(***************************************************************************)
EXTENDS RemoteNode, ChannelLemmas

Busy == {"open", "ack", "initial", "parked", "run"}

\* serve starts the three loops together and returns when they have ended; a
\* first heartbeat that fails leaves all of them idle for good.
Phases ==
    /\ taskLoop = "idle" <=> acceptor = "idle"
    /\ taskLoop = "idle" <=> handlers = "idle"
    /\ node = "first" => taskLoop = "idle"
    /\ node \in {"running", "joining"} => taskLoop # "idle"
    /\ node \in {"exited", "dropped"} => taskLoop = "idle" \/ (taskLoop = "done" /\ acceptor = "done")
    /\ acceptor = "done" => handlers = "done"

\* Commands are only taken by the loop, which has joined them when it is done.
TasksHeld ==
    /\ taskLoop \in {"idle", "done"} => \A k \in Call : task[k] \notin Busy
    /\ node = "first" => \A k \in Call : task[k] # "done"

\* A stream is with accept, in the channel or with a handler that runs.
StreamsHeld ==
    /\ handlers = "idle" => \A s \in Streams : stream[s] = "none"
    /\ handlers = "done" => \A s \in Streams : stream[s] \notin {"queued", "handled"}
    /\ \A s \in Streams : stream[s] = "accepted" => acceptor = "sending"
    /\ \A s, t \in Streams : stream[s] = "accepted" /\ stream[t] = "accepted" => s = t

\* The answer ok of a two-stage command is in its oneshot only while the task
\* waits for the caller.
Oneshots ==
    /\ \A k \in Call : caller[k] \in {"idle", "sending"} => task[k] = "none" /\ ans[k] = "none"
    /\ \A k \in ExecAck : caller[k] = "awaiting" /\ ans[k] = "ok" => task[k] = "parked"
    /\ \A k \in Call : caller[k] = "holding" => k \in ExecAck
    /\ HolderServed

IInv == Typed /\ Phases /\ TasksHeld /\ StreamsHeld /\ Oneshots

-----------------------------------------------------------------------------
\* A node that is new has nothing in its channels.
LEMMA InitIInv == Init => IInv
  BY RemoteNodeAssumption DEF Init, IInv, Typed, Phases, TasksHeld, StreamsHeld, Oneshots,
     HolderServed, Call, Busy

\* Every step of serve, of its loops and of the callers keeps the invariant: one
\* step per action.
LEMMA StepIInv == ASSUME IInv, [Next]_vars PROVE IInv'
<1> USE RemoteNodeAssumption DEF IInv, Call, Busy, serveVars, loopVars, callVars
<1> USE DEF Typed, Phases, TasksHeld, StreamsHeld, Oneshots, HolderServed
<1>1. CASE Cancel
  BY <1>1 DEF Cancel
<1>2. CASE ConnLost
  BY <1>2 DEF ConnLost
<1>3. CASE Unlist
  <2>1. Typed'
    BY <1>3 DEF Unlist
  <2>2. Phases'
    BY <1>3 DEF Unlist
  <2>3. TasksHeld'
    BY <1>3 DEF Unlist
  <2>4. StreamsHeld'
    BY <1>3 DEF Unlist
  <2>5. Oneshots'
    BY <1>3 DEF Unlist
  <2> QED
    BY <2>1, <2>2, <2>3, <2>4, <2>5
<1>4. CASE FirstHeartbeat
  BY <1>4 DEF FirstHeartbeat
<1>5. CASE HeartbeatFail
  BY <1>5 DEF HeartbeatFail
<1>6. CASE ServeReturn
  BY <1>6 DEF ServeReturn
<1>7. CASE NodeDropped
  BY <1>7 DEF NodeDropped
<1>8. ASSUME NEW k \in Call, TaskRecv(k) PROVE IInv'
  BY <1>8 DEF TaskRecv, TaskStep
<1>9. ASSUME NEW k \in Call, TaskOpen(k) PROVE IInv'
  BY <1>9 DEF TaskOpen, TaskStep, Tell
<1>10. ASSUME NEW k \in Call, TaskAck(k) PROVE IInv'
  BY <1>10 DEF TaskAck, TaskStep, Tell
<1>11. ASSUME NEW k \in Call, TaskInitial(k) PROVE IInv'
  BY <1>11 DEF TaskInitial, TaskStep, Tell
<1>12. ASSUME NEW k \in Call, TaskRun(k) PROVE IInv'
  BY <1>12 DEF TaskRun, TaskStep, Tell
<1>13. ASSUME NEW k \in Call, TaskDeserted(k) PROVE IInv'
  BY <1>13 DEF TaskDeserted, TaskStep
<1>14. CASE TaskLoopBreak
  BY <1>14 DEF TaskLoopBreak, TasksIn
<1>15. CASE TaskLoopDone
  BY <1>15 DEF TaskLoopDone, TasksIn
<1>16. ASSUME NEW k \in Call, Issue(k) PROVE IInv'
  BY <1>16 DEF Issue, CallStep
<1>17. ASSUME NEW k \in Call, SendTask(k) PROVE IInv'
  BY <1>17 DEF SendTask, CallStep, Receiver
<1>18. ASSUME NEW k \in Call, CallReturn(k) PROVE IInv'
  BY <1>18 DEF CallReturn, CallStep
<1>19. ASSUME NEW k \in Call, HolderSend(k) PROVE IInv'
  BY <1>19 DEF HolderSend, CallStep
<1>20. ASSUME NEW k \in Call, CallerGone(k) PROVE IInv'
  BY <1>20 DEF CallerGone, CallStep
<1>21. ASSUME NEW s \in Streams, AcceptStream(s) PROVE IInv'
  BY <1>21 DEF AcceptStream, StreamStep
<1>22. ASSUME NEW s \in Streams, PassStream(s) PROVE IInv'
  BY <1>22 DEF PassStream, StreamStep
<1>23. CASE AcceptBreak
  BY <1>23 DEF AcceptBreak
<1>24. CASE AcceptClose
  <2>1. Typed'
    BY <1>24 DEF AcceptClose
  <2>2. Phases'
    BY <1>24 DEF AcceptClose
  <2>3. TasksHeld'
    BY <1>24 DEF AcceptClose
  <2>4. StreamsHeld'
    BY <1>24 DEF AcceptClose
  <2>5. Oneshots'
    BY <1>24 DEF AcceptClose
  <2> QED
    BY <2>1, <2>2, <2>3, <2>4, <2>5
<1>25. CASE AcceptDone
  BY <1>25 DEF AcceptDone
<1>26. ASSUME NEW s \in Streams, HandleStream(s) PROVE IInv'
  BY <1>26 DEF HandleStream, StreamStep
<1>27. ASSUME NEW s \in Streams, StreamDone(s) PROVE IInv'
  BY <1>27 DEF StreamDone, StreamStep
<1>28. CASE HandlersBreak
  BY <1>28 DEF HandlersBreak, StreamsIn
<1>29. CASE HandlersDone
  BY <1>29 DEF HandlersDone, StreamsIn
<1>30. CASE Terminated \/ UNCHANGED vars
  BY <1>30 DEF Terminated, vars
<1> QED
  BY <1>1, <1>2, <1>3, <1>4, <1>5, <1>6, <1>7, <1>8, <1>9, <1>10, <1>11, <1>12, <1>13, <1>14,
     <1>15, <1>16, <1>17, <1>18, <1>19, <1>20, <1>21, <1>22, <1>23, <1>24, <1>25, <1>26,
     <1>27, <1>28, <1>29, <1>30
  DEF Next, Serve, Tasks, TaskWork, Callers, Accepting

\* The inductive invariant of a connected node and its callers, for any calls,
\* streams and capacities.
THEOREM Invariance == Spec => []IInv
  BY InitIInv, StepIInv, PTL DEF Spec

-----------------------------------------------------------------------------
(* The channels.  Their bounds are proved apart, since IInv does not need them. *)

Bounds ==
    /\ Cardinality(TasksIn({"queued"})) <= TaskCap
    /\ Cardinality(StreamsIn({"queued"})) <= StreamCap

TaskMoves ==
    \/ TasksIn({"queued"})' \subseteq TasksIn({"queued"})
    \/ /\ Cardinality(TasksIn({"queued"})) < TaskCap
       /\ \E k \in Call : TasksIn({"queued"})' \subseteq TasksIn({"queued"}) \cup {k}

StreamMoves ==
    \/ StreamsIn({"queued"})' \subseteq StreamsIn({"queued"})
    \/ /\ Room
       /\ \E s \in Streams : StreamsIn({"queued"})' \subseteq StreamsIn({"queued"}) \cup {s}

\* Only SendTask and PassStream add to a channel, each behind its guard.
LEMMA ChannelStep == ASSUME Typed, [Next]_vars PROVE TaskMoves /\ StreamMoves
<1> USE DEF Typed, TaskMoves, StreamMoves, TasksIn, StreamsIn, serveVars, loopVars, callVars
<1>1. CASE Cancel
  BY <1>1 DEF Cancel
<1>2. CASE ConnLost
  BY <1>2 DEF ConnLost
<1>3. CASE Unlist
  BY <1>3 DEF Unlist
<1>4. CASE FirstHeartbeat
  BY <1>4 DEF FirstHeartbeat
<1>5. CASE HeartbeatFail
  BY <1>5 DEF HeartbeatFail
<1>6. CASE ServeReturn
  BY <1>6 DEF ServeReturn
<1>7. CASE NodeDropped
  BY <1>7 DEF NodeDropped
<1>8. ASSUME NEW k \in Call, TaskRecv(k) PROVE TaskMoves /\ StreamMoves
  BY <1>8 DEF TaskRecv, TaskStep
<1>9. ASSUME NEW k \in Call, TaskOpen(k) PROVE TaskMoves /\ StreamMoves
  BY <1>9 DEF TaskOpen, TaskStep, Tell
<1>10. ASSUME NEW k \in Call, TaskAck(k) PROVE TaskMoves /\ StreamMoves
  BY <1>10 DEF TaskAck, TaskStep, Tell
<1>11. ASSUME NEW k \in Call, TaskInitial(k) PROVE TaskMoves /\ StreamMoves
  BY <1>11 DEF TaskInitial, TaskStep, Tell
<1>12. ASSUME NEW k \in Call, TaskRun(k) PROVE TaskMoves /\ StreamMoves
  BY <1>12 DEF TaskRun, TaskStep, Tell
<1>13. ASSUME NEW k \in Call, TaskDeserted(k) PROVE TaskMoves /\ StreamMoves
  BY <1>13 DEF TaskDeserted, TaskStep
<1>14. CASE TaskLoopBreak
  BY <1>14 DEF TaskLoopBreak
<1>15. CASE TaskLoopDone
  BY <1>15 DEF TaskLoopDone
<1>16. ASSUME NEW k \in Call, Issue(k) PROVE TaskMoves /\ StreamMoves
  BY <1>16 DEF Issue, CallStep
<1>17. ASSUME NEW k \in Call, SendTask(k) PROVE TaskMoves /\ StreamMoves
  BY <1>17 DEF SendTask, CallStep, Receiver
<1>18. ASSUME NEW k \in Call, CallReturn(k) PROVE TaskMoves /\ StreamMoves
  BY <1>18 DEF CallReturn, CallStep
<1>19. ASSUME NEW k \in Call, HolderSend(k) PROVE TaskMoves /\ StreamMoves
  BY <1>19 DEF HolderSend, CallStep
<1>20. ASSUME NEW k \in Call, CallerGone(k) PROVE TaskMoves /\ StreamMoves
  BY <1>20 DEF CallerGone, CallStep
<1>21. ASSUME NEW s \in Streams, AcceptStream(s) PROVE TaskMoves /\ StreamMoves
  BY <1>21 DEF AcceptStream, StreamStep
<1>22. ASSUME NEW s \in Streams, PassStream(s) PROVE TaskMoves /\ StreamMoves
  BY <1>22 DEF PassStream, StreamStep
<1>23. CASE AcceptBreak
  BY <1>23 DEF AcceptBreak
<1>24. CASE AcceptClose
  BY <1>24 DEF AcceptClose
<1>25. CASE AcceptDone
  BY <1>25 DEF AcceptDone
<1>26. ASSUME NEW s \in Streams, HandleStream(s) PROVE TaskMoves /\ StreamMoves
  BY <1>26 DEF HandleStream, StreamStep
<1>27. ASSUME NEW s \in Streams, StreamDone(s) PROVE TaskMoves /\ StreamMoves
  BY <1>27 DEF StreamDone, StreamStep
<1>28. CASE HandlersBreak
  BY <1>28 DEF HandlersBreak
<1>29. CASE HandlersDone
  BY <1>29 DEF HandlersDone
<1>30. CASE Terminated \/ UNCHANGED vars
  BY <1>30 DEF Terminated, vars
<1> QED
  BY <1>1, <1>2, <1>3, <1>4, <1>5, <1>6, <1>7, <1>8, <1>9, <1>10, <1>11, <1>12, <1>13, <1>14,
     <1>15, <1>16, <1>17, <1>18, <1>19, <1>20, <1>21, <1>22, <1>23, <1>24, <1>25, <1>26,
     <1>27, <1>28, <1>29, <1>30
  DEF Next, Serve, Tasks, TaskWork, Callers, Accepting

\* Every value keeps its type, and neither channel exceeds its capacity.
THEOREM TypeCorrect == Spec => []TypeOK
<1> USE RemoteNodeAssumption
<1>1. Init => Bounds
  <2> SUFFICES ASSUME Init PROVE Bounds
    OBVIOUS
  <2>1. TasksIn({"queued"}) = {} /\ StreamsIn({"queued"}) = {}
    BY DEF Init, TasksIn, StreamsIn
  <2> QED
    BY <2>1, FS_EmptySet DEF Bounds
<1>2. IInv /\ Bounds /\ [Next]_vars => Bounds'
  <2> SUFFICES ASSUME IInv, Bounds, [Next]_vars PROVE Bounds'
    OBVIOUS
  <2> DEFINE Q == TasksIn({"queued"})
             R == StreamsIn({"queued"})
  <2>1. TaskMoves /\ StreamMoves
    BY ChannelStep DEF IInv
  <2>2. IsFiniteSet(Q) /\ IsFiniteSet(R)
    <3>1. Q \subseteq Call /\ R \subseteq Streams
      BY DEF TasksIn, StreamsIn
    <3> QED
      BY <3>1, FS_Subset
  <2>3. Cardinality(Q)' <= TaskCap
    <3>1. CASE Q' \subseteq Q
      BY <2>2, <3>1, Shrinks DEF Bounds
    <3>2. CASE Cardinality(Q) < TaskCap /\ \E k \in Call : Q' \subseteq Q \cup {k}
      BY <2>2, <3>2, GrowsByOne
    <3> QED
      BY <2>1, <3>1, <3>2 DEF TaskMoves
  <2>4. Cardinality(R)' <= StreamCap
    <3>1. CASE R' \subseteq R
      BY <2>2, <3>1, Shrinks DEF Bounds
    <3>2. CASE Room /\ \E s \in Streams : R' \subseteq R \cup {s}
      <4>1. Cardinality(R) \in Nat
        BY <2>2, FS_CardinalityType
      <4>2. Cardinality(R) < StreamCap
        BY <3>2, <4>1 DEF Room
      <4> QED
        BY <2>2, <3>2, <4>2, GrowsByOne
    <3> QED
      BY <2>1, <3>1, <3>2 DEF StreamMoves
  <2> QED
    BY <2>3, <2>4 DEF Bounds
<1>3. IInv /\ Bounds => TypeOK
  BY DEF IInv, Bounds, TypeOK
<1> QED
  BY Invariance, <1>1, <1>2, <1>3, PTL DEF Spec

-----------------------------------------------------------------------------
(* What the invariant says. *)

\* serve returns only when no command and no handler is left that could use the
\* connection, and no accepted stream is forgotten in a channel.
THEOREM DrainedAtExitHolds == Spec => []DrainedAtExit
<1>1. IInv => DrainedAtExit
  <2> SUFFICES ASSUME IInv, node \in {"exited", "dropped"} PROVE DrainedAtExit
    BY DEF DrainedAtExit
  <2>1. \A k \in Call : task[k] \notin Busy
    BY DEF IInv, Phases, TasksHeld
  <2>2. \A s \in Streams : stream[s] \notin {"accepted", "queued", "handled"}
    BY DEF IInv, Phases, StreamsHeld
  <2> QED
    BY <2>1, <2>2 DEF DrainedAtExit, TasksIn, StreamsIn, Busy
<1> QED
  BY <1>1, Invariance, PTL

\* Before the first heartbeat no command uses the connection and no stream of the
\* peer is accepted by anyone but the heartbeat.
THEOREM QuietBeforeHeartbeatHolds == Spec => []QuietBeforeHeartbeat
<1>1. IInv => QuietBeforeHeartbeat
  BY DEF IInv, Typed, Phases, TasksHeld, StreamsHeld, QuietBeforeHeartbeat, Busy
<1> QED
  BY <1>1, Invariance, PTL

\* Who holds the second oneshot of a command finds its task waiting, whatever
\* has happened to the node since.
THEOREM HolderServedHolds == Spec => []HolderServed
<1>1. IInv => HolderServed
  BY DEF IInv, Oneshots
<1> QED
  BY <1>1, Invariance, PTL

-----------------------------------------------------------------------------
(* Who waits for whom. *)

\* A node that joins its loops has told them; a loop that waits holds what it
\* waits with; a task is owed an answer by its caller or owes one.
Waits ==
    /\ node = "joining" => token
    /\ acceptor = "sending" => \E s \in Streams : stream[s] = "accepted"
    /\ taskLoop \in {"drain", "done"} \/ node = "dropped" => \A k \in Call : task[k] # "queued"
    /\ \A k \in Call :
        /\ task[k] \in {"queued", "open", "ack", "initial"} \/ (k \in Exec /\ task[k] = "run") =>
            ans[k] = "none" /\ caller[k] \in {"awaiting", "gone"}
        /\ task[k] = "parked" =>
            caller[k] \in {"gone", "holding"} \/ (caller[k] = "awaiting" /\ ans[k] = "ok")
        /\ task[k] \in {"initial", "parked"} => k \in ExecAck
        /\ caller[k] = "awaiting" => task[k] # "none"

\* A node that is new waits for nothing.
LEMMA InitWaits == Init => Waits
  BY RemoteNodeAssumption DEF Init, Waits, Call

\* Every step leaves each wait with someone who can end it.
LEMMA StepWaits == ASSUME IInv, Waits, [Next]_vars PROVE Waits'
<1> USE RemoteNodeAssumption DEF IInv, Call, serveVars, loopVars, callVars
<1> USE DEF Typed, Phases, StreamsHeld, Oneshots, HolderServed, Waits
<1>1. CASE Cancel
  BY <1>1 DEF Cancel
<1>2. CASE ConnLost
  BY <1>2 DEF ConnLost
<1>3. CASE Unlist
  BY <1>3 DEF Unlist
<1>4. CASE FirstHeartbeat
  BY <1>4 DEF FirstHeartbeat
<1>5. CASE HeartbeatFail
  BY <1>5 DEF HeartbeatFail
<1>6. CASE ServeReturn
  BY <1>6 DEF ServeReturn
<1>7. CASE NodeDropped
  BY <1>7 DEF NodeDropped
<1>8. ASSUME NEW k \in Call, TaskRecv(k) PROVE Waits'
  BY <1>8 DEF TaskRecv, TaskStep
<1>9. ASSUME NEW k \in Call, TaskOpen(k) PROVE Waits'
  BY <1>9 DEF TaskOpen, TaskStep, Tell
<1>10. ASSUME NEW k \in Call, TaskAck(k) PROVE Waits'
  BY <1>10 DEF TaskAck, TaskStep, Tell
<1>11. ASSUME NEW k \in Call, TaskInitial(k) PROVE Waits'
  BY <1>11 DEF TaskInitial, TaskStep, Tell
<1>12. ASSUME NEW k \in Call, TaskRun(k) PROVE Waits'
  BY <1>12 DEF TaskRun, TaskStep, Tell
<1>13. ASSUME NEW k \in Call, TaskDeserted(k) PROVE Waits'
  BY <1>13 DEF TaskDeserted, TaskStep
<1>14. CASE TaskLoopBreak
  BY <1>14 DEF TaskLoopBreak
<1>15. CASE TaskLoopDone
  BY <1>15 DEF TaskLoopDone
<1>16. ASSUME NEW k \in Call, Issue(k) PROVE Waits'
  BY <1>16 DEF Issue, CallStep
<1>17. ASSUME NEW k \in Call, SendTask(k) PROVE Waits'
  <2>1. CASE ~Receiver
    BY <1>17, <2>1 DEF SendTask, CallStep
  <2>2. CASE Receiver
    <3>1. task' = [task EXCEPT ![k] = "queued"] /\ caller' = [caller EXCEPT ![k] = "awaiting"]
      BY <1>17, <2>2 DEF SendTask, CallStep
    <3>2. UNCHANGED <<node, token, acceptor, stream, taskLoop, ans>>
      BY <1>17, <2>2 DEF SendTask, CallStep
    <3> QED
      BY <1>17, <2>2, <3>1, <3>2 DEF SendTask, Receiver
  <2> QED
    BY <2>1, <2>2
<1>18. ASSUME NEW k \in Call, CallReturn(k) PROVE Waits'
  BY <1>18 DEF CallReturn, CallStep
<1>19. ASSUME NEW k \in Call, HolderSend(k) PROVE Waits'
  BY <1>19 DEF HolderSend, CallStep
<1>20. ASSUME NEW k \in Call, CallerGone(k) PROVE Waits'
  BY <1>20 DEF CallerGone, CallStep
<1>21. ASSUME NEW s \in Streams, AcceptStream(s) PROVE Waits'
  BY <1>21 DEF AcceptStream, StreamStep
<1>22. ASSUME NEW s \in Streams, PassStream(s) PROVE Waits'
  BY <1>22 DEF PassStream, StreamStep
<1>23. CASE AcceptBreak
  BY <1>23 DEF AcceptBreak
<1>24. CASE AcceptClose
  BY <1>24 DEF AcceptClose
<1>25. CASE AcceptDone
  BY <1>25 DEF AcceptDone
<1>26. ASSUME NEW s \in Streams, HandleStream(s) PROVE Waits'
  BY <1>26 DEF HandleStream, StreamStep
<1>27. ASSUME NEW s \in Streams, StreamDone(s) PROVE Waits'
  BY <1>27 DEF StreamDone, StreamStep
<1>28. CASE HandlersBreak
  BY <1>28 DEF HandlersBreak
<1>29. CASE HandlersDone
  BY <1>29 DEF HandlersDone
<1>30. CASE Terminated \/ UNCHANGED vars
  BY <1>30 DEF Terminated, vars
<1> QED
  BY <1>1, <1>2, <1>3, <1>4, <1>5, <1>6, <1>7, <1>8, <1>9, <1>10, <1>11, <1>12, <1>13, <1>14,
     <1>15, <1>16, <1>17, <1>18, <1>19, <1>20, <1>21, <1>22, <1>23, <1>24, <1>25, <1>26,
     <1>27, <1>28, <1>29, <1>30
  DEF Next, Serve, Tasks, TaskWork, Callers, Accepting

\* Both invariants of a connected node together.
THEOREM WaitsInvariance == Spec => [](IInv /\ Waits)
<1>1. Init => IInv /\ Waits
  BY InitIInv, InitWaits
<1>2. IInv /\ Waits /\ [Next]_vars => (IInv /\ Waits)'
  BY StepIInv, StepWaits
<1> QED
  BY <1>1, <1>2, PTL DEF Spec

\* A node whose token has fired or whose connection is dead can always go on
\* until it is dropped, but for work its peer or its callers finish; and no call
\* waits for someone who waits for it.
THEOREM NeverStuckHolds == Spec => []NeverStuck
<1> SUFFICES ASSUME IInv, Waits PROVE NeverStuck
  BY WaitsInvariance, PTL
<1> USE DEF IInv, Typed
<1>1. ASSUME token \/ lost, node # "dropped", ~Working PROVE LoopMoves
  <2> SUFFICES ASSUME node = "joining", ~LoopMoves PROVE FALSE
    BY <1>1 DEF LoopMoves
  <2>1. token /\ taskLoop \notin {"idle", "run"} /\ acceptor # "idle" /\ handlers \notin {"idle", "run"}
    BY DEF Waits, Phases, LoopMoves
  <2>2. TasksIn({"open", "ack", "initial", "parked", "run"}) = {}
    BY <1>1 DEF Working, Waits, TasksIn
  <2>3. taskLoop = "done"
    BY <2>1, <2>2 DEF LoopMoves
  <2>4. handlers = "done"
    BY <1>1, <2>1 DEF Working, LoopMoves
  <2>5. acceptor = "sending"
    BY <2>1, <2>3, <2>4 DEF LoopMoves
  <2> QED
    BY <2>4, <2>5 DEF Waits, LoopMoves, StreamsIn
<1>2. ASSUME NEW k \in Call, caller[k] \in {"sending", "awaiting"} PROVE CallMoves(k)
  <2> DEFINE taken == taskLoop = "run" \/ node \in {"first", "exited"}
  <2>1. taskLoop = "idle" /\ node # "dropped" => taken
    BY DEF Phases
  <2>2. CASE caller[k] = "sending"
    BY <2>1, <2>2 DEF CallMoves, Receiver
  <2>3. CASE caller[k] = "awaiting"
    <3>1. task[k] = "queued" => taken
      BY <2>1 DEF Waits
    <3>2. task[k] \in {"queued", "open", "ack", "initial", "parked", "run", "done"}
      BY <2>3 DEF Waits
    <3>3. task[k] = "parked" => ans[k] # "none"
      BY <2>3 DEF Waits
    <3> QED
      BY <2>3, <3>1, <3>2, <3>3 DEF CallMoves
  <2> QED
    BY <1>2, <2>2, <2>3
<1> QED
  BY <1>1, <1>2 DEF NeverStuck

-----------------------------------------------------------------------------
(* The callers. *)

\* What a call has come to, and whether the node is up: the mapping of Calls.
Reply(k) ==
    IF ans[k] # "none" THEN ans[k]
    ELSE IF caller[k] = "idle" THEN "none"
    ELSE IF caller[k] = "gone" THEN "gone"
    ELSE "pending"

Up == node \notin {"exited", "dropped"}

\* What a step of Calls does to one call.
Advance(k) ==
    \/ Reply(k)' = Reply(k)
    \/ Reply(k) = "none" /\ Reply(k)' = "pending"
    \/ Reply(k) = "pending" /\ Up /\ Reply(k)' \in {"ok", "err"}
    \/ Reply(k) = "pending" /\ Reply(k)' \in {"exit", "gone"}

\* A step that leaves all calls but one alone, and the node as it is, is a step of
\* Calls or none.
LEMMA OneCall ==
    ASSUME NEW k \in Call, Up' = Up, Advance(k), \A j \in Call \ {k} : Reply(j)' = Reply(j)
    PROVE [C!Next]_(C!vars)
<1> DEFINE R == [j \in Call |-> Reply(j)]
<1>1. CASE Reply(k)' = Reply(k)
  <2>1. R' = R
    BY <1>1
  <2> QED
    BY <2>1 DEF C!vars, Reply, Up
<1>2. ASSUME Reply(k)' # Reply(k) PROVE R' = [R EXCEPT ![k] = Reply(k)']
  OBVIOUS
<1>3. CASE Reply(k) = "none" /\ Reply(k)' = "pending"
  <2>1. R[k] = "none" /\ R' = [R EXCEPT ![k] = "pending"]
    BY <1>2, <1>3
  <2> QED
    BY <2>1 DEF C!Next, C!Issue, C!Set, Reply, Up
<1>4. CASE Reply(k) = "pending" /\ Up /\ Reply(k)' \in {"ok", "err"}
  <2>1. R[k] = "pending" /\ \E v \in {"ok", "err"} : R' = [R EXCEPT ![k] = v]
    BY <1>2, <1>4
  <2> QED
    BY <1>4, <2>1 DEF C!Next, C!Answer, C!Pending, C!Set, Reply, Up
<1>5. CASE Reply(k) = "pending" /\ Reply(k)' \in {"exit", "gone"}
  <2>1. R[k] = "pending" /\ \E v \in {"exit", "gone"} : R' = [R EXCEPT ![k] = v]
    BY <1>2, <1>5
  <2> QED
    BY <2>1 DEF C!Next, C!Refuse, C!Abandon, C!Pending, C!Set, Reply, Up
<1> QED
  BY <1>1, <1>3, <1>4, <1>5 DEF Advance

\* A step that leaves all calls alone is one too, if the node goes down or stays
\* as it is.
LEMMA NoCall ==
    ASSUME Up' = Up \/ (Up /\ ~Up'), \A j \in Call : Reply(j)' = Reply(j)
    PROVE [C!Next]_(C!vars)
<1> DEFINE R == [j \in Call |-> Reply(j)]
<1>1. R' = R
  OBVIOUS
<1>2. CASE Up' = Up
  BY <1>1, <1>2 DEF C!vars, Reply, Up
<1>3. CASE Up /\ ~Up'
  BY <1>1, <1>3 DEF C!Next, C!Down, Reply, Up
<1> QED
  BY <1>2, <1>3

\* A task that tells its caller something: the call was pending and the node is
\* up, or the caller has gone and nothing changes.
LEMMA Told ==
    ASSUME IInv, Waits, NEW k \in Call, NEW v \in {"ok", "err"}, Tell(k, v), UNCHANGED <<node, caller>>,
           task[k] \in {"open", "ack", "initial"} \/ (k \in Exec /\ task[k] = "run")
    PROVE [C!Next]_(C!vars)
<1> USE DEF IInv, Typed
<1>1. ans[k] = "none" /\ caller[k] \in {"awaiting", "gone"}
  BY DEF Waits
<1>2. Up' = Up /\ Up
  BY DEF Up, Phases, TasksHeld, Busy
<1>3. \A j \in Call \ {k} : Reply(j)' = Reply(j)
  BY DEF Tell, Reply
<1>4. Advance(k)
  <2>1. CASE caller[k] = "gone"
    BY <1>1, <2>1 DEF Tell, Reply, Advance
  <2>2. CASE caller[k] = "awaiting"
    <3>1. ans'[k] = v
      BY <2>2 DEF Tell
    <3>2. Reply(k) = "pending" /\ Reply(k)' = v
      BY <1>1, <2>2, <3>1 DEF Reply
    <3> QED
      BY <1>2, <3>2 DEF Advance
  <2> QED
    BY <1>1, <2>1, <2>2
<1> QED
  BY <1>2, <1>3, <1>4, OneCall

\* Every step of the node and its callers is a step of Calls or none.
LEMMA StepCalls == ASSUME IInv, Waits, [Next]_vars PROVE [C!Next]_(C!vars)
<1> USE DEF IInv, Typed, serveVars, loopVars, callVars
<1>1. ASSUME UNCHANGED <<node, caller, ans>> PROVE [C!Next]_(C!vars)
  <2>1. Up' = Up /\ \A j \in Call : Reply(j)' = Reply(j)
    BY <1>1 DEF Up, Reply
  <2> QED
    BY <2>1, NoCall
<1>2. ASSUME FirstHeartbeat \/ HeartbeatFail \/ ServeReturn \/ NodeDropped PROVE [C!Next]_(C!vars)
  <2>1. Up' = Up \/ (Up /\ ~Up')
    BY <1>2 DEF Up, FirstHeartbeat, HeartbeatFail, ServeReturn, NodeDropped
  <2>2. UNCHANGED <<caller, ans>>
    BY <1>2 DEF FirstHeartbeat, HeartbeatFail, ServeReturn, NodeDropped
  <2>3. \A j \in Call : Reply(j)' = Reply(j)
    BY <2>2 DEF Reply
  <2> QED
    BY <2>1, <2>3, NoCall
<1>3. ASSUME NEW k \in Call, TaskWork(k) PROVE [C!Next]_(C!vars)
  <2>1. UNCHANGED <<node, caller>>
    BY <1>3 DEF TaskWork, TaskOpen, TaskAck, TaskInitial, TaskRun, TaskDeserted, TaskStep
  <2>2. UNCHANGED ans \/ \E v \in {"ok", "err"} : Tell(k, v)
    BY <1>3 DEF TaskWork, TaskOpen, TaskAck, TaskInitial, TaskRun, TaskDeserted
  <2>3. UNCHANGED ans \/ task[k] \in {"open", "ack", "initial"} \/ (k \in Exec /\ task[k] = "run")
    BY <1>3 DEF TaskWork, TaskOpen, TaskAck, TaskInitial, TaskRun, TaskDeserted
  <2> QED
    BY <1>1, <2>1, <2>2, <2>3, Told
<1>4. ASSUME NEW k \in Call, Issue(k) \/ SendTask(k) \/ CallReturn(k) \/ HolderSend(k) \/ CallerGone(k)
      PROVE [C!Next]_(C!vars)
  <2>1. Up' = Up
    BY <1>4 DEF Up, Issue, SendTask, CallReturn, HolderSend, CallerGone, CallStep
  <2>2. \A j \in Call \ {k} : UNCHANGED <<ans[j], caller[j]>>
    BY <1>4 DEF Issue, SendTask, CallReturn, HolderSend, CallerGone, CallStep
  <2>3. \A j \in Call \ {k} : Reply(j)' = Reply(j)
    BY <2>2 DEF Reply
  <2>4. Advance(k)
    <3>1. CASE Issue(k)
      BY <3>1 DEF Issue, CallStep, Advance, Reply, Oneshots
    <3>2. CASE SendTask(k)
      BY <3>2 DEF SendTask, CallStep, Advance, Reply, Oneshots
    <3>3. CASE CallReturn(k)
      BY <3>3 DEF CallReturn, CallStep, Advance, Reply
    <3>4. CASE HolderSend(k)
      BY <3>4 DEF HolderSend, CallStep, Advance, Reply
    <3>5. CASE CallerGone(k)
      BY <3>5 DEF CallerGone, CallStep, Advance, Reply
    <3> QED
      BY <1>4, <3>1, <3>2, <3>3, <3>4, <3>5
  <2> QED
    BY <2>1, <2>3, <2>4, OneCall
<1>5. ASSUME Accepting \/ Cancel \/ ConnLost \/ Unlist \/ TaskLoopBreak \/ TaskLoopDone
      PROVE UNCHANGED <<node, caller, ans>>
  BY <1>5 DEF Accepting, AcceptStream, PassStream, HandleStream, StreamDone, AcceptBreak,
     AcceptClose, AcceptDone, HandlersBreak, HandlersDone, StreamStep, Cancel, ConnLost, Unlist,
     TaskLoopBreak, TaskLoopDone
<1>6. ASSUME NEW k \in Call, TaskRecv(k) PROVE UNCHANGED <<node, caller, ans>>
  BY <1>6 DEF TaskRecv, TaskStep
<1>7. CASE Terminated \/ UNCHANGED vars
  BY <1>1, <1>7 DEF Terminated, vars
<1> QED
  BY <1>1, <1>2, <1>3, <1>4, <1>5, <1>6, <1>7 DEF Next, Serve, Tasks, Callers

\* The node implements Calls as far as safety goes, for any calls and capacities:
\* an answer comes from the peer of a node that is up, is never changed, and only
\* a pending call is refused or abandoned.
THEOREM CallsKeptHolds == Spec => CallsKept
<1>1. Init => C!Init
  BY DEF Init, C!Init
<1>2. IInv /\ Waits /\ [Next]_vars => [C!Next]_(C!vars)
  BY StepCalls
<1> QED
  BY <1>1, <1>2, WaitsInvariance, PTL DEF Spec, CallsKept, C!Safe

=============================================================================
