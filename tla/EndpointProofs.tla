--------------------------- MODULE EndpointProofs ---------------------------
(***************************************************************************)
(* Proofs about Endpoint, for every set of addresses, of inbound slots and *)
(* of ids, and every capacity.  One inductive invariant, IInv, carries the *)
(* types, the pipeline's bookkeeping and what the registry says; each of   *)
(* the safety properties the runs check follows from it.                   *)
(***************************************************************************)
EXTENDS Endpoint, ChannelLemmas

\* Which loop holds a connection that is between two channels, and which
\* connections only peers can have opened.
Holders ==
    \A c \in Conns :
        /\ stage[c] \in {"incoming", "arrived", "checked"} => c \in Inbound
        /\ stage[c] = "arrived" => listener = "sending"
        /\ stage[c] = "handoff" => connLoop = "sending"

\* What is already over when a loop has moved on.
Progress ==
    /\ listener = "done" => \A c \in Conns : stage[c] \notin {"incoming", "arrived"}
    /\ listener = "done" /\ ~cancelled => \A i \in Inbound : stage[i] = "idle"
    /\ connLoop \in {"wait", "done"} => In(Spawned \cup {"handoff"}) = {}
    /\ connLoop = "done" => nodeLoop = "done" /\ In({"queued"}) = {}
    /\ nodeLoop \in {"drain", "done"} => connLoop \in {"wait", "done"} /\ In({"nodeq"}) = {}
    /\ nodeLoop = "done" => In({"serving"}) = {}
    /\ endpoint = "done" =>
        listener = "done" /\ connLoop = "done" /\ \A r \in Remotes : worker[r] = "exited"

\* The oneshot is only ever fired for a worker that waits for it.
FiredWaits == \A r \in Remotes : fired[r] => worker[r] = "wait" /\ stage[r] = "idle"

\* The oneshot and the registry, each with what it must agree with.
Oneshot == FiredWaits /\ OneOutbound

Registry == NoStaleHandle /\ UncontestedMirror

IInv ==
    /\ Typed
    /\ Holders /\ SingleHolder
    /\ Progress
    /\ Oneshot
    /\ Registry

-----------------------------------------------------------------------------
\* An endpoint that is new has no connection.
LEMMA InitIInv == Init => IInv
<1> SUFFICES ASSUME Init PROVE IInv
  OBVIOUS
<1> USE ConfigAssumption DEF Init, Conns
<1>1. Typed
  BY DEF Typed
<1>2. Holders /\ SingleHolder
  BY DEF Holders, SingleHolder
<1>3. Progress
  BY DEF Progress, In, Spawned
<1>4. Oneshot
  BY DEF Oneshot, FiredWaits, OneOutbound
<1>5. Registry
  BY DEF Registry, NoStaleHandle, UncontestedMirror, Joined
<1> QED
  BY <1>1, <1>2, <1>3, <1>4, <1>5 DEF IInv

\* One step per action.  The facts an action can disturb are proved in five
\* groups; the registry needs all of them, because a break of the connection
\* loop without a cancel must be shown to find no accepted connection.
LEMMA StepIInv == ASSUME IInv, [Next]_vars PROVE IInv'
<1> USE ConfigAssumption DEF IInv, Conns
<1>1. ASSUME Cancel PROVE IInv'
  <2>1. Typed'
    BY <1>1 DEF Cancel, Typed
  <2>2. Holders' /\ SingleHolder'
    BY <1>1 DEF Cancel, Typed, Holders, SingleHolder, Progress
  <2>3. Progress'
    BY <1>1 DEF Cancel, Typed, Holders, Progress, Oneshot, OneOutbound, In, Spawned
  <2>4. Oneshot'
    BY <1>1 DEF Cancel, Typed, Oneshot, FiredWaits, OneOutbound, Holders, Spawned
  <2>5. Registry'
    BY <1>1 DEF Cancel, Typed, Holders, Progress, Oneshot, OneOutbound, Registry,
         NoStaleHandle, UncontestedMirror, Joined, Spawned
  <2> QED
    BY <2>1, <2>2, <2>3, <2>4, <2>5
<1>2. ASSUME NEW r \in Remotes, WorkerDelay(r) PROVE IInv'
  <2>1. Typed'
    BY <1>2 DEF WorkerDelay, SetWorker, Typed
  <2>2. Holders' /\ SingleHolder'
    BY <1>2 DEF WorkerDelay, SetWorker, Typed, Holders, SingleHolder, Progress
  <2>3. Progress'
    BY <1>2 DEF WorkerDelay, SetWorker, Typed, Holders, Progress, Oneshot, OneOutbound, In, Spawned
  <2>4. Oneshot'
    BY <1>2 DEF WorkerDelay, SetWorker, Typed, Oneshot, FiredWaits, OneOutbound, Holders, Spawned
  <2>5. Registry'
    BY <1>2 DEF WorkerDelay, SetWorker, Typed, Holders, Progress, Oneshot, OneOutbound, Registry,
         NoStaleHandle, UncontestedMirror, Joined, Spawned
  <2> QED
    BY <2>1, <2>2, <2>3, <2>4, <2>5
<1>3. ASSUME NEW r \in Remotes, WorkerConnect(r) PROVE IInv'
  <2>1. Typed'
    BY <1>3 DEF WorkerConnect, SetWorker, LoopHead, Typed
  <2>2. Holders' /\ SingleHolder'
    BY <1>3 DEF WorkerConnect, SetWorker, LoopHead, Typed, Holders, SingleHolder, Progress
  <2>3. Progress'
    BY <1>3 DEF WorkerConnect, SetWorker, LoopHead, Typed, Holders, Progress, Oneshot,
       OneOutbound, In, Spawned
  <2>4. Oneshot'
    BY <1>3 DEF WorkerConnect, SetWorker, LoopHead, Typed, Oneshot, FiredWaits, OneOutbound,
       Holders, Spawned
  <2>5. Registry'
    BY <1>3 DEF WorkerConnect, SetWorker, LoopHead, Typed, Holders, Progress, Oneshot,
       OneOutbound, Registry,
         NoStaleHandle, UncontestedMirror, Joined, Spawned
  <2> QED
    BY <2>1, <2>2, <2>3, <2>4, <2>5
<1>4. ASSUME NEW r \in Remotes, WorkerSend(r) PROVE IInv'
  <2>1. Typed'
    BY <1>4 DEF WorkerSend, SetWorker, Typed
  <2>2. Holders' /\ SingleHolder'
    BY <1>4 DEF WorkerSend, SetWorker, Typed, Holders, SingleHolder, Progress
  <2>3. Progress'
    BY <1>4 DEF WorkerSend, SetWorker, Typed, Holders, Progress, Oneshot, OneOutbound, In, Spawned
  <2>4. Oneshot'
    BY <1>4 DEF WorkerSend, SetWorker, Typed, Oneshot, FiredWaits, OneOutbound, Holders, Spawned
  <2>5. Registry'
    BY <1>4 DEF WorkerSend, SetWorker, Typed, Holders, Progress, Oneshot, OneOutbound, Registry,
         NoStaleHandle, UncontestedMirror, Joined, Spawned
  <2> QED
    BY <2>1, <2>2, <2>3, <2>4, <2>5
<1>5. ASSUME NEW r \in Remotes, WorkerResume(r) PROVE IInv'
  <2>1. Typed'
    BY <1>5 DEF WorkerResume, SetWorker, LoopHead, Typed
  <2>2. Holders' /\ SingleHolder'
    BY <1>5 DEF WorkerResume, SetWorker, LoopHead, Typed, Holders, SingleHolder, Progress
  <2>3. Progress'
    BY <1>5 DEF WorkerResume, SetWorker, LoopHead, Typed, Holders, Progress, Oneshot, OneOutbound,
       In, Spawned
  <2>4. Oneshot'
    BY <1>5 DEF WorkerResume, SetWorker, LoopHead, Typed, Oneshot, FiredWaits, OneOutbound,
       Holders, Spawned
  <2>5. Registry'
    BY <1>5 DEF WorkerResume, SetWorker, LoopHead, Typed, Holders, Progress, Oneshot, OneOutbound,
       Registry,
         NoStaleHandle, UncontestedMirror, Joined, Spawned
  <2> QED
    BY <2>1, <2>2, <2>3, <2>4, <2>5
<1>6. ASSUME NEW i \in Inbound, Incoming(i) PROVE IInv'
  <2>1. Typed'
    BY <1>6 DEF Incoming, SetListener, Typed
  <2>2. Holders' /\ SingleHolder'
    BY <1>6 DEF Incoming, SetListener, Typed, Holders, SingleHolder, Progress
  <2>3. Progress'
    BY <1>6 DEF Incoming, SetListener, Typed, Holders, Progress, Oneshot, OneOutbound, In, Spawned
  <2>4. Oneshot'
    BY <1>6 DEF Incoming, SetListener, Typed, Oneshot, FiredWaits, OneOutbound, Holders, Spawned
  <2>5. Registry'
    BY <1>6 DEF Incoming, SetListener, Typed, Holders, Progress, Oneshot, OneOutbound, Registry,
         NoStaleHandle, UncontestedMirror, Joined, Spawned
  <2> QED
    BY <2>1, <2>2, <2>3, <2>4, <2>5
<1>7. ASSUME NEW i \in Inbound, IncomingResolved(i) PROVE IInv'
  <2>1. Typed'
    BY <1>7 DEF IncomingResolved, SetListener, Typed
  <2>2. Holders' /\ SingleHolder'
    BY <1>7 DEF IncomingResolved, SetListener, Typed, Holders, SingleHolder, Progress
  <2>3. Progress'
    BY <1>7 DEF IncomingResolved, SetListener, Typed, Holders, Progress, Oneshot, OneOutbound, In,
       Spawned
  <2>4. Oneshot'
    BY <1>7 DEF IncomingResolved, SetListener, Typed, Oneshot, FiredWaits, OneOutbound, Holders, Spawned
  <2>5. Registry'
    BY <1>7 DEF IncomingResolved, SetListener, Typed, Holders, Progress, Oneshot, OneOutbound, Registry,
         NoStaleHandle, UncontestedMirror, Joined, Spawned
  <2> QED
    BY <2>1, <2>2, <2>3, <2>4, <2>5
<1>8. ASSUME NEW i \in Inbound, ListenSend(i) PROVE IInv'
  <2>1. Typed'
    BY <1>8 DEF ListenSend, SetListener, Typed
  <2>2. Holders' /\ SingleHolder'
    BY <1>8 DEF ListenSend, SetListener, Typed, Holders, SingleHolder, Progress
  <2>3. Progress'
    BY <1>8 DEF ListenSend, SetListener, Typed, Holders, Progress, Oneshot, OneOutbound, In, Spawned
  <2>4. Oneshot'
    BY <1>8 DEF ListenSend, SetListener, Typed, Oneshot, FiredWaits, OneOutbound, Holders, Spawned
  <2>5. Registry'
    BY <1>8 DEF ListenSend, SetListener, Typed, Holders, Progress, Oneshot, OneOutbound, Registry,
         NoStaleHandle, UncontestedMirror, Joined, Spawned
  <2> QED
    BY <2>1, <2>2, <2>3, <2>4, <2>5
<1>9. ASSUME ListenCancel PROVE IInv'
  <2>1. Typed'
    BY <1>9 DEF ListenCancel, SetListener, Typed
  <2>2. Holders' /\ SingleHolder'
    BY <1>9 DEF ListenCancel, SetListener, Typed, Holders, SingleHolder, Progress
  <2>3. Progress'
    BY <1>9 DEF ListenCancel, SetListener, Typed, Holders, Progress, Oneshot, OneOutbound, In, Spawned
  <2>4. Oneshot'
    BY <1>9 DEF ListenCancel, SetListener, Typed, Oneshot, FiredWaits, OneOutbound, Holders, Spawned
  <2>5. Registry'
    BY <1>9 DEF ListenCancel, SetListener, Typed, Holders, Progress, Oneshot, OneOutbound, Registry,
         NoStaleHandle, UncontestedMirror, Joined, Spawned
  <2> QED
    BY <2>1, <2>2, <2>3, <2>4, <2>5
<1>10. ASSUME NEW c \in Conns, RecvConn(c) PROVE IInv'
  <2>1. Typed'
    BY <1>10 DEF RecvConn, Move, Typed
  <2>2. Holders' /\ SingleHolder'
    BY <1>10 DEF RecvConn, Move, Typed, Holders, SingleHolder, Progress
  <2>3. Progress'
    BY <1>10 DEF RecvConn, Move, Typed, Holders, Progress, Oneshot, OneOutbound, In, Spawned
  <2>4. Oneshot'
    BY <1>10 DEF RecvConn, Move, Typed, Oneshot, FiredWaits, OneOutbound, Holders, Spawned
  <2>5. Registry'
    BY <1>10 DEF RecvConn, Move, Typed, Holders, Progress, Oneshot, OneOutbound, Registry,
         NoStaleHandle, UncontestedMirror, Joined, Spawned
  <2> QED
    BY <2>1, <2>2, <2>3, <2>4, <2>5
<1>11. ASSUME NEW c \in Conns, HandshakeFail(c) PROVE IInv'
  <2>1. Typed'
    BY <1>11 DEF HandshakeFail, Move, Typed
  <2>2. Holders' /\ SingleHolder'
    BY <1>11 DEF HandshakeFail, Move, Typed, Holders, SingleHolder, Progress
  <2>3. Progress'
    BY <1>11 DEF HandshakeFail, Move, Typed, Holders, Progress, Oneshot, OneOutbound, In, Spawned
  <2>4. Oneshot'
    BY <1>11 DEF HandshakeFail, Move, Typed, Oneshot, FiredWaits, OneOutbound, Holders, Spawned
  <2>5. Registry'
    BY <1>11 DEF HandshakeFail, Move, Typed, Holders, Progress, Oneshot, OneOutbound, Registry,
         NoStaleHandle, UncontestedMirror, Joined, Spawned
  <2> QED
    BY <2>1, <2>2, <2>3, <2>4, <2>5
<1>12. ASSUME NEW i \in Inbound, HandshakeCheck(i) PROVE IInv'
  <2>1. Typed'
    BY <1>12 DEF HandshakeCheck, Move, Typed
  <2>2. Holders' /\ SingleHolder'
    BY <1>12 DEF HandshakeCheck, Move, Typed, Holders, SingleHolder, Progress
  <2>3. Progress'
    BY <1>12 DEF HandshakeCheck, Move, Typed, Holders, Progress, Oneshot, OneOutbound, In, Spawned
  <2>4. Oneshot'
    BY <1>12 DEF HandshakeCheck, Move, Typed, Oneshot, FiredWaits, OneOutbound, Holders, Spawned
  <2>5. Registry'
    BY <1>12 DEF HandshakeCheck, Move, Typed, Holders, Progress, Oneshot, OneOutbound, Registry,
         NoStaleHandle, UncontestedMirror, Joined, Spawned
  <2> QED
    BY <2>1, <2>2, <2>3, <2>4, <2>5
<1>13. ASSUME NEW c \in Conns, Accept(c) PROVE IInv'
  <2>1. Typed'
    BY <1>13 DEF Accept, Move, insert, Typed
  <2>2. Holders' /\ SingleHolder'
    BY <1>13 DEF Accept, Move, insert, Typed, Holders, SingleHolder, Progress
  <2>3. Progress'
    BY <1>13 DEF Accept, Move, insert, Typed, Holders, Progress, Oneshot, OneOutbound, In, Spawned
  <2>4. Oneshot'
    BY <1>13 DEF Accept, Move, insert, Typed, Oneshot, FiredWaits, OneOutbound, Holders, Spawned
  <2>5. Registry'
    BY <1>13 DEF Accept, Move, insert, Typed, Holders, Progress, Oneshot, OneOutbound, Registry,
         NoStaleHandle, UncontestedMirror, Joined, Spawned
  <2> QED
    BY <2>1, <2>2, <2>3, <2>4, <2>5
<1>14. ASSUME NEW c \in Conns, HarvestReady(c) PROVE IInv'
  <2>1. Typed'
    BY <1>14 DEF HarvestReady, Move, Typed
  <2>2. Holders' /\ SingleHolder'
    BY <1>14 DEF HarvestReady, Move, Typed, Holders, SingleHolder, Progress
  <2>3. Progress'
    BY <1>14 DEF HarvestReady, Move, Typed, Holders, Progress, Oneshot, OneOutbound, In, Spawned
  <2>4. Oneshot'
    BY <1>14 DEF HarvestReady, Move, Typed, Oneshot, FiredWaits, OneOutbound, Holders, Spawned
  <2>5. Registry'
    BY <1>14 DEF HarvestReady, Move, Typed, Holders, Progress, Oneshot, OneOutbound, Registry,
         NoStaleHandle, UncontestedMirror, Joined, Spawned
  <2> QED
    BY <2>1, <2>2, <2>3, <2>4, <2>5
<1>15. ASSUME NEW c \in Conns, SendNode(c) PROVE IInv'
  <2>1. Typed'
    BY <1>15 DEF SendNode, Move, Typed
  <2>2. Holders' /\ SingleHolder'
    BY <1>15 DEF SendNode, Move, Typed, Holders, SingleHolder, Progress
  <2>3. Progress'
    BY <1>15 DEF SendNode, Move, Typed, Holders, Progress, Oneshot, OneOutbound, In, Spawned
  <2>4. Oneshot'
    BY <1>15 DEF SendNode, Move, Typed, Oneshot, FiredWaits, OneOutbound, Holders, Spawned
  <2>5. Registry'
    BY <1>15 DEF SendNode, Move, Typed, Holders, Progress, Oneshot, OneOutbound, Registry,
         NoStaleHandle, UncontestedMirror, Joined, Spawned
  <2> QED
    BY <2>1, <2>2, <2>3, <2>4, <2>5
<1>16. ASSUME ConnLoopBreak PROVE IInv'
  <2>1. Typed'
    BY <1>16 DEF ConnLoopBreak, SendersGone, Typed
  <2>2. Holders' /\ SingleHolder'
    BY <1>16 DEF ConnLoopBreak, SendersGone, Typed, Holders, SingleHolder, Progress
  <2>3. Progress'
    BY <1>16 DEF ConnLoopBreak, SendersGone, Typed, Holders, Progress, Oneshot, OneOutbound, In, Spawned
  <2>4. Oneshot'
    BY <1>16 DEF ConnLoopBreak, SendersGone, Typed, Oneshot, FiredWaits, OneOutbound, Holders, Spawned
  <2>5. Registry'
    BY <1>16 DEF ConnLoopBreak, SendersGone, Typed, Holders, Progress, Oneshot, OneOutbound, Registry,
         NoStaleHandle, UncontestedMirror, Joined, Spawned
  <2> QED
    BY <2>1, <2>2, <2>3, <2>4, <2>5
<1>17. ASSUME ConnLoopDone PROVE IInv'
  <2>1. Typed'
    BY <1>17 DEF ConnLoopDone, Typed
  <2>2. Holders' /\ SingleHolder'
    BY <1>17 DEF ConnLoopDone, Typed, Holders, SingleHolder, Progress
  <2>3. Progress'
    BY <1>17 DEF ConnLoopDone, Typed, Holders, Progress, Oneshot, OneOutbound, In, Spawned
  <2>4. Oneshot'
    BY <1>17 DEF ConnLoopDone, Typed, Oneshot, FiredWaits, OneOutbound, Holders, Spawned
  <2>5. Registry'
    BY <1>17 DEF ConnLoopDone, Typed, Holders, Progress, Oneshot, OneOutbound, Registry,
         NoStaleHandle, UncontestedMirror, Joined, Spawned
  <2> QED
    BY <2>1, <2>2, <2>3, <2>4, <2>5
<1>18. ASSUME NEW c \in Conns, RecvNode(c) PROVE IInv'
  <2>1. Typed'
    BY <1>18 DEF RecvNode, Move, Typed
  <2>2. Holders' /\ SingleHolder'
    BY <1>18 DEF RecvNode, Move, Typed, Holders, SingleHolder, Progress
  <2>3. Progress'
    BY <1>18 DEF RecvNode, Move, Typed, Holders, Progress, Oneshot, OneOutbound, In, Spawned
  <2>4. Oneshot'
    BY <1>18 DEF RecvNode, Move, Typed, Oneshot, FiredWaits, OneOutbound, Holders, Spawned
  <2>5. Registry'
    BY <1>18 DEF RecvNode, Move, Typed, Holders, Progress, Oneshot, OneOutbound, Registry,
         NoStaleHandle, UncontestedMirror, Joined, Spawned
  <2> QED
    BY <2>1, <2>2, <2>3, <2>4, <2>5
<1>19. ASSUME NEW c \in Conns, NodeExit(c) PROVE IInv'
  <2>1. Typed'
    BY <1>19 DEF NodeExit, Move, remove, Typed
  <2>2. Holders' /\ SingleHolder'
    BY <1>19 DEF NodeExit, Move, remove, Typed, Holders, SingleHolder, Progress
  <2>3. Progress'
    BY <1>19 DEF NodeExit, Move, remove, Typed, Holders, Progress, Oneshot, OneOutbound, In, Spawned
  <2>4. Oneshot'
    BY <1>19 DEF NodeExit, Move, remove, Typed, Oneshot, FiredWaits, OneOutbound, Holders, Spawned
  <2>5. Registry'
    BY <1>19 DEF NodeExit, Move, remove, Typed, Holders, Progress, Oneshot, OneOutbound, Registry,
         NoStaleHandle, UncontestedMirror, Joined, Spawned
  <2> QED
    BY <2>1, <2>2, <2>3, <2>4, <2>5
<1>20. ASSUME NodeLoopDrain PROVE IInv'
  <2>1. Typed'
    BY <1>20 DEF NodeLoopDrain, Typed
  <2>2. Holders' /\ SingleHolder'
    BY <1>20 DEF NodeLoopDrain, Typed, Holders, SingleHolder, Progress
  <2>3. Progress'
    BY <1>20 DEF NodeLoopDrain, Typed, Holders, Progress, Oneshot, OneOutbound, In, Spawned
  <2>4. Oneshot'
    BY <1>20 DEF NodeLoopDrain, Typed, Oneshot, FiredWaits, OneOutbound, Holders, Spawned
  <2>5. Registry'
    BY <1>20 DEF NodeLoopDrain, Typed, Holders, Progress, Oneshot, OneOutbound, Registry,
         NoStaleHandle, UncontestedMirror, Joined, Spawned
  <2> QED
    BY <2>1, <2>2, <2>3, <2>4, <2>5
<1>21. ASSUME NodeLoopDone PROVE IInv'
  <2>1. Typed'
    BY <1>21 DEF NodeLoopDone, Typed
  <2>2. Holders' /\ SingleHolder'
    BY <1>21 DEF NodeLoopDone, Typed, Holders, SingleHolder, Progress
  <2>3. Progress'
    BY <1>21 DEF NodeLoopDone, Typed, Holders, Progress, Oneshot, OneOutbound, In, Spawned
  <2>4. Oneshot'
    BY <1>21 DEF NodeLoopDone, Typed, Oneshot, FiredWaits, OneOutbound, Holders, Spawned
  <2>5. Registry'
    BY <1>21 DEF NodeLoopDone, Typed, Holders, Progress, Oneshot, OneOutbound, Registry,
         NoStaleHandle, UncontestedMirror, Joined, Spawned
  <2> QED
    BY <2>1, <2>2, <2>3, <2>4, <2>5
<1>22. ASSUME ServeDone PROVE IInv'
  <2>1. Typed'
    BY <1>22 DEF ServeDone, Typed
  <2>2. Holders' /\ SingleHolder'
    BY <1>22 DEF ServeDone, Typed, Holders, SingleHolder, Progress
  <2>3. Progress'
    BY <1>22 DEF ServeDone, Typed, Holders, Progress, Oneshot, OneOutbound, In, Spawned
  <2>4. Oneshot'
    BY <1>22 DEF ServeDone, Typed, Oneshot, FiredWaits, OneOutbound, Holders, Spawned
  <2>5. Registry'
    BY <1>22 DEF ServeDone, Typed, Holders, Progress, Oneshot, OneOutbound, Registry,
         NoStaleHandle, UncontestedMirror, Joined, Spawned
  <2> QED
    BY <2>1, <2>2, <2>3, <2>4, <2>5
<1>23. ASSUME UNCHANGED vars PROVE IInv'
  BY <1>23 DEF vars, Typed, Holders, SingleHolder, Progress, Oneshot, FiredWaits, OneOutbound,
     Registry, NoStaleHandle, UncontestedMirror, In
<1> QED
  BY <1>1, <1>2, <1>3, <1>4, <1>5, <1>6, <1>7, <1>8, <1>9, <1>10, <1>11, <1>12, <1>13, <1>14,
     <1>15, <1>16, <1>17, <1>18, <1>19, <1>20, <1>21, <1>22, <1>23
  DEF Next, Worker, Listener, Connection, ServeNodes, Terminated

\* The invariant holds in every reachable state.
THEOREM Invariance == Spec => []IInv
<1>1. Init => IInv
  BY InitIInv
<1>2. IInv /\ [Next]_vars => IInv'
  BY StepIInv
<1> QED
  BY <1>1, <1>2, PTL DEF Spec

-----------------------------------------------------------------------------
(* The bounds of the channels, by counting. *)

\* What a stage holds is a finite set of connections, so it can be counted.
LEMMA InFinite == ASSUME NEW s PROVE IsFiniteSet(In(s)) /\ Cardinality(In(s)) \in Nat
<1>1. In(s) \subseteq Conns
  BY DEF In
<1> QED
  BY <1>1, ConfigAssumption, FS_Subset, FS_CardinalityType

\* What a step may do to the channel that holds stage s with capacity cap.
Loses(s) == In(s)' \subseteq In(s)

Gains(s, cap) == Cardinality(In(s)) < cap /\ \E c \in Conns : In(s)' \subseteq In(s) \cup {c}

ChannelMoves ==
    /\ Loses({"queued"}) \/ Gains({"queued"}, ConnCap)
    /\ Loses({"nodeq"}) \/ Gains({"nodeq"}, NodeCap)

\* Only the senders, each behind its guard, add to a channel.
LEMMA ChannelStep == ASSUME Typed, [Next]_vars PROVE ChannelMoves
<1> USE ConfigAssumption DEF ChannelMoves, Loses, Conns, Typed, In
<1>1. ASSUME Cancel PROVE ChannelMoves
  BY <1>1 DEF Cancel
<1>2. ASSUME NEW r \in Remotes, WorkerDelay(r) PROVE ChannelMoves
  BY <1>2 DEF WorkerDelay, SetWorker
<1>3. ASSUME NEW r \in Remotes, WorkerConnect(r) PROVE ChannelMoves
  BY <1>3 DEF WorkerConnect, SetWorker, LoopHead
<1>4. ASSUME NEW r \in Remotes, WorkerSend(r) PROVE ChannelMoves
  BY <1>4 DEF WorkerSend, SetWorker, Gains
<1>5. ASSUME NEW r \in Remotes, WorkerResume(r) PROVE ChannelMoves
  BY <1>5 DEF WorkerResume, SetWorker, LoopHead
<1>6. ASSUME NEW i \in Inbound, Incoming(i) PROVE ChannelMoves
  BY <1>6 DEF Incoming, SetListener
<1>7. ASSUME NEW i \in Inbound, IncomingResolved(i) PROVE ChannelMoves
  BY <1>7 DEF IncomingResolved, SetListener
<1>8. ASSUME NEW i \in Inbound, ListenSend(i) PROVE ChannelMoves
  BY <1>8 DEF ListenSend, SetListener, Gains
<1>9. ASSUME ListenCancel PROVE ChannelMoves
  BY <1>9 DEF ListenCancel, SetListener
<1>10. ASSUME NEW c \in Conns, RecvConn(c) PROVE ChannelMoves
  BY <1>10 DEF RecvConn, Move
<1>11. ASSUME NEW c \in Conns, HandshakeFail(c) PROVE ChannelMoves
  BY <1>11 DEF HandshakeFail, Move
<1>12. ASSUME NEW i \in Inbound, HandshakeCheck(i) PROVE ChannelMoves
  BY <1>12 DEF HandshakeCheck, Move
<1>13. ASSUME NEW c \in Conns, Accept(c) PROVE ChannelMoves
  BY <1>13 DEF Accept, Move, insert
<1>14. ASSUME NEW c \in Conns, HarvestReady(c) PROVE ChannelMoves
  BY <1>14 DEF HarvestReady, Move
<1>15. ASSUME NEW c \in Conns, SendNode(c) PROVE ChannelMoves
  BY <1>15 DEF SendNode, Move, Gains
<1>16. ASSUME ConnLoopBreak PROVE ChannelMoves
  BY <1>16 DEF ConnLoopBreak, SendersGone, Spawned
<1>17. ASSUME ConnLoopDone PROVE ChannelMoves
  BY <1>17 DEF ConnLoopDone
<1>18. ASSUME NEW c \in Conns, RecvNode(c) PROVE ChannelMoves
  BY <1>18 DEF RecvNode, Move
<1>19. ASSUME NEW c \in Conns, NodeExit(c) PROVE ChannelMoves
  BY <1>19 DEF NodeExit, Move, remove
<1>20. ASSUME NodeLoopDrain PROVE ChannelMoves
  BY <1>20 DEF NodeLoopDrain
<1>21. ASSUME NodeLoopDone PROVE ChannelMoves
  BY <1>21 DEF NodeLoopDone
<1>22. ASSUME ServeDone PROVE ChannelMoves
  BY <1>22 DEF ServeDone
<1>23. ASSUME UNCHANGED vars PROVE ChannelMoves
  BY <1>23 DEF vars
<1> QED
  BY <1>1, <1>2, <1>3, <1>4, <1>5, <1>6, <1>7, <1>8, <1>9, <1>10, <1>11, <1>12, <1>13, <1>14,
     <1>15, <1>16, <1>17, <1>18, <1>19, <1>20, <1>21, <1>22, <1>23
  DEF Next, Worker, Listener, Connection, ServeNodes, Terminated

\* Every value keeps its type, a select! body that sends holds one connection,
\* and neither channel exceeds its capacity.
THEOREM TypeCorrect == Spec => []TypeOK
<1>1. Init => ChannelBounds
  <2> SUFFICES ASSUME Init PROVE ChannelBounds
    OBVIOUS
  <2>1. In({"queued"}) = {} /\ In({"nodeq"}) = {}
    BY DEF Init, In
  <2> QED
    BY <2>1, FS_EmptySet, ConfigAssumption DEF ChannelBounds
<1>2. IInv /\ ChannelBounds /\ [Next]_vars => ChannelBounds'
  <2> SUFFICES ASSUME IInv, ChannelBounds, [Next]_vars PROVE ChannelBounds'
    OBVIOUS
  <2> DEFINE Q == In({"queued"})
             N == In({"nodeq"})
  <2>1. ChannelMoves
    BY ChannelStep DEF IInv
  <2>2. IsFiniteSet(Q) /\ IsFiniteSet(N)
    BY InFinite
  <2>3. Cardinality(Q)' <= ConnCap
    <3>1. CASE Loses({"queued"})
      BY <2>2, <3>1, Shrinks, ConfigAssumption DEF Loses, ChannelBounds
    <3>2. CASE Gains({"queued"}, ConnCap)
      BY <2>2, <3>2, GrowsByOne, ConfigAssumption DEF Gains
    <3> QED
      BY <2>1, <3>1, <3>2 DEF ChannelMoves
  <2>4. Cardinality(N)' <= NodeCap
    <3>1. CASE Loses({"nodeq"})
      BY <2>2, <3>1, Shrinks, ConfigAssumption DEF Loses, ChannelBounds
    <3>2. CASE Gains({"nodeq"}, NodeCap)
      BY <2>2, <3>2, GrowsByOne, ConfigAssumption DEF Gains
    <3> QED
      BY <2>1, <3>1, <3>2 DEF ChannelMoves
  <2> QED
    BY <2>3, <2>4 DEF ChannelBounds
<1>3. IInv /\ ChannelBounds => TypeOK
  BY DEF IInv, TypeOK
<1> QED
  BY Invariance, <1>1, <1>2, <1>3, PTL DEF Spec

-----------------------------------------------------------------------------
(* What the invariant says. *)

\* Until shutdown no id maps to the Handle of a connection that has exited, or
\* that was never accepted, or that has another id.
THEOREM NoStaleHandleHolds == Spec => []NoStaleHandle
<1>1. IInv => NoStaleHandle
  BY DEF IInv, Registry
<1> QED
  BY <1>1, Invariance, PTL

\* A connection alone with its id stays registered until on_node_exited.
THEOREM UncontestedMirrorHolds == Spec => []UncontestedMirror
<1>1. IInv => UncontestedMirror
  BY DEF IInv, Registry
<1> QED
  BY <1>1, Invariance, PTL

\* An address is never dialled while its previous connection is in the pipeline.
THEOREM OneOutboundHolds == Spec => []OneOutbound
<1>1. IInv => OneOutbound
  BY DEF IInv, Oneshot
<1> QED
  BY <1>1, Invariance, PTL

\* When serve returns nothing it started is left: each stage is excluded by the
\* loop that must have ended before.
THEOREM QuiescentAtExitHolds == Spec => []QuiescentAtExit
<1>1. IInv => QuiescentAtExit
  <2> SUFFICES ASSUME IInv, endpoint = "done" PROVE QuiescentAtExit
    BY DEF QuiescentAtExit
  <2>1. /\ listener = "done" /\ connLoop = "done" /\ nodeLoop = "done"
        /\ \A r \in Remotes : worker[r] = "exited"
    BY DEF IInv, Progress
  <2>2. \A c \in Conns : stage[c] \notin {"incoming", "arrived"}
    BY <2>1 DEF IInv, Progress
  <2>3. \A c \in Conns : stage[c] \notin {"handshake", "checked", "accepted", "handoff"}
    BY <2>1 DEF IInv, Progress, In, Spawned
  <2>4. \A c \in Conns : stage[c] \notin {"queued", "nodeq", "serving"}
    BY <2>1 DEF IInv, Progress, In
  <2> QED
    BY <2>1, <2>2, <2>3, <2>4 DEF IInv, Typed, QuiescentAtExit
<1> QED
  BY <1>1, Invariance, PTL


\* An accepted node is only ever dropped by its exit or by shutdown: a connection
\* loop that ends for want of senders has no accepted connection left.
THEOREM AcceptedNotLostHolds == Spec => AcceptedNotLost
<1> DEFINE Kept == \A c \in Conns :
        stage[c] \in Joined /\ stage'[c] \notin Joined => stage[c] = "serving" \/ cancelled
<1>1. IInv /\ Next => Kept
  <2> SUFFICES ASSUME IInv, Next PROVE Kept
    OBVIOUS
  <2> USE ConfigAssumption DEF IInv, Typed, Conns, Joined
  <2>1. ASSUME NEW r \in Remotes, Worker(r) PROVE Kept
    BY <2>1 DEF Worker, WorkerDelay, WorkerConnect, WorkerSend, WorkerResume, SetWorker,
       Oneshot, OneOutbound
  <2>2. CASE Listener
    BY <2>2 DEF Listener, Incoming, IncomingResolved, ListenSend, ListenCancel
  <2>3. ASSUME NEW c \in Conns,
               RecvConn(c) \/ HandshakeFail(c) \/ Accept(c) \/ HarvestReady(c) \/ SendNode(c)
        PROVE  Kept
    BY <2>3 DEF RecvConn, HandshakeFail, Accept, HarvestReady, SendNode, Move
  <2>4. ASSUME NEW i \in Inbound, HandshakeCheck(i) PROVE Kept
    BY <2>4 DEF HandshakeCheck, Move
  <2>5. CASE ConnLoopBreak
    <3>1. CASE ~cancelled
      <4>1. \A r \in Remotes : stage[r] = "idle"
        BY <2>5, <3>1 DEF ConnLoopBreak, SendersGone, Oneshot, OneOutbound
      <4>2. \A i \in Inbound : stage[i] = "idle"
        BY <2>5, <3>1 DEF ConnLoopBreak, SendersGone, Progress
      <4> QED
        BY <4>1, <4>2
    <3> QED
      BY <3>1
  <2>6. CASE ConnLoopDone
    BY <2>6 DEF ConnLoopDone
  <2>7. ASSUME NEW c \in Conns, RecvNode(c) \/ NodeExit(c) PROVE Kept
    BY <2>7 DEF RecvNode, NodeExit, Move
  <2>8. CASE Cancel \/ NodeLoopDrain \/ NodeLoopDone \/ ServeDone \/ Terminated
    BY <2>8 DEF Cancel, NodeLoopDrain, NodeLoopDone, ServeDone, Terminated, vars
  <2> QED
    BY <2>1, <2>2, <2>3, <2>4, <2>5, <2>6, <2>7, <2>8 DEF Next, Connection, ServeNodes
<1> QED
  BY <1>1, Invariance, PTL DEF Spec, AcceptedNotLost

-----------------------------------------------------------------------------
(* Who waits for whom. *)

\* A select! body that sends holds what it sends; the connection loop leaves
\* its loop only for a reason that lasts.
Waits ==
    /\ listener = "sending" => In({"arrived"}) # {}
    /\ connLoop = "sending" => In({"handoff"}) # {}
    /\ connLoop \in {"wait", "done"} => cancelled \/ SendersGone

\* An endpoint that is new waits for nothing.
LEMMA InitWaits == Init => Waits
  BY DEF Init, Waits

\* Each action keeps the reason of each wait.
LEMMA StepWaits == ASSUME IInv, Waits, [Next]_vars PROVE Waits'
<1> USE ConfigAssumption DEF IInv, Waits, Conns, Typed, Holders, SingleHolder, In, SendersGone
<1>1. CASE Cancel
  BY <1>1 DEF Cancel
<1>2. ASSUME NEW r \in Remotes, WorkerDelay(r) PROVE Waits'
  BY <1>2 DEF WorkerDelay, SetWorker
<1>3. ASSUME NEW r \in Remotes, WorkerConnect(r) PROVE Waits'
  BY <1>3 DEF WorkerConnect, SetWorker, LoopHead
<1>4. ASSUME NEW r \in Remotes, WorkerSend(r) PROVE Waits'
  <2>1. UNCHANGED <<cancelled, listener, connLoop>> /\ stage[r] \notin {"arrived", "handoff"}
    BY <1>4 DEF WorkerSend, SetWorker, Oneshot, OneOutbound
  <2>2. stage' = stage \/ stage' = [stage EXCEPT ![r] = "queued"]
    BY <1>4 DEF WorkerSend
  <2>3. In({"arrived"})' = In({"arrived"}) /\ In({"handoff"})' = In({"handoff"})
    BY <2>1, <2>2
  <2>4. connLoop \in {"wait", "done"} /\ ~cancelled => SendersGone'
    BY <1>4 DEF WorkerSend, SetWorker
  <2> QED
    BY <2>1, <2>3, <2>4
<1>5. ASSUME NEW r \in Remotes, WorkerResume(r) PROVE Waits'
  BY <1>5 DEF WorkerResume, SetWorker, LoopHead
<1>6. ASSUME NEW i \in Inbound, Incoming(i) PROVE Waits'
  BY <1>6 DEF Incoming, SetListener
<1>7. ASSUME NEW i \in Inbound, IncomingResolved(i) PROVE Waits'
  BY <1>7 DEF IncomingResolved, SetListener
<1>8. ASSUME NEW i \in Inbound, ListenSend(i) PROVE Waits'
  BY <1>8 DEF ListenSend, SetListener
<1>9. CASE ListenCancel
  BY <1>9 DEF ListenCancel, SetListener
<1>10. ASSUME NEW c \in Conns, RecvConn(c) PROVE Waits'
  BY <1>10 DEF RecvConn, Move
<1>11. ASSUME NEW c \in Conns, HandshakeFail(c) PROVE Waits'
  BY <1>11 DEF HandshakeFail, Move
<1>12. ASSUME NEW i \in Inbound, HandshakeCheck(i) PROVE Waits'
  BY <1>12 DEF HandshakeCheck, Move
<1>13. ASSUME NEW c \in Conns, Accept(c) PROVE Waits'
  BY <1>13 DEF Accept, Move, insert
<1>14. ASSUME NEW c \in Conns, HarvestReady(c) PROVE Waits'
  BY <1>14 DEF HarvestReady, Move
<1>15. ASSUME NEW c \in Conns, SendNode(c) PROVE Waits'
  BY <1>15 DEF SendNode, Move
<1>16. CASE ConnLoopBreak
  BY <1>16 DEF ConnLoopBreak, Spawned
<1>17. CASE ConnLoopDone
  BY <1>17 DEF ConnLoopDone
<1>18. ASSUME NEW c \in Conns, RecvNode(c) PROVE Waits'
  BY <1>18 DEF RecvNode, Move
<1>19. ASSUME NEW c \in Conns, NodeExit(c) PROVE Waits'
  BY <1>19 DEF NodeExit, Move, remove
<1>20. CASE NodeLoopDrain
  BY <1>20 DEF NodeLoopDrain
<1>21. CASE NodeLoopDone
  BY <1>21 DEF NodeLoopDone
<1>22. CASE ServeDone
  BY <1>22 DEF ServeDone
<1>23. CASE UNCHANGED vars
  BY <1>23 DEF vars
<1> QED
  BY <1>1, <1>2, <1>3, <1>4, <1>5, <1>6, <1>7, <1>8, <1>9, <1>10, <1>11, <1>12, <1>13, <1>14,
     <1>15, <1>16, <1>17, <1>18, <1>19, <1>20, <1>21, <1>22, <1>23
  DEF Next, Worker, Listener, Connection, ServeNodes, Terminated

\* Both invariants of the endpoint together.
THEOREM WaitsInvariance == Spec => [](IInv /\ Waits)
<1>1. Init => IInv /\ Waits
  BY InitIInv, InitWaits
<1>2. IInv /\ Waits /\ [Next]_vars => (IInv /\ Waits)'
  BY StepIInv, StepWaits
<1> QED
  BY <1>1, <1>2, PTL DEF Spec

\* A channel that has no room has something in it.
LEMMA FullHolds ==
    ASSUME NEW s, NEW cap \in Nat \ {0}, ~(Cardinality(In(s)) < cap)
    PROVE In(s) # {}
<1>1. Cardinality({}) = 0
  BY FS_EmptySet
<1> QED
  BY <1>1

\* No circle of waits closes in the endpoint, for any addresses, slots and
\* capacities.  Nodes wait for nobody, so the node loop can go on; hence the
\* connection loop, hence who sends to it.
THEOREM NeverStuckHolds == Spec => []NeverStuck
<1> SUFFICES ASSUME IInv, Waits PROVE NeverStuck
  BY WaitsInvariance, PTL
<1> USE ConfigAssumption DEF IInv, Typed
<1> DEFINE loops == ConnLoopMoves \/ NodeLoopMoves
<1>1. connLoop = "sending" => loops
  <2> SUFFICES ASSUME connLoop = "sending" PROVE loops
    OBVIOUS
  <2>1. nodeLoop = "run" /\ In({"handoff"}) # {}
    BY DEF Progress, Waits
  <2>2. CASE Cardinality(In({"nodeq"})) < NodeCap
    BY <2>1, <2>2 DEF ConnLoopMoves
  <2>3. CASE ~(Cardinality(In({"nodeq"})) < NodeCap)
    BY <2>1, <2>3, FullHolds DEF NodeLoopMoves
  <2> QED
    BY <2>2, <2>3
<1>2. connLoop = "wait" => loops
  <2> SUFFICES ASSUME connLoop = "wait", ~loops PROVE FALSE
    OBVIOUS
  <2>1. nodeLoop = "drain" /\ In({"serving"}) # {} /\ ~cancelled
    BY DEF ConnLoopMoves, NodeLoopMoves
  <2>2. SendersGone
    BY <2>1 DEF Waits
  <2>3. \A c \in Conns : stage[c] = "idle"
    BY <2>1, <2>2 DEF SendersGone, Conns, Progress, Oneshot, OneOutbound
  <2> QED
    BY <2>1, <2>3 DEF In
<1>3. ASSUME connLoop # "done", In({"queued", "accepted"}) # {} PROVE loops
  BY <1>1, <1>2, <1>3 DEF ConnLoopMoves
<1>4. ASSUME connLoop # "done", ~(Cardinality(In({"queued"})) < ConnCap) PROVE loops
  <2>1. In({"queued"}) # {}
    BY <1>4, FullHolds
  <2> QED
    BY <1>3, <1>4, <2>1 DEF In
<1>5. listener = "sending" => ListenerMoves \/ loops
  BY <1>4 DEF Waits, ListenerMoves
<1>6. ASSUME NEW r \in Remotes, worker[r] # "exited"
      PROVE  WorkerMoves(r) \/ loops \/ stage[r] = "serving"
  <2>1. CASE worker[r] = "send"
    BY <1>4, <2>1 DEF WorkerMoves
  <2>2. CASE worker[r] = "wait"
    <3>1. CASE stage[r] \in {"handshake", "checked"}
      BY <3>1 DEF ConnLoopMoves, In, Conns
    <3>2. CASE stage[r] = "queued"
      <4>1. In({"queued", "accepted"}) # {} /\ connLoop # "done"
        BY <3>2 DEF In, Conns, Progress
      <4> QED
        BY <1>3, <4>1
    <3>3. CASE stage[r] = "accepted"
      <4>1. In({"queued", "accepted"}) # {} /\ connLoop # "done"
        BY <3>3 DEF In, Conns, Progress, Spawned
      <4> QED
        BY <1>3, <4>1
    <3>4. CASE stage[r] = "handoff"
      BY <1>1, <3>4 DEF Conns, Holders
    <3>5. CASE stage[r] = "nodeq"
      BY <3>5 DEF In, Conns, Progress, NodeLoopMoves
    <3>6. CASE stage[r] = "idle"
      BY <2>2, <3>6 DEF WorkerMoves
    <3>7. stage[r] \notin {"incoming", "arrived"}
      BY DEF Conns, Holders
    <3> QED
      BY <3>1, <3>2, <3>3, <3>4, <3>5, <3>6, <3>7 DEF Conns
  <2> QED
    BY <1>6, <2>1, <2>2 DEF WorkerMoves
<1>7. ASSUME cancelled \/ SendersGone, endpoint # "done", ~ServeReturns, ~loops, ~ListenerMoves
      PROVE  \E r \in Remotes : WorkerMoves(r)
  <2>1. connLoop = "done"
    BY <1>1, <1>2, <1>7 DEF ConnLoopMoves
  <2>2. listener = "done"
    BY <1>5, <1>7 DEF ListenerMoves, SendersGone
  <2>3. PICK r \in Remotes : worker[r] # "exited"
    BY <1>7, <2>1, <2>2 DEF ServeReturns
  <2>4. stage[r] # "serving"
    BY <2>1 DEF Progress, In, Conns
  <2> QED
    BY <1>6, <1>7, <2>3, <2>4
<1> QED
  BY <1>1, <1>5, <1>6, <1>7 DEF NeverStuck

=============================================================================
