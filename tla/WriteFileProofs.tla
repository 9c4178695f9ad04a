-------------------------- MODULE WriteFileProofs ---------------------------
(***************************************************************************)
(* Proofs about WriteFile, for any writes, of bodies of any length.  In    *)
(* every mode the values have their types and a file at the target stays   *)
(* one; writes that do not overlap implement AtomicFile.                   *)
(***************************************************************************)
EXTENDS WriteFile, TLAPS

\* A write starts with its first call, and only it creates its inode.
Fresh ==
    \A w \in Writer :
        /\ ctl[w] = "idle" => handler[w] = "idle"
        /\ handler[w] \in {"idle", "create"} => temp # w /\ target # w

IInv == TypeOK /\ Fresh

-----------------------------------------------------------------------------
\* One position of one inode is written.
LEMMA Overwritten ==
  ASSUME NEW D \in [Inode -> [1..N -> Inode \cup {NoFile}]], NEW i, NEW p, NEW w \in Inode
  PROVE  [D EXCEPT ![i][p] = w] \in [Inode -> [1..N -> Inode \cup {NoFile}]]
  OBVIOUS

\* At first only Old is on the disk.
LEMMA InitIInv == Init => IInv
  BY WriteFileAssumption DEF Init, IInv, TypeOK, Fresh, Filled, Empty, Inode

\* A handler that gets on, and may take the temporary file away, keeps Fresh.
LEMMA HandlerMoves ==
  ASSUME TypeOK, Fresh, NEW w \in Writer, handler[w] # "idle",
         NEW h \in {"confirm", "copy", "check", "rename", "remove", "done"}, HandlerStep(w, h),
         temp' \in {temp, NoFile}, target' \in {target, temp}
  PROVE  Fresh'
<1>1. ASSUME NEW v \in Writer, handler'[v] \in {"idle", "create"}
      PROVE  v # w /\ handler[v] \in {"idle", "create"}
  BY <1>1 DEF TypeOK, HandlerStep
<1>2. ASSUME NEW v \in Writer, ctl'[v] = "idle" PROVE handler'[v] = "idle"
  BY <1>2 DEF TypeOK, Fresh, HandlerStep, ctlVars
<1> QED
  BY <1>1, <1>2, WriteFileAssumption DEF Fresh, Inode

\* One step per action: only Create and Rename need more than the types.
LEMMA StepIInv == ASSUME IInv, [Next]_vars PROVE IInv'
<1> USE WriteFileAssumption DEF IInv, TypeOK, Fresh, Inode, diskVars, handlerVars, ctlVars
<1> USE DEF CtlStep, HandlerStep
<1>1. ASSUME NEW w \in Writer, Start(w) PROVE IInv'
  <2>1. ctl' \in [Writer -> {"idle", "sent", "upload", "finished", "ok", "err"}]
    BY <1>1 DEF Start
  <2>2. handler' \in [Writer -> {"idle", "create", "confirm", "copy", "check", "rename", "remove", "done"}]
    BY <1>1 DEF Start
  <2>3. UNCHANGED <<mode, diskVars, fd, offset, verdict, sent, fin, broken>>
    BY <1>1 DEF Start
  <2>4. Fresh'
    BY <1>1, <2>3 DEF Start
  <2> QED
    BY <2>1, <2>2, <2>3, <2>4
<1>2. ASSUME NEW w \in Writer, Ready(w) PROVE IInv'
  BY <1>2 DEF Ready
<1>3. ASSUME NEW w \in Writer, SendChunk(w) PROVE IInv'
  BY <1>3 DEF SendChunk
<1>4. ASSUME NEW w \in Writer, Finish(w) PROVE IInv'
  BY <1>4 DEF Finish
<1>5. ASSUME NEW w \in Writer, BreakOff(w) PROVE IInv'
  BY <1>5 DEF BreakOff
<1>6. ASSUME NEW w \in Writer, Result(w) PROVE IInv'
  BY <1>6 DEF Result
<1>7. ASSUME NEW w \in Writer, Lost(w) PROVE IInv'
  BY <1>7 DEF Lost
<1>8. ASSUME NEW w \in Writer, Create(w) PROVE IInv'
  <2>1. ASSUME verdict' = [verdict EXCEPT ![w] = "err"], HandlerStep(w, "done"),
               UNCHANGED <<diskVars, fd, offset>>
        PROVE  IInv'
    <3>1. verdict' \in [Writer -> {"none", "ok", "err"}] /\ fd' \in [Writer -> Inode \cup {NoFile}]
      BY <2>1
    <3>2. handler' \in [Writer -> {"idle", "create", "confirm", "copy", "check", "rename", "remove", "done"}]
      BY <2>1
    <3>3. Fresh'
      BY <1>8, <2>1, HandlerMoves DEF Create
    <3>4. UNCHANGED <<mode, offset, ctl, sent, fin, broken>>
      BY <2>1
    <3> QED
      BY <2>1, <3>1, <3>2, <3>3, <3>4
  <2>2. ASSUME NEW i \in Inode, i = IF temp = NoFile THEN w ELSE temp,
               temp' = i, fd' = [fd EXCEPT ![w] = i], data' = [data EXCEPT ![i] = Empty],
               HandlerStep(w, "confirm"), UNCHANGED <<target, offset, verdict>>
        PROVE  IInv'
    <3>1. data' \in [Inode -> [1..N -> Inode \cup {NoFile}]]
      BY <2>2 DEF Empty
    <3>2. i # target
      BY <1>8, <2>2 DEF Create
    <3>3. fd' \in [Writer -> Inode \cup {NoFile}]
      BY <2>2
    <3>4. handler' \in [Writer -> {"idle", "create", "confirm", "copy", "check", "rename", "remove", "done"}]
      BY <2>2
    <3>5. Fresh'
      <4>1. ASSUME NEW v \in Writer, handler'[v] \in {"idle", "create"}
            PROVE  temp' # v /\ target' # v
        <5>1. v # w /\ handler[v] \in {"idle", "create"}
          BY <2>2, <4>1
        <5> QED
          BY <2>2, <5>1
      <4>2. ASSUME NEW v \in Writer, ctl'[v] = "idle" PROVE handler'[v] = "idle"
        BY <1>8, <2>2, <4>2 DEF Create
      <4> QED
        BY <4>1, <4>2
    <3> QED
      BY <2>2, <3>1, <3>2, <3>3, <3>4, <3>5
  <2> QED
    BY <1>8, <2>1, <2>2 DEF Create
<1>9. ASSUME NEW w \in Writer, Confirm(w) PROVE IInv'
  <2>1. Fresh'
    BY <1>9, HandlerMoves DEF Confirm
  <2>2. TypeOK'
    BY <1>9 DEF Confirm
  <2> QED
    BY <2>1, <2>2
<1>10. ASSUME NEW w \in Writer, CopyChunk(w) PROVE IInv'
  <2>1. /\ offset[w] + 1 \in 0..N
        /\ fd[w] \in Inode \cup {NoFile}
    BY <1>10 DEF CopyChunk
  <2>2. offset' \in [Writer -> 0..N]
    BY <1>10, <2>1 DEF CopyChunk
  <2>3. data' \in [Inode -> [1..N -> Inode \cup {NoFile}]]
    BY <1>10, <2>1, Zenon, Overwritten DEF CopyChunk
  <2>4. handler' = [handler EXCEPT ![w] = "copy"] /\ UNCHANGED <<target, temp>>
    BY <1>10 DEF CopyChunk
  <2>5. UNCHANGED <<mode, fd, verdict, ctl, sent, fin, broken>>
    BY <1>10 DEF CopyChunk
  <2>6. Fresh'
    BY <1>10, HandlerMoves DEF CopyChunk
  <2> QED
    BY <2>2, <2>3, <2>4, <2>5, <2>6
<1>11. ASSUME NEW w \in Writer, CopyEnd(w) PROVE IInv'
  <2>1. Fresh'
    BY <1>11, HandlerMoves DEF CopyEnd
  <2>2. TypeOK'
    BY <1>11 DEF CopyEnd
  <2> QED
    BY <2>1, <2>2
<1>12. ASSUME NEW w \in Writer, CopyFail(w) PROVE IInv'
  <2>1. Fresh'
    BY <1>12, HandlerMoves DEF CopyFail
  <2>2. TypeOK'
    BY <1>12 DEF CopyFail
  <2> QED
    BY <2>1, <2>2
<1>13. ASSUME NEW w \in Writer, CheckExists(w) PROVE IInv'
  <2>1. Fresh'
    BY <1>13, HandlerMoves DEF CheckExists
  <2>2. TypeOK'
    BY <1>13 DEF CheckExists
  <2> QED
    BY <2>1, <2>2
<1>14. ASSUME NEW w \in Writer, Rename(w) PROVE IInv'
  <2>1. Fresh'
    BY <1>14, HandlerMoves DEF Rename
  <2>2. TypeOK'
    BY <1>14 DEF Rename
  <2> QED
    BY <2>1, <2>2
<1>15. ASSUME NEW w \in Writer, Remove(w) PROVE IInv'
  <2>1. Fresh'
    BY <1>15, HandlerMoves DEF Remove
  <2>2. TypeOK'
    BY <1>15 DEF Remove
  <2> QED
    BY <2>1, <2>2
<1>16. ASSUME NEW w \in Writer, ConnLost(w) PROVE IInv'
  BY <1>16 DEF ConnLost
<1>17. CASE Crash
  <2>1. \A v \in Writer : handler'[v] = handler[v] \/ (handler'[v] = "done" /\ handler[v] # "idle")
    BY <1>17 DEF Crash, Active
  <2>2. handler' \in [Writer -> {"idle", "create", "confirm", "copy", "check", "rename", "remove", "done"}]
    BY <1>17 DEF Crash
  <2>3. broken' \in [Writer -> BOOLEAN]
    BY <1>17 DEF Crash
  <2>4. UNCHANGED <<mode, diskVars, fd, offset, verdict, ctlVars>>
    BY <1>17 DEF Crash
  <2> QED
    BY <2>1, <2>2, <2>3, <2>4
<1>18. CASE Terminated \/ UNCHANGED vars
  BY <1>18 DEF Terminated, vars
<1> QED
  BY <1>1, <1>2, <1>3, <1>4, <1>5, <1>6, <1>7, <1>8, <1>9, <1>10, <1>11, <1>12, <1>13, <1>14,
     <1>15, <1>16, <1>17, <1>18
  DEF Next, Controller, Handler

\* Every value keeps its type, and the target is never the temporary file.
THEOREM TypeCorrect == Spec => []TypeOK
<1>1. Spec => []IInv
  BY InitIInv, StepIInv, PTL DEF Spec
<1>2. IInv => TypeOK
  BY DEF IInv
<1> QED
  BY <1>1, <1>2, PTL

\* The target is replaced by rename alone: once there is a file there always is
\* one, whatever overlaps, breaks off, fails or crashes.
THEOREM TargetStaysHolds == Spec => TargetStays
<1> DEFINE Stays == target # NoFile => target' # NoFile
<1>1. [Next]_vars => [Stays]_vars
  <2> SUFFICES ASSUME [Next]_vars PROVE target' = target \/ Stays
    OBVIOUS
  <2>1. ASSUME NEW w \in Writer, Controller(w) PROVE target' = target
    BY <2>1 DEF Controller, Start, Ready, SendChunk, Finish, BreakOff, Result, Lost, CtlStep, diskVars
  <2>2. ASSUME NEW w \in Writer, Handler(w) PROVE target' = target \/ Stays
    BY <2>2 DEF Handler, Create, Confirm, CopyChunk, CopyEnd, CopyFail, CheckExists, Rename,
       Remove, diskVars
  <2>3. CASE (\E w \in Writer : ConnLost(w)) \/ Crash \/ Terminated \/ UNCHANGED vars
    BY <2>3 DEF ConnLost, Crash, Terminated, vars, diskVars
  <2> QED
    BY <2>1, <2>2, <2>3 DEF Next
<1>2. Spec => [][Stays]_vars
  BY <1>1, PTL DEF Spec
<1> QED
  BY <1>2 DEF TargetStays

-----------------------------------------------------------------------------
(* The refinement *)

\* The first n chunks of the body of w.
Part(w, n) == [p \in 1..N |-> IF p <= n THEN w ELSE NoFile]

\* A body is finished when all of it was sent.
Uploaded ==
    \A w \in Writer :
        /\ ctl[w] \in {"idle", "sent", "upload"} => ~fin[w]
        /\ ctl[w] = "finished" => sent[w] = Len[w]
        /\ ctl[w] = "ok" => verdict[w] = "ok"
        /\ verdict[w] # "none" => handler[w] = "done"
        /\ handler[w] = "copy" /\ fin[w] => sent[w] = Len[w]
        /\ handler[w] \in {"idle", "create", "confirm"} => offset[w] = 0
        /\ handler[w] \in {"check", "rename"} => offset[w] = Len[w]

\* The one write that is under way owns the temporary file.
Owned ==
    \A w \in Writer :
        /\ handler[w] \in {"confirm", "copy", "check", "rename", "remove"} =>
               temp # NoFile /\ fd[w] = temp
        /\ handler[w] \in {"confirm", "copy", "check", "rename"} => data[temp] = Part(w, offset[w])

\* What holds in a calm behaviour.
Quiet == (\A v, w \in Active : v = w) /\ Uploaded /\ Owned /\ CompleteTarget

CInv == mode = Calm => Quiet

\* At first nothing is under way.
LEMMA InitCInv == Init => CInv
  BY WriteFileAssumption DEF Init, CInv, Quiet, Active, Uploaded, Owned, CompleteTarget, Complete, Inode

\* In a calm behaviour a handler that gets on is the only one.
LEMMA Alone ==
  ASSUME TypeOK, \A v, u \in Active : v = u, NEW w \in Active, NEW h, HandlerStep(w, h)
  PROVE  /\ mode' = mode /\ \A v, u \in Active' : v = u
         /\ handler'[w] = h
         /\ \A v \in Writer \ {w} : handler'[v] = handler[v] /\ handler[v] \in {"idle", "done"}
<1>1. \A v \in Writer \ {w} : handler'[v] = handler[v] /\ handler[v] \in {"idle", "done"}
  BY DEF TypeOK, HandlerStep, Active
<1>2. Active' \subseteq {w}
  BY <1>1 DEF Active
<1> QED
  BY <1>1, <1>2 DEF TypeOK, HandlerStep, Active

\* The controllers leave the disk alone, and only Start makes a handler active.
LEMMA CalmController ==
  ASSUME IInv, mode = Calm, Quiet,
         \E w \in Writer : Controller(w) \/ ConnLost(w)
  PROVE  mode' = Calm /\ Quiet'
<1> USE DEF IInv, TypeOK, Quiet, CtlStep, diskVars, handlerVars, ctlVars
<1>1. ASSUME NEW w \in Writer, Start(w) PROVE mode' = Calm /\ Quiet'
  <2>1. mode' = Calm /\ \A u, v \in Active' : u = v
    BY <1>1 DEF Start, Calm, Active
  <2>2. Uploaded'
    BY <1>1 DEF Start, Calm, Uploaded, Fresh
  <2>3. Owned'
    BY <1>1 DEF Start, Calm, Owned
  <2>4. CompleteTarget'
    BY <1>1 DEF Start, CompleteTarget, Complete
  <2> QED
    BY <2>1, <2>2, <2>3, <2>4
<1>2. ASSUME NEW w \in Writer, Ready(w) PROVE mode' = Calm /\ Quiet'
  <2>1. mode' = Calm /\ \A u, v \in Active' : u = v
    BY <1>2 DEF Ready, Active
  <2>2. Uploaded'
    BY <1>2 DEF Ready, Uploaded
  <2>3. Owned'
    BY <1>2 DEF Ready, Owned
  <2>4. CompleteTarget'
    BY <1>2 DEF Ready, CompleteTarget, Complete
  <2> QED
    BY <2>1, <2>2, <2>3, <2>4
<1>3. ASSUME NEW w \in Writer, SendChunk(w) PROVE mode' = Calm /\ Quiet'
  <2>1. mode' = Calm /\ \A u, v \in Active' : u = v
    BY <1>3 DEF SendChunk, Active
  <2>2. Uploaded'
    BY <1>3 DEF SendChunk, Uploaded
  <2>3. Owned'
    BY <1>3 DEF SendChunk, Owned
  <2>4. CompleteTarget'
    BY <1>3 DEF SendChunk, CompleteTarget, Complete
  <2> QED
    BY <2>1, <2>2, <2>3, <2>4
<1>4. ASSUME NEW w \in Writer, Finish(w) PROVE mode' = Calm /\ Quiet'
  <2>1. mode' = Calm /\ \A u, v \in Active' : u = v
    BY <1>4 DEF Finish, Active
  <2>2. Uploaded'
    BY <1>4 DEF Finish, Uploaded
  <2>3. Owned'
    BY <1>4 DEF Finish, Owned
  <2>4. CompleteTarget'
    BY <1>4 DEF Finish, CompleteTarget, Complete
  <2> QED
    BY <2>1, <2>2, <2>3, <2>4
<1>5. ASSUME NEW w \in Writer, BreakOff(w) PROVE mode' = Calm /\ Quiet'
  BY <1>5 DEF BreakOff, Calm
<1>6. ASSUME NEW w \in Writer, Result(w) PROVE mode' = Calm /\ Quiet'
  <2>1. mode' = Calm /\ \A u, v \in Active' : u = v
    BY <1>6 DEF Result, Active
  <2>2. Uploaded'
    BY <1>6 DEF Result, Uploaded
  <2>3. Owned'
    BY <1>6 DEF Result, Owned
  <2>4. CompleteTarget'
    BY <1>6 DEF Result, CompleteTarget, Complete
  <2> QED
    BY <2>1, <2>2, <2>3, <2>4
<1>7. ASSUME NEW w \in Writer, Lost(w) PROVE mode' = Calm /\ Quiet'
  <2>1. mode' = Calm /\ \A u, v \in Active' : u = v
    BY <1>7 DEF Lost, Active
  <2>2. Uploaded'
    BY <1>7 DEF Lost, Uploaded
  <2>3. Owned'
    BY <1>7 DEF Lost, Owned
  <2>4. CompleteTarget'
    BY <1>7 DEF Lost, CompleteTarget, Complete
  <2> QED
    BY <2>1, <2>2, <2>3, <2>4
<1>8. ASSUME NEW w \in Writer, ConnLost(w) PROVE mode' = Calm /\ Quiet'
  <2>1. mode' = Calm /\ \A u, v \in Active' : u = v
    BY <1>8 DEF ConnLost, Active
  <2>2. Uploaded'
    BY <1>8 DEF ConnLost, Uploaded
  <2>3. Owned'
    BY <1>8 DEF ConnLost, Owned
  <2>4. CompleteTarget'
    BY <1>8 DEF ConnLost, CompleteTarget, Complete
  <2> QED
    BY <2>1, <2>2, <2>3, <2>4
<1> QED
  BY <1>1, <1>2, <1>3, <1>4, <1>5, <1>6, <1>7, <1>8 DEF Controller

\* The handler that is active writes its own inode, which is not the target
\* before it is renamed, whole.
LEMMA CalmHandler ==
  ASSUME IInv, mode = Calm, Quiet, NEW w \in Writer, Handler(w)
  PROVE  mode' = Calm /\ Quiet'
<1> USE WriteFileAssumption DEF IInv, Quiet, diskVars, handlerVars, ctlVars
<1>1. ASSUME Create(w) PROVE mode' = Calm /\ Quiet'
  <2>1. w \in Active /\ \E h \in {"confirm", "done"} : HandlerStep(w, h)
    BY <1>1 DEF Create, Active
  <2>2. /\ mode' = Calm /\ \A u, v \in Active' : u = v
        /\ handler'[w] \in {"confirm", "done"}
        /\ \A v \in Writer \ {w} : handler'[v] = handler[v] /\ handler[v] \in {"idle", "done"}
    BY <2>1, Alone
  <2>3. UNCHANGED ctlVars
    BY <2>1 DEF HandlerStep
  <2>4. Uploaded'
    BY <1>1, <2>2, <2>3 DEF Create, HandlerStep, Uploaded, TypeOK
  <2>5. Owned'
    <3>1. CASE handler'[w] = "done"
      BY <2>2, <3>1 DEF Owned
    <3>2. CASE handler'[w] = "confirm"
      <4>1. PICK i \in Inode : /\ temp' = i /\ fd' = [fd EXCEPT ![w] = i]
                              /\ data' = [data EXCEPT ![i] = Empty] /\ UNCHANGED offset
        BY <1>1, <3>2 DEF Create, HandlerStep, TypeOK, Inode
      <4>2. fd'[w] = i /\ data'[i] = Empty /\ i # NoFile
        BY <4>1 DEF TypeOK, Inode
      <4>3. offset'[w] = 0
        BY <1>1, <4>1 DEF Create, Uploaded
      <4>4. Empty = Part(w, 0)
        BY DEF Empty, Part
      <4> QED
        BY <2>2, <4>1, <4>2, <4>3, <4>4 DEF Owned
    <3> QED
      BY <2>2, <3>1, <3>2
  <2>6. CompleteTarget'
    BY <1>1 DEF Create, CompleteTarget, Complete, Owned, TypeOK, Inode, Fresh
  <2> QED
    BY <2>2, <2>4, <2>5, <2>6
<1>2. ASSUME Confirm(w) PROVE mode' = Calm /\ Quiet'
  <2>1. w \in Active /\ \E h \in {"copy", "done"} : HandlerStep(w, h)
    BY <1>2 DEF Confirm, Active
  <2>2. /\ mode' = Calm /\ \A u, v \in Active' : u = v
        /\ handler'[w] \in {"copy", "done"}
        /\ \A v \in Writer \ {w} : handler'[v] = handler[v] /\ handler[v] \in {"idle", "done"}
    BY <2>1, Alone
  <2>3. UNCHANGED ctlVars
    BY <2>1 DEF HandlerStep
  <2>4. Uploaded'
    BY <1>2, <2>2, <2>3 DEF Confirm, HandlerStep, Uploaded, TypeOK
  <2>5. Owned'
    BY <1>2, <2>2 DEF Confirm, HandlerStep, Owned, TypeOK, Inode
  <2>6. CompleteTarget'
    BY <1>2 DEF Confirm, CompleteTarget, Complete, Owned, TypeOK, Inode
  <2> QED
    BY <2>2, <2>4, <2>5, <2>6
<1>3. ASSUME CopyChunk(w) PROVE mode' = Calm /\ Quiet'
  <2>1. w \in Active /\ \E h \in {"copy"} : HandlerStep(w, h)
    BY <1>3 DEF CopyChunk, Active
  <2>2. /\ mode' = Calm /\ \A u, v \in Active' : u = v
        /\ handler'[w] \in {"copy"}
        /\ \A v \in Writer \ {w} : handler'[v] = handler[v] /\ handler[v] \in {"idle", "done"}
    BY <2>1, Alone
  <2>3. UNCHANGED ctlVars
    BY <2>1 DEF HandlerStep
  <2>4. Uploaded'
    BY <1>3, <2>2, <2>3 DEF CopyChunk, Uploaded, TypeOK
  <2>5. Owned'
    <3>1. /\ handler[w] = "copy" /\ handler'[w] = "copy"
          /\ temp \in Inode /\ temp' = temp /\ fd[w] = temp /\ fd' = fd
          /\ data[temp] = Part(w, offset[w])
      BY <1>3, <2>2 DEF CopyChunk, Owned, TypeOK, Inode
    <3>2. data'[temp] = [data[temp] EXCEPT ![offset[w] + 1] = w]
      BY <1>3, <3>1 DEF CopyChunk, TypeOK
    <3>3. offset'[w] = offset[w] + 1 /\ offset[w] \in 0..N
      BY <1>3 DEF CopyChunk, TypeOK
    <3>4. data'[temp] = Part(w, offset'[w])
      <4>1. data'[temp] = [p \in 1..N |-> IF p = offset[w] + 1 THEN w ELSE Part(w, offset[w])[p]]
        BY <3>1, <3>2 DEF Part
      <4>2. \A p \in 1..N : (p = offset[w] + 1 \/ p <= offset[w]) <=> p <= offset[w] + 1
        BY <3>3
      <4> QED
        BY <3>3, <4>1, <4>2 DEF Part
    <3> QED
      BY <2>2, <3>1, <3>4 DEF Owned
  <2>6. CompleteTarget'
    BY <1>3 DEF CopyChunk, CompleteTarget, Complete, Owned, TypeOK, Inode
  <2> QED
    BY <2>2, <2>4, <2>5, <2>6
<1>4. ASSUME CopyEnd(w) PROVE mode' = Calm /\ Quiet'
  <2>1. w \in Active /\ \E h \in {"check"} : HandlerStep(w, h)
    BY <1>4 DEF CopyEnd, Active
  <2>2. /\ mode' = Calm /\ \A u, v \in Active' : u = v
        /\ handler'[w] \in {"check"}
        /\ \A v \in Writer \ {w} : handler'[v] = handler[v] /\ handler[v] \in {"idle", "done"}
    BY <2>1, Alone
  <2>3. UNCHANGED ctlVars
    BY <2>1 DEF HandlerStep
  <2>4. Uploaded'
    BY <1>4, <2>2, <2>3 DEF CopyEnd, Uploaded, TypeOK
  <2>5. Owned'
    BY <1>4, <2>2 DEF CopyEnd, Owned, TypeOK, Inode
  <2>6. CompleteTarget'
    BY <1>4 DEF CopyEnd, CompleteTarget, Complete, Owned, TypeOK, Inode
  <2> QED
    BY <2>2, <2>4, <2>5, <2>6
<1>5. ASSUME CopyFail(w) PROVE mode' = Calm /\ Quiet'
  <2>1. w \in Active /\ \E h \in {"remove"} : HandlerStep(w, h)
    BY <1>5 DEF CopyFail, Active
  <2>2. /\ mode' = Calm /\ \A u, v \in Active' : u = v
        /\ handler'[w] \in {"remove"}
        /\ \A v \in Writer \ {w} : handler'[v] = handler[v] /\ handler[v] \in {"idle", "done"}
    BY <2>1, Alone
  <2>3. UNCHANGED ctlVars
    BY <2>1 DEF HandlerStep
  <2>4. Uploaded'
    BY <1>5, <2>2, <2>3 DEF CopyFail, Uploaded, TypeOK
  <2>5. Owned'
    BY <1>5, <2>2 DEF CopyFail, Owned, TypeOK, Inode
  <2>6. CompleteTarget'
    BY <1>5 DEF CopyFail, CompleteTarget, Complete, Owned, TypeOK, Inode
  <2> QED
    BY <2>2, <2>4, <2>5, <2>6
<1>6. ASSUME CheckExists(w) PROVE mode' = Calm /\ Quiet'
  <2>1. w \in Active /\ \E h \in {"rename", "remove"} : HandlerStep(w, h)
    BY <1>6 DEF CheckExists, Active
  <2>2. /\ mode' = Calm /\ \A u, v \in Active' : u = v
        /\ handler'[w] \in {"rename", "remove"}
        /\ \A v \in Writer \ {w} : handler'[v] = handler[v] /\ handler[v] \in {"idle", "done"}
    BY <2>1, Alone
  <2>3. UNCHANGED ctlVars
    BY <2>1 DEF HandlerStep
  <2>4. Uploaded'
    BY <1>6, <2>2, <2>3 DEF CheckExists, Uploaded, TypeOK
  <2>5. Owned'
    BY <1>6, <2>2 DEF CheckExists, Owned, TypeOK, Inode
  <2>6. CompleteTarget'
    BY <1>6 DEF CheckExists, CompleteTarget, Complete, Owned, TypeOK, Inode
  <2> QED
    BY <2>2, <2>4, <2>5, <2>6
<1>7. ASSUME Rename(w) PROVE mode' = Calm /\ Quiet'
  <2>1. w \in Active /\ \E h \in {"done", "remove"} : HandlerStep(w, h)
    BY <1>7 DEF Rename, Active
  <2>2. /\ mode' = Calm /\ \A u, v \in Active' : u = v
        /\ handler'[w] \in {"done", "remove"}
        /\ \A v \in Writer \ {w} : handler'[v] = handler[v] /\ handler[v] \in {"idle", "done"}
    BY <2>1, Alone
  <2>3. UNCHANGED ctlVars
    BY <2>1 DEF HandlerStep
  <2>4. Uploaded'
    BY <1>7, <2>2, <2>3 DEF Rename, HandlerStep, Uploaded, TypeOK
  <2>5. Owned'
    BY <1>7, <2>2 DEF Rename, HandlerStep, Owned, TypeOK, Inode
  <2>6. CompleteTarget'
    <3>1. CASE target' = temp /\ temp # NoFile /\ UNCHANGED data
      <4>1. data[temp] = Part(w, Len[w])
        BY <1>7 DEF Rename, Owned, Uploaded
      <4>2. Part(w, Len[w]) = Filled(w)
        BY DEF Part, Filled
      <4> QED
        BY <3>1, <4>1, <4>2 DEF CompleteTarget, Complete, Inode
    <3>2. CASE UNCHANGED <<target, data>>
      BY <3>2 DEF CompleteTarget, Complete
    <3> QED
      BY <1>7, <3>1, <3>2 DEF Rename
  <2> QED
    BY <2>2, <2>4, <2>5, <2>6
<1>8. ASSUME Remove(w) PROVE mode' = Calm /\ Quiet'
  <2>1. w \in Active /\ \E h \in {"done"} : HandlerStep(w, h)
    BY <1>8 DEF Remove, Active
  <2>2. /\ mode' = Calm /\ \A u, v \in Active' : u = v
        /\ handler'[w] \in {"done"}
        /\ \A v \in Writer \ {w} : handler'[v] = handler[v] /\ handler[v] \in {"idle", "done"}
    BY <2>1, Alone
  <2>3. UNCHANGED ctlVars
    BY <2>1 DEF HandlerStep
  <2>4. Uploaded'
    BY <1>8, <2>2, <2>3 DEF Remove, Uploaded, TypeOK
  <2>5. Owned'
    BY <1>8, <2>2 DEF Remove, Owned, TypeOK, Inode
  <2>6. CompleteTarget'
    BY <1>8 DEF Remove, CompleteTarget, Complete, Owned, TypeOK, Inode
  <2> QED
    BY <2>2, <2>4, <2>5, <2>6
<1> QED
  BY <1>1, <1>2, <1>3, <1>4, <1>5, <1>6, <1>7, <1>8 DEF Handler

\* A crash of the node ends the handlers and leaves the disk.
LEMMA CalmRest ==
  ASSUME IInv, mode = Calm, Quiet, Crash \/ Terminated \/ UNCHANGED vars
  PROVE  mode' = Calm /\ Quiet'
<1> USE DEF IInv, TypeOK, Quiet, diskVars, handlerVars, ctlVars
<1>1. CASE Crash
  <2>1. mode' = Calm /\ \A u, v \in Active' : u = v
    BY <1>1 DEF Crash, Active
  <2>2. Uploaded'
    BY <1>1 DEF Crash, Active, Uploaded
  <2>3. Owned'
    BY <1>1 DEF Crash, Active, Owned
  <2>4. CompleteTarget'
    BY <1>1 DEF Crash, CompleteTarget, Complete
  <2> QED
    BY <2>1, <2>2, <2>3, <2>4
<1>2. CASE Terminated \/ UNCHANGED vars
  BY <1>2 DEF Terminated, vars, Active, Uploaded, Owned, CompleteTarget, Complete
<1> QED
  BY <1>1, <1>2

\* The mode is a choice at the start.
LEMMA ModeStays == [Next]_vars => mode' = mode
  BY DEF Next, Controller, Handler, Start, Ready, SendChunk, Finish, BreakOff, Result, Lost,
     Create, Confirm, CopyChunk, CopyEnd, CopyFail, CheckExists, Rename, Remove, CtlStep,
     HandlerStep, ConnLost, Crash, Terminated, vars

\* The calm invariant, and the types it rests on, hold in every reachable state.
THEOREM CalmInvariance == Spec => [](IInv /\ CInv)
<1>1. Init => IInv /\ CInv
  BY InitIInv, InitCInv
<1>2. IInv /\ CInv /\ [Next]_vars => (IInv /\ CInv)'
  <2> SUFFICES ASSUME IInv, CInv, [Next]_vars PROVE IInv' /\ CInv'
    OBVIOUS
  <2>1. IInv'
    BY StepIInv
  <2>2. CASE mode = Calm
    <3>1. CASE \E w \in Writer : Controller(w) \/ ConnLost(w)
      BY <2>1, <2>2, <3>1, CalmController DEF CInv
    <3>2. CASE \E w \in Writer : Handler(w)
      BY <2>1, <2>2, <3>2, CalmHandler DEF CInv
    <3>3. CASE Crash \/ Terminated \/ UNCHANGED vars
      BY <2>1, <2>2, <3>3, CalmRest DEF CInv
    <3> QED
      BY <2>1, <3>1, <3>2, <3>3 DEF Next
  <2>3. CASE mode # Calm
    <3>1. mode' = mode
      BY ModeStays
    <3> QED
      BY <2>1, <2>3, <3>1 DEF CInv
  <2> QED
    BY <2>2, <2>3
<1> QED
  BY <1>1, <1>2, PTL DEF Spec

-----------------------------------------------------------------------------
(* What AtomicFile sees *)

Content ==
    IF target = NoFile \/ mode # Calm THEN NoFile
    ELSE IF Complete(target) THEN CHOOSE o \in Inode : data[target] = Filled(o)
    ELSE "torn"

Outcome == [w \in Writer |->
    IF mode # Calm THEN "open"
    ELSE IF ctl[w] = "ok" THEN "succeeded"
    ELSE IF ctl[w] = "err" THEN "failed"
    ELSE IF verdict[w] = "ok" THEN "written"
    ELSE "open"]

\* A complete file tells whose it is, by its first chunk.
LEMMA WhoseFile ==
  ASSUME NEW D, NEW o \in Inode, D = Filled(o)
  PROVE  (CHOOSE x \in Inode : D = Filled(x)) = o
<1>1. \A x \in Inode : Filled(x) = D => x = o
  <2> SUFFICES ASSUME NEW x \in Inode, Filled(x) = D PROVE x = o
    OBVIOUS
  <2>1. 1 \in 1..N /\ 1 <= Len[x] /\ 1 <= Len[o]
    BY WriteFileAssumption
  <2>2. Filled(x)[1] = x /\ Filled(o)[1] = o
    BY <2>1 DEF Filled
  <2> QED
    BY <2>2
<1> QED
  BY <1>1

\* The content is the same as long as the target and what is in it are.
LEMMA SameContent ==
  ASSUME IInv, CInv, mode = Calm, mode' = mode, target' = target,
         target # NoFile => data'[target] = data[target]
  PROVE  Content' = Content
<1>1. CASE target = NoFile
  BY <1>1 DEF Content
<1>2. CASE target # NoFile
  <2>1. PICK o \in Inode : data[target] = Filled(o)
    BY <1>2 DEF CInv, Quiet, CompleteTarget, Complete
  <2>2. Content = o
    BY <1>2, <2>1, WhoseFile DEF Content, Complete
  <2>3. data'[target'] = Filled(o)
    BY <1>2, <2>1
  <2>4. Content' = o
    BY <1>2, <2>3, WhoseFile DEF Content, Complete
  <2> QED
    BY <2>2, <2>4
<1> QED
  BY <1>1, <1>2

\* The handlers change the content at one step, the rename.
LEMMA HandlerRefines ==
  ASSUME IInv, CInv, mode = Calm, NEW w \in Writer, Handler(w)
  PROVE  A!Commit(w) \/ UNCHANGED <<Content, Outcome>>
<1> USE DEF diskVars, handlerVars, ctlVars
<1>1. mode' = mode /\ ctl' = ctl
  BY DEF Handler, Create, Confirm, CopyChunk, CopyEnd, CopyFail, CheckExists, Rename, Remove, HandlerStep
<1>2. handler[w] # "done" /\ verdict[w] = "none"
  BY DEF CInv, Quiet, Uploaded, Handler, Create, Confirm, CopyChunk, CopyEnd, CopyFail,
     CheckExists, Rename, Remove
<1>3. ASSUME target' = temp, temp # NoFile, UNCHANGED data, handler[w] = "rename",
             verdict' = [verdict EXCEPT ![w] = "ok"]
      PROVE  A!Commit(w)
  <2>1. data'[target'] = Filled(w)
    BY <1>3 DEF CInv, Quiet, Owned, Uploaded, Part, Filled
  <2>2. Content' = w
    BY <1>1, <1>3, <2>1, WhoseFile DEF Content, Complete, Inode
  <2>3. ctl[w] # "ok"
    BY <1>2 DEF CInv, Quiet, Uploaded
  <2>4. /\ Outcome[w] \in {"open", "failed"}
        /\ \/ Outcome[w] = "open" /\ Outcome' = [Outcome EXCEPT ![w] = "written"]
           \/ Outcome[w] = "failed" /\ Outcome' = Outcome
    BY <1>1, <1>2, <1>3, <2>3 DEF Outcome, IInv, TypeOK
  <2> QED
    BY <2>2, <2>4 DEF A!Commit, Content, Outcome
<1>4. ASSUME target' = target, target # NoFile => data'[target] = data[target],
             verdict'[w] # "ok", \A v \in Writer \ {w} : verdict'[v] = verdict[v]
      PROVE  UNCHANGED <<Content, Outcome>>
  <2>1. Content' = Content
    BY <1>1, <1>4, SameContent
  <2>2. Outcome' = Outcome
    BY <1>1, <1>2, <1>4 DEF Outcome
  <2> QED
    BY <2>1, <2>2
<1>5. CASE Create(w) \/ CopyChunk(w)
  <2>1. target' = target /\ target # NoFile => data'[target] = data[target]
    BY <1>5 DEF Create, CopyChunk, IInv, TypeOK, Fresh, CInv, Quiet, Owned, Inode
  <2>2. verdict'[w] # "ok" /\ \A v \in Writer \ {w} : verdict'[v] = verdict[v]
    BY <1>2, <1>5 DEF Create, CopyChunk, IInv, TypeOK
  <2>3. target' = target
    BY <1>5 DEF Create, CopyChunk
  <2> QED
    BY <1>4, <2>1, <2>2, <2>3
<1>6. CASE Confirm(w) \/ CopyEnd(w) \/ CopyFail(w) \/ CheckExists(w) \/ Remove(w)
  BY <1>2, <1>4, <1>6 DEF Confirm, CopyEnd, CopyFail, CheckExists, Remove, IInv, TypeOK
<1>7. CASE Rename(w)
  BY <1>2, <1>3, <1>4, <1>7 DEF Rename, IInv, TypeOK
<1> QED
  BY <1>5, <1>6, <1>7 DEF Handler

\* The controllers leave the content, and learn no success that was not written.
LEMMA ControllerRefines ==
  ASSUME IInv, CInv, mode = Calm, NEW w \in Writer, Controller(w) \/ ConnLost(w)
  PROVE  A!Succeed(w) \/ A!Fail(w) \/ UNCHANGED <<Content, Outcome>>
<1> USE DEF diskVars, handlerVars, ctlVars, CtlStep
<1>1. mode' = mode /\ target' = target /\ data' = data /\ verdict' = verdict
  BY DEF Controller, Start, Ready, SendChunk, Finish, BreakOff, Result, Lost, ConnLost
<1>2. Content' = Content
  BY <1>1, SameContent
<1>3. CASE Result(w) \/ Lost(w)
  <2>1. PICK c \in {"ok", "err"} : /\ ctl' = [ctl EXCEPT ![w] = c]
                                   /\ c = "ok" => verdict[w] = "ok"
                                   /\ ctl[w] \notin {"ok", "err"}
    BY <1>3 DEF Result, Lost, IInv, TypeOK
  <2>2. CASE c = "ok"
    <3>1. Outcome[w] = "written" /\ Outcome' = [Outcome EXCEPT ![w] = "succeeded"]
      BY <1>1, <2>1, <2>2 DEF Outcome, IInv, TypeOK
    <3> QED
      BY <1>2, <3>1 DEF A!Succeed, Content, Outcome
  <2>3. CASE c = "err"
    <3>1. /\ Outcome[w] \in {"open", "written"}
          /\ Outcome' = [Outcome EXCEPT ![w] = "failed"]
      BY <1>1, <2>1, <2>3 DEF Outcome, IInv, TypeOK
    <3> QED
      BY <1>2, <3>1 DEF A!Fail, Content, Outcome
  <2> QED
    BY <2>2, <2>3
<1>4. CASE Ready(w)
  <2>1. CASE ctl' = [ctl EXCEPT ![w] = "upload"]
    BY <1>1, <1>2, <1>4, <2>1 DEF Ready, Outcome, IInv, TypeOK
  <2>2. CASE ctl' = [ctl EXCEPT ![w] = "err"]
    <3>1. ctl[w] = "sent" /\ verdict[w] = "none"
      BY <1>4 DEF Ready, CInv, Quiet, Uploaded
    <3>2. Outcome[w] = "open"
      BY <3>1 DEF Outcome
    <3>3. Outcome' = [Outcome EXCEPT ![w] = "failed"]
      BY <1>1, <2>2 DEF Outcome, IInv, TypeOK
    <3> QED
      BY <1>2, <3>2, <3>3 DEF A!Fail, Content, Outcome
  <2> QED
    BY <1>4, <2>1, <2>2 DEF Ready
<1>5. CASE Start(w) \/ SendChunk(w) \/ Finish(w)
  <2>1. Outcome' = Outcome
    BY <1>1, <1>5 DEF Start, SendChunk, Finish, Outcome, IInv, TypeOK
  <2> QED
    BY <1>2, <2>1
<1>6. CASE BreakOff(w)
  BY <1>6 DEF BreakOff, Calm
<1>7. CASE ConnLost(w)
  BY <1>1, <1>2, <1>7 DEF ConnLost, Outcome
<1> QED
  BY <1>3, <1>4, <1>5, <1>6, <1>7 DEF Controller

\* Writes that do not overlap and whose bodies arrive whole are atomic, whatever
\* happens to the connection, the disk or the node: the target goes from one
\* complete content to another at the rename of WriteFile::handle, and success
\* is reported only after it.
THEOREM WritesAtomicHolds == Spec => WritesAtomic
<1>1. Init => A!Init
  <2> SUFFICES ASSUME Init PROVE A!Init
    OBVIOUS
  <2>1. Outcome = [w \in Writer |-> "open"]
    BY DEF Init, Outcome
  <2>2. Content \in {NoFile, Old}
    <3>1. CASE target = NoFile \/ mode # Calm
      BY <3>1 DEF Content
    <3>2. CASE target = Old /\ target # NoFile /\ mode = Calm
      <4>1. data[target] = Filled(Old) /\ Old \in Inode
        BY <3>2 DEF Init, Inode
      <4> QED
        BY <3>2, <4>1, WhoseFile DEF Content, Complete
    <3> QED
      BY <3>1, <3>2 DEF Init
  <2> QED
    BY <2>1, <2>2 DEF A!Init, Content, Outcome
<1>2. IInv /\ CInv /\ [Next]_vars => [A!Next]_(A!vars)
  <2> SUFFICES ASSUME IInv, CInv, [Next]_vars
               PROVE  A!Next \/ UNCHANGED <<Content, Outcome>>
    BY DEF A!vars, Content, Outcome
  <2>1. mode' = mode
    BY ModeStays
  <2>2. CASE mode # Calm
    BY <2>1, <2>2 DEF Content, Outcome
  <2>3. ASSUME mode = Calm, NEW w \in Writer, Handler(w)
        PROVE  A!Next \/ UNCHANGED <<Content, Outcome>>
    BY <2>3, HandlerRefines DEF A!Next
  <2>4. ASSUME mode = Calm, NEW w \in Writer, Controller(w) \/ ConnLost(w)
        PROVE  A!Next \/ UNCHANGED <<Content, Outcome>>
    BY <2>4, ControllerRefines DEF A!Next
  <2>5. CASE mode = Calm /\ (Crash \/ Terminated \/ UNCHANGED vars)
    <3>1. target' = target /\ data' = data /\ verdict' = verdict /\ ctl' = ctl
      BY <2>5 DEF Crash, Terminated, vars, diskVars, ctlVars
    <3>2. Content' = Content
      BY <2>1, <2>5, <3>1, SameContent
    <3> QED
      BY <2>1, <3>1, <3>2 DEF Outcome
  <2> QED
    BY <2>2, <2>3, <2>4, <2>5 DEF Next
<1>3. Spec => A!Spec
  BY <1>1, <1>2, CalmInvariance, PTL DEF Spec, A!Spec
<1> QED
  BY <1>3 DEF WritesAtomic

=============================================================================
