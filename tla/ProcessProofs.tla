--------------------------- MODULE ProcessProofs ----------------------------
(***************************************************************************)
(* Proofs about Process: who cancels the group of workers, what start      *)
(* returns, and that it leaves nothing behind, for any number of workers,  *)
(* clients and connections and channels of any capacity.                   *)
(***************************************************************************)
EXTENDS Process, ChannelLemmas

\* The result of a worker is final.
Final == \A w \in Worker : Result(w) \in {"ok", "err"} => Result(w)' = Result(w)

\* firstErr records whether any joined worker has failed.
Recorded ==
    /\ joined \subseteq Worker
    /\ firstErr # NoWorker => firstErr \in joined /\ Result(firstErr) = "err"
    /\ firstErr = NoWorker => \A w \in joined : Result(w) # "err"

\* The inductive invariant: a worker is joined once its result is final, so that
\* neither the record of its error nor the cause of the cancel can be lost.
GInv ==
    /\ other \in [Other -> {"run", "ok", "err"}]
    /\ \A w \in joined : Ended(w)
    /\ Recorded
    /\ CancelHasCause

\* No step of a worker, of the group or of the signal takes a result back.
LEMMA ResultsFinal == ASSUME GInv, [Next]_vars PROVE Final
<1> USE ProcessAssumption
<1>1. server \in {"ok", "err"} => server' = server
  <2>1. CASE SocksStep
    BY <2>1 DEF SocksStep, Socks!Next, Socks!Bind, Socks!StopAccept, Socks!Join, Socks!Loops,
       Socks!Accept, Socks!Offer, Socks!HandshakeBegin, Socks!HandshakeStep,
       Socks!HandshakeFail, Socks!HandshakePass, Socks!SessionBegin, Socks!SessionEnd
  <2> QED
    BY <2>1 DEF Next, vars, socksVars, Signal, OtherEnds, Harvest, Exit, TcpStep, Terminated
<1>2. acceptor \in {"ok", "err"} => acceptor' = acceptor
  <2>1. CASE TcpStep
    BY <2>1 DEF TcpStep, Tcp!Next, Tcp!Bind, Tcp!StopAccept, Tcp!Join, Tcp!Loop,
       Tcp!Accept, Tcp!Hand, Tcp!Forward
  <2> QED
    BY <2>1 DEF Next, vars, fwdVars, Signal, OtherEnds, Harvest, Exit, SocksStep, Terminated
<1>3. \A w \in Other : other[w] \in {"ok", "err"} => other'[w] = other[w]
  BY DEF GInv, Next, vars, Signal, OtherEnds, Harvest, Exit, SocksStep, TcpStep, Terminated
<1> QED
  BY <1>1, <1>2, <1>3 DEF Final, Result, Worker

\* It holds before any worker has ended.
LEMMA InitGInv == Init => GInv
  BY DEF Init, Socks!Init, Tcp!Init, GInv, Recorded, CancelHasCause

\* Only Harvest changes what GInv records; the other steps need ResultsFinal.
LEMMA StepGInv == GInv /\ [Next]_vars => GInv'
<1> SUFFICES ASSUME GInv, [Next]_vars PROVE GInv'
  OBVIOUS
<1> USE ProcessAssumption
<1>1. Final
  BY ResultsFinal
<1>2. \A w \in Worker : Ended(w) => Ended(w)' /\ Result(w)' = Result(w)
  BY <1>1 DEF Final, Ended
<1>3. joined \subseteq Worker /\ NoWorker \notin Worker
  BY DEF GInv, Recorded, Worker
<1>4. other' \in [Other -> {"run", "ok", "err"}]
  BY DEF GInv, Next, vars, Signal, OtherEnds, Harvest, Exit, SocksStep, TcpStep, Terminated
<1>5. ASSUME NEW w \in Worker, Harvest(w) PROVE GInv'
  <2>1. joined' = joined \cup {w} /\ Ended(w)
    BY <1>5 DEF Harvest
  <2>2. \A v \in joined' : Ended(v)' /\ Result(v)' = Result(v)
    BY <2>1, <1>2, <1>3 DEF GInv
  <2>3. Recorded'
    <3>1. joined' \subseteq Worker
      BY <2>1, <1>3
    <3>2. CASE Result(w) = "err" /\ firstErr = NoWorker
      <4>1. firstErr' = w
        BY <3>2, <1>5 DEF Harvest
      <4> QED
        BY <4>1, <3>1, <3>2, <2>1, <2>2, <1>3 DEF Recorded
    <3>3. CASE ~(Result(w) = "err" /\ firstErr = NoWorker)
      <4>1. firstErr' = firstErr
        BY <3>3, <1>5 DEF Harvest
      <4>2. firstErr # NoWorker => firstErr \in joined /\ Result(firstErr) = "err"
        BY DEF GInv, Recorded
      <4>3. firstErr = NoWorker => \A v \in joined' : Result(v) # "err"
        BY <2>1, <3>3 DEF GInv, Recorded
      <4> QED
        BY <4>1, <4>2, <4>3, <3>1, <2>1, <2>2 DEF Recorded
    <3> QED
      BY <3>2, <3>3
  <2>4. CancelHasCause'
    <3>1. token' => token \/ Result(w) = "err"
      BY <1>5 DEF Harvest
    <3>2. signalled' = signalled
      BY <1>5 DEF Harvest
    <3> QED
      BY <3>1, <3>2, <2>1, <2>2 DEF GInv, CancelHasCause
  <2> QED
    BY <2>2, <2>3, <2>4, <1>4 DEF GInv
<1>6. ASSUME UNCHANGED <<joined, firstErr>>, token' => token \/ signalled', signalled => signalled'
      PROVE GInv'
  <2>1. \A v \in joined : Ended(v)' /\ Result(v)' = Result(v)
    BY <1>2, <1>3 DEF GInv
  <2>2. Recorded'
    BY <1>6, <2>1 DEF GInv, Recorded
  <2>3. CancelHasCause'
    BY <1>6, <2>1 DEF GInv, CancelHasCause
  <2> QED
    BY <1>6, <1>4, <2>1, <2>2, <2>3 DEF GInv
<1>7. Signal \/ (\E w \in Other : OtherEnds(w)) \/ Exit \/ SocksStep \/ TcpStep
      \/ Terminated \/ UNCHANGED vars
      => /\ UNCHANGED <<joined, firstErr>>
         /\ token' => token \/ signalled'
         /\ signalled => signalled'
  BY DEF Signal, OtherEnds, Exit, SocksStep, TcpStep, Terminated, vars, groupVars
<1> QED
  BY <1>5, <1>6, <1>7 DEF Next

\* The inductive invariant holds for any number of workers and clients.
THEOREM GroupInvariance == Spec => []GInv
  BY InitGInv, StepGInv, PTL DEF Spec

\* The group of workers is cancelled only by a signal or by the error of a
\* worker that has been joined: the if-let of Vec::serve in runit.rs.
THEOREM CancelHasCauseHolds == Spec => []CancelHasCause
<1>1. GInv => CancelHasCause
  BY DEF GInv
<1> QED
  BY <1>1, GroupInvariance, PTL

\* start returns an error exactly if a worker ended with one, and the first
\* that was joined: the errors a cancel causes never replace it.
THEOREM FirstErrorKeptHolds == Spec => FirstErrorKept
<1> DEFINE Kept ==
      /\ firstErr # NoWorker => firstErr' = firstErr
      /\ exit' # exit => exit' = IF \E w \in Worker : Result(w) = "err" THEN "err" ELSE "ok"
<1>1. ASSUME GInv, [Next]_vars PROVE [Kept]_vars
  <2>1. firstErr # NoWorker => firstErr' = firstErr
    BY <1>1 DEF Next, vars, groupVars, Signal, OtherEnds, Harvest, Exit, SocksStep, TcpStep, Terminated
  <2>2. exit' # exit => Exit
    BY <1>1 DEF Next, vars, groupVars, Signal, OtherEnds, Harvest, SocksStep, TcpStep, Terminated
  <2>3. ASSUME Exit PROVE exit' = IF \E w \in Worker : Result(w) = "err" THEN "err" ELSE "ok"
    <3>1. joined = Worker /\ exit' = IF firstErr = NoWorker THEN "ok" ELSE "err"
      BY <2>3 DEF Exit
    <3>2. firstErr = NoWorker <=> ~ \E w \in Worker : Result(w) = "err"
      BY <1>1, <3>1 DEF GInv, Recorded
    <3> QED
      BY <3>1, <3>2
  <2> QED
    BY <2>1, <2>2, <2>3
<1>2. Spec => [][Kept]_vars
  BY <1>1, GroupInvariance, PTL DEF Spec
<1> QED
  BY <1>2 DEF FirstErrorKept

-----------------------------------------------------------------------------
(* What the workers leave behind *)

\* The jobs of a channel and its loop: nothing is queued once the loop has been
\* left, and nothing runs once it has been joined.
Drained(Job, loop, job) ==
    /\ job \in [Job -> {"new", "queued", "running", "over"}]
    /\ loop # "run" => \A j \in Job : job[j] # "queued"
    /\ loop = "done" => \A j \in Job : job[j] # "running"

\* A client is in the hands of the accept loop or of a handshake that runs.
SocksInv ==
    /\ Drained(Client, hsLoop, hs)
    /\ Drained(Client, sessLoop, sess)
    /\ step \in [Client -> {"none", "offered", "auth", "request", "passing"}]
    /\ \A c \in Client :
        /\ step[c] = "offered" => server = "sending"
        /\ step[c] \in {"auth", "request", "passing"} => hs[c] = "running"
    /\ \A c, d \in Client : step[c] = "offered" /\ step[d] = "offered" => c = d
    /\ server = "ok" => hsLoop = "done" /\ sessLoop = "done"

\* Only the accept loop holds a connection, and it is joined after its channel.
TcpInv ==
    /\ Drained(Conn, fwdLoop, fwd)
    /\ held # {} => acceptor = "accept"
    /\ acceptor = "ok" => fwdLoop = "done"

\* The inductive invariant; start returns once all workers have been joined.
LInv ==
    /\ SocksInv
    /\ TcpInv
    /\ exit # "none" => joined = Worker

\* No client and no connection is anywhere at first.
LEMMA InitLInv == Init => LInv
  BY DEF Init, Socks!Init, Tcp!Init, Socks!H!Init, Socks!S!Init, Tcp!F!Init,
     LInv, SocksInv, TcpInv, Drained

\* A step of the SOCKS5 server keeps its part.
LEMMA SocksKeeps == ASSUME SocksInv, Socks!Next PROVE SocksInv'
<1>1. CASE Socks!Bind \/ Socks!StopAccept \/ Socks!Join
  BY <1>1 DEF SocksInv, Drained, Socks!Bind, Socks!StopAccept, Socks!Join
<1>2. CASE Socks!Loops
  BY <1>2 DEF SocksInv, Drained, Socks!Loops, Socks!H!Break, Socks!H!Done, Socks!S!Break,
     Socks!S!Done, Socks!H!Stage, Socks!S!Stage
<1>3. ASSUME NEW c \in Client, Socks!Accept(c) PROVE SocksInv'
  BY <1>3 DEF SocksInv, Drained, Socks!Accept, Socks!Go, Socks!H!Set
<1>4. ASSUME NEW c \in Client, Socks!Offer(c) PROVE SocksInv'
  BY <1>4 DEF SocksInv, Drained, Socks!Offer, Socks!Go, Socks!H!Send, Socks!H!Set
<1>5. ASSUME NEW c \in Client, Socks!HandshakeBegin(c) PROVE SocksInv'
  BY <1>5 DEF SocksInv, Drained, Socks!HandshakeBegin, Socks!Go, Socks!H!Recv, Socks!H!Set
<1>6. ASSUME NEW c \in Client, Socks!HandshakeStep(c) PROVE SocksInv'
  BY <1>6 DEF SocksInv, Drained, Socks!HandshakeStep, Socks!Go
<1>7. ASSUME NEW c \in Client, Socks!HandshakeFail(c) PROVE SocksInv'
  BY <1>7 DEF SocksInv, Drained, Socks!HandshakeFail, Socks!Go, Socks!H!Finish, Socks!H!Set
<1>8. ASSUME NEW c \in Client, Socks!HandshakePass(c) PROVE SocksInv'
  BY <1>8 DEF SocksInv, Drained, Socks!HandshakePass, Socks!Go, Socks!H!Finish, Socks!H!Set,
     Socks!S!Send, Socks!S!Set
<1>9. ASSUME NEW c \in Client, Socks!SessionBegin(c) \/ Socks!SessionEnd(c) PROVE SocksInv'
  BY <1>9 DEF SocksInv, Drained, Socks!SessionBegin, Socks!SessionEnd, Socks!S!Recv,
     Socks!S!Finish, Socks!S!Set
<1> QED
  BY <1>1, <1>2, <1>3, <1>4, <1>5, <1>6, <1>7, <1>8, <1>9 DEF Socks!Next

\* A step of the TCP forward keeps its part.
LEMMA TcpKeeps == ASSUME TcpInv, Tcp!Next PROVE TcpInv'
<1>1. CASE Tcp!Bind \/ Tcp!StopAccept \/ Tcp!Join
  BY <1>1 DEF TcpInv, Drained, Tcp!Bind, Tcp!StopAccept, Tcp!Join
<1>2. CASE Tcp!Loop
  BY <1>2 DEF TcpInv, Drained, Tcp!Loop, Tcp!F!Break, Tcp!F!Done, Tcp!F!Stage
<1>3. ASSUME NEW c \in Conn, Tcp!Accept(c) PROVE TcpInv'
  BY <1>3 DEF TcpInv, Drained, Tcp!Accept, Tcp!F!Set
<1>4. ASSUME NEW c \in Conn, Tcp!Hand(c) PROVE TcpInv'
  BY <1>4 DEF TcpInv, Drained, Tcp!Hand, Tcp!F!Send, Tcp!F!Set
<1>5. ASSUME NEW c \in Conn, Tcp!Forward(c) PROVE TcpInv'
  BY <1>5 DEF TcpInv, Drained, Tcp!Forward, Tcp!F!Recv, Tcp!F!Finish, Tcp!F!Set
<1> QED
  BY <1>1, <1>2, <1>3, <1>4, <1>5 DEF Tcp!Next

\* The two workers share no variable but the token, which neither writes.
LEMMA StepLInv == GInv /\ LInv /\ [Next]_vars => LInv'
<1> SUFFICES ASSUME GInv, LInv, [Next]_vars PROVE LInv'
  OBVIOUS
<1>1. SocksInv'
  <2>1. CASE SocksStep
    BY <2>1, SocksKeeps DEF SocksStep, LInv
  <2>2. CASE ~SocksStep
    <3>1. UNCHANGED socksVars
      BY <2>2 DEF Next, vars, Signal, OtherEnds, Harvest, Exit, TcpStep, Terminated
    <3> QED
      BY <3>1 DEF LInv, SocksInv, Drained, socksVars
  <2> QED
    BY <2>1, <2>2
<1>2. TcpInv'
  <2>1. CASE TcpStep
    BY <2>1, TcpKeeps DEF TcpStep, LInv
  <2>2. CASE ~TcpStep
    <3>1. UNCHANGED fwdVars
      BY <2>2 DEF Next, vars, Signal, OtherEnds, Harvest, Exit, SocksStep, Terminated
    <3> QED
      BY <3>1 DEF LInv, TcpInv, Drained, fwdVars
  <2> QED
    BY <2>1, <2>2
<1>3. (exit # "none" => joined = Worker)'
  <2>1. joined \subseteq joined'
    BY DEF Next, vars, groupVars, Signal, OtherEnds, Harvest, Exit, SocksStep, TcpStep, Terminated
  <2>2. joined' \subseteq Worker
    BY StepGInv DEF GInv, Recorded, Worker
  <2>3. exit' # exit => joined = Worker
    BY DEF Next, vars, groupVars, Signal, OtherEnds, Harvest, Exit, SocksStep, TcpStep, Terminated
  <2> QED
    BY <2>1, <2>2, <2>3 DEF LInv, Worker
<1> QED
  BY <1>1, <1>2, <1>3 DEF LInv

\* When start returns every worker has ended, and a SOCKS5 server or TCP
\* forward that ended regularly has left nothing in a channel, a task or the
\* hands of its accept loop, whatever came before.
THEOREM NothingLeftHolds == Spec => []NothingLeft
<1>1. GInv /\ LInv => NothingLeft
  <2> SUFFICES ASSUME GInv, LInv PROVE NothingLeft
    OBVIOUS
  <2>1. exit # "none" => \A w \in Worker : Ended(w)
    BY DEF GInv, LInv
  <2>2. server = "ok" => Socks!Quiet
    <3> SUFFICES ASSUME server = "ok" PROVE Socks!Quiet
      OBVIOUS
    <3>1. hsLoop = "done" /\ sessLoop = "done"
      BY DEF LInv, SocksInv
    <3>2. Socks!H!Quiet /\ Socks!S!Quiet
      BY <3>1 DEF LInv, SocksInv, Drained, Socks!H!Quiet, Socks!S!Quiet, Socks!H!Stage, Socks!S!Stage
    <3>3. \A c \in Client : step[c] = "none"
      BY <3>1 DEF LInv, SocksInv, Drained
    <3> QED
      BY <3>2, <3>3 DEF Socks!Quiet
  <2>3. acceptor = "ok" => Tcp!Quiet
    BY DEF LInv, TcpInv, Drained, Tcp!Quiet, Tcp!F!Quiet, Tcp!F!Stage
  <2> QED
    BY <2>1, <2>2, <2>3 DEF NothingLeft
<1>2. Spec => []LInv
  BY InitLInv, StepLInv, GroupInvariance, PTL DEF Spec
<1> QED
  BY <1>1, <1>2, GroupInvariance, PTL

-----------------------------------------------------------------------------
(* Types, and the bounds of the three channels *)

Loop == {"run", "drain", "done"}

\* The types that neither LInv nor GInv says, and that one connection at most is
\* in the hands of the accept loop.
Plain ==
    /\ server \in {"bind", "accept", "sending", "join", "ok", "err"}
    /\ acceptor \in {"bind", "accept", "join", "ok", "err"}
    /\ hsLoop \in Loop /\ sessLoop \in Loop /\ fwdLoop \in Loop
    /\ held \subseteq Conn /\ \A c, d \in held : c = d
    /\ token \in BOOLEAN /\ signalled \in BOOLEAN
    /\ exit \in {"none", "ok", "err"}

\* What a step may do to a channel Q of capacity cap for the jobs Job.
Moves(Q, next, cap, Job) ==
    \/ next \subseteq Q
    \/ Cardinality(Q) < cap /\ \E j \in Job : next \subseteq Q \cup {j}

HsQueue == Socks!H!Stage("queued")
SessQueue == Socks!S!Stage("queued")
FwdQueue == Tcp!F!Stage("queued")

\* The instances count as this module does.
LEMMA SameCount ==
  ASSUME NEW S
  PROVE  /\ Socks!H!Cardinality(S) = Cardinality(S)
         /\ Socks!S!Cardinality(S) = Cardinality(S)
         /\ Tcp!F!Cardinality(S) = Cardinality(S)
         /\ Tcp!Cardinality(S) = Cardinality(S)
<1>1. Socks!H!Cardinality(S) = Cardinality(S)
  BY DEF Socks!H!Cardinality, Cardinality
<1>2. Socks!S!Cardinality(S) = Cardinality(S)
  BY DEF Socks!S!Cardinality, Cardinality
<1>3. Tcp!F!Cardinality(S) = Cardinality(S)
  BY DEF Tcp!F!Cardinality, Cardinality
<1>4. Tcp!Cardinality(S) = Cardinality(S)
  BY DEF Tcp!Cardinality, Cardinality
<1> QED
  BY <1>1, <1>2, <1>3, <1>4

\* No channel holds more than its capacity.
Bounds ==
    /\ Cardinality(HsQueue) <= HsCap
    /\ Cardinality(SessQueue) <= SessCap
    /\ Cardinality(FwdQueue) <= FwdCap

\* A channel that moves like this stays within its capacity.
LEMMA Bounded ==
  ASSUME NEW Job, IsFiniteSet(Job), NEW Q \in SUBSET Job, NEW R, NEW cap \in Nat,
         Cardinality(Q) <= cap, Moves(Q, R, cap, Job)
  PROVE  Cardinality(R) <= cap
<1>1. IsFiniteSet(Q)
  BY FS_Subset
<1>2. CASE R \subseteq Q
  BY <1>1, <1>2, Shrinks
<1>3. CASE Cardinality(Q) < cap /\ \E j \in Job : R \subseteq Q \cup {j}
  BY <1>1, <1>3, GrowsByOne
<1> QED
  BY <1>2, <1>3 DEF Moves

\* A send into this channel adds the job it sends, and only where there is room.
LEMMA HsSend ==
  ASSUME SocksInv, NEW c \in Client, Socks!H!Send(c)
  PROVE  Moves(HsQueue, HsQueue', HsCap, Client)
<1>1. CASE /\ Cardinality(HsQueue) < HsCap
          /\ hs' = [hs EXCEPT ![c] = "queued"]
  <2>1. HsQueue' \subseteq HsQueue \cup {c}
    BY <1>1 DEF HsQueue, Socks!H!Stage, SocksInv, Drained
  <2> QED
    BY <1>1, <2>1 DEF Moves
<1>2. CASE hs' = [hs EXCEPT ![c] = "over"]
  <2>1. HsQueue' \subseteq HsQueue
    BY <1>2 DEF HsQueue, Socks!H!Stage, SocksInv, Drained
  <2> QED
    BY <2>1 DEF Moves
<1> QED
  BY <1>1, <1>2, SameCount DEF HsQueue, Socks!H!Send, Socks!H!Set

\* A send into this channel adds the job it sends, and only where there is room.
LEMMA SessSend ==
  ASSUME SocksInv, NEW c \in Client, Socks!S!Send(c)
  PROVE  Moves(SessQueue, SessQueue', SessCap, Client)
<1>1. CASE /\ Cardinality(SessQueue) < SessCap
          /\ sess' = [sess EXCEPT ![c] = "queued"]
  <2>1. SessQueue' \subseteq SessQueue \cup {c}
    BY <1>1 DEF SessQueue, Socks!S!Stage, SocksInv, Drained
  <2> QED
    BY <1>1, <2>1 DEF Moves
<1>2. CASE sess' = [sess EXCEPT ![c] = "over"]
  <2>1. SessQueue' \subseteq SessQueue
    BY <1>2 DEF SessQueue, Socks!S!Stage, SocksInv, Drained
  <2> QED
    BY <2>1 DEF Moves
<1> QED
  BY <1>1, <1>2, SameCount DEF SessQueue, Socks!S!Send, Socks!S!Set

\* A send into this channel adds the job it sends, and only where there is room.
LEMMA FwdSend ==
  ASSUME TcpInv, NEW c \in Conn, Tcp!F!Send(c)
  PROVE  Moves(FwdQueue, FwdQueue', FwdCap, Conn)
<1>1. CASE /\ Cardinality(FwdQueue) < FwdCap
          /\ fwd' = [fwd EXCEPT ![c] = "queued"]
  <2>1. FwdQueue' \subseteq FwdQueue \cup {c}
    BY <1>1 DEF FwdQueue, Tcp!F!Stage, TcpInv, Drained
  <2> QED
    BY <1>1, <2>1 DEF Moves
<1>2. CASE fwd' = [fwd EXCEPT ![c] = "over"]
  <2>1. FwdQueue' \subseteq FwdQueue
    BY <1>2 DEF FwdQueue, Tcp!F!Stage, TcpInv, Drained
  <2> QED
    BY <2>1 DEF Moves
<1> QED
  BY <1>1, <1>2, SameCount DEF FwdQueue, Tcp!F!Send, Tcp!F!Set

\* Only the senders of the SOCKS5 server add to its channels, one job at a time.
LEMMA SocksMoves ==
  ASSUME SocksInv, Plain, Socks!Next
  PROVE  /\ Moves(HsQueue, HsQueue', HsCap, Client)
         /\ Moves(SessQueue, SessQueue', SessCap, Client)
         /\ server' \in {"bind", "accept", "sending", "join", "ok", "err"}
         /\ hsLoop' \in Loop /\ sessLoop' \in Loop
<1> USE DEF SocksInv, Drained, Plain, Loop, Moves, HsQueue, SessQueue, Socks!H!Stage, Socks!S!Stage
<1> DEFINE Goal ==
      /\ Moves(HsQueue, HsQueue', HsCap, Client)
      /\ Moves(SessQueue, SessQueue', SessCap, Client)
      /\ server' \in {"bind", "accept", "sending", "join", "ok", "err"}
      /\ hsLoop' \in Loop /\ sessLoop' \in Loop
<1>1. CASE Socks!Bind \/ Socks!StopAccept \/ Socks!Join
  BY <1>1 DEF Socks!Bind, Socks!StopAccept, Socks!Join
<1>2. CASE Socks!Loops
  BY <1>2 DEF Socks!Loops, Socks!H!Break, Socks!H!Done, Socks!S!Break, Socks!S!Done
<1>3. ASSUME NEW c \in Client, Socks!Accept(c) PROVE Goal
  BY <1>3 DEF Socks!Accept, Socks!H!Set
<1>4. ASSUME NEW c \in Client, Socks!Offer(c) PROVE Goal
  <2>1. Moves(HsQueue, HsQueue', HsCap, Client)
    BY <1>4, HsSend DEF Socks!Offer
  <2>2. UNCHANGED <<hsLoop, sessLoop, sess>> /\ server' = "accept"
    BY <1>4 DEF Socks!Offer, Socks!H!Send
  <2> QED
    BY <2>1, <2>2
<1>5. ASSUME NEW c \in Client, Socks!HandshakeBegin(c) PROVE Goal
  BY <1>5 DEF Socks!HandshakeBegin, Socks!H!Recv, Socks!H!Set
<1>6. ASSUME NEW c \in Client, Socks!HandshakeStep(c) PROVE Goal
  BY <1>6 DEF Socks!HandshakeStep
<1>7. ASSUME NEW c \in Client, Socks!HandshakeFail(c) PROVE Goal
  BY <1>7 DEF Socks!HandshakeFail, Socks!H!Finish, Socks!H!Set
<1>8. ASSUME NEW c \in Client, Socks!HandshakePass(c) PROVE Goal
  <2>1. Moves(SessQueue, SessQueue', SessCap, Client)
    BY <1>8, SessSend DEF Socks!HandshakePass
  <2>2. UNCHANGED <<server, hsLoop, sessLoop>> /\ HsQueue' \subseteq HsQueue
    BY <1>8 DEF Socks!HandshakePass, Socks!H!Finish, Socks!H!Set, Socks!S!Send
  <2> QED
    BY <2>1, <2>2
<1>9. ASSUME NEW c \in Client, Socks!SessionBegin(c) \/ Socks!SessionEnd(c) PROVE Goal
  BY <1>9 DEF Socks!SessionBegin, Socks!SessionEnd, Socks!S!Recv, Socks!S!Finish, Socks!S!Set
<1> QED
  BY <1>1, <1>2, <1>3, <1>4, <1>5, <1>6, <1>7, <1>8, <1>9 DEF Socks!Next

\* The same for the TCP forward, whose accept loop holds one connection at most.
LEMMA TcpMoves ==
  ASSUME TcpInv, Plain, Tcp!Next
  PROVE  /\ Moves(FwdQueue, FwdQueue', FwdCap, Conn)
         /\ acceptor' \in {"bind", "accept", "join", "ok", "err"}
         /\ fwdLoop' \in Loop
         /\ held' \subseteq Conn /\ \A c, d \in held' : c = d
<1> USE DEF TcpInv, Drained, Plain, Loop, Moves, FwdQueue, Tcp!F!Stage
<1> DEFINE Goal ==
      /\ Moves(FwdQueue, FwdQueue', FwdCap, Conn)
      /\ acceptor' \in {"bind", "accept", "join", "ok", "err"}
      /\ fwdLoop' \in Loop
      /\ held' \subseteq Conn /\ \A c, d \in held' : c = d
<1>1. CASE Tcp!Bind \/ Tcp!StopAccept \/ Tcp!Join
  BY <1>1 DEF Tcp!Bind, Tcp!StopAccept, Tcp!Join
<1>2. CASE Tcp!Loop
  BY <1>2 DEF Tcp!Loop, Tcp!F!Break, Tcp!F!Done
<1>3. ASSUME NEW c \in Conn, Tcp!Accept(c) PROVE Goal
  BY <1>3 DEF Tcp!Accept, Tcp!F!Set
<1>4. ASSUME NEW c \in Conn, Tcp!Hand(c) PROVE Goal
  <2>1. Moves(FwdQueue, FwdQueue', FwdCap, Conn)
    BY <1>4, FwdSend DEF Tcp!Hand
  <2>2. fwdLoop' = fwdLoop /\ held' = {} /\ acceptor' \in {"accept", "join"}
    BY <1>4 DEF Tcp!Hand, Tcp!F!Send
  <2> QED
    BY <2>1, <2>2
<1>5. ASSUME NEW c \in Conn, Tcp!Forward(c) PROVE Goal
  BY <1>5 DEF Tcp!Forward, Tcp!F!Recv, Tcp!F!Finish, Tcp!F!Set
<1> QED
  BY <1>1, <1>2, <1>3, <1>4, <1>5 DEF Tcp!Next

\* Nothing is in a channel or held at first.
LEMMA InitPlain == Init => Plain /\ Bounds
<1> USE ProcessAssumption
<1> SUFFICES ASSUME Init PROVE Plain /\ Bounds
  OBVIOUS
<1>1. HsQueue = {} /\ SessQueue = {} /\ FwdQueue = {}
  BY DEF Init, Socks!Init, Tcp!Init, Socks!H!Init, Socks!S!Init, Tcp!F!Init, HsQueue,
     SessQueue, FwdQueue, Socks!H!Stage, Socks!S!Stage, Tcp!F!Stage
<1>2. Bounds
  BY <1>1, FS_EmptySet DEF Bounds
<1>3. Plain
  BY DEF Init, Socks!Init, Tcp!Init, Socks!H!Init, Socks!S!Init, Tcp!F!Init, Plain, Loop
<1> QED
  BY <1>2, <1>3

\* A step of one worker leaves the channels of the other alone.
LEMMA StepPlain == LInv /\ Plain /\ Bounds /\ [Next]_vars => (Plain /\ Bounds)'
<1> USE ProcessAssumption
<1> SUFFICES ASSUME LInv, Plain, Bounds, [Next]_vars PROVE Plain' /\ Bounds'
  OBVIOUS
<1>1. HsQueue \subseteq Client /\ SessQueue \subseteq Client /\ FwdQueue \subseteq Conn
  BY DEF HsQueue, SessQueue, FwdQueue, Socks!H!Stage, Socks!S!Stage, Tcp!F!Stage
<1>2. CASE SocksStep
  <2>1. UNCHANGED <<fwdVars, token, signalled, exit>>
    BY <1>2 DEF SocksStep, groupVars
  <2>2. FwdQueue' = FwdQueue
    BY <2>1 DEF fwdVars, FwdQueue, Tcp!F!Stage
  <2>3. /\ Moves(HsQueue, HsQueue', HsCap, Client)
        /\ Moves(SessQueue, SessQueue', SessCap, Client)
        /\ server' \in {"bind", "accept", "sending", "join", "ok", "err"}
        /\ hsLoop' \in Loop /\ sessLoop' \in Loop
    BY <1>2, SocksMoves DEF SocksStep, LInv
  <2>4. Bounds'
    BY <1>1, <2>2, <2>3, Bounded DEF Bounds
  <2> QED
    BY <2>1, <2>3, <2>4 DEF Plain, fwdVars
<1>3. CASE TcpStep
  <2>1. UNCHANGED <<socksVars, token, signalled, exit>>
    BY <1>3 DEF TcpStep, groupVars
  <2>2. HsQueue' = HsQueue /\ SessQueue' = SessQueue
    BY <2>1 DEF socksVars, HsQueue, SessQueue, Socks!H!Stage, Socks!S!Stage
  <2>3. /\ Moves(FwdQueue, FwdQueue', FwdCap, Conn)
        /\ acceptor' \in {"bind", "accept", "join", "ok", "err"}
        /\ fwdLoop' \in Loop
        /\ held' \subseteq Conn /\ \A c, d \in held' : c = d
    BY <1>3, TcpMoves DEF TcpStep, LInv
  <2>4. Bounds'
    BY <1>1, <2>2, <2>3, Bounded DEF Bounds
  <2> QED
    BY <2>1, <2>3, <2>4 DEF Plain, socksVars
<1>4. CASE ~SocksStep /\ ~TcpStep
  <2>1. UNCHANGED <<socksVars, fwdVars>>
    BY <1>4 DEF Next, vars, Signal, OtherEnds, Harvest, Exit, Terminated
  <2>2. HsQueue' = HsQueue /\ SessQueue' = SessQueue /\ FwdQueue' = FwdQueue
    BY <2>1 DEF socksVars, fwdVars, HsQueue, SessQueue, FwdQueue, Socks!H!Stage,
       Socks!S!Stage, Tcp!F!Stage
  <2>3. token' \in BOOLEAN /\ signalled' \in BOOLEAN /\ exit' \in {"none", "ok", "err"}
    BY <1>4 DEF Plain, Next, vars, groupVars, Signal, OtherEnds, Harvest, Exit, Terminated
  <2> QED
    BY <2>1, <2>2, <2>3 DEF Plain, Bounds, socksVars, fwdVars
<1> QED
  BY <1>2, <1>3, <1>4

\* What the theorems about types and about progress rest on.
LEMMA Invariance == Spec => [](GInv /\ LInv /\ Plain /\ Bounds)
<1>1. Spec => []LInv
  BY InitLInv, StepLInv, GroupInvariance, PTL DEF Spec
<1> QED
  BY <1>1, InitPlain, StepPlain, GroupInvariance, PTL DEF Spec

\* Every value keeps its type, none of the three channels exceeds its capacity
\* and the accept loop of a forward holds one connection at most.
THEOREM TypeCorrect == Spec => []TypeOK
<1> USE ProcessAssumption
<1>1. GInv /\ LInv /\ Plain /\ Bounds => TypeOK
  <2> SUFFICES ASSUME GInv, LInv, Plain, Bounds PROVE TypeOK
    OBVIOUS
  <2>1. Socks!Typed
    <3>1. Cardinality(Socks!H!Stage("queued")) <= HsCap /\ Cardinality(Socks!S!Stage("queued")) <= SessCap
      BY DEF Bounds, HsQueue, SessQueue
    <3>2. /\ hsLoop \in {"run", "drain", "done"} /\ sessLoop \in {"run", "drain", "done"}
          /\ hs \in [Client -> {"new", "queued", "running", "over"}]
          /\ sess \in [Client -> {"new", "queued", "running", "over"}]
      BY DEF LInv, SocksInv, Drained, Plain, Loop
    <3>3. Socks!H!Typed /\ Socks!S!Typed
      BY <3>1, <3>2, SameCount DEF Socks!H!Typed, Socks!S!Typed
    <3> QED
      BY <3>3 DEF LInv, SocksInv, Plain, Socks!Typed
  <2>2. Cardinality(held) <= 1
    <3>1. CASE held = {}
      BY <3>1, FS_EmptySet
    <3>2. ASSUME NEW c \in held PROVE Cardinality(held) <= 1
      <4>1. held = {c}
        BY DEF Plain
      <4> QED
        BY <4>1, FS_Singleton
    <3> QED
      BY <3>1, <3>2
  <2>3. Tcp!Typed
    <3>1. Cardinality(Tcp!F!Stage("queued")) <= FwdCap
      BY DEF Bounds, FwdQueue
    <3>2. /\ fwdLoop \in {"run", "drain", "done"}
          /\ fwd \in [Conn -> {"new", "queued", "running", "over"}]
      BY DEF LInv, TcpInv, Drained, Plain, Loop
    <3>3. Tcp!F!Typed
      BY <3>1, <3>2, SameCount DEF Tcp!F!Typed
    <3> QED
      BY <2>2, <3>3, SameCount DEF Plain, Tcp!Typed
  <2>4. firstErr \in Worker \cup {NoWorker} /\ joined \subseteq Worker
    BY DEF GInv, Recorded
  <2> QED
    BY <2>1, <2>3, <2>4 DEF GInv, Plain, TypeOK
<1> QED
  BY <1>1, Invariance, PTL

-----------------------------------------------------------------------------
(* Nothing of the group waits for ever *)

\* What the loops wait for is there: a client on whose behalf the accept loop
\* sends, and a step of every handshake that runs; and an error that has been
\* joined has told the others.
SocksWaits ==
    /\ server = "sending" => \E c \in Client : step[c] = "offered"
    /\ \A c \in Client :
        /\ step[c] = "offered" => hs[c] = "new"
        /\ hs[c] = "running" => step[c] \in {"auth", "request", "passing"}

Waits ==
    /\ SocksWaits
    /\ (\E w \in joined : Result(w) = "err") => token

\* A step of the SOCKS5 server leaves it something to wait for.
LEMMA SocksWaitsOn == ASSUME SocksInv, SocksWaits, Socks!Next PROVE SocksWaits'
<1> USE DEF SocksInv, SocksWaits, Drained
<1>1. CASE Socks!Bind \/ Socks!StopAccept \/ Socks!Join
  BY <1>1 DEF Socks!Bind, Socks!StopAccept, Socks!Join
<1>2. CASE Socks!Loops
  BY <1>2 DEF Socks!Loops, Socks!H!Break, Socks!H!Done, Socks!S!Break, Socks!S!Done
<1>3. ASSUME NEW c \in Client, Socks!Accept(c) PROVE SocksWaits'
  BY <1>3 DEF Socks!Accept, Socks!Go, Socks!H!Set
<1>4. ASSUME NEW c \in Client, Socks!Offer(c) PROVE SocksWaits'
  BY <1>4 DEF Socks!Offer, Socks!Go, Socks!H!Send, Socks!H!Set
<1>5. ASSUME NEW c \in Client, Socks!HandshakeBegin(c) PROVE SocksWaits'
  <2>1. /\ hs' = [hs EXCEPT ![c] = "running"] /\ hs[c] = "queued"
        /\ step' = [step EXCEPT ![c] = "auth"] /\ server' = server
    BY <1>5 DEF Socks!HandshakeBegin, Socks!Go, Socks!H!Recv, Socks!H!Set
  <2>2. ASSUME server = "sending" PROVE \E d \in Client : step'[d] = "offered"
    <3>1. PICK d \in Client : step[d] = "offered"
      BY <2>2
    <3> QED
      BY <2>1, <3>1
  <2>3. \A d \in Client : hs'[d] = "running" => step'[d] \in {"auth", "request", "passing"}
    BY <2>1
  <2>4. \A d \in Client : step'[d] = "offered" => hs'[d] = "new"
    BY <2>1
  <2> QED
    BY <2>1, <2>2, <2>3, <2>4
<1>6. ASSUME NEW c \in Client, Socks!HandshakeStep(c) PROVE SocksWaits'
  BY <1>6 DEF Socks!HandshakeStep, Socks!Go
<1>7. ASSUME NEW c \in Client, Socks!HandshakeFail(c) PROVE SocksWaits'
  BY <1>7 DEF Socks!HandshakeFail, Socks!Go, Socks!H!Finish, Socks!H!Set
<1>8. ASSUME NEW c \in Client, Socks!HandshakePass(c) PROVE SocksWaits'
  BY <1>8 DEF Socks!HandshakePass, Socks!Go, Socks!H!Finish, Socks!H!Set
<1>9. ASSUME NEW c \in Client, Socks!SessionBegin(c) \/ Socks!SessionEnd(c) PROVE SocksWaits'
  BY <1>9 DEF Socks!SessionBegin, Socks!SessionEnd
<1> QED
  BY <1>1, <1>2, <1>3, <1>4, <1>5, <1>6, <1>7, <1>8, <1>9 DEF Socks!Next

\* Nothing waits before the workers start.
LEMMA InitWaits == Init => Waits
  BY DEF Init, Socks!Init, Socks!H!Init, Waits, SocksWaits

\* Only Harvest joins a worker, and with an error it cancels the others.
LEMMA StepWaits == GInv /\ LInv /\ Waits /\ [Next]_vars => Waits'
<1> SUFFICES ASSUME GInv, LInv, Waits, [Next]_vars PROVE Waits'
  OBVIOUS
<1>1. SocksWaits'
  <2>1. CASE SocksStep
    BY <2>1, SocksWaitsOn DEF SocksStep, LInv, Waits
  <2>2. CASE ~SocksStep
    <3>1. UNCHANGED socksVars
      BY <2>2 DEF Next, vars, Signal, OtherEnds, Harvest, Exit, TcpStep, Terminated
    <3> QED
      BY <3>1 DEF Waits, SocksWaits, socksVars
  <2> QED
    BY <2>1, <2>2
<1>2. ASSUME NEW w \in joined', Result(w)' = "err" PROVE token'
  <2>1. \A v \in joined : Result(v)' = Result(v)
    BY ResultsFinal DEF GInv, Ended, Final, Recorded
  <2>2. token => token'
    BY DEF Next, vars, Signal, OtherEnds, Harvest, Exit, SocksStep, TcpStep, Terminated
  <2>3. CASE w \in joined
    BY <1>2, <2>1, <2>2, <2>3 DEF Waits
  <2>4. CASE w \notin joined
    <3>1. w \in Worker /\ Harvest(w)
      BY <2>4 DEF Next, vars, groupVars, Signal, OtherEnds, Harvest, Exit, SocksStep, TcpStep, Terminated
    <3>2. Result(w)' = Result(w)
      BY <3>1, ResultsFinal DEF Harvest, Ended, Final
    <3> QED
      BY <1>2, <3>1, <3>2 DEF Harvest
  <2> QED
    BY <2>3, <2>4
<1> QED
  BY <1>1, <1>2 DEF Waits

\* A channel that takes nothing more is full, and so its loop has work.
LEMMA FullServes ==
    /\ Socks!H!Receives \/ Socks!H!LoopMoves
    /\ Socks!S!Receives \/ Socks!S!LoopMoves
    /\ Tcp!F!Receives \/ Tcp!F!LoopMoves
<1> USE ProcessAssumption, FS_EmptySet
<1>1. Socks!H!Receives \/ Socks!H!LoopMoves
  <2>1. Socks!H!Stage("queued") = {} => Socks!H!Cardinality(Socks!H!Stage("queued")) < HsCap
    BY SameCount
  <2> QED
    BY <2>1 DEF Socks!H!Receives, Socks!H!LoopMoves
<1>2. Socks!S!Receives \/ Socks!S!LoopMoves
  <2>1. Socks!S!Stage("queued") = {} => Socks!S!Cardinality(Socks!S!Stage("queued")) < SessCap
    BY SameCount
  <2> QED
    BY <2>1 DEF Socks!S!Receives, Socks!S!LoopMoves
<1>3. Tcp!F!Receives \/ Tcp!F!LoopMoves
  <2>1. Tcp!F!Stage("queued") = {} => Tcp!F!Cardinality(Tcp!F!Stage("queued")) < FwdCap
    BY SameCount
  <2> QED
    BY <2>1 DEF Tcp!F!Receives, Tcp!F!LoopMoves
<1> QED
  BY <1>1, <1>2, <1>3

\* A SOCKS5 server that is told to end goes on until it has, but for a client
\* that keeps its request to itself.
LEMMA SocksEnds ==
  ASSUME LInv, Plain, Waits, token, ~Ended("socks5")
  PROVE  Socks!Moves \/ Socks!Stalled
<1>1. server \in {"bind", "accept", "sending", "join"}
  BY DEF Ended, Result, Plain
<1>2. CASE server \in {"bind", "accept"}
  BY <1>2 DEF Socks!Moves
<1>3. CASE server = "sending"
  BY <1>3, FullServes DEF Socks!Moves, Waits, SocksWaits
<1>4. CASE server = "join"
  <2>1. hsLoop \in {"run", "drain", "done"} /\ sessLoop \in {"run", "drain", "done"}
    BY DEF Plain, Loop
  <2>2. CASE hsLoop = "run"
    BY <2>2 DEF Socks!Moves, Socks!H!LoopMoves
  <2>3. CASE hsLoop = "drain" /\ Socks!H!Stage("running") = {}
    BY <2>3 DEF Socks!Moves, Socks!H!LoopMoves
  <2>4. CASE Socks!H!Stage("running") # {}
    <3>1. PICK c \in Client : hs[c] = "running"
      BY <2>4 DEF Socks!H!Stage
    <3>2. step[c] \in {"auth", "request", "passing"}
      BY <3>1 DEF Waits, SocksWaits
    <3> QED
      BY <3>2, FullServes DEF Socks!Moves, Socks!Stalled
  <2>5. CASE hsLoop = "done" /\ sessLoop \in {"run", "drain"}
    BY <2>5 DEF Socks!Moves, Socks!S!LoopMoves
  <2>6. CASE hsLoop = "done" /\ sessLoop = "done"
    BY <1>4, <2>6 DEF Socks!Moves
  <2> QED
    BY <2>1, <2>2, <2>3, <2>4, <2>5, <2>6
<1> QED
  BY <1>1, <1>2, <1>3, <1>4

\* A TCP forward that is told to end goes on until it has.
LEMMA TcpEnds == ASSUME Plain, token, ~Ended("forward") PROVE Tcp!Moves
<1>1. acceptor \in {"bind", "accept", "join"} /\ fwdLoop \in {"run", "drain", "done"}
  BY DEF Ended, Result, Plain, Loop
<1>2. CASE acceptor = "bind"
  BY <1>2 DEF Tcp!Moves
<1>3. CASE acceptor = "accept"
  BY <1>3, FullServes DEF Tcp!Moves
<1>4. CASE acceptor = "join"
  BY <1>1, <1>4 DEF Tcp!Moves, Tcp!F!LoopMoves
<1> QED
  BY <1>1, <1>2, <1>3, <1>4

\* Who sends into a full channel waits only for a loop that goes on.  Told to end,
\* the SOCKS5 server, unless an authenticated client keeps its request to itself,
\* and the TCP forward go on until they have, and the process always has a worker
\* to harvest, or one that has been told: no sender, loop, accept loop or
\* join_next waits for another in a circle.
THEOREM NeverStuckHolds == Spec => []NeverStuck
<1>1. ASSUME GInv, LInv, Plain, Waits PROVE NeverStuck
  <2> USE <1>1
  <2>1. server = "sending" \/ (\E c \in Client : step[c] = "passing") => Socks!Moves
    BY FullServes DEF Waits, SocksWaits, Socks!Moves
  <2>2. held # {} => Tcp!Moves
    BY FullServes DEF LInv, TcpInv, Tcp!Moves
  <2>3. token => /\ Ended("socks5") \/ Socks!Moves \/ Socks!Stalled
                 /\ Ended("forward") \/ Tcp!Moves
    BY SocksEnds, TcpEnds
  <2>4. ASSUME exit = "none", token \/ \E w \in Worker : Result(w) = "err"
        PROVE  GroupMoves \/ (token /\ \E w \in Worker : ~Ended(w))
    <3>1. CASE \E w \in Worker \ joined : Ended(w)
      BY <3>1 DEF GroupMoves
    <3>2. CASE joined = Worker
      BY <2>4, <3>2 DEF GroupMoves
    <3>3. CASE joined # Worker /\ ~ \E w \in Worker \ joined : Ended(w)
      <4>1. token
        BY <2>4, <3>3 DEF Waits, Ended
      <4>2. PICK w \in Worker \ joined : ~Ended(w)
        BY <3>3 DEF GInv, Recorded
      <4> QED
        BY <4>1, <4>2
    <3> QED
      BY <3>1, <3>2, <3>3
  <2> QED
    BY <2>1, <2>2, <2>3, <2>4 DEF NeverStuck
<1>2. Spec => []Waits
  BY InitWaits, StepWaits, Invariance, PTL DEF Spec
<1> QED
  BY <1>1, <1>2, Invariance, PTL

=============================================================================
