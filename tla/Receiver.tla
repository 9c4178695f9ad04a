------------------------------ MODULE Receiver ------------------------------
(***************************************************************************)
(* A bounded channel of jobs and the loop that serves them, each in a task *)
(* of its own: OnceWorker for Receiver<T> in src/crab/utils/runit.rs, and  *)
(* serve_all_workers, which is the same loop.  Modules that use such a     *)
(* pipeline instantiate this one for each stage.                           *)
(*                                                                         *)
(* The loop also ends when every sender is dropped.  Both users keep a     *)
(* sender until the loop has been joined, so that this never happens here. *)
(***************************************************************************)
EXTENDS Naturals, FiniteSets

CONSTANTS
    Job,    \* what can be sent
    Cap     \* capacity of the channel

VARIABLES
    token,  \* the CancellationToken of the loop
    loop,   \* Receiver::serve
    job     \* each job

Stage(s) == {j \in Job : job[j] = s}

Typed ==
    /\ loop \in {"run", "drain", "done"}
    /\ job \in [Job -> {"new", "queued", "running", "over"}]
    /\ Cardinality(Stage("queued")) <= Cap

Init ==
    /\ loop = "run"
    /\ job = [j \in Job |-> "new"]

Set(j, s) == job' = [job EXCEPT ![j] = s]

Unchanged == UNCHANGED <<loop, job>>

\* Mutant: an unbounded channel.
SendUnbounded(j) ==
    /\ Set(j, IF loop = "run" THEN "queued" ELSE "over")
    /\ UNCHANGED loop

\* tx.send(j).await comes back: with room, or because the receiver is gone.
Send(j) ==
    /\ \/ /\ loop = "run"
          /\ Cardinality(Stage("queued")) < Cap
          /\ Set(j, "queued")
       \/ /\ loop # "run"
          /\ Set(j, "over")
    /\ UNCHANGED loop

Recv(j) ==
    /\ loop = "run"
    /\ job[j] = "queued"
    /\ Set(j, "running")
    /\ UNCHANGED loop

Finish(j) ==
    /\ job[j] = "running"
    /\ Set(j, "over")
    /\ UNCHANGED loop

\* The token ends the loop; the receiver is dropped with what is queued.
Break ==
    /\ loop = "run"
    /\ token
    /\ loop' = "drain"
    /\ job' = [j \in Job |-> IF job[j] = "queued" THEN "over" ELSE job[j]]

\* Every task of the JoinSet has been joined.
Done ==
    /\ loop = "drain"
    /\ Stage("running") = {}
    /\ loop' = "done"
    /\ UNCHANGED job

\* A send comes back.
Receives == loop # "run" \/ Cardinality(Stage("queued")) < Cap

\* The loop goes on, but for its tasks.
LoopMoves ==
    \/ loop = "run" /\ (token \/ Stage("queued") # {})
    \/ loop = "drain" /\ Stage("running") = {}

\* Nothing is queued or running.
Quiet == loop = "done" /\ Stage("queued") \cup Stage("running") = {}

=============================================================================
