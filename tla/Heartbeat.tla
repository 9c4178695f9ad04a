----------------------------- MODULE Heartbeat -----------------------------
(***************************************************************************)
(* The heartbeat between the two ends of a connection, with explicit time: *)
(* make_first_heartbeat and the heartbeat loop of src/crab/nodes.rs over    *)
(* ProtoWrapper::heartbeat and heartbeat_as_client of                       *)
(* src/crab/proto/hook_wrapper.rs.                                          *)
(*                                                                         *)
(* The end that accepted the connection (as_client, "asker") sleeps, sends *)
(* a heartbeat, waits for the reply without a timeout and acknowledges it. *)
(* The end that dialled ("server") waits for heartbeat and acknowledgement *)
(* under one timeout.  The very first round is timed at both ends.         *)
(*                                                                         *)
(* The hooks of AppProtocol cannot fail, so the error frames are left out: *)
(* a round fails when a read or a write does, when it times out or when    *)
(* the token fires.  QUIC, its delays and its idle timeout are external;   *)
(* no transport option is set, so the heartbeats are all that keeps an     *)
(* unused connection from being idle.                                      *)
(***************************************************************************)
EXTENDS Naturals, Sequences

CONSTANTS
    FirstTimeout,   \* options.first_heartbeat
    Interval,       \* options.heartbeat_interval
    HbTimeout,      \* options.heartbeat_timeout
    IdleTimeout,    \* max_idle_timeout of QUIC
    MaxDelay,       \* bound on the way of a message (a bound)
    MaxSkew         \* bound between the two calls of serve (a bound)

ASSUME OptionsAssumption ==
    /\ FirstTimeout \in Nat
    /\ Interval \in Nat
    /\ HbTimeout \in Nat
    /\ IdleTimeout \in Nat
    /\ MaxDelay \in Nat \ {0}
    /\ MaxSkew \in Nat

VARIABLES
    pc,         \* what each end waits for
    first,      \* the first round is not over
    timer,      \* since the sleep, the round or the other end's start began
    flight,     \* ages of the messages on their way to each end
    quiet,      \* since the end heard of the other: QUIC's idle timer
    lost,       \* reads and writes of the end fail
    silent,     \* nothing gets through any more
    silentFor,  \* time since then
    stopped     \* the token of some end has fired

vars == <<pc, first, timer, flight, quiet, lost, silent, silentFor, stopped>>

Ends == {"asker", "server"}

Peer(p) == IF p = "asker" THEN "server" ELSE "asker"

TypeOK ==
    /\ pc \in [Ends -> {"new", "sleep", "reply", "heartbeat", "ack", "ended"}]
    /\ first \in [Ends -> BOOLEAN]
    /\ timer \in [Ends -> 0 .. MaxSkew + FirstTimeout + Interval + HbTimeout]
    /\ \A p \in Ends : Len(flight[p]) <= 2 /\ \A i \in 1 .. Len(flight[p]) : flight[p][i] <= MaxDelay
    /\ quiet \in [Ends -> 0 .. IdleTimeout]
    /\ lost \in [Ends -> BOOLEAN]
    /\ silent \in BOOLEAN
    /\ stopped \in BOOLEAN

Init ==
    /\ pc = [p \in Ends |-> "new"]
    /\ first = [p \in Ends |-> TRUE]
    /\ timer = [p \in Ends |-> 0]
    /\ flight = [p \in Ends |-> <<>>]
    /\ quiet = [p \in Ends |-> 0]
    /\ lost = [p \in Ends |-> FALSE]
    /\ silent = FALSE
    /\ silentFor = 0
    /\ stopped = FALSE

-----------------------------------------------------------------------------
(* Time *)

Reading(p) == pc[p] \in {"reply", "heartbeat", "ack"} /\ ~lost[p]

\* A message has been on its way for as long as it can be.
Due(p) == Reading(p) /\ flight[p] # <<>> /\ Head(flight[p]) = MaxDelay

\* Mutant: only the first round of the server is timed.
DeadlineFirst(p) ==
    CASE pc[p] = "new" -> {MaxSkew}
      [] pc[p] = "sleep" -> {Interval}
      [] pc[p] = "ended" -> {}
      [] OTHER -> IF first[p] THEN {FirstTimeout} ELSE {}

\* The timers that run at an end: at most one.
Deadline(p) ==
    CASE pc[p] = "new" -> {MaxSkew}
      [] pc[p] = "sleep" -> {Interval}
      [] pc[p] = "ended" -> {}
      [] OTHER -> IF first[p] THEN {FirstTimeout} ELSE IF p = "server" THEN {HbTimeout} ELSE {}

Expired(p) == timer[p] \in Deadline(p)

\* An end that has not ended and whose connection has failed is told at once,
\* unless it sleeps.
Told(p) == lost[p] /\ pc[p] \in {"new", "reply", "heartbeat", "ack"}

\* Time, counted from the first call of serve, passes when nothing is due.
Tick ==
    /\ \E p \in Ends : pc[p] # "new"
    /\ \E p \in Ends : pc[p] # "ended"
    /\ \A p \in Ends : ~Due(p) /\ ~Expired(p) /\ ~Told(p) /\ (quiet[p] < IdleTimeout \/ lost[p])
    /\ timer' = [p \in Ends |-> IF Deadline(p) = {} THEN 0 ELSE timer[p] + 1]
    /\ flight' = [p \in Ends |->
           [i \in 1 .. Len(flight[p]) |-> IF flight[p][i] < MaxDelay THEN flight[p][i] + 1 ELSE MaxDelay]]
    /\ quiet' = [p \in Ends |-> IF lost[p] THEN quiet[p] ELSE quiet[p] + 1]
    /\ silentFor' = IF silent THEN silentFor + 1 ELSE 0
    /\ UNCHANGED <<pc, first, lost, silent, stopped>>

-----------------------------------------------------------------------------
(* The rounds *)

Env == <<lost, silent, silentFor, stopped>>

Go(p, what) == pc' = [pc EXCEPT ![p] = what]

Restart(p) == timer' = [timer EXCEPT ![p] = 0]

\* A message leaves for the other end.  Whether it restarts the idle timer
\* depends on the packets QUIC acknowledged before, which the model leaves out.
Send(p) ==
    /\ flight' = [flight EXCEPT ![Peer(p)] = IF silent THEN @ ELSE Append(@, 0)]
    /\ quiet' \in {quiet, [quiet EXCEPT ![p] = 0]}

Arrived(p, what) ==
    /\ pc[p] = what
    /\ Reading(p)
    /\ flight[p] # <<>>
    /\ quiet' = [quiet EXCEPT ![p] = 0]

\* Read one message and write the next.
Respond(p) ==
    flight' = [flight EXCEPT ![p] = Tail(@),
                             ![Peer(p)] = IF silent THEN @ ELSE Append(@, 0)]

\* serve begins: the asker opens the stream and sends the first heartbeat.
Start(p) ==
    /\ pc[p] = "new"
    /\ ~lost[p]
    /\ Restart(p)
    /\ IF p = "asker" THEN Go(p, "reply") /\ Send(p)
                      ELSE Go(p, "heartbeat") /\ UNCHANGED <<flight, quiet>>
    /\ UNCHANGED <<first, Env>>

\* The sleep of heartbeat_as_client is over.
Beat ==
    /\ pc["asker"] = "sleep"
    /\ Expired("asker")
    /\ ~lost["asker"]
    /\ Go("asker", "reply")
    /\ Restart("asker")
    /\ Send("asker")
    /\ UNCHANGED <<first, Env>>

\* Mutant: the server does not wait for the acknowledgement of its reply.
ReadHeartbeatOnly ==
    /\ Arrived("server", "heartbeat")
    /\ Respond("server")
    /\ Go("server", "heartbeat")
    /\ Restart("server")
    /\ first' = [first EXCEPT !["server"] = FALSE]
    /\ UNCHANGED Env

\* The server reads the heartbeat and replies, still under the same timeout.
ReadHeartbeat ==
    /\ Arrived("server", "heartbeat")
    /\ Respond("server")
    /\ Go("server", "ack")
    /\ UNCHANGED <<first, timer, Env>>

\* The asker reads the reply and acknowledges it: its round is over.
ReadReply ==
    /\ Arrived("asker", "reply")
    /\ Respond("asker")
    /\ Go("asker", "sleep")
    /\ Restart("asker")
    /\ first' = [first EXCEPT !["asker"] = FALSE]
    /\ UNCHANGED Env

\* Mutant: one timeout for all rounds.
ReadAckKeepsTimer ==
    /\ Arrived("server", "ack")
    /\ flight' = [flight EXCEPT !["server"] = Tail(@)]
    /\ Go("server", "heartbeat")
    /\ first' = [first EXCEPT !["server"] = FALSE]
    /\ UNCHANGED <<timer, Env>>

\* The server reads the acknowledgement; its next round begins at once.
ReadAck ==
    /\ Arrived("server", "ack")
    /\ flight' = [flight EXCEPT !["server"] = Tail(@)]
    /\ Go("server", "heartbeat")
    /\ Restart("server")
    /\ first' = [first EXCEPT !["server"] = FALSE]
    /\ UNCHANGED Env

-----------------------------------------------------------------------------
(* The ways a round fails: serve leaves its loop *)

End(p) ==
    /\ Go(p, "ended")
    /\ UNCHANGED <<first, timer, flight, quiet>>

\* timeout: the round itself is looked at first.
Expire(p) ==
    /\ pc[p] \in {"reply", "heartbeat", "ack"}
    /\ Expired(p)
    /\ ~Due(p)
    /\ End(p)
    /\ UNCHANGED Env

\* A read or a write of a lost connection.
Fail(p) ==
    /\ lost[p]
    /\ pc[p] # "ended"
    /\ pc[p] = "sleep" => Expired(p)
    /\ End(p)
    /\ UNCHANGED Env

\* cancel.cancelled()
Stop(p) ==
    /\ pc[p] # "ended"
    /\ End(p)
    /\ stopped' = TRUE
    /\ UNCHANGED <<lost, silent, silentFor>>

-----------------------------------------------------------------------------
(* The connection (external) *)

Connection == <<pc, first, timer, stopped>>

\* An end that is done drops its connection, which tells the other end.
Close(p) ==
    /\ pc[p] = "ended"
    /\ ~lost[p]
    /\ lost' = [q \in Ends |-> q = p \/ ~silent \/ lost[q]]
    /\ UNCHANGED <<Connection, flight, quiet, silent, silentFor>>

\* Commands on other streams keep the connection from being idle.
Traffic(p) ==
    /\ ~silent
    /\ ~lost[p] /\ ~lost[Peer(p)]
    /\ quiet' = [quiet EXCEPT ![p] = 0]
    /\ UNCHANGED <<Connection, flight, Env>>

IdleOut(p) ==
    /\ ~lost[p]
    /\ quiet[p] = IdleTimeout
    /\ ~Due(p)
    /\ lost' = [lost EXCEPT ![p] = TRUE]
    /\ UNCHANGED <<Connection, flight, quiet, silent, silentFor>>

\* The network or one of the processes stops for good, with or without what is
\* on its way.
Silence ==
    /\ ~silent
    /\ silent' = TRUE
    /\ silentFor' = 0
    /\ \E kept \in SUBSET Ends :
           flight' = [p \in Ends |-> IF p \in kept THEN flight[p] ELSE <<>>]
    /\ UNCHANGED <<Connection, quiet, lost>>

\* Both ends have left their loops.
Terminated ==
    /\ \A p \in Ends : pc[p] = "ended"
    /\ UNCHANGED vars

Next ==
    \/ Tick
    \/ Beat \/ ReadHeartbeat \/ ReadReply \/ ReadAck
    \/ \E p \in Ends :
          \/ Start(p)
          \/ Expire(p) \/ Fail(p) \/ Stop(p)
          \/ Close(p) \/ Traffic(p) \/ IdleOut(p)
    \/ Silence
    \/ Terminated

Spec == Init /\ [][Next]_vars

-----------------------------------------------------------------------------
(* Safety *)

\* The options leave room for three messages and for one end to begin late.
Timely ==
    /\ FirstTimeout >= MaxSkew + 3 * MaxDelay
    /\ HbTimeout >= Interval + 3 * MaxDelay
    /\ IdleTimeout >= MaxSkew + 2 * MaxDelay
    /\ IdleTimeout >= Interval + 2 * MaxDelay

\* With such options no heartbeat fails while messages get through and no end is
\* told to stop: neither timeout of nodes.rs, nor QUIC's, ends a healthy node.
NoFalseAlarm ==
    Timely /\ ~silent /\ ~stopped => \A p \in Ends : pc[p] # "ended" /\ ~lost[p]

\* An end that has got past its first round notices a silent peer in bounded
\* time: the server by its timeout; the asker, which waits for the reply without
\* one, only by QUIC's idle timeout after its next write.
SilenceNoticed ==
    /\ ~first["server"] /\ pc["server"] # "ended" => silentFor <= MaxDelay + HbTimeout
    /\ ~first["asker"] /\ pc["asker"] # "ended" => silentFor <= MaxDelay + Interval + IdleTimeout

=============================================================================
