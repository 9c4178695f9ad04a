-------------------------- MODULE HeartbeatProofs ---------------------------
(***************************************************************************)
(* Proofs about Heartbeat, for every choice of the timeouts, of the delay  *)
(* of a message and of the skew between the two ends.                      *)
(*                                                                         *)
(* The state is looked at through scalars, one for each end or direction,  *)
(* and a step through what it does to these.  The invariants are about     *)
(* linear arithmetic then.                                                 *)
(***************************************************************************)
EXTENDS Heartbeat, TLAPS

\* The asker and the server: where they are, their first round, timers, idle
\* timers and connections.
A == pc["asker"]
S == pc["server"]
FA == first["asker"]
FS == first["server"]
TA == timer["asker"]
TS == timer["server"]
QA == quiet["asker"]
QS == quiet["server"]
LA == lost["asker"]
LS == lost["server"]

\* What is on its way to the server, how many messages and how old the first and
\* the second is, and the same for the asker.
ToS == flight["server"]
NS == Len(ToS)
S1 == ToS[1]
S2 == ToS[2]
ToA == flight["asker"]
NA == Len(ToA)
A1 == ToA[1]

Ages == 0 .. MaxDelay

Typed ==
    /\ pc \in [Ends -> {"new", "sleep", "reply", "heartbeat", "ack", "ended"}]
    /\ A \in {"new", "sleep", "reply", "ended"} /\ S \in {"new", "heartbeat", "ack", "ended"}
    /\ first \in [Ends -> BOOLEAN]
    /\ timer \in [Ends -> Nat]
    /\ flight \in [Ends -> Seq(Ages)]
    /\ quiet \in [Ends -> 0 .. IdleTimeout]
    /\ lost \in [Ends -> BOOLEAN]
    /\ silent \in BOOLEAN /\ silentFor \in Nat
    /\ stopped \in BOOLEAN

\* The types of the scalars.
Scalar ==
    /\ A \in {"new", "sleep", "reply", "ended"} /\ S \in {"new", "heartbeat", "ack", "ended"}
    /\ TA \in Nat /\ TS \in Nat /\ QA \in 0 .. IdleTimeout /\ QS \in 0 .. IdleTimeout
    /\ NS \in Nat /\ NA \in Nat
    /\ NS >= 1 => S1 \in Ages
    /\ NS >= 2 => S2 \in Ages
    /\ NA >= 1 => A1 \in Ages
    /\ silentFor \in Nat

-----------------------------------------------------------------------------
(* Messages and timers *)

\* What is under way, and what each end may still send, is conserved: a reply
\* has its acknowledgement and the next heartbeat before it.
Budget ==
    NS + 2 * NA + (IF A \in {"new", "sleep"} THEN 1 ELSE 0)
                + (IF S \in {"new", "heartbeat"} THEN 1 ELSE 0) <= 2

\* No timer runs past its deadline, and no message overtakes another.
Timers ==
    /\ A = "new" => FA /\ TA <= MaxSkew
    /\ S = "new" => FS /\ TS <= MaxSkew
    /\ A = "sleep" => ~FA /\ TA <= Interval
    /\ A = "reply" /\ FA => TA <= FirstTimeout
    /\ S \in {"heartbeat", "ack"} => TS <= IF FS THEN FirstTimeout ELSE HbTimeout
    /\ NS = 2 => S2 <= S1

\* What timers are left at when nothing looks at them any more.
Longest == MaxSkew + FirstTimeout + Interval + HbTimeout

TInv == Budget /\ Timers /\ TA <= Longest /\ TS <= Longest

-----------------------------------------------------------------------------
(* Silence *)

\* What was sent before the silence is as old as that; only a server that has
\* just begun may find an older heartbeat, and hears no more after it.
Heard ==
    silent =>
        /\ A = "reply" /\ NA >= 1 => silentFor <= A1
        /\ S \in {"heartbeat", "ack"} =>
               \/ (NS >= 1 => silentFor <= S1) /\ (NS >= 2 => silentFor <= S2)
               \/ S = "heartbeat" /\ FS /\ NS = 1

\* How long an end can have been waiting since.
Waited ==
    /\ ~silent => silentFor = 0
    /\ S \in {"heartbeat", "ack"} /\ ~FS => silentFor <= MaxDelay + TS
    /\ A = "sleep" => silentFor <= MaxDelay + TA
    /\ A = "reply" /\ ~FA => silentFor <= MaxDelay + Interval + QA

SInv == Heard /\ Waited

-----------------------------------------------------------------------------
(* A healthy connection *)

\* How late the round of the server may begin.
Slack == IF FS THEN MaxSkew ELSE Interval

\* Both ends have yet to begin, or one of them has.
Beginning ==
    /\ FA /\ FS /\ NA = 0
    /\ TA = TS /\ TA <= MaxSkew /\ QA <= TA /\ QS <= TA
    /\ \/ A = "new" /\ S = "new" /\ TA = 0 /\ NS = 0
       \/ A = "new" /\ S = "heartbeat" /\ NS = 0
       \/ A = "reply" /\ S = "new" /\ NS = 1

\* The heartbeat is on its way, ...
Asked ==
    /\ A = "reply" /\ S = "heartbeat" /\ NS = 1 /\ NA = 0
    /\ TS <= Slack + S1
    /\ FA <=> FS
    /\ FA => TA <= MaxSkew + S1
    /\ QA <= Slack + S1 /\ QS <= Slack + S1

\* ... or the reply, ...
Replied ==
    /\ A = "reply" /\ S = "ack" /\ NS = 0 /\ NA = 1
    /\ TS <= Slack + MaxDelay + A1
    /\ FA <=> FS
    /\ FA => TA <= MaxSkew + MaxDelay + A1
    /\ QA <= Slack + MaxDelay + A1 /\ QS <= A1

\* ... or the acknowledgement, perhaps with the next heartbeat behind it, ...
Acked ==
    /\ S = "ack" /\ ~FA /\ NA = 0
    /\ TS <= Slack + 2 * MaxDelay + S1
    /\ QS <= MaxDelay + S1
    /\ \/ A = "sleep" /\ NS = 1 /\ TA = S1 /\ TA <= Interval /\ QA <= TA
       \/ A = "reply" /\ NS = 2 /\ S1 = S2 + Interval /\ QA <= S1

\* ... or nothing before the next heartbeat.
Resting ==
    /\ A = "sleep" /\ S = "heartbeat" /\ ~FA /\ ~FS /\ NS = 0 /\ NA = 0
    /\ TS <= TA /\ TA <= Interval /\ QA <= TA /\ QS <= TA

Rounds == Beginning \/ Asked \/ Replied \/ Acked \/ Resting

HInv == Timely /\ ~silent /\ ~stopped => Rounds /\ ~LA /\ ~LS

IInv == Typed /\ TInv /\ SInv /\ HInv

-----------------------------------------------------------------------------
(* What a step does to the scalars *)

KeepS == UNCHANGED <<NS, S1, S2>>
KeepA == UNCHANGED <<NA, A1>>

TakeS == NS >= 1 /\ NS' = NS - 1 /\ (NS >= 2 => S1' = S2)
TakeA == NA >= 1 /\ NA' = NA - 1

GiveS ==
    IF silent THEN KeepS
    ELSE /\ NS' = NS + 1
         /\ NS = 0 => S1' = 0
         /\ NS = 1 => S1' = S1 /\ S2' = 0
GiveA == IF silent THEN KeepA ELSE NA' = NA + 1 /\ (NA = 0 => A1' = 0)

KeepEnv == UNCHANGED <<LA, LS, silent, silentFor, stopped>>
KeepRounds == UNCHANGED <<A, S, FA, FS, TA, TS>>

AskerBegins ==
    /\ A \in {"new", "sleep"} /\ A' = "reply" /\ TA' = 0
    /\ A = "sleep" => TA = Interval
    /\ GiveS /\ KeepA /\ QA' \in {0, QA} /\ QS' = QS
    /\ UNCHANGED <<S, FA, FS, TS>> /\ KeepEnv

ServerBegins ==
    /\ S = "new" /\ S' = "heartbeat" /\ TS' = 0
    /\ KeepS /\ KeepA /\ UNCHANGED <<A, FA, FS, TA, QA, QS>> /\ KeepEnv

ServerReplies ==
    /\ S = "heartbeat" /\ ~LS /\ S' = "ack"
    /\ TakeS /\ GiveA /\ QS' = 0
    /\ UNCHANGED <<A, FA, FS, TA, TS, QA>> /\ KeepEnv

AskerAcks ==
    /\ A = "reply" /\ ~LA /\ A' = "sleep" /\ TA' = 0 /\ FA' = FALSE
    /\ TakeA /\ GiveS /\ QA' = 0
    /\ UNCHANGED <<S, FS, TS, QS>> /\ KeepEnv

ServerDone ==
    /\ S = "ack" /\ ~LS /\ S' = "heartbeat" /\ TS' = 0 /\ FS' = FALSE
    /\ TakeS /\ KeepA /\ QS' = 0
    /\ UNCHANGED <<A, FA, TA, QA>> /\ KeepEnv

Older(a) == IF a < MaxDelay THEN a + 1 ELSE MaxDelay

\* Neither end is new forever, is owed a message or has a timer that expires.
Time ==
    /\ A # "new" \/ S # "new"
    /\ A = "reply" => ~LA /\ (NA >= 1 => A1 # MaxDelay) /\ (FA => TA # FirstTimeout)
    /\ S \in {"heartbeat", "ack"} =>
          ~LS /\ (NS >= 1 => S1 # MaxDelay) /\ TS # IF FS THEN FirstTimeout ELSE HbTimeout
    /\ A = "new" => TA # MaxSkew
    /\ S = "new" => TS # MaxSkew
    /\ A = "sleep" => TA # Interval
    /\ UNCHANGED <<A, S, FA, FS, LA, LS, silent, stopped>>
    /\ TA' = IF A = "ended" \/ (A = "reply" /\ ~FA) THEN 0 ELSE TA + 1
    /\ TS' = IF S = "ended" THEN 0 ELSE TS + 1
    /\ QA' = IF LA THEN QA ELSE QA + 1
    /\ QS' = IF LS THEN QS ELSE QS + 1
    /\ silentFor' = IF silent THEN silentFor + 1 ELSE 0
    /\ NS' = NS /\ NA' = NA
    /\ NS >= 1 => S1' = Older(S1)
    /\ NS >= 2 => S2' = Older(S2)
    /\ NA >= 1 => A1' = Older(A1)

\* An end leaves its loop: told to, or because of its connection, or because it
\* reads, its timer has expired and no message is due.
Leaves ==
    /\ \/ stopped'
       \/ LA \/ LS
       \/ A = "reply" /\ FA /\ TA = FirstTimeout /\ (NA >= 1 => A1 # MaxDelay)
       \/ /\ S \in {"heartbeat", "ack"} /\ TS = IF FS THEN FirstTimeout ELSE HbTimeout
          /\ NS >= 1 => S1 # MaxDelay
    /\ A' \in {A, "ended"} /\ S' \in {S, "ended"}
    /\ KeepS /\ KeepA /\ UNCHANGED <<FA, FS, TA, TS, QA, QS, LA, LS, silent, silentFor>>
    /\ stopped => stopped'

\* The connection of an end that has ended, or is idle while no message is due.
Fails ==
    /\ \/ A = "ended" \/ S = "ended"
       \/ QA = IdleTimeout /\ ~(A = "reply" /\ ~LA /\ NA >= 1 /\ A1 = MaxDelay)
       \/ QS = IdleTimeout /\ ~(S \in {"heartbeat", "ack"} /\ ~LS /\ NS >= 1 /\ S1 = MaxDelay)
    /\ KeepRounds /\ KeepS /\ KeepA /\ UNCHANGED <<QA, QS, silent, silentFor, stopped>>

Busy ==
    /\ ~silent
    /\ QA' \in {0, QA} /\ QS' \in {0, QS}
    /\ KeepRounds /\ KeepS /\ KeepA /\ KeepEnv

Silences ==
    /\ ~silent /\ silent' /\ silentFor' = 0
    /\ KeepS \/ NS' = 0
    /\ KeepA \/ NA' = 0
    /\ KeepRounds /\ UNCHANGED <<QA, QS, LA, LS, stopped>>

Still == KeepRounds /\ KeepS /\ KeepA /\ KeepEnv /\ UNCHANGED <<QA, QS>>

Moves ==
    \/ AskerBegins \/ ServerBegins \/ ServerReplies \/ AskerAcks \/ ServerDone
    \/ Time \/ Leaves \/ Fails \/ Busy \/ Silences \/ Still

-----------------------------------------------------------------------------
(* Every step moves the scalars like this *)

\* The types of the scalars are those of the variables.
LEMMA TypedScalar == ASSUME Typed PROVE Scalar
<1>1. ToS \in Seq(Ages) /\ ToA \in Seq(Ages)
  BY DEF Typed, Ends, ToS, ToA
<1>2. /\ NS \in Nat /\ NA \in Nat
      /\ NS >= 1 => S1 \in Ages
      /\ NS >= 2 => S2 \in Ages
      /\ NA >= 1 => A1 \in Ages
  BY <1>1 DEF NS, NA, S1, S2, A1
<1> QED
  BY <1>2 DEF Typed, Scalar, Ends, TA, TS, QA, QS

\* A message that is sent comes last.
LEMMA Appended ==
  ASSUME NEW s \in Seq(Ages), NEW t, t = Append(s, 0)
  PROVE  /\ t \in Seq(Ages) /\ Len(t) = Len(s) + 1 /\ t[Len(s) + 1] = 0
         /\ \A i \in 1 .. Len(s) : t[i] = s[i]
  BY OptionsAssumption DEF Ages

\* A message that is read was the first.
LEMMA Read ==
  ASSUME NEW s \in Seq(Ages), s # <<>>, NEW t, t = Tail(s)
  PROVE  /\ t \in Seq(Ages) /\ Len(s) >= 1 /\ Len(t) = Len(s) - 1
         /\ \A i \in 1 .. Len(t) : t[i] = s[i + 1]
         /\ Head(s) = s[1]
  OBVIOUS

\* Messages grow older.
LEMMA Aged ==
  ASSUME NEW s \in Seq(Ages), NEW t, t = [i \in 1 .. Len(s) |-> Older(s[i])]
  PROVE  t \in Seq(Ages) /\ Len(t) = Len(s) /\ \A i \in 1 .. Len(s) : t[i] = Older(s[i])
<1>1. t \in [1 .. Len(s) -> Ages] /\ Len(s) \in Nat
  BY OptionsAssumption DEF Ages, Older
<1> QED
  BY <1>1

\* A heartbeat or an acknowledgement is sent.
LEMMA SentS ==
  ASSUME Typed, ToS' = IF silent THEN ToS ELSE Append(ToS, 0)
  PROVE  ToS' \in Seq(Ages) /\ GiveS
<1>1. ToS \in Seq(Ages)
  BY DEF Typed, Ends, ToS
<1>2. CASE silent
  BY <1>1, <1>2 DEF GiveS, KeepS, NS, S1, S2
<1>3. CASE ~silent
  BY <1>1, <1>3, Appended DEF GiveS, NS, S1, S2
<1> QED
  BY <1>2, <1>3

\* A reply is sent.
LEMMA SentA ==
  ASSUME Typed, ToA' = IF silent THEN ToA ELSE Append(ToA, 0)
  PROVE  ToA' \in Seq(Ages) /\ GiveA
<1>1. ToA \in Seq(Ages)
  BY DEF Typed, Ends, ToA
<1>2. CASE silent
  BY <1>1, <1>2 DEF GiveA, KeepA, NA, A1
<1>3. CASE ~silent
  BY <1>1, <1>3, Appended DEF GiveA, NA, A1
<1> QED
  BY <1>2, <1>3

\* The server reads a message.
LEMMA TakenS ==
  ASSUME Typed, ToS # <<>>, ToS' = Tail(ToS)
  PROVE  ToS' \in Seq(Ages) /\ TakeS
<1>1. ToS \in Seq(Ages)
  BY DEF Typed, Ends, ToS
<1> QED
  BY <1>1, Read DEF TakeS, NS, S1, S2

\* The asker reads a reply.
LEMMA TakenA ==
  ASSUME Typed, ToA # <<>>, ToA' = Tail(ToA)
  PROVE  ToA' \in Seq(Ages) /\ TakeA
<1>1. ToA \in Seq(Ages)
  BY DEF Typed, Ends, ToA
<1> QED
  BY <1>1, Read DEF TakeA, NA

\* An end to which no message is due.
LEMMA NotDue ==
  ASSUME Typed
  PROVE  /\ ~Due("asker") /\ A = "reply" /\ ~LA => (NA >= 1 => A1 # MaxDelay)
         /\ ~Due("server") /\ S \in {"heartbeat", "ack"} /\ ~LS => (NS >= 1 => S1 # MaxDelay)
<1>1. ToS \in Seq(Ages) /\ ToA \in Seq(Ages)
  BY DEF Typed, Ends, ToS, ToA
<1>2. /\ NA >= 1 => ToA # <<>> /\ Head(ToA) = A1
      /\ NS >= 1 => ToS # <<>> /\ Head(ToS) = S1
  BY <1>1 DEF NA, NS, A1, S1
<1> QED
  BY <1>2 DEF Due, Reading, ToS, ToA, A, S, LA, LS

\* Every step of Heartbeat moves the scalars, and keeps the types.
LEMMA StepMoves == ASSUME Typed, [Next]_vars PROVE Typed' /\ Moves
<1> USE OptionsAssumption DEF Ends, A, S, FA, FS, TA, TS, QA, QS, LA, LS
<1>1. CASE Start("asker") \/ Beat
  <2>1. /\ ToS' = IF silent THEN ToS ELSE Append(ToS, 0)
        /\ ToA' = ToA /\ flight' = [flight EXCEPT !["server"] = ToS']
    BY <1>1 DEF Typed, Start, Beat, Send, Peer, ToS, ToA
  <2>2. quiet' \in {quiet, [quiet EXCEPT !["asker"] = 0]}
    BY <1>1 DEF Start, Beat, Send
  <2>3. ToS' \in Seq(Ages) /\ GiveS /\ KeepA
    BY <2>1, SentS DEF KeepA, NA, A1
  <2>4. Typed'
    BY <1>1, <2>1, <2>2, <2>3 DEF Typed, Start, Beat, Go, Restart, Env
  <2>5. AskerBegins
    BY <1>1, <2>2, <2>3 DEF Typed, Start, Beat, Go, Restart, Env, KeepEnv, AskerBegins, Expired,
       Deadline
  <2> QED
    BY <2>4, <2>5 DEF Moves
<1>2. CASE Start("server")
  <2>1. Typed'
    BY <1>2 DEF Typed, Start, Go, Restart, Env
  <2>2. ServerBegins
    BY <1>2 DEF Typed, Start, Go, Restart, Env, KeepEnv, ServerBegins, KeepS, KeepA,
       NS, NA, S1, S2, A1, ToS, ToA
  <2> QED
    BY <2>1, <2>2 DEF Moves
<1>3. CASE ReadHeartbeat
  <2>1. /\ ToS # <<>> /\ ToS' = Tail(ToS)
        /\ ToA' = IF silent THEN ToA ELSE Append(ToA, 0)
        /\ flight' = [flight EXCEPT !["server"] = ToS', !["asker"] = ToA']
    BY <1>3 DEF Typed, ReadHeartbeat, Arrived, Respond, Peer, ToS, ToA
  <2>2. ToS' \in Seq(Ages) /\ TakeS /\ ToA' \in Seq(Ages) /\ GiveA
    BY <2>1, TakenS, SentA
  <2>3. Typed'
    <3>1. flight' \in [Ends -> Seq(Ages)]
      BY <2>1, <2>2 DEF Typed
    <3>2. pc' \in [Ends -> {"new", "sleep", "reply", "heartbeat", "ack", "ended"}]
      BY <1>3 DEF Typed, ReadHeartbeat, Arrived, Go, Env
    <3>3. first' \in [Ends -> BOOLEAN] /\ timer' \in [Ends -> Nat] /\ quiet' \in [Ends -> 0 .. IdleTimeout]
      BY <1>3 DEF Typed, ReadHeartbeat, Arrived, Go, Env
    <3> QED
      BY <1>3, <3>1, <3>2, <3>3 DEF Typed, ReadHeartbeat, Arrived, Go, Env
  <2>4. ServerReplies
    BY <1>3, <2>2 DEF Typed, ReadHeartbeat, Arrived, Reading, Go, Env, KeepEnv, ServerReplies
  <2> QED
    BY <2>3, <2>4 DEF Moves
<1>4. CASE ReadReply
  <2>1. /\ ToA # <<>> /\ ToA' = Tail(ToA)
        /\ ToS' = IF silent THEN ToS ELSE Append(ToS, 0)
        /\ flight' = [flight EXCEPT !["asker"] = ToA', !["server"] = ToS']
    BY <1>4 DEF Typed, ReadReply, Arrived, Respond, Peer, ToS, ToA
  <2>2. ToA' \in Seq(Ages) /\ TakeA /\ ToS' \in Seq(Ages) /\ GiveS
    BY <2>1, TakenA, SentS
  <2>3. Typed'
    <3>1. flight' \in [Ends -> Seq(Ages)]
      BY <2>1, <2>2 DEF Typed
    <3>2. pc' \in [Ends -> {"new", "sleep", "reply", "heartbeat", "ack", "ended"}]
      BY <1>4 DEF Typed, ReadReply, Arrived, Go, Restart, Env
    <3>3. first' \in [Ends -> BOOLEAN] /\ timer' \in [Ends -> Nat] /\ quiet' \in [Ends -> 0 .. IdleTimeout]
      BY <1>4 DEF Typed, ReadReply, Arrived, Go, Restart, Env
    <3> QED
      BY <1>4, <3>1, <3>2, <3>3 DEF Typed, ReadReply, Arrived, Go, Restart, Env
  <2>4. AskerAcks
    BY <1>4, <2>2 DEF Typed, ReadReply, Arrived, Reading, Go, Restart, Env, KeepEnv, AskerAcks
  <2> QED
    BY <2>3, <2>4 DEF Moves
<1>5. CASE ReadAck
  <2>1. /\ ToS # <<>> /\ ToS' = Tail(ToS) /\ ToA' = ToA
        /\ flight' = [flight EXCEPT !["server"] = ToS']
    BY <1>5 DEF Typed, ReadAck, Arrived, ToS, ToA
  <2>2. ToS' \in Seq(Ages) /\ TakeS /\ KeepA
    BY <2>1, TakenS DEF KeepA, NA, A1
  <2>3. Typed'
    BY <1>5, <2>1, <2>2 DEF Typed, ReadAck, Arrived, Go, Restart, Env
  <2>4. ServerDone
    BY <1>5, <2>2 DEF Typed, ReadAck, Arrived, Reading, Go, Restart, Env, KeepEnv, ServerDone
  <2> QED
    BY <2>3, <2>4 DEF Moves
<1>6. CASE Tick
  <2>1. /\ ToS' = [i \in 1 .. Len(ToS) |-> Older(ToS[i])]
        /\ ToA' = [i \in 1 .. Len(ToA) |-> Older(ToA[i])]
        /\ flight' = [p \in Ends |-> flight'[p]]
    BY <1>6 DEF Tick, Older, ToS, ToA
  <2>2. ToS \in Seq(Ages) /\ ToA \in Seq(Ages)
    BY DEF Typed, ToS, ToA
  <2>3. /\ ToS' \in Seq(Ages) /\ Len(ToS') = Len(ToS) /\ \A i \in 1 .. Len(ToS) : ToS'[i] = Older(ToS[i])
        /\ ToA' \in Seq(Ages) /\ Len(ToA') = Len(ToA) /\ \A i \in 1 .. Len(ToA) : ToA'[i] = Older(ToA[i])
    BY <2>1, <2>2, Aged
  <2>4. Typed'
    <3>1. flight' \in [Ends -> Seq(Ages)]
      BY <2>1, <2>3 DEF ToS, ToA
    <3>2. quiet' \in [Ends -> 0 .. IdleTimeout]
      BY <1>6 DEF Tick, Typed
    <3>3. timer' \in [Ends -> Nat] /\ silentFor' \in Nat
      BY <1>6 DEF Tick, Typed
    <3> QED
      BY <1>6, <3>1, <3>2, <3>3 DEF Tick, Typed
  <2>5. Time
    <3>1. /\ NS' = NS /\ NA' = NA
          /\ NS >= 1 => S1' = Older(S1)
          /\ NS >= 2 => S2' = Older(S2)
          /\ NA >= 1 => A1' = Older(A1)
      BY <2>2, <2>3 DEF NS, NA, S1, S2, A1
    <3>2. \A p \in Ends : ~Due(p) /\ ~Expired(p) /\ ~Told(p)
      BY <1>6 DEF Tick
    <3>3. /\ A = "reply" => ~LA /\ (FA => TA # FirstTimeout)
          /\ S \in {"heartbeat", "ack"} => ~LS /\ TS # IF FS THEN FirstTimeout ELSE HbTimeout
          /\ A = "new" => TA # MaxSkew
          /\ S = "new" => TS # MaxSkew
          /\ A = "sleep" => TA # Interval
      BY <3>2 DEF Expired, Deadline, Told
    <3>4. /\ A = "reply" => (NA >= 1 => A1 # MaxDelay)
          /\ S \in {"heartbeat", "ack"} => (NS >= 1 => S1 # MaxDelay)
      BY <3>2, <3>3, NotDue
    <3>5. /\ Deadline("asker") = {} <=> A = "ended" \/ (A = "reply" /\ ~FA)
          /\ Deadline("server") = {} <=> S = "ended"
      BY DEF Typed, Deadline
    <3>6. /\ TA' = IF A = "ended" \/ (A = "reply" /\ ~FA) THEN 0 ELSE TA + 1
          /\ TS' = IF S = "ended" THEN 0 ELSE TS + 1
      BY <1>6, <3>5 DEF Tick
    <3>7. /\ QA' = IF LA THEN QA ELSE QA + 1
          /\ QS' = IF LS THEN QS ELSE QS + 1
          /\ silentFor' = IF silent THEN silentFor + 1 ELSE 0
          /\ UNCHANGED <<A, S, FA, FS, LA, LS, silent, stopped>>
          /\ A # "new" \/ S # "new"
      BY <1>6 DEF Tick
    <3> QED
      BY <3>1, <3>3, <3>4, <3>6, <3>7 DEF Time
  <2> QED
    BY <2>4, <2>5 DEF Moves
<1>7. ASSUME NEW p \in Ends, Expire(p) \/ Fail(p) \/ Stop(p) PROVE Typed' /\ Moves
  <2>1. Typed'
    BY <1>7 DEF Typed, Expire, Fail, Stop, End, Go, Env
  <2>2. KeepS /\ KeepA /\ UNCHANGED <<FA, FS, TA, TS, QA, QS, LA, LS, silent, silentFor>>
    BY <1>7 DEF Expire, Fail, Stop, End, Env, KeepS, KeepA, NS, NA, S1, S2, A1, ToS, ToA
  <2>3. A' \in {A, "ended"} /\ S' \in {S, "ended"} /\ (stopped => stopped')
    BY <1>7 DEF Typed, Expire, Fail, Stop, End, Go, Env
  <2>4. CASE Expire(p) /\ ~LA /\ ~LS
    BY <2>1, <2>2, <2>3, <2>4, NotDue DEF Typed, Leaves, Moves, Expire, Expired, Deadline
  <2>5. CASE LA \/ LS \/ stopped'
    BY <2>1, <2>2, <2>3, <2>5 DEF Leaves, Moves
  <2> QED
    BY <1>7, <2>1, <2>4, <2>5 DEF Fail, Stop
<1>8. ASSUME NEW p \in Ends, Close(p) \/ IdleOut(p) PROVE Typed' /\ Moves
  <2>1. Typed'
    BY <1>8 DEF Typed, Close, IdleOut, Connection
  <2>2. KeepRounds /\ KeepS /\ KeepA /\ UNCHANGED <<QA, QS, silent, silentFor, stopped>>
    BY <1>8 DEF Close, IdleOut, Connection, KeepRounds, KeepS, KeepA, NS, NA, S1, S2, A1, ToS, ToA
  <2>3. \/ A = "ended" \/ S = "ended"
        \/ QA = IdleTimeout /\ ~Due("asker")
        \/ QS = IdleTimeout /\ ~Due("server")
    BY <1>8 DEF Close, IdleOut
  <2> QED
    BY <2>1, <2>2, <2>3, NotDue DEF Fails, Moves
<1>9. ASSUME NEW p \in Ends, Traffic(p) PROVE Typed' /\ Moves
  <2>1. Typed'
    BY <1>9 DEF Typed, Traffic, Connection, Env
  <2>2. Busy
    BY <1>9 DEF Typed, Traffic, Connection, Env, Busy, KeepEnv, KeepRounds, KeepS, KeepA,
       NS, NA, S1, S2, A1, ToS, ToA
  <2> QED
    BY <2>1, <2>2 DEF Moves
<1>10. CASE Silence
  <2>1. PICK kept \in SUBSET Ends : flight' = [p \in Ends |-> IF p \in kept THEN flight[p] ELSE <<>>]
    BY <1>10 DEF Silence
  <2>2. ToS' \in {ToS, <<>>} /\ ToA' \in {ToA, <<>>}
    BY <2>1 DEF ToS, ToA
  <2>3. Typed'
    BY <1>10, <2>1 DEF Typed, Silence, Connection
  <2>4. (KeepS \/ NS' = 0) /\ (KeepA \/ NA' = 0)
    BY <2>2 DEF KeepS, KeepA, NS, NA, S1, S2, A1
  <2>5. Silences
    BY <1>10, <2>4 DEF Silence, Connection, Silences, KeepRounds
  <2> QED
    BY <2>3, <2>5 DEF Moves
<1>11. CASE Terminated \/ UNCHANGED vars
  <2>1. Typed' /\ Still
    BY <1>11 DEF Terminated, vars, Typed, Still, KeepRounds, KeepS, KeepA, KeepEnv,
       NS, NA, S1, S2, A1, ToS, ToA
  <2> QED
    BY <2>1 DEF Moves
<1> QED
  BY <1>1, <1>2, <1>3, <1>4, <1>5, <1>6, <1>7, <1>8, <1>9, <1>10, <1>11 DEF Next

-----------------------------------------------------------------------------
(* The invariants, by what a step does to the scalars *)

\* No step sends more than it takes, and no timer runs past its deadline.
LEMMA StepTInv == ASSUME Scalar, TInv, Moves PROVE TInv'
<1> USE OptionsAssumption DEF Scalar, TInv, Budget, Timers, Longest, Ages
<1>1. CASE AskerBegins
  BY <1>1 DEF AskerBegins, KeepS, KeepA, TakeS, TakeA, GiveS, GiveA, KeepEnv, KeepRounds, Older
<1>2. CASE ServerBegins
  BY <1>2 DEF ServerBegins, KeepS, KeepA, TakeS, TakeA, GiveS, GiveA, KeepEnv, KeepRounds, Older
<1>3. CASE ServerReplies
  BY <1>3 DEF ServerReplies, KeepS, KeepA, TakeS, TakeA, GiveS, GiveA, KeepEnv, KeepRounds, Older
<1>4. CASE AskerAcks
  BY <1>4 DEF AskerAcks, KeepS, KeepA, TakeS, TakeA, GiveS, GiveA, KeepEnv, KeepRounds, Older
<1>5. CASE ServerDone
  BY <1>5 DEF ServerDone, KeepS, KeepA, TakeS, TakeA, GiveS, GiveA, KeepEnv, KeepRounds, Older
<1>6. CASE Time
  BY <1>6 DEF Time, KeepS, KeepA, TakeS, TakeA, GiveS, GiveA, KeepEnv, KeepRounds, Older
<1>7. CASE Leaves
  BY <1>7 DEF Leaves, KeepS, KeepA, TakeS, TakeA, GiveS, GiveA, KeepEnv, KeepRounds, Older
<1>8. CASE Fails
  BY <1>8 DEF Fails, KeepS, KeepA, TakeS, TakeA, GiveS, GiveA, KeepEnv, KeepRounds, Older
<1>9. CASE Busy
  BY <1>9 DEF Busy, KeepS, KeepA, TakeS, TakeA, GiveS, GiveA, KeepEnv, KeepRounds, Older
<1>10. CASE Silences
  BY <1>10 DEF Silences, KeepS, KeepA, TakeS, TakeA, GiveS, GiveA, KeepEnv, KeepRounds, Older
<1>11. CASE Still
  BY <1>11 DEF Still, KeepS, KeepA, TakeS, TakeA, GiveS, GiveA, KeepEnv, KeepRounds, Older
<1> QED
  BY <1>1, <1>2, <1>3, <1>4, <1>5, <1>6, <1>7, <1>8, <1>9, <1>10, <1>11 DEF Moves

\* Messages age with the silence, and whoever waits for one has waited for long.
LEMMA StepSInv == ASSUME Scalar, TInv, SInv, Moves PROVE SInv'
<1> USE OptionsAssumption DEF Scalar, TInv, Budget, Timers, SInv, Heard, Waited, Ages
<1>1. CASE AskerBegins
  <2>1. Heard'
    BY <1>1 DEF AskerBegins, KeepS, KeepA, GiveS, KeepEnv, KeepRounds
  <2>2. QA' \in Nat
    BY <1>1 DEF AskerBegins
  <2>3. FA' \/ silentFor' <= MaxDelay + Interval
    BY <1>1 DEF AskerBegins, KeepEnv
  <2>4. A' = "reply" /\ ~FA' => silentFor' <= MaxDelay + Interval + QA'
    <3> HIDE DEF TInv, Scalar, SInv
    <3>1. PICK q \in Nat : q = QA'
      BY <2>2
    <3>2. \A t \in Nat : t <= MaxDelay + Interval => t <= MaxDelay + Interval + q
      OBVIOUS
    <3>3. silentFor' \in Nat
      BY <1>1 DEF AskerBegins, KeepEnv, Scalar
    <3> QED
      BY <2>3, <3>1, <3>2, <3>3
  <2>5. /\ ~silent' => silentFor' = 0
        /\ S' \in {"heartbeat", "ack"} /\ ~FS' => silentFor' <= MaxDelay + TS'
        /\ A' # "sleep"
    BY <1>1 DEF AskerBegins, KeepEnv
  <2> QED
    BY <2>1, <2>4, <2>5
<1>2. CASE ServerBegins
  BY <1>2 DEF ServerBegins, KeepS, KeepA, TakeS, TakeA, GiveS, GiveA, KeepEnv, KeepRounds, Older
<1>3. CASE ServerReplies
  BY <1>3 DEF ServerReplies, KeepS, KeepA, TakeS, TakeA, GiveS, GiveA, KeepEnv, KeepRounds, Older
<1>4. CASE AskerAcks
  BY <1>4 DEF AskerAcks, KeepS, KeepA, TakeS, TakeA, GiveS, GiveA, KeepEnv, KeepRounds, Older
<1>5. CASE ServerDone
  BY <1>5 DEF ServerDone, KeepS, KeepA, TakeS, TakeA, GiveS, GiveA, KeepEnv, KeepRounds, Older
<1>6. CASE Time
  BY <1>6 DEF Time, KeepS, KeepA, TakeS, TakeA, GiveS, GiveA, KeepEnv, KeepRounds, Older
<1>7. CASE Leaves
  BY <1>7 DEF Leaves, KeepS, KeepA, TakeS, TakeA, GiveS, GiveA, KeepEnv, KeepRounds, Older
<1>8. CASE Fails
  BY <1>8 DEF Fails, KeepS, KeepA, TakeS, TakeA, GiveS, GiveA, KeepEnv, KeepRounds, Older
<1>9. CASE Busy
  <2>1. Heard'
    BY <1>9 DEF Busy, KeepS, KeepA, GiveS, KeepEnv, KeepRounds
  <2>2. QA' \in Nat
    BY <1>9 DEF Busy
  <2>3. silentFor' = 0
    BY <1>9 DEF Busy, KeepEnv
  <2>4. Waited'
    <3>1. PICK q \in Nat : q = QA'
      BY <2>2
    <3>2. 0 <= MaxDelay + TA /\ 0 <= MaxDelay + TS /\ 0 <= MaxDelay + Interval + q
      OBVIOUS
    <3>3. TA' = TA /\ TS' = TS
      BY <1>9 DEF Busy, KeepRounds
    <3> QED
      BY <2>3, <3>1, <3>2, <3>3
  <2> QED
    BY <2>1, <2>4
<1>10. CASE Silences
  BY <1>10 DEF Silences, KeepS, KeepA, TakeS, TakeA, GiveS, GiveA, KeepEnv, KeepRounds, Older
<1>11. CASE Still
  BY <1>11 DEF Still, KeepS, KeepA, TakeS, TakeA, GiveS, GiveA, KeepEnv, KeepRounds, Older
<1> QED
  BY <1>1, <1>2, <1>3, <1>4, <1>5, <1>6, <1>7, <1>8, <1>9, <1>10, <1>11 DEF Moves

\* A healthy connection goes from one round to the next.
LEMMA StepHInv == ASSUME Scalar, TInv, HInv, Moves PROVE HInv'
<1> USE OptionsAssumption DEF Scalar, Timely, Ages
<1>1. CASE AskerBegins
  BY <1>1 DEF HInv, Rounds, Slack, Beginning, Asked, Replied, Acked, Resting, AskerBegins, KeepS,
     KeepA, TakeS, TakeA, GiveS, GiveA, KeepEnv, KeepRounds, Older
<1>2. CASE ServerBegins
  BY <1>2 DEF HInv, Rounds, Slack, Beginning, Asked, Replied, Acked, Resting, ServerBegins, KeepS,
     KeepA, TakeS, TakeA, GiveS, GiveA, KeepEnv, KeepRounds, Older
<1>3. CASE ServerReplies
  BY <1>3 DEF HInv, Rounds, Slack, Beginning, Asked, Replied, Acked, Resting, ServerReplies,
     KeepS, KeepA, TakeS, TakeA, GiveS, GiveA, KeepEnv, KeepRounds, Older
<1>4. CASE AskerAcks
  BY <1>4 DEF HInv, Rounds, Slack, Beginning, Asked, Replied, Acked, Resting, AskerAcks, KeepS,
     KeepA, TakeS, TakeA, GiveS, GiveA, KeepEnv, KeepRounds, Older
<1>5. CASE ServerDone
  BY <1>5 DEF HInv, Rounds, Slack, Beginning, Asked, Replied, Acked, Resting, ServerDone, KeepS,
     KeepA, TakeS, TakeA, GiveS, GiveA, KeepEnv, KeepRounds, Older
<1>6. CASE Time
  BY <1>6 DEF HInv, Rounds, Slack, Beginning, Asked, Replied, Acked, Resting, Time, KeepS, KeepA,
     TakeS, TakeA, GiveS, GiveA, KeepEnv, KeepRounds, Older
<1>7. CASE Leaves
  BY <1>7 DEF HInv, Rounds, Slack, Beginning, Asked, Replied, Acked, Resting, Leaves, KeepS,
     KeepA, TakeS, TakeA, GiveS, GiveA, KeepEnv, KeepRounds, Older
<1>8. CASE Fails
  BY <1>8 DEF HInv, Rounds, Slack, Beginning, Asked, Replied, Acked, Resting, Fails, KeepS, KeepA,
     TakeS, TakeA, GiveS, GiveA, KeepEnv, KeepRounds, Older
<1>9. CASE Busy
  BY <1>9 DEF HInv, Rounds, Slack, Beginning, Asked, Replied, Acked, Resting, Busy, KeepS, KeepA,
     TakeS, TakeA, GiveS, GiveA, KeepEnv, KeepRounds, Older
<1>10. CASE Silences
  BY <1>10 DEF HInv, Rounds, Slack, Beginning, Asked, Replied, Acked, Resting, Silences, KeepS,
     KeepA, TakeS, TakeA, GiveS, GiveA, KeepEnv, KeepRounds, Older
<1>11. CASE Still
  BY <1>11 DEF HInv, Rounds, Slack, Beginning, Asked, Replied, Acked, Resting, Still, KeepS,
     KeepA, TakeS, TakeA, GiveS, GiveA, KeepEnv, KeepRounds, Older
<1> QED
  BY <1>1, <1>2, <1>3, <1>4, <1>5, <1>6, <1>7, <1>8, <1>9, <1>10, <1>11 DEF Moves

-----------------------------------------------------------------------------
(* What the invariants say *)

\* No message is under way and no time has passed.
LEMMA InitIInv == Init => IInv
<1> SUFFICES ASSUME Init PROVE IInv
  OBVIOUS
<1> USE OptionsAssumption DEF Init, Ends, A, S, FA, FS, TA, TS, QA, QS, LA, LS
<1>1. Typed
  <2>1. flight \in [Ends -> Seq(Ages)]
    BY <<>> \in Seq(Ages)
  <2>2. quiet \in [Ends -> 0 .. IdleTimeout] /\ timer \in [Ends -> Nat]
    OBVIOUS
  <2>3. pc \in [Ends -> {"new", "sleep", "reply", "heartbeat", "ack", "ended"}]
    OBVIOUS
  <2> QED
    BY <2>1, <2>2, <2>3 DEF Typed
<1>2. NS = 0 /\ NA = 0
  BY DEF NS, NA, ToS, ToA
<1>3. TInv
  BY <1>2 DEF TInv, Budget, Timers, Longest
<1>4. SInv
  BY <1>2 DEF SInv, Heard, Waited
<1>5. HInv
  BY <1>2 DEF HInv, Rounds, Beginning
<1> QED
  BY <1>1, <1>3, <1>4, <1>5 DEF IInv

\* The inductive invariant of the heartbeat, for all timeouts and delays.
THEOREM Invariance == Spec => []IInv
<1>1. IInv /\ [Next]_vars => IInv'
  BY StepMoves, TypedScalar, StepTInv, StepSInv, StepHInv DEF IInv
<1> QED
  BY InitIInv, <1>1, PTL DEF Spec

\* No timer runs away, and there are never more than two messages under way.
THEOREM TypeCorrect == Spec => []TypeOK
<1>1. IInv => TypeOK
  <2> SUFFICES ASSUME IInv PROVE TypeOK
    OBVIOUS
  <2>1. Scalar
    BY TypedScalar DEF IInv
  <2>2. NS <= 2 /\ NA <= 2
    BY <2>1 DEF IInv, TInv, Budget, Scalar
  <2>3. timer \in [Ends -> 0 .. MaxSkew + FirstTimeout + Interval + HbTimeout]
    BY OptionsAssumption DEF IInv, Typed, TInv, Longest, TA, TS, Ends
  <2>4. \A p \in Ends : Len(flight[p]) <= 2 /\ \A i \in 1 .. Len(flight[p]) : flight[p][i] <= MaxDelay
    <3>1. ToS \in Seq(Ages) /\ ToA \in Seq(Ages)
      BY DEF IInv, Typed, Ends, ToS, ToA
    <3> QED
      BY <2>2, <3>1, OptionsAssumption DEF NS, NA, ToS, ToA, Ends, Ages
  <2> QED
    BY <2>3, <2>4 DEF IInv, Typed, TypeOK
<1> QED
  BY <1>1, Invariance, PTL

\* With options that leave room for three messages and for one end to begin
\* late, no timeout of serve and none of QUIC ends a healthy connection.
THEOREM NoFalseAlarmHolds == Spec => []NoFalseAlarm
<1>1. IInv => NoFalseAlarm
  BY DEF IInv, HInv, Rounds, Beginning, Asked, Replied, Acked, Resting, NoFalseAlarm,
     A, S, LA, LS, Ends
<1> QED
  BY <1>1, Invariance, PTL

\* An end that has got past its first round notices a silent peer in bounded
\* time, whatever the options are: the asker only by the idle timeout of QUIC.
THEOREM SilenceNoticedHolds == Spec => []SilenceNoticed
<1>1. IInv => SilenceNoticed
  <2> SUFFICES ASSUME IInv PROVE SilenceNoticed
    OBVIOUS
  <2>1. Scalar
    BY TypedScalar DEF IInv
  <2>2. ~FS /\ S # "ended" => silentFor <= MaxDelay + HbTimeout
    BY <2>1, OptionsAssumption DEF IInv, SInv, Waited, TInv, Timers, Scalar
  <2>3. ~FA /\ A # "ended" => silentFor <= MaxDelay + Interval + IdleTimeout
    BY <2>1, OptionsAssumption DEF IInv, SInv, Waited, TInv, Timers, Scalar
  <2> QED
    BY <2>2, <2>3 DEF SilenceNoticed, A, S, FA, FS
<1> QED
  BY <1>1, Invariance, PTL

=============================================================================
