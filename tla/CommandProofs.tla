--------------------------- MODULE CommandProofs ----------------------------
(***************************************************************************)
(* Proofs about Command, for every set of kinds and faults, any Window and *)
(* any number of chunks.                                                   *)
(***************************************************************************)
EXTENDS Command, TLAPS

-----------------------------------------------------------------------------
(* The scripts, message by message *)

\* The messages that each direction of a command carries before its bytes.
Msgs == [
    up |-> [ping |-> <<"cmd">>, delete |-> <<"cmd">>, list |-> <<"cmd">>,
            read |-> <<"cmd", "ack">>, http |-> <<"cmd">>,
            tcp |-> <<"cmd", "ack">>, udp |-> <<"cmd", "ack">>],
    down |-> [ping |-> <<"ack">>, delete |-> <<"ack", "ack">>, list |-> <<"ack", "list">>,
              read |-> <<"ack", "meta", "ack">>, http |-> <<"ack", "resp">>,
              tcp |-> <<"ack", "addr">>, udp |-> <<"ack", "addr">>]]

\* How many messages each end has written when it is at a place of its script,
\* the place behind the last step included, and how many it has read.
WritesAt == [
    task |-> [ping |-> <<0, 1, 1>>, delete |-> <<0, 1, 1>>, list |-> <<0, 1, 1, 1>>,
              read |-> <<0, 1, 1, 1, 1, 2, 2>>, http |-> <<0, 1, 1, 1, 1>>,
              tcp |-> <<0, 1, 1, 1, 1, 2>>, udp |-> <<0, 1, 1, 1, 1, 2>>],
    handler |-> [ping |-> <<0, 0, 1>>, delete |-> <<0, 0, 1, 2>>, list |-> <<0, 0, 1, 2>>,
                 read |-> <<0, 0, 1, 2, 2, 3>>, http |-> <<0, 0, 1, 1, 2>>,
                 tcp |-> <<0, 0, 1, 2, 2>>, udp |-> <<0, 0, 1, 2, 2>>]]

ReadsAt == [
    task |-> [ping |-> <<0, 0, 1>>, delete |-> <<0, 0, 1>>, list |-> <<0, 0, 1, 2>>,
              read |-> <<0, 0, 1, 2, 2, 2, 3>>, http |-> <<0, 0, 1, 1, 2>>,
              tcp |-> <<0, 0, 1, 2, 2, 2>>, udp |-> <<0, 0, 1, 2, 2, 2>>],
    handler |-> [ping |-> <<0, 1, 1>>, delete |-> <<0, 1, 1, 1>>, list |-> <<0, 1, 1, 1>>,
                 read |-> <<0, 1, 1, 1, 2, 2>>, http |-> <<0, 1, 1, 1, 1>>,
                 tcp |-> <<0, 1, 1, 1, 2>>, udp |-> <<0, 1, 1, 1, 2>>]]

Written(e) == WritesAt[e][kind][pc[e]]
Heard(e) == ReadsAt[e][kind][pc[e]]

\* What a script S of end e of a command k must have in common with its rows:
\* the reading of the tables that the rest of this module relies on.
Reads(S, m, D, R) ==
    /\ \A i \in 1..Len(S) + 1 : R[i] \in 0..Len(D)
    /\ R[1] = 0
    /\ \A i \in 1..Len(S) :
        IF S[i][1] = "read" THEN /\ R[i + 1] = R[i] + 1
                                 /\ D[R[i] + 1] = S[i][2]
                            ELSE R[i + 1] = R[i]
    /\ \A i \in 1..Len(S) : S[i][1] = "start" => (m => R[i] = Len(D))

Writes(S, m, D, W) ==
    /\ \A i \in 1..Len(S) + 1 : W[i] \in 0..Len(D)
    /\ W[1] = 0
    /\ \A i \in 1..Len(S) :
        IF S[i][1] \in {"write", "answer"} THEN /\ W[i + 1] = W[i] + 1
                                                /\ D[W[i] + 1] = S[i][2]
                                           ELSE W[i + 1] = W[i]
    /\ W[Len(S) + 1] = Len(D)
    /\ \A i \in 1..Len(S) : S[i][1] = "start" => (m => W[i] = Len(D))

Fits(S, k, e) ==
    /\ Len(S) \in Nat \ {0}
    /\ \A i \in 1..Len(S) :
        /\ S[i][1] \in {"write", "read", "wait", "start", "answer"}
        /\ S[i][1] \in {"write", "answer", "read"} => S[i][2] \in Message \ {"err"}
        /\ S[i][1] = "start" => k = "http" /\ i < Len(S)
    /\ Reads(S, e = "handler", Msgs[In[e]][k], ReadsAt[e][k])
    /\ Carries[k] # {} => ReadsAt[e][k][Len(S) + 1] = Len(Msgs[In[e]][k])
    /\ Writes(S, e = "task", Msgs[Out[e]][k], WritesAt[e][k])

\* S is the list of steps L.
Is(S, L) == Len(S) = Len(L) /\ \A i \in 1..Len(L) : S[i] = L[i]

\* The scripts, written out.
LEMMA Spelled ==
  /\ Is(Call, <<<<"write", "cmd">>, <<"read", "ack">>>>)
  /\ Is(ListTask, <<<<"write", "cmd">>, <<"read", "ack">>, <<"read", "list">>>>)
  /\ Is(ReadTask, <<<<"write", "cmd">>, <<"read", "ack">>, <<"read", "meta">>,
                    <<"wait", "caller">>, <<"write", "ack">>, <<"read", "ack">>>>)
  /\ Is(HttpTask, <<<<"write", "cmd">>, <<"read", "ack">>, <<"start", "body">>, <<"read", "resp">>>>)
  /\ Is(TwoStageTask("addr"), <<<<"write", "cmd">>, <<"read", "ack">>, <<"read", "addr">>,
                                <<"wait", "caller">>, <<"write", "ack">>>>)
  /\ Is(Handle, <<<<"read", "cmd">>, <<"write", "ack">>>>)
  /\ Is(SimpleHandler("ack"), <<<<"read", "cmd">>, <<"write", "ack">>, <<"answer", "ack">>>>)
  /\ Is(SimpleHandler("list"), <<<<"read", "cmd">>, <<"write", "ack">>, <<"answer", "list">>>>)
  /\ Is(ReadHandler, <<<<"read", "cmd">>, <<"write", "ack">>, <<"answer", "meta">>,
                       <<"read", "ack">>, <<"answer", "ack">>>>)
  /\ Is(HttpHandler, <<<<"read", "cmd">>, <<"answer", "ack">>, <<"start", "body">>,
                       <<"answer", "resp">>>>)
  /\ Is(TcpHandler, <<<<"read", "cmd">>, <<"write", "ack">>, <<"answer", "addr">>, <<"read", "ack">>>>)
<1>1. Is(Call, <<<<"write", "cmd">>, <<"read", "ack">>>>)
  BY DEF Is, Call
<1>2. Is(ListTask, <<<<"write", "cmd">>, <<"read", "ack">>, <<"read", "list">>>>)
  BY DEF Is, ListTask, Call
<1>3. Is(ReadTask, <<<<"write", "cmd">>, <<"read", "ack">>, <<"read", "meta">>,
                     <<"wait", "caller">>, <<"write", "ack">>, <<"read", "ack">>>>)
  BY DEF Is, ReadTask, TwoStageTask, Call
<1>4. Is(HttpTask, <<<<"write", "cmd">>, <<"read", "ack">>, <<"start", "body">>, <<"read", "resp">>>>)
  BY DEF Is, HttpTask, Call
<1>5. Is(TwoStageTask("addr"), <<<<"write", "cmd">>, <<"read", "ack">>, <<"read", "addr">>,
                                 <<"wait", "caller">>, <<"write", "ack">>>>)
  BY DEF Is, TwoStageTask, Call
<1>6. Is(Handle, <<<<"read", "cmd">>, <<"write", "ack">>>>)
  BY DEF Is, Handle
<1>7. Is(SimpleHandler("ack"), <<<<"read", "cmd">>, <<"write", "ack">>, <<"answer", "ack">>>>)
  BY DEF Is, SimpleHandler, Handle
<1>8. Is(SimpleHandler("list"), <<<<"read", "cmd">>, <<"write", "ack">>, <<"answer", "list">>>>)
  BY DEF Is, SimpleHandler, Handle
<1>9. Is(ReadHandler, <<<<"read", "cmd">>, <<"write", "ack">>, <<"answer", "meta">>,
                        <<"read", "ack">>, <<"answer", "ack">>>>)
  BY DEF Is, ReadHandler, Handle
<1>10. Is(HttpHandler, <<<<"read", "cmd">>, <<"answer", "ack">>, <<"start", "body">>,
                         <<"answer", "resp">>>>)
  BY DEF Is, HttpHandler
<1>11. Is(TcpHandler, <<<<"read", "cmd">>, <<"write", "ack">>, <<"answer", "addr">>,
                        <<"read", "ack">>>>)
  BY DEF Is, TcpHandler, Handle
<1> QED
  BY <1>1, <1>2, <1>3, <1>4, <1>5, <1>6, <1>7, <1>8, <1>9, <1>10, <1>11

\* The scripts of the model agree with the tables.
LEMMA ScriptsFit ==
  ASSUME NEW k \in DOMAIN Carries
  PROVE  Fits(TaskScript[k], k, "task") /\ Fits(HandlerScript[k], k, "handler")
<1>1. CASE k = "ping"
  <2>1. Is(TaskScript[k], <<<<"write", "cmd">>, <<"read", "ack">>>>)
    BY <1>1, Spelled DEF TaskScript
  <2>2. /\ Msgs[In["task"]][k] = <<"ack">> /\ ReadsAt["task"][k] = <<0, 0, 1>>
        /\ Msgs[Out["task"]][k] = <<"cmd">> /\ WritesAt["task"][k] = <<0, 1, 1>>
        /\ Carries[k] = {}
    BY <1>1 DEF Msgs, In, Out, ReadsAt, WritesAt, Carries, Dir
  <2>3. Fits(TaskScript[k], k, "task")
    BY <1>1, <2>1, <2>2 DEF Is, Fits, Reads, Writes, Message
  <2>4. Is(HandlerScript[k], <<<<"read", "cmd">>, <<"write", "ack">>>>)
    BY <1>1, Spelled DEF HandlerScript
  <2>5. /\ Msgs[In["handler"]][k] = <<"cmd">> /\ ReadsAt["handler"][k] = <<0, 1, 1>>
        /\ Msgs[Out["handler"]][k] = <<"ack">> /\ WritesAt["handler"][k] = <<0, 0, 1>>
        /\ Carries[k] = {}
    BY <1>1 DEF Msgs, In, Out, ReadsAt, WritesAt, Carries, Dir
  <2>6. Fits(HandlerScript[k], k, "handler")
    BY <1>1, <2>4, <2>5 DEF Is, Fits, Reads, Writes, Message
  <2> QED
    BY <2>3, <2>6
<1>2. CASE k = "delete"
  <2>1. Is(TaskScript[k], <<<<"write", "cmd">>, <<"read", "ack">>>>)
    BY <1>2, Spelled DEF TaskScript
  <2>2. /\ Msgs[In["task"]][k] = <<"ack", "ack">> /\ ReadsAt["task"][k] = <<0, 0, 1>>
        /\ Msgs[Out["task"]][k] = <<"cmd">> /\ WritesAt["task"][k] = <<0, 1, 1>>
        /\ Carries[k] = {}
    BY <1>2 DEF Msgs, In, Out, ReadsAt, WritesAt, Carries, Dir
  <2>3. Fits(TaskScript[k], k, "task")
    BY <1>2, <2>1, <2>2 DEF Is, Fits, Reads, Writes, Message
  <2>4. Is(HandlerScript[k], <<<<"read", "cmd">>, <<"write", "ack">>, <<"answer", "ack">>>>)
    BY <1>2, Spelled DEF HandlerScript
  <2>5. /\ Msgs[In["handler"]][k] = <<"cmd">> /\ ReadsAt["handler"][k] = <<0, 1, 1, 1>>
        /\ Msgs[Out["handler"]][k] = <<"ack", "ack">> /\ WritesAt["handler"][k] = <<0, 0, 1, 2>>
        /\ Carries[k] = {}
    BY <1>2 DEF Msgs, In, Out, ReadsAt, WritesAt, Carries, Dir
  <2>6. Fits(HandlerScript[k], k, "handler")
    BY <1>2, <2>4, <2>5 DEF Is, Fits, Reads, Writes, Message
  <2> QED
    BY <2>3, <2>6
<1>3. CASE k = "list"
  <2>1. Is(TaskScript[k], <<<<"write", "cmd">>, <<"read", "ack">>, <<"read", "list">>>>)
    BY <1>3, Spelled DEF TaskScript
  <2>2. /\ Msgs[In["task"]][k] = <<"ack", "list">> /\ ReadsAt["task"][k] = <<0, 0, 1, 2>>
        /\ Msgs[Out["task"]][k] = <<"cmd">> /\ WritesAt["task"][k] = <<0, 1, 1, 1>>
        /\ Carries[k] = {}
    BY <1>3 DEF Msgs, In, Out, ReadsAt, WritesAt, Carries, Dir
  <2>3. Fits(TaskScript[k], k, "task")
    BY <1>3, <2>1, <2>2 DEF Is, Fits, Reads, Writes, Message
  <2>4. Is(HandlerScript[k], <<<<"read", "cmd">>, <<"write", "ack">>, <<"answer", "list">>>>)
    BY <1>3, Spelled DEF HandlerScript
  <2>5. /\ Msgs[In["handler"]][k] = <<"cmd">> /\ ReadsAt["handler"][k] = <<0, 1, 1, 1>>
        /\ Msgs[Out["handler"]][k] = <<"ack", "list">> /\ WritesAt["handler"][k] = <<0, 0, 1, 2>>
        /\ Carries[k] = {}
    BY <1>3 DEF Msgs, In, Out, ReadsAt, WritesAt, Carries, Dir
  <2>6. Fits(HandlerScript[k], k, "handler")
    BY <1>3, <2>4, <2>5 DEF Is, Fits, Reads, Writes, Message
  <2> QED
    BY <2>3, <2>6
<1>4. CASE k = "read"
  <2>1. Is(TaskScript[k], <<<<"write", "cmd">>, <<"read", "ack">>, <<"read", "meta">>,
                            <<"wait", "caller">>, <<"write", "ack">>, <<"read", "ack">>>>)
    BY <1>4, Spelled DEF TaskScript
  <2>2. /\ Msgs[In["task"]][k] = <<"ack", "meta", "ack">> /\ ReadsAt["task"][k] = <<0, 0, 1, 2, 2, 2, 3>>
        /\ Msgs[Out["task"]][k] = <<"cmd", "ack">> /\ WritesAt["task"][k] = <<0, 1, 1, 1, 1, 2, 2>>
        /\ Carries[k] # {}
    BY <1>4 DEF Msgs, In, Out, ReadsAt, WritesAt, Carries, Dir
  <2>3. Fits(TaskScript[k], k, "task")
    BY <1>4, <2>1, <2>2 DEF Is, Fits, Reads, Writes, Message
  <2>4. Is(HandlerScript[k], <<<<"read", "cmd">>, <<"write", "ack">>, <<"answer", "meta">>,
                               <<"read", "ack">>, <<"answer", "ack">>>>)
    BY <1>4, Spelled DEF HandlerScript
  <2>5. /\ Msgs[In["handler"]][k] = <<"cmd", "ack">> /\ ReadsAt["handler"][k] = <<0, 1, 1, 1, 2, 2>>
        /\ Msgs[Out["handler"]][k] = <<"ack", "meta", "ack">> /\ WritesAt["handler"][k] = <<0, 0, 1, 2, 2, 3>>
        /\ Carries[k] # {}
    BY <1>4 DEF Msgs, In, Out, ReadsAt, WritesAt, Carries, Dir
  <2>6. Fits(HandlerScript[k], k, "handler")
    BY <1>4, <2>4, <2>5 DEF Is, Fits, Reads, Writes, Message
  <2> QED
    BY <2>3, <2>6
<1>5. CASE k = "http"
  <2>1. Is(TaskScript[k], <<<<"write", "cmd">>, <<"read", "ack">>, <<"start", "body">>,
                            <<"read", "resp">>>>)
    BY <1>5, Spelled DEF TaskScript
  <2>2. /\ Msgs[In["task"]][k] = <<"ack", "resp">> /\ ReadsAt["task"][k] = <<0, 0, 1, 1, 2>>
        /\ Msgs[Out["task"]][k] = <<"cmd">> /\ WritesAt["task"][k] = <<0, 1, 1, 1, 1>>
        /\ Carries[k] # {}
    BY <1>5 DEF Msgs, In, Out, ReadsAt, WritesAt, Carries, Dir
  <2>3. Fits(TaskScript[k], k, "task")
    BY <1>5, <2>1, <2>2 DEF Is, Fits, Reads, Writes, Message
  <2>4. Is(HandlerScript[k], <<<<"read", "cmd">>, <<"answer", "ack">>, <<"start", "body">>,
                               <<"answer", "resp">>>>)
    BY <1>5, Spelled DEF HandlerScript
  <2>5. /\ Msgs[In["handler"]][k] = <<"cmd">> /\ ReadsAt["handler"][k] = <<0, 1, 1, 1, 1>>
        /\ Msgs[Out["handler"]][k] = <<"ack", "resp">> /\ WritesAt["handler"][k] = <<0, 0, 1, 1, 2>>
        /\ Carries[k] # {}
    BY <1>5 DEF Msgs, In, Out, ReadsAt, WritesAt, Carries, Dir
  <2>6. Fits(HandlerScript[k], k, "handler")
    BY <1>5, <2>4, <2>5 DEF Is, Fits, Reads, Writes, Message
  <2> QED
    BY <2>3, <2>6
<1>6. CASE k \in {"tcp", "udp"}
  <2>1. Is(TaskScript[k], <<<<"write", "cmd">>, <<"read", "ack">>, <<"read", "addr">>,
                            <<"wait", "caller">>, <<"write", "ack">>>>)
    BY <1>6, Spelled DEF TaskScript
  <2>2. /\ Msgs[In["task"]][k] = <<"ack", "addr">> /\ ReadsAt["task"][k] = <<0, 0, 1, 2, 2, 2>>
        /\ Msgs[Out["task"]][k] = <<"cmd", "ack">> /\ WritesAt["task"][k] = <<0, 1, 1, 1, 1, 2>>
        /\ Carries[k] # {}
    <3>1. CASE k = "tcp"
      BY <3>1 DEF Msgs, In, Out, ReadsAt, WritesAt, Carries, Dir
    <3>2. CASE k = "udp"
      BY <3>2 DEF Msgs, In, Out, ReadsAt, WritesAt, Carries, Dir
    <3> QED
      BY <1>6, <3>1, <3>2
  <2>3. Fits(TaskScript[k], k, "task")
    BY <1>6, <2>1, <2>2 DEF Is, Fits, Reads, Writes, Message
  <2>4. Is(HandlerScript[k], <<<<"read", "cmd">>, <<"write", "ack">>, <<"answer", "addr">>,
                               <<"read", "ack">>>>)
    BY <1>6, Spelled DEF HandlerScript, UdpHandler
  <2>5. /\ Msgs[In["handler"]][k] = <<"cmd", "ack">> /\ ReadsAt["handler"][k] = <<0, 1, 1, 1, 2>>
        /\ Msgs[Out["handler"]][k] = <<"ack", "addr">> /\ WritesAt["handler"][k] = <<0, 0, 1, 2, 2>>
        /\ Carries[k] # {}
    <3>1. CASE k = "tcp"
      BY <3>1 DEF Msgs, In, Out, ReadsAt, WritesAt, Carries, Dir
    <3>2. CASE k = "udp"
      BY <3>2 DEF Msgs, In, Out, ReadsAt, WritesAt, Carries, Dir
    <3> QED
      BY <1>6, <3>1, <3>2
  <2>6. Fits(HandlerScript[k], k, "handler")
    BY <1>6, <2>4, <2>5 DEF Is, Fits, Reads, Writes, Message
  <2> QED
    BY <2>3, <2>6
<1> QED
  BY <1>1, <1>2, <1>3, <1>4, <1>5, <1>6 DEF Carries

-----------------------------------------------------------------------------
(* The inductive invariant *)

\* TypeOK, and more: each end is in its script, and no chunk is in two places.
WireTypes ==
    /\ lost \in BOOLEAN
    /\ say \in [Dir -> Seq(Message)]
    /\ flow \in [Dir -> Seq(Chunk)]
    /\ fin \in [Dir -> BOOLEAN]
    /\ wr \in [Dir -> {"own", "copy", "shut"}] /\ rd \in [Dir -> {"own", "copy", "shut"}]

EndTypes ==
    /\ kind \in Kinds /\ fault \in Faults
    /\ pc \in [End -> Nat]
    /\ phase \in [End -> {"talk", "relay", "leaving", "over"}]
    /\ told \in {"none", "ok", "err"} /\ did \in {"none", "ok", "err", "refused"}
    /\ stop \in [End -> BOOLEAN]

PipeTypes ==
    /\ src \in [Dir -> {"open", "eof", "broken"}]
    /\ snk \in [Dir -> {"open", "stalled", "gone", "eof", "text"}]
    /\ sent \in [Dir -> Nat] /\ got \in [Dir -> Nat]

InScript ==
    \A e \in End : /\ pc[e] \in 1..Len(Script(e)) + 1
                   /\ phase[e] = "talk" => pc[e] <= Len(Script(e))

Counted == \A d \in Dir : got[d] + Len(flow[d]) <= sent[d] /\ sent[d] <= Chunks

Dropped ==
    \A d \in Dir : /\ phase[WriterOf[d]] = "over" => wr[d] = "shut" \/ kind = "http"
                   /\ phase[ReaderOf[d]] = "over" => rd[d] = "shut" \/ kind = "http"

TInv == WireTypes /\ EndTypes /\ PipeTypes /\ InScript /\ Counted /\ Dropped

\* The ends agree: what is under way in a direction is what comes next in the
\* list D of its messages, or an error, and bytes follow the last message only.
\* w and r are the halves of the direction, W and R what was written and read, p
\* and q the phases of its writer and reader, s and f what is under way.
Agrees(w, r, W, R, D, p, q, c, s, f) ==
    /\ w = "copy" => W = Len(D)
    /\ r = "copy" => R = Len(D)
    /\ q = "talk" \/ r = "copy" =>
        /\ R + Len(s) <= Len(D)
        /\ p = "talk" => R + Len(s) <= W
        /\ c = "live" => R + Len(s) >= W
        /\ \A i \in 1..Len(s) : s[i] \in {D[R + i], "err"}
        /\ f # <<>> => R + Len(s) >= Len(D)

Conn == IF lost THEN "lost" ELSE "live"

Agreed(d) ==
    Agrees(wr[d], rd[d], Written(WriterOf[d]), Heard(ReaderOf[d]), Msgs[d][kind],
           phase[WriterOf[d]], phase[ReaderOf[d]], Conn, say[d], flow[d])

AInv == \A d \in Dir : Agreed(d)

\* A command other than ping and delete is told of the reply to the command
\* only if the node has done what the command says, which it does once.
Good == did = "ok" \/ (kind = "read" /\ did = "refused")

Honest ==
    kind \notin {"ping", "delete"} =>
        /\ told = "ok" => Good
        /\ \A i \in 1..Len(say["down"]) : say["down"][i] = Reply[kind] => Good
        /\ Good /\ phase["handler"] = "talk" =>
            \A i \in pc["handler"]..Len(Script("handler")) :
                ~(Script("handler")[i][1] = "answer" /\ Script("handler")[i][2] = Reply[kind])

IInv == TInv /\ AInv /\ Honest

-----------------------------------------------------------------------------
(* Types *)

\* Each direction has a writer and another reader.
LEMMA Ends ==
  /\ \A e \in End : /\ Out[e] \in Dir /\ In[e] \in Dir /\ Out[e] # In[e]
                    /\ WriterOf[Out[e]] = e /\ ReaderOf[In[e]] = e
  /\ \A d \in Dir : /\ WriterOf[d] \in End /\ ReaderOf[d] \in End /\ WriterOf[d] # ReaderOf[d]
                    /\ Out[WriterOf[d]] = d /\ In[ReaderOf[d]] = d
  /\ "task" \in End /\ "handler" \in End /\ "up" \in Dir /\ "down" \in Dir
  /\ Out["task"] = "up" /\ Out["handler"] = "down"
BY DEF End, Dir, Out, In, WriterOf, ReaderOf

\* The script of an end fits the tables.
LEMMA ScriptFits ==
  ASSUME kind \in Kinds, NEW e \in End
  PROVE  Fits(Script(e), kind, e)
<1>1. kind \in DOMAIN Carries
  BY CommandAssumption
<1>2. CASE e = "task"
  BY <1>1, <1>2, ScriptsFit DEF Script
<1>3. CASE e = "handler"
  BY <1>1, <1>3, ScriptsFit DEF Script
<1> QED
  BY <1>2, <1>3 DEF End

\* What is written next is a message, and a start is never the last step.
LEMMA NextStep ==
  ASSUME EndTypes, InScript, NEW e \in End, phase[e] = "talk"
  PROVE  /\ Len(Script(e)) \in Nat \ {0}
         /\ pc[e] \in 1..Len(Script(e))
         /\ At(e, "write") \/ At(e, "answer") \/ At(e, "read") => What(e) \in Message \ {"err"}
         /\ At(e, "start") => kind = "http" /\ pc[e] < Len(Script(e))
<1>1. Fits(Script(e), kind, e)
  BY ScriptFits DEF EndTypes
<1>2. Len(Script(e)) \in Nat \ {0}
  BY <1>1 DEF Fits
<1>3. pc[e] \in 1..Len(Script(e))
  BY <1>2 DEF InScript, EndTypes
<1>4. /\ Script(e)[pc[e]][1] \in {"write", "answer", "read"} => Script(e)[pc[e]][2] \in Message \ {"err"}
      /\ Script(e)[pc[e]][1] = "start" => kind = "http" /\ pc[e] < Len(Script(e))
  BY <1>1, <1>3 DEF Fits
<1> QED
  BY <1>2, <1>3, <1>4 DEF At, What

\* The first elements of a sequence are a sequence of its elements.
LEMMA FirstOf ==
  ASSUME NEW S, NEW s \in Seq(S), NEW n \in Int
  PROVE  /\ First(s, n) \in Seq(S)
         /\ Len(First(s, n)) \in 0..Len(s)
         /\ \A i \in 1..Len(First(s, n)) : First(s, n)[i] = s[i]
         /\ n > Len(s) => First(s, n) = s
         /\ n <= 0 => First(s, n) = <<>>
<1> USE DEF First
<1>1. CASE n >= Len(s)
  BY <1>1
<1>2. CASE n < Len(s) /\ n > 0
  BY <1>2
<1>3. CASE n <= 0
  BY <1>3
<1> QED
  BY <1>1, <1>2, <1>3

\* A release leaves a subset of what was there.
LEMMA ReleaseTyped ==
  ASSUME WireTypes, NEW W, NEW R, Release(W, R)
  PROVE  WireTypes'
BY DEF WireTypes, Release

\* Going on in a script touches no message.
LEMMA AdvanceTyped ==
  ASSUME WireTypes, NEW e \in End, Advance(e)
  PROVE  /\ wr' \in [Dir -> {"own", "copy", "shut"}]
         /\ rd' \in [Dir -> {"own", "copy", "shut"}]
<1>1. CASE UNCHANGED <<wr, rd>>
  BY <1>1 DEF WireTypes
<1>2. CASE StartCopies(e, Carries[kind])
  BY <1>2 DEF WireTypes, StartCopies
<1> QED
  BY <1>1, <1>2 DEF Advance

\* A failure leaves the halves alone.
LEMMA WireStep ==
  ASSUME WireTypes, EndTypes, InScript, [Next]_vars
  PROVE  WireTypes'
<1> USE Ends
<1>1. CASE UNCHANGED streamVars
  BY <1>1 DEF WireTypes, streamVars, wireVars
<1>2. ASSUME NEW e \in End, Say(e) PROVE WireTypes'
  <2> USE <1>2 DEF Say, wireVars
  <2>1. phase[e] = "talk" /\ At(e, "write") /\ lost' = lost
    BY DEF At
  <2>2. What(e) \in Message
    BY <2>1, NextStep
  <2>3. CASE CanWrite(Out[e]) /\ Write(Out[e], What(e)) /\ Advance(e)
    <3>1. say' = [say EXCEPT ![Out[e]] = Append(@, What(e))] /\ UNCHANGED <<flow, fin>>
      BY <2>3 DEF Write
    <3>2. say' \in [Dir -> Seq(Message)]
      BY <2>2, <3>1 DEF WireTypes
    <3> QED
      BY <2>1, <2>3, <3>1, <3>2, AdvanceTyped DEF WireTypes
  <2>4. CASE UNCHANGED <<say, flow, fin, wr, rd>>
    BY <2>1, <2>4 DEF WireTypes
  <2> QED
    BY <2>3, <2>4
<1>3. ASSUME NEW e \in End, Hear(e) PROVE WireTypes'
  <2>1. lost' = lost
    BY <1>3 DEF Hear
  <2>2. CASE say[In[e]] # <<>> /\ Read(In[e]) /\ (Advance(e) \/ UNCHANGED <<wr, rd>>)
    <3>1. say' = [say EXCEPT ![In[e]] = Tail(@)] /\ UNCHANGED <<flow, fin>>
      BY <2>2 DEF Read
    <3>2. say' \in [Dir -> Seq(Message)]
      BY <2>2, <3>1 DEF WireTypes
    <3> QED
      BY <2>1, <2>2, <3>1, <3>2, AdvanceTyped DEF WireTypes
  <2>3. CASE UNCHANGED <<say, flow, fin, wr, rd>>
    BY <2>1, <2>3 DEF WireTypes
  <2> QED
    BY <1>3, <2>2, <2>3 DEF Hear, wireVars
<1>4. CASE Wait
  BY <1>4, AdvanceTyped DEF Wait, WireTypes, wireVars
<1>5. ASSUME NEW e \in End, StartBody(e) PROVE WireTypes'
  BY <1>5 DEF StartBody, StartCopies, WireTypes, wireVars
<1>6. CASE Answer
  <2>1. phase["handler"] = "talk" /\ lost' = lost
    BY <1>6 DEF Answer, At
  <2>2. What("handler") \in Message
    BY <1>6, <2>1, NextStep DEF Answer
  <2>3. ASSUME NEW v, Write("down", Report(v)), UNCHANGED <<wr, rd>> \/ Advance("handler")
        PROVE WireTypes'
    <3>1. say' = [say EXCEPT !["down"] = Append(@, Report(v))] /\ UNCHANGED <<flow, fin>>
      BY <2>3 DEF Write
    <3>2. Report(v) \in Message
      BY <2>2 DEF Report, Message
    <3>3. say' \in [Dir -> Seq(Message)]
      BY <3>1, <3>2 DEF WireTypes
    <3> QED
      BY <2>1, <2>3, <3>1, <3>3, AdvanceTyped DEF WireTypes
  <2>4. CASE UNCHANGED <<say, flow, fin, wr, rd>>
    BY <2>1, <2>4 DEF WireTypes
  <2> QED
    BY <1>6, <2>3, <2>4 DEF Answer, wireVars
<1>7. ASSUME NEW d \in Dir, Pull(d) PROVE WireTypes'
  <2>1. PICK c \in Frames : SendChunk(d, c)
    BY <1>7 DEF Pull
  <2>2. c \in Chunk
    BY CommandAssumption DEF Frames, Chunk
  <2> QED
    BY <1>7, <2>1, <2>2 DEF Pull, SendChunk, WireTypes
<1>8. ASSUME NEW d \in Dir, Push(d) PROVE WireTypes'
  BY <1>8 DEF Push, HasChunk, TakeChunk, WireTypes
<1>9. ASSUME NEW W, NEW R, Release(W, R) PROVE WireTypes'
  BY <1>9, ReleaseTyped
<1>10. CASE ConnLost
  <2>1. PICK n \in [Dir -> 0..Window + 1] :
          /\ say' = [d \in Dir |-> First(say[d], n[d])]
          /\ flow' = [d \in Dir |-> First(flow[d], n[d] - Len(say[d]))]
          /\ fin' = [d \in Dir |-> fin[d] /\ n[d] > Len(say[d]) + Len(flow[d])]
    BY <1>10 DEF ConnLost, Lose
  <2>2. \A d \in Dir : First(say[d], n[d]) \in Seq(Message)
    BY FirstOf, CommandAssumption DEF WireTypes
  <2>3. \A d \in Dir : First(flow[d], n[d] - Len(say[d])) \in Seq(Chunk)
    <3>1. \A d \in Dir : n[d] - Len(say[d]) \in Int
      BY CommandAssumption DEF WireTypes
    <3> QED
      BY <3>1, FirstOf DEF WireTypes
  <2>4. UNCHANGED <<wr, rd>> /\ lost' = TRUE
    BY <1>10 DEF ConnLost, Lose
  <2> QED
    BY <2>1, <2>2, <2>3, <2>4 DEF WireTypes
<1>11. ASSUME NEW e \in End, Finish(e) \/ Cancel(e) \/ Stop(e) PROVE UNCHANGED streamVars
  BY <1>11 DEF Finish, Cancel, Stop
<1>12. ASSUME NEW e \in End, Leave(e) PROVE WireTypes'
  BY <1>9, <1>12 DEF Leave
<1>13. ASSUME NEW d \in Dir, PullEnd(d) \/ PushFail(d) \/ PushEnd(d) PROVE WireTypes'
  BY <1>9, <1>13 DEF PullEnd, PushFail, PushEnd
<1>14. CASE AssociateClosed \/ Terminated \/ UNCHANGED vars
  BY <1>1, <1>14 DEF AssociateClosed, Terminated, vars, End
<1>15. CASE CancelBody
  BY <1>9, <1>15 DEF CancelBody
<1>16. ASSUME NEW d \in Dir, NEW x, Source(d, x) \/ Sink(d, x) PROVE UNCHANGED streamVars
  BY <1>16 DEF Source, Sink
<1> QED
  BY <1>1, <1>2, <1>3, <1>4, <1>5, <1>6, <1>7, <1>8, <1>10, <1>11, <1>12, <1>13, <1>14, <1>15,
     <1>16 DEF Next

\* Nor does any step leave the types of the ends.
LEMMA EndStep ==
  ASSUME EndTypes, InScript, [Next]_vars
  PROVE  EndTypes'
<1> USE Ends DEF EndTypes
<1>1. CASE UNCHANGED endVars
  BY <1>1 DEF endVars
<1>2. ASSUME NEW e \in End, Advance(e), told' \in {"none", "ok", "err"},
             did' \in {"none", "ok", "err", "refused"}, UNCHANGED <<kind, fault, stop>>
      PROVE EndTypes'
  BY <1>2 DEF Advance
<1>3. ASSUME NEW e \in End, Fail(e), did' \in {"none", "ok", "err", "refused"},
             UNCHANGED <<kind, fault, stop>>
      PROVE EndTypes'
  BY <1>3 DEF Fail
<1>4. ASSUME NEW e \in End, Say(e) \/ Hear(e) PROVE EndTypes'
  BY <1>2, <1>3, <1>4 DEF Say, Hear
<1>5. CASE Wait
  BY <1>2, <1>3, <1>5 DEF Wait
<1>6. CASE Answer
  BY <1>2, <1>3, <1>6 DEF Answer
<1>7. ASSUME NEW e \in End, StartBody(e) \/ Leave(e) \/ Stop(e) PROVE EndTypes'
  <2>1. CASE StartBody(e)
    BY <2>1 DEF StartBody
  <2>2. CASE Leave(e)
    <3>1. phase' = [phase EXCEPT ![e] = "over"] /\ UNCHANGED <<kind, fault, pc, told, did, stop>>
      BY <2>2 DEF Leave
    <3> QED
      BY <3>1
  <2>3. CASE Stop(e)
    BY <2>3 DEF Stop
  <2> QED
    BY <1>7, <2>1, <2>2, <2>3
<1>8. ASSUME NEW e \in End, Finish(e) \/ Cancel(e) PROVE EndTypes'
  BY <1>3, <1>8 DEF Finish, Cancel
<1>9. ASSUME NEW d \in Dir, Pull(d) \/ PullEnd(d) \/ Push(d) PROVE EndTypes'
  BY <1>1, <1>9 DEF Pull, PullEnd, Push
<1>10. ASSUME NEW d \in Dir, PushFail(d) \/ PushEnd(d) PROVE EndTypes'
  <2>1. CASE Fail("task") /\ UNCHANGED <<kind, fault, did, stop>>
    BY <1>3, <2>1
  <2>2. CASE UNCHANGED <<pc, phase, told, kind, fault, did, stop>>
    BY <2>2
  <2> QED
    BY <1>10, <2>1, <2>2 DEF PushFail, PushEnd
<1>11. CASE AssociateClosed
  BY <1>3, <1>11 DEF AssociateClosed
<1>12. CASE CancelBody \/ ConnLost \/ Terminated \/ UNCHANGED vars
  BY <1>1, <1>12 DEF CancelBody, ConnLost, Terminated, vars, End
<1>13. ASSUME NEW d \in Dir, NEW x, Source(d, x) \/ Sink(d, x) PROVE UNCHANGED endVars
  BY <1>13 DEF Source, Sink
<1> QED
  BY <1>1, <1>4, <1>5, <1>6, <1>7, <1>8, <1>9, <1>10, <1>11, <1>12, <1>13 DEF Next

\* Nor those of the sources and sinks.
LEMMA PipeStep ==
  ASSUME PipeTypes, [Next]_vars
  PROVE  PipeTypes'
<1> USE DEF PipeTypes
<1>1. CASE UNCHANGED pipeVars
  BY <1>1 DEF pipeVars
<1>2. ASSUME NEW e \in End, Say(e) \/ Hear(e) \/ StartBody(e) \/ Finish(e) \/ Cancel(e) \/ Stop(e)
      PROVE UNCHANGED pipeVars
  BY <1>2 DEF Say, Hear, StartBody, Finish, Cancel, Stop
<1>3. CASE Wait \/ Answer \/ CancelBody \/ AssociateClosed \/ ConnLost \/ Terminated \/ UNCHANGED vars
  BY <1>1, <1>3 DEF Wait, Answer, CancelBody, AssociateClosed, ConnLost, Terminated, vars, End
<1>4. ASSUME NEW e \in End, Leave(e) PROVE PipeTypes'
  <2>1. UNCHANGED <<src, sent, got>>
    BY <1>4 DEF Leave
  <2>2. snk' = snk \/ \E x \in {"gone", "eof", "text"} : snk' = [snk EXCEPT ![In[e]] = x]
                   \/ snk' = [snk EXCEPT ![In[e]] = @]
    BY <1>4 DEF Leave, Ending
  <2> QED
    BY <2>1, <2>2
<1>5. ASSUME NEW d \in Dir, Pull(d) \/ PullEnd(d) \/ Push(d) \/ PushFail(d) PROVE PipeTypes'
  BY <1>5 DEF Pull, PullEnd, Push, PushFail, pipeVars
<1>6. ASSUME NEW d \in Dir, PushEnd(d) PROVE PipeTypes'
  BY <1>6 DEF PushEnd
<1>7. ASSUME NEW d \in Dir, Source(d, "eof") \/ Source(d, "broken") PROVE PipeTypes'
  BY <1>7 DEF Source
<1>8. ASSUME NEW d \in Dir, Sink(d, "open") \/ Sink(d, "stalled") \/ Sink(d, "gone")
      PROVE PipeTypes'
  BY <1>8 DEF Sink
<1> QED
  BY <1>1, <1>2, <1>3, <1>4, <1>5, <1>6, <1>7, <1>8 DEF Next

\* The script of an end depends on the kind of the command only.
LEMMA SameScript ==
  ASSUME kind' = kind
  PROVE  \A e : Script(e)' = Script(e) /\ Len(Script(e))' = Len(Script(e))
BY DEF Script

\* A stream carries one command.
LEMMA KindKept ==
  ASSUME [Next]_vars
  PROVE  kind' = kind
<1>1. ASSUME NEW e \in End, Say(e) \/ Hear(e) \/ StartBody(e) \/ Finish(e) \/ Leave(e)
      PROVE kind' = kind
  BY <1>1 DEF Say, Hear, StartBody, Finish, Leave
<1>2. ASSUME NEW e \in End, Cancel(e) \/ Stop(e) PROVE kind' = kind
  BY <1>2 DEF Cancel, Stop
<1>3. CASE Wait \/ Answer \/ CancelBody \/ AssociateClosed \/ ConnLost
  BY <1>3 DEF Wait, Answer, CancelBody, AssociateClosed, ConnLost, endVars
<1>4. ASSUME NEW d \in Dir, Pull(d) \/ PullEnd(d) \/ Push(d) \/ PushFail(d) \/ PushEnd(d)
      PROVE kind' = kind
  BY <1>4 DEF Pull, PullEnd, Push, PushFail, PushEnd, endVars
<1>5. ASSUME NEW d \in Dir, NEW x, Source(d, x) \/ Sink(d, x) PROVE kind' = kind
  BY <1>5 DEF Source, Sink, endVars
<1>6. CASE Terminated \/ UNCHANGED vars
  BY <1>6 DEF Terminated, vars, endVars, End
<1> QED
  BY <1>1, <1>2, <1>3, <1>4, <1>5, <1>6 DEF Next

\* No end leaves its script without leaving the talk.
LEMMA InScriptStep ==
  ASSUME EndTypes, InScript, [Next]_vars
  PROVE  InScript' /\ kind' = kind
<1> USE Ends DEF EndTypes
<1>1. kind' = kind
  BY KindKept
<1>2. \A e \in End : Len(Script(e)) \in Nat \ {0}
  BY ScriptFits DEF Fits
<1>3. CASE pc' = pc /\ \A e \in End : phase'[e] = "talk" => phase[e] = "talk"
  BY <1>1, <1>3, SameScript DEF InScript
<1>4. ASSUME NEW e \in End, phase[e] = "talk", Advance(e) PROVE InScript'
  <2>1. pc[e] \in 1..Len(Script(e))
    BY <1>4, NextStep
  <2>2. /\ pc' = [pc EXCEPT ![e] = @ + 1]
        /\ \A o \in End \ {e} : phase'[o] = phase[o]
        /\ phase'[e] = "talk" => pc[e] < Len(Script(e))
    BY <1>4, <2>1 DEF Advance
  <2> QED
    BY <1>1, <1>2, <2>1, <2>2, SameScript DEF InScript
<1>5. ASSUME NEW e \in End, Fail(e) PROVE InScript'
  BY <1>3, <1>5 DEF Fail
<1>6. ASSUME NEW e \in End, Say(e) \/ Hear(e) PROVE InScript'
  BY <1>4, <1>5, <1>6 DEF Say, Hear, At
<1>7. CASE Wait \/ Answer
  BY <1>4, <1>5, <1>7 DEF Wait, Answer, At
<1>8. ASSUME NEW e \in End, StartBody(e) PROVE InScript'
  <2>1. pc[e] \in 1..Len(Script(e)) /\ pc[e] < Len(Script(e))
    BY <1>8, NextStep DEF StartBody, At
  <2>2. pc' = [pc EXCEPT ![e] = @ + 1] /\ phase' = phase
    BY <1>8 DEF StartBody
  <2> QED
    BY <1>1, <1>2, <2>1, <2>2, SameScript DEF InScript
<1>9. ASSUME NEW e \in End, Finish(e) \/ Cancel(e) PROVE InScript'
  BY <1>5, <1>9 DEF Finish, Cancel
<1>10. ASSUME NEW e \in End, Leave(e) \/ Stop(e) PROVE InScript'
  BY <1>3, <1>10 DEF Leave, Stop
<1>11. ASSUME NEW d \in Dir, PushFail(d) \/ PushEnd(d) PROVE InScript'
  BY <1>3, <1>5, <1>11 DEF PushFail, PushEnd
<1>12. CASE UNCHANGED endVars
  BY <1>3, <1>12 DEF endVars
<1>13. ASSUME NEW d \in Dir, Pull(d) \/ PullEnd(d) \/ Push(d) PROVE UNCHANGED endVars
  BY <1>13 DEF Pull, PullEnd, Push
<1>14. CASE CancelBody \/ ConnLost \/ Terminated \/ UNCHANGED vars
  BY <1>12, <1>14 DEF CancelBody, ConnLost, Terminated, vars, End
<1>15. ASSUME NEW d \in Dir, NEW x, Source(d, x) \/ Sink(d, x) PROVE UNCHANGED endVars
  BY <1>15 DEF Source, Sink
<1>16. CASE AssociateClosed
  BY <1>5, <1>16 DEF AssociateClosed
<1> QED
  BY <1>1, <1>6, <1>7, <1>8, <1>9, <1>10, <1>11, <1>12, <1>13, <1>14, <1>15, <1>16 DEF Next

-----------------------------------------------------------------------------
(* Agreement: what may happen to one direction *)

\* Neither end writes or reads a message; the reader may stop listening, and then
\* what becomes of the messages does not matter.
LEMMA StaysAgreed ==
  ASSUME NEW w, NEW r, NEW W \in Nat, NEW R \in Nat, NEW D, NEW p, NEW q, NEW c,
         NEW s, NEW f, Agrees(w, r, W, R, D, p, q, c, s, f),
         NEW w1, NEW r1, NEW p1, NEW q1, NEW s1, NEW f1,
         w1 = "copy" => w = "copy" \/ W = Len(D),
         r1 = "copy" => r = "copy" \/ (q = "talk" /\ R = Len(D)),
         p1 = "talk" => p = "talk",
         q1 = "talk" => q = "talk",
         s1 = s \/ (q1 # "talk" /\ r1 # "copy"),
         f1 # <<>> => f # <<>> \/ (w = "copy" /\ c = "live")
  PROVE  Agrees(w1, r1, W, R, D, p1, q1, c, s1, f1)
BY DEF Agrees

\* The writer writes its next message.
LEMMA WriteAgreed ==
  ASSUME NEW w, NEW r, NEW W \in Nat, NEW R \in Nat, NEW D \in Seq(Message), NEW p, NEW q,
         NEW c, c = "live",
         NEW s \in Seq(Message), NEW f, Agrees(w, r, W, R, D, p, q, c, s, f),
         NEW w1, NEW W1, NEW p1, NEW s1,
         W1 = W + 1, W1 <= Len(D), s1 = Append(s, D[W1]),
         p = "talk", w1 = "copy" => w = "copy" \/ W1 = Len(D)
  PROVE  Agrees(w1, r, W1, R, D, p1, q, c, s1, f)
<1>1. Len(s1) = Len(s) + 1 /\ s1[Len(s) + 1] = D[W1] /\ \A i \in 1..Len(s) : s1[i] = s[i]
  OBVIOUS
<1>2. Len(s) \in Nat /\ Len(D) \in Nat
  OBVIOUS
<1>3. w1 = "copy" => W1 = Len(D)
  BY <1>2 DEF Agrees
<1>4. CASE q = "talk" \/ r = "copy"
  <2>1. R + Len(s) = W
    BY <1>2, <1>4 DEF Agrees
  <2>2. \A i \in 1..Len(s1) : s1[i] \in {D[R + i], "err"}
    BY <1>1, <1>2, <1>4, <2>1 DEF Agrees
  <2> QED
    BY <1>1, <1>2, <1>3, <1>4, <2>1, <2>2 DEF Agrees
<1>5. CASE ~(q = "talk" \/ r = "copy")
  BY <1>3, <1>5 DEF Agrees
<1> QED
  BY <1>4, <1>5

\* The writer writes an error instead, and talks no more.
LEMMA ErrorAgreed ==
  ASSUME NEW w, NEW r, NEW W \in Nat, NEW R \in Nat, NEW D \in Seq(Message), NEW p, NEW q,
         NEW c, c = "live",
         NEW s \in Seq(Message), NEW f, Agrees(w, r, W, R, D, p, q, c, s, f),
         NEW p1, p = "talk", p1 # "talk", W + 1 <= Len(D)
  PROVE  Agrees(w, r, W, R, D, p1, q, c, Append(s, "err"), f)
<1> DEFINE s1 == Append(s, "err")
<1>1. Len(s1) = Len(s) + 1 /\ s1[Len(s) + 1] = "err" /\ \A i \in 1..Len(s) : s1[i] = s[i]
  BY DEF Message
<1>2. Len(s) \in Nat /\ Len(D) \in Nat
  OBVIOUS
<1> HIDE DEF s1
<1> QED
  BY <1>1, <1>2 DEF Agrees, s1

\* The reader reads the next message.
LEMMA ReadAgreed ==
  ASSUME NEW w, NEW r, NEW W \in Nat, NEW R \in Nat, NEW D \in Seq(Message), NEW p, NEW q,
         NEW c,
         NEW s \in Seq(Message), NEW f, Agrees(w, r, W, R, D, p, q, c, s, f),
         NEW r1, NEW q1, q = "talk", s # <<>>,
         r1 = "copy" => r = "copy" \/ R + 1 = Len(D), R + 1 <= Len(D)
  PROVE  Agrees(w, r1, W, R + 1, D, p, q1, c, Tail(s), f)
<1> DEFINE s1 == Tail(s)
<1>1. Len(s1) = Len(s) - 1 /\ \A i \in 1..Len(s1) : s1[i] = s[i + 1]
  OBVIOUS
<1>2. Len(s) \in Nat /\ Len(D) \in Nat /\ Len(s) >= 1
  OBVIOUS
<1> HIDE DEF s1
<1>3. \A i \in 1..Len(s1) : s1[i] \in {D[(R + 1) + i], "err"}
  <2> SUFFICES ASSUME NEW i \in 1..Len(s1) PROVE s1[i] \in {D[(R + 1) + i], "err"}
    OBVIOUS
  <2>1. i + 1 \in 1..Len(s) /\ R + (i + 1) = (R + 1) + i
    BY <1>1, <1>2
  <2> QED
    BY <1>1, <2>1 DEF Agrees
<1> QED
  BY <1>1, <1>2, <1>3 DEF Agrees, s1

\* The connection is lost, and with it the rear of what is under way.
LEMMA LossAgreed ==
  ASSUME NEW w, NEW r, NEW W \in Nat, NEW R \in Nat, NEW D \in Seq(Message), NEW p, NEW q,
         NEW c, NEW s \in Seq(Message), NEW f, Agrees(w, r, W, R, D, p, q, c, s, f),
         NEW s1, NEW f1, Len(s1) \in 0..Len(s), \A i \in 1..Len(s1) : s1[i] = s[i],
         f1 # <<>> => f # <<>> /\ s1 = s
  PROVE  Agrees(w, r, W, R, D, p, q, "lost", s1, f1)
<1>1. Len(s) \in Nat /\ Len(D) \in Nat
  OBVIOUS
<1> QED
  BY <1>1 DEF Agrees

-----------------------------------------------------------------------------
(* Agreement: the steps *)

\* The messages of a direction are messages.
LEMMA MsgsTyped ==
  ASSUME NEW k \in DOMAIN Carries, NEW d \in Dir
  PROVE  Msgs[d][k] \in Seq(Message)
<1>1. /\ <<"cmd">> \in Seq(Message) /\ <<"cmd", "ack">> \in Seq(Message)
      /\ <<"ack">> \in Seq(Message) /\ <<"ack", "ack">> \in Seq(Message)
      /\ <<"ack", "list">> \in Seq(Message) /\ <<"ack", "meta", "ack">> \in Seq(Message)
      /\ <<"ack", "resp">> \in Seq(Message) /\ <<"ack", "addr">> \in Seq(Message)
  BY DEF Message
<1>2. CASE d = "up"
  <2>1. Msgs[d][k] \in {<<"cmd">>, <<"cmd", "ack">>}
    BY <1>2 DEF Msgs, Carries
  <2> QED
    BY <1>1, <2>1
<1>3. CASE d = "down"
  <2>1. Msgs[d][k] \in {<<"ack">>, <<"ack", "ack">>, <<"ack", "list">>, <<"ack", "meta", "ack">>,
                       <<"ack", "resp">>, <<"ack", "addr">>}
    BY <1>3 DEF Msgs, Carries
  <2> QED
    BY <1>1, <2>1
<1> QED
  BY <1>2, <1>3 DEF Dir

\* The lists of messages, and how far an end is in them.
LEMMA Places ==
  ASSUME EndTypes, InScript, NEW e \in End
  PROVE  /\ Msgs[In[e]][kind] \in Seq(Message) /\ Msgs[Out[e]][kind] \in Seq(Message)
         /\ Heard(e) \in 0..Len(Msgs[In[e]][kind])
         /\ Written(e) \in 0..Len(Msgs[Out[e]][kind])
<1>1. kind \in DOMAIN Carries
  BY CommandAssumption DEF EndTypes
<1>2. \A d \in Dir : Msgs[d][kind] \in Seq(Message)
  BY <1>1, MsgsTyped
<1>3. Fits(Script(e), kind, e)
  BY ScriptFits DEF EndTypes
<1>4. pc[e] \in 1..Len(Script(e)) + 1
  BY DEF InScript
<1>5. Heard(e) \in 0..Len(Msgs[In[e]][kind])
  BY <1>3, <1>4 DEF Fits, Reads, Heard
<1>6. Written(e) \in 0..Len(Msgs[Out[e]][kind])
  BY <1>3, <1>4 DEF Fits, Writes, Written
<1> QED
  BY <1>2, <1>5, <1>6, Ends

\* The counts at the next place of a script.
HeardNext(e) == ReadsAt[e][kind][pc[e] + 1]
WrittenNext(e) == WritesAt[e][kind][pc[e] + 1]

\* What the next step of an end does to its counts.
LEMMA NextPlace ==
  ASSUME EndTypes, InScript, NEW e \in End, phase[e] = "talk"
  PROVE  /\ HeardNext(e) \in 0..Len(Msgs[In[e]][kind])
         /\ WrittenNext(e) \in 0..Len(Msgs[Out[e]][kind])
         /\ IF At(e, "read") THEN /\ HeardNext(e) = Heard(e) + 1
                                  /\ What(e) = Msgs[In[e]][kind][Heard(e) + 1]
                             ELSE HeardNext(e) = Heard(e)
         /\ IF At(e, "write") \/ At(e, "answer")
            THEN /\ WrittenNext(e) = Written(e) + 1
                 /\ What(e) = Msgs[Out[e]][kind][Written(e) + 1]
            ELSE WrittenNext(e) = Written(e)
         /\ pc[e] = Len(Script(e)) =>
              /\ WrittenNext(e) = Len(Msgs[Out[e]][kind])
              /\ Carries[kind] # {} => HeardNext(e) = Len(Msgs[In[e]][kind])
         /\ At(e, "start") =>
              /\ e = "task" => Written(e) = Len(Msgs[Out[e]][kind])
              /\ e = "handler" => Heard(e) = Len(Msgs[In[e]][kind])
<1>1. Fits(Script(e), kind, e)
  BY ScriptFits DEF EndTypes
<1>2. pc[e] \in 1..Len(Script(e)) /\ pc[e] + 1 \in 1..Len(Script(e)) + 1
  BY NextStep
<1>3. /\ Reads(Script(e), e = "handler", Msgs[In[e]][kind], ReadsAt[e][kind])
      /\ Carries[kind] # {} => ReadsAt[e][kind][Len(Script(e)) + 1] = Len(Msgs[In[e]][kind])
      /\ Writes(Script(e), e = "task", Msgs[Out[e]][kind], WritesAt[e][kind])
  BY <1>1 DEF Fits
<1>4. /\ HeardNext(e) \in 0..Len(Msgs[In[e]][kind])
      /\ IF At(e, "read") THEN /\ HeardNext(e) = Heard(e) + 1
                               /\ What(e) = Msgs[In[e]][kind][Heard(e) + 1]
                          ELSE HeardNext(e) = Heard(e)
      /\ At(e, "start") /\ e = "handler" => Heard(e) = Len(Msgs[In[e]][kind])
  BY <1>2, <1>3 DEF Reads, At, What, Heard, HeardNext
<1>5. /\ WrittenNext(e) \in 0..Len(Msgs[Out[e]][kind])
      /\ IF At(e, "write") \/ At(e, "answer")
         THEN /\ WrittenNext(e) = Written(e) + 1
              /\ What(e) = Msgs[Out[e]][kind][Written(e) + 1]
         ELSE WrittenNext(e) = Written(e)
      /\ At(e, "start") /\ e = "task" => Written(e) = Len(Msgs[Out[e]][kind])
  BY <1>2, <1>3 DEF Writes, At, What, Written, WrittenNext
<1>6. pc[e] = Len(Script(e)) =>
        /\ WrittenNext(e) = Len(Msgs[Out[e]][kind])
        /\ Carries[kind] # {} => HeardNext(e) = Len(Msgs[In[e]][kind])
  BY <1>2, <1>3 DEF Writes, WrittenNext, HeardNext
<1> QED
  BY <1>4, <1>5, <1>6

\* The counts of an end change with its place only.
LEMMA Counts ==
  ASSUME kind' = kind, NEW e \in End
  PROVE  /\ pc'[e] = pc[e] => Heard(e)' = Heard(e) /\ Written(e)' = Written(e)
         /\ pc'[e] = pc[e] + 1 => Heard(e)' = HeardNext(e) /\ Written(e)' = WrittenNext(e)
BY DEF Heard, Written, HeardNext, WrittenNext

\* A copy begins only when an end has written, or read, all messages.
LEMMA CopiesBegin ==
  ASSUME WireTypes, EndTypes, InScript, NEW e \in End, phase[e] = "talk", Advance(e)
  PROVE  /\ \A d \in Dir \ {Out[e]} : wr'[d] = wr[d]
         /\ \A d \in Dir \ {In[e]} : rd'[d] = rd[d]
         /\ wr'[Out[e]] = "copy" => wr[Out[e]] = "copy" \/ WrittenNext(e) = Len(Msgs[Out[e]][kind])
         /\ rd'[In[e]] = "copy" => rd[In[e]] = "copy" \/ HeardNext(e) = Len(Msgs[In[e]][kind])
<1>1. CASE UNCHANGED <<wr, rd>>
  BY <1>1
<1>2. CASE pc[e] = Len(Script(e)) /\ StartCopies(e, Carries[kind])
  <2>1. wr' = [wr EXCEPT ![Out[e]] = IF Out[e] \in Carries[kind] /\ @ = "own" THEN "copy" ELSE @]
    BY <1>2 DEF StartCopies
  <2>2. rd' = [rd EXCEPT ![In[e]] = IF In[e] \in Carries[kind] /\ @ = "own" THEN "copy" ELSE @]
    BY <1>2 DEF StartCopies
  <2>3. WrittenNext(e) = Len(Msgs[Out[e]][kind])
    BY <1>2, NextPlace
  <2>4. In[e] \in Carries[kind] => HeardNext(e) = Len(Msgs[In[e]][kind])
    BY <1>2, NextPlace
  <2> QED
    BY <2>1, <2>2, <2>3, <2>4, Ends DEF WireTypes
<1> QED
  BY <1>1, <1>2, NextStep DEF Advance

\* No message is written or read, and no end goes on in its script.
Calm ==
    /\ UNCHANGED <<kind, pc, lost>>
    /\ \A e \in End : phase'[e] = "talk" => phase[e] = "talk"
    /\ \A d \in Dir :
        /\ wr'[d] = "copy" => wr[d] = "copy"
        /\ rd'[d] = "copy" => rd[d] = "copy"
        /\ say'[d] = say[d] \/ (phase'[ReaderOf[d]] # "talk" /\ rd'[d] # "copy")
        /\ flow'[d] # <<>> => flow[d] # <<>> \/ (wr[d] = "copy" /\ ~lost)

\* Such a step keeps the agreement.
LEMMA CalmAgreed ==
  ASSUME WireTypes, EndTypes, InScript, AInv, Calm
  PROVE  AInv'
<1> SUFFICES ASSUME NEW d \in Dir PROVE Agreed(d)'
  BY DEF AInv
<1> DEFINE e == WriterOf[d]
           o == ReaderOf[d]
<1>1. e \in End /\ o \in End /\ Out[e] = d /\ In[o] = d
  BY Ends
<1>2. Written(e) \in Nat /\ Heard(o) \in Nat
  BY <1>1, Places
<1>3. Written(e)' = Written(e) /\ Heard(o)' = Heard(o)
  BY <1>1, Counts DEF Calm
<1>4. Agrees(wr[d], rd[d], Written(e), Heard(o), Msgs[d][kind], phase[e], phase[o], Conn, say[d], flow[d])
  BY DEF AInv, Agreed
<1>5. Agrees(wr'[d], rd'[d], Written(e), Heard(o), Msgs[d][kind], phase'[e], phase'[o], Conn, say'[d], flow'[d])
  <2>1. /\ wr'[d] = "copy" => wr[d] = "copy" \/ Written(e) = Len(Msgs[d][kind])
        /\ rd'[d] = "copy" => rd[d] = "copy" \/ (phase[o] = "talk" /\ Heard(o) = Len(Msgs[d][kind]))
        /\ phase'[e] = "talk" => phase[e] = "talk"
        /\ phase'[o] = "talk" => phase[o] = "talk"
        /\ say'[d] = say[d] \/ (phase'[o] # "talk" /\ rd'[d] # "copy")
        /\ flow'[d] # <<>> => flow[d] # <<>> \/ (wr[d] = "copy" /\ Conn = "live")
    BY <1>1 DEF Calm, Conn
  <2> QED
    BY ONLY <1>2, <1>4, <2>1, StaysAgreed
<1>6. Conn' = Conn /\ kind' = kind
  BY DEF Calm, Conn
<1> QED
  BY <1>3, <1>5, <1>6 DEF Agreed

\* The release of halves by an end that is on its way out, or does not talk on
\* the direction that it drops, is such a step.
LEMMA CalmRelease ==
  ASSUME NEW W, NEW R, Release(W, R), UNCHANGED <<kind, pc>>,
         \A e \in End : phase'[e] = "talk" => phase[e] = "talk",
         \A d \in R : d \in Dir => say[d] = <<>> \/ phase'[ReaderOf[d]] # "talk"
  PROVE  Calm
BY DEF Release, Calm

\* A failure is one, if the messages stay as they are.
LEMMA CalmFail ==
  ASSUME EndTypes, NEW e \in End, Fail(e), UNCHANGED <<kind, lost, say, wr, rd>>,
         \A d \in Dir : flow'[d] # <<>> => flow[d] # <<>>
  PROVE  Calm
BY DEF Fail, Calm, EndTypes

\* An end that goes on in its script writes a message, reads one, or neither.
LEMMA AdvanceAgreed ==
  ASSUME WireTypes, EndTypes, InScript, AInv, NEW e \in End, phase[e] = "talk",
         UNCHANGED <<kind, lost, flow>>,
         pc' = [pc EXCEPT ![e] = @ + 1],
         phase' \in [End -> {"talk", "relay", "leaving", "over"}],
         \A o \in End \ {e} : phase'[o] = phase[o],
         \A d \in Dir \ {Out[e]} : wr'[d] = wr[d],
         \A d \in Dir \ {In[e]} : rd'[d] = rd[d],
         wr'[Out[e]] = "copy" => wr[Out[e]] = "copy" \/ WrittenNext(e) = Len(Msgs[Out[e]][kind]),
         rd'[In[e]] = "copy" => rd[In[e]] = "copy" \/ HeardNext(e) = Len(Msgs[In[e]][kind]),
         say'[Out[e]] = IF At(e, "write") \/ At(e, "answer") THEN Append(say[Out[e]], What(e))
                                                             ELSE say[Out[e]],
         say'[In[e]] = IF At(e, "read") THEN Tail(say[In[e]]) ELSE say[In[e]],
         At(e, "read") => say[In[e]] # <<>>,
         At(e, "write") \/ At(e, "answer") => ~lost
  PROVE  AInv'
<1> DEFINE o == IF e = "task" THEN "handler" ELSE "task"
           u == Out[e]
           i == In[e]
<1>1. /\ o \in End /\ o # e /\ u \in Dir /\ i \in Dir /\ u # i /\ Dir = {u, i}
      /\ WriterOf[u] = e /\ ReaderOf[u] = o /\ WriterOf[i] = o /\ ReaderOf[i] = e
      /\ In[o] = u /\ Out[o] = i
  BY DEF End, Dir, Out, In, WriterOf, ReaderOf
<1> HIDE DEF o, u, i
<1>2. /\ Written(e) \in Nat /\ Heard(e) \in Nat /\ Written(o) \in Nat /\ Heard(o) \in Nat
      /\ Msgs[u][kind] \in Seq(Message) /\ Msgs[i][kind] \in Seq(Message)
  BY <1>1, Places DEF u, i
<1>3. /\ Written(e)' = WrittenNext(e) /\ Heard(e)' = HeardNext(e)
      /\ Written(o)' = Written(o) /\ Heard(o)' = Heard(o)
  BY <1>1, Counts DEF EndTypes
<1>4. /\ Agrees(wr[u], rd[u], Written(e), Heard(o), Msgs[u][kind], phase[e], phase[o], Conn, say[u], flow[u])
      /\ Agrees(wr[i], rd[i], Written(o), Heard(e), Msgs[i][kind], phase[o], phase[e], Conn, say[i], flow[i])
  BY <1>1 DEF AInv, Agreed
<1>5. say[u] \in Seq(Message) /\ say[i] \in Seq(Message)
  BY <1>1 DEF WireTypes
<1>6. Agrees(wr'[u], rd[u], WrittenNext(e), Heard(o), Msgs[u][kind], phase'[e], phase[o], Conn, say'[u], flow[u])
  <2>1. CASE At(e, "write") \/ At(e, "answer")
    <3>1. WrittenNext(e) = Written(e) + 1 /\ What(e) = Msgs[u][kind][WrittenNext(e)]
      BY <2>1, NextPlace DEF u
    <3>2. WrittenNext(e) <= Len(Msgs[u][kind])
      BY <1>2, <3>1, NextPlace DEF u
    <3>3. Conn = "live" /\ say'[u] = Append(say[u], Msgs[u][kind][WrittenNext(e)])
      BY <2>1, <3>1 DEF Conn, u
    <3>4. wr'[u] = "copy" => wr[u] = "copy" \/ WrittenNext(e) = Len(Msgs[u][kind])
      BY DEF u
    <3> QED
      <4>1. Agrees(wr[u], rd[u], Written(e), Heard(o), Msgs[u][kind], phase[e], phase[o], Conn, say[u], flow[u])
        BY <1>4
      <4>2. phase[e] = "talk"
        OBVIOUS
      <4> QED
        BY ONLY <1>2, <1>5, <3>1, <3>2, <3>3, <3>4, <4>1, <4>2, WriteAgreed, Zenon
  <2>2. CASE ~(At(e, "write") \/ At(e, "answer"))
    <3>1. WrittenNext(e) = Written(e) /\ say'[u] = say[u]
      BY <2>2, NextPlace DEF u
    <3>2. wr'[u] = "copy" => wr[u] = "copy" \/ Written(e) = Len(Msgs[u][kind])
      BY <3>1 DEF u
    <3> QED
      BY <1>2, <1>4, <1>5, <3>1, <3>2, StaysAgreed
  <2> QED
    BY <2>1, <2>2
<1>7. Agrees(wr[i], rd'[i], Written(o), HeardNext(e), Msgs[i][kind], phase[o], phase'[e], Conn, say'[i], flow[i])
  <2>1. CASE At(e, "read")
    <3>1. HeardNext(e) = Heard(e) + 1
      BY <2>1, NextPlace
    <3>2. Heard(e) + 1 <= Len(Msgs[i][kind])
      BY <1>2, <3>1, NextPlace DEF i
    <3>3. say[i] # <<>> /\ say'[i] = Tail(say[i])
      BY <2>1 DEF i
    <3>4. rd'[i] = "copy" => rd[i] = "copy" \/ Heard(e) + 1 = Len(Msgs[i][kind])
      BY <3>1 DEF i
    <3> QED
      BY <1>2, <1>4, <1>5, <3>1, <3>2, <3>3, <3>4, ReadAgreed
  <2>2. CASE ~At(e, "read")
    <3>1. HeardNext(e) = Heard(e) /\ say'[i] = say[i]
      BY <2>2, NextPlace DEF i
    <3>2. rd'[i] = "copy" => rd[i] = "copy" \/ Heard(e) = Len(Msgs[i][kind])
      BY <3>1 DEF i
    <3> QED
      BY <1>2, <1>4, <1>5, <3>1, <3>2, StaysAgreed
  <2> QED
    BY <2>1, <2>2
<1>8. /\ rd'[u] = rd[u] /\ wr'[i] = wr[i] /\ phase'[o] = phase[o]
      /\ Conn' = Conn /\ flow' = flow /\ kind' = kind
  BY <1>1 DEF u, i, Conn
<1>9. Agreed(u)'
  BY <1>1, <1>3, <1>6, <1>8 DEF Agreed
<1>10. Agreed(i)'
  BY <1>1, <1>3, <1>7, <1>8 DEF Agreed
<1> QED
  BY <1>1, <1>9, <1>10 DEF AInv

\* What Advance does besides the place.
LEMMA AdvanceEffect ==
  ASSUME WireTypes, EndTypes, InScript, EndTypes', NEW e \in End, phase[e] = "talk", Advance(e)
  PROVE  /\ pc' = [pc EXCEPT ![e] = @ + 1]
         /\ phase' \in [End -> {"talk", "relay", "leaving", "over"}]
         /\ \A o \in End \ {e} : phase'[o] = phase[o]
         /\ \A d \in Dir \ {Out[e]} : wr'[d] = wr[d]
         /\ \A d \in Dir \ {In[e]} : rd'[d] = rd[d]
         /\ wr'[Out[e]] = "copy" => wr[Out[e]] = "copy" \/ WrittenNext(e) = Len(Msgs[Out[e]][kind])
         /\ rd'[In[e]] = "copy" => rd[In[e]] = "copy" \/ HeardNext(e) = Len(Msgs[In[e]][kind])
<1>1. pc' = [pc EXCEPT ![e] = @ + 1] /\ \A o \in End \ {e} : phase'[o] = phase[o]
  BY DEF Advance, EndTypes
<1>2. phase' \in [End -> {"talk", "relay", "leaving", "over"}]
  BY DEF EndTypes
<1> QED
  BY <1>1, <1>2, CopiesBegin

\* The handler answers with an error, which is its last message.
LEMMA ErrorStep ==
  ASSUME WireTypes, EndTypes, InScript, AInv, At("handler", "answer"), CanWrite("down"),
         Write("down", "err"), Fail("handler"), UNCHANGED <<kind, lost, wr, rd>>
  PROVE  AInv'
<1> USE Ends
<1>1. /\ say'["down"] = Append(say["down"], "err") /\ say'["up"] = say["up"] /\ flow' = flow
      /\ pc' = pc /\ phase'["handler"] = "leaving" /\ phase'["task"] = phase["task"]
      /\ phase["handler"] = "talk" /\ Conn' = Conn /\ Conn = "live"
  BY DEF Write, WireTypes, Fail, EndTypes, At, CanWrite, Refused, Conn
<1>2. /\ Heard("task")' = Heard("task") /\ Written("task")' = Written("task")
      /\ Heard("handler")' = Heard("handler") /\ Written("handler")' = Written("handler")
  BY <1>1, Counts
<1>3. /\ WriterOf["down"] = "handler" /\ ReaderOf["down"] = "task"
      /\ WriterOf["up"] = "task" /\ ReaderOf["up"] = "handler"
  BY DEF WriterOf, ReaderOf
<1>4. Agreed("down")'
  <2>1. Agrees(wr["down"], rd["down"], Written("handler"), Heard("task"), Msgs["down"][kind],
               phase["handler"], phase["task"], Conn, say["down"], flow["down"])
    BY <1>3 DEF AInv, Agreed
  <2>2. Written("handler") + 1 <= Len(Msgs["down"][kind])
    <3>1. WrittenNext("handler") = Written("handler") + 1
          /\ WrittenNext("handler") \in 0..Len(Msgs["down"][kind])
      BY <1>1, NextPlace
    <3> QED
      BY <3>1, Places
  <2>3. /\ Written("handler") \in Nat /\ Heard("task") \in Nat
        /\ Msgs["down"][kind] \in Seq(Message) /\ say["down"] \in Seq(Message)
    BY Places DEF WireTypes
  <2>4. phase["handler"] = "talk" /\ phase'["handler"] # "talk" /\ Conn = "live"
    BY <1>1
  <2>5. Agrees(wr["down"], rd["down"], Written("handler"), Heard("task"), Msgs["down"][kind],
               phase'["handler"], phase["task"], Conn, say'["down"], flow["down"])
    BY ONLY <1>1, <2>1, <2>2, <2>3, <2>4, ErrorAgreed
  <2> QED
    BY <1>1, <1>2, <1>3, <2>5 DEF Agreed
<1>5. Agreed("up")'
  <2>1. Agrees(wr["up"], rd["up"], Written("task"), Heard("handler"), Msgs["up"][kind],
               phase["task"], phase["handler"], Conn, say["up"], flow["up"])
    BY <1>3 DEF AInv, Agreed
  <2>2. Written("task") \in Nat /\ Heard("handler") \in Nat
    BY Places
  <2>3. /\ wr["up"] = "copy" => wr["up"] = "copy" \/ Written("task") = Len(Msgs["up"][kind])
        /\ rd["up"] = "copy" => rd["up"] = "copy" \/ (phase["handler"] = "talk" /\ Heard("handler") = Len(Msgs["up"][kind]))
        /\ phase["task"] = "talk" => phase["task"] = "talk"
        /\ phase'["handler"] = "talk" => phase["handler"] = "talk"
        /\ say["up"] = say["up"] \/ (phase'["handler"] # "talk" /\ rd["up"] # "copy")
        /\ flow["up"] # <<>> => flow["up"] # <<>> \/ (wr["up"] = "copy" /\ Conn = "live")
    BY <1>1
  <2>4. Agrees(wr["up"], rd["up"], Written("task"), Heard("handler"), Msgs["up"][kind],
               phase["task"], phase'["handler"], Conn, say["up"], flow["up"])
    BY ONLY <2>1, <2>2, <2>3, StaysAgreed
  <2> QED
    BY <1>1, <1>2, <1>3, <2>4 DEF Agreed
<1> QED
  BY <1>4, <1>5 DEF AInv, Dir

\* The connection is lost: what is left of the messages are the first of them,
\* and bytes are left only if all the messages are.
LEMMA LossStep ==
  ASSUME WireTypes, EndTypes, InScript, AInv, ConnLost
  PROVE  AInv'
<1> SUFFICES ASSUME NEW d \in Dir PROVE Agreed(d)'
  BY DEF AInv
<1> DEFINE e == WriterOf[d]
           o == ReaderOf[d]
<1>1. e \in End /\ o \in End /\ Out[e] = d /\ In[o] = d
  BY Ends
<1>2. UNCHANGED <<wr, rd, endVars>> /\ lost' = TRUE
  BY DEF ConnLost, Lose
<1>3. PICK n \in [Dir -> 0..Window + 1] :
        /\ say' = [x \in Dir |-> First(say[x], n[x])]
        /\ flow' = [x \in Dir |-> First(flow[x], n[x] - Len(say[x]))]
  BY DEF ConnLost, Lose
<1>4. say[d] \in Seq(Message) /\ flow[d] \in Seq(Chunk) /\ n[d] \in Int /\ n[d] - Len(say[d]) \in Int
  BY CommandAssumption DEF WireTypes
<1>5. /\ Len(say'[d]) \in 0..Len(say[d])
      /\ \A i \in 1..Len(say'[d]) : say'[d][i] = say[d][i]
  BY <1>3, <1>4, FirstOf
<1>6. flow'[d] # <<>> => flow[d] # <<>> /\ say'[d] = say[d]
  <2>1. CASE n[d] > Len(say[d])
    <3>1. say'[d] = say[d]
      BY <1>3, <1>4, <2>1, FirstOf
    <3>2. flow'[d] \in Seq(Chunk) /\ Len(flow'[d]) \in 0..Len(flow[d])
      BY <1>3, <1>4, FirstOf
    <3> QED
      BY <1>4, <3>1, <3>2
  <2>2. CASE n[d] - Len(say[d]) <= 0
    BY <1>3, <1>4, <2>2, FirstOf
  <2> QED
    BY <1>4, <2>1, <2>2
<1>7. Agrees(wr[d], rd[d], Written(e), Heard(o), Msgs[d][kind], phase[e], phase[o], Conn, say[d], flow[d])
  BY DEF AInv, Agreed
<1>8. Written(e) \in Nat /\ Heard(o) \in Nat /\ Msgs[d][kind] \in Seq(Message)
  BY <1>1, Places
<1>9. Agrees(wr[d], rd[d], Written(e), Heard(o), Msgs[d][kind], phase[e], phase[o], "lost", say'[d], flow'[d])
  BY ONLY <1>4, <1>5, <1>6, <1>7, <1>8, LossAgreed
<1>10. Written(e)' = Written(e) /\ Heard(o)' = Heard(o)
  BY <1>1, <1>2, Counts DEF endVars
<1>11. Conn' = "lost" /\ kind' = kind /\ phase' = phase /\ wr' = wr /\ rd' = rd
  BY <1>2 DEF Conn, endVars
<1> QED
  BY <1>9, <1>10, <1>11 DEF Agreed

\* Every step keeps the agreement.
LEMMA AgreedStep ==
  ASSUME WireTypes, EndTypes, InScript, EndTypes', AInv, [Next]_vars
  PROVE  AInv'
<1> USE Ends
<1>1. kind' = kind
  BY KindKept
<1>2. ASSUME Calm PROVE AInv'
  BY <1>2, CalmAgreed
<1>3. ASSUME NEW e \in End, Fail(e), UNCHANGED <<lost, say, flow, wr, rd>> PROVE AInv'
  BY <1>1, <1>2, <1>3, CalmFail
<1>4. ASSUME NEW e \in End, Say(e) PROVE AInv'
  <2>1. phase[e] = "talk" /\ At(e, "write") /\ ~At(e, "read") /\ ~At(e, "answer") /\ lost' = lost
    BY <1>4 DEF Say, At
  <2>2. CASE CanWrite(Out[e]) /\ Write(Out[e], What(e)) /\ Advance(e)
    <3>1. ~lost
      BY <2>2 DEF CanWrite, Refused
    <3>2. /\ say'[Out[e]] = Append(say[Out[e]], What(e)) /\ say'[In[e]] = say[In[e]]
          /\ UNCHANGED flow
      BY <2>2 DEF Write, WireTypes
    <3> QED
      BY <1>1, <2>1, <2>2, <3>1, <3>2, AdvanceEffect, AdvanceAgreed
  <2>3. CASE Fail(e) /\ UNCHANGED <<say, flow, wr, rd>>
    BY <1>3, <2>1, <2>3
  <2> QED
    BY <1>4, <2>2, <2>3 DEF Say, wireVars
<1>5. ASSUME NEW e \in End, Hear(e) PROVE AInv'
  <2>1. phase[e] = "talk" /\ At(e, "read") /\ ~At(e, "write") /\ ~At(e, "answer") /\ lost' = lost
    BY <1>5 DEF Hear, At
  <2>2. CASE say[In[e]] # <<>> /\ Read(In[e]) /\ Advance(e)
    <3>1. /\ say'[In[e]] = Tail(say[In[e]]) /\ say'[Out[e]] = say[Out[e]]
          /\ UNCHANGED flow
      BY <2>2 DEF Read, WireTypes
    <3> QED
      BY <1>1, <2>1, <2>2, <3>1, AdvanceEffect, AdvanceAgreed
  <2>3. CASE Read(In[e]) /\ Fail(e) /\ UNCHANGED <<wr, rd>>
    <3>1. rd[In[e]] # "copy"
      <4>1. HeardNext(e) = Heard(e) + 1 /\ HeardNext(e) \in 0..Len(Msgs[In[e]][kind])
        BY <2>1, NextPlace
      <4>2. Heard(e) # Len(Msgs[In[e]][kind])
        BY <4>1, Places
      <4> QED
        BY <4>2 DEF AInv, Agreed, Agrees
    <3>2. /\ \A d \in Dir \ {In[e]} : say'[d] = say[d]
          /\ flow' = flow
      BY <2>3 DEF Read, WireTypes
    <3>3. /\ phase'[e] = "leaving" /\ pc' = pc
          /\ \A o \in End \ {e} : phase'[o] = phase[o]
      BY <2>3 DEF Fail, EndTypes
    <3>4. Calm
      BY <1>1, <2>1, <2>3, <3>1, <3>2, <3>3 DEF Calm
    <3> QED
      BY <1>2, <3>4
  <2>4. CASE Fail(e) /\ UNCHANGED <<say, flow, wr, rd>>
    BY <1>3, <2>1, <2>4
  <2> QED
    BY <1>5, <2>2, <2>3, <2>4 DEF Hear, wireVars
<1>6. CASE Wait
  <2>1. /\ phase["task"] = "talk" /\ ~At("task", "read") /\ ~At("task", "write")
        /\ ~At("task", "answer") /\ UNCHANGED <<lost, say, flow>>
    BY <1>6 DEF Wait, At, wireVars
  <2>2. CASE Advance("task")
    BY <1>1, <2>1, <2>2, AdvanceEffect, AdvanceAgreed
  <2>3. CASE Fail("task") /\ UNCHANGED <<wr, rd>>
    BY <1>3, <2>1, <2>3
  <2> QED
    BY <1>6, <2>2, <2>3 DEF Wait
<1>7. ASSUME NEW e \in End, StartBody(e) PROVE AInv'
  <2>1. /\ phase[e] = "talk" /\ At(e, "start") /\ ~At(e, "read") /\ ~At(e, "write")
        /\ ~At(e, "answer") /\ UNCHANGED <<lost, say, flow, phase>>
        /\ pc' = [pc EXCEPT ![e] = @ + 1]
    BY <1>7 DEF StartBody, At, wireVars
  <2>2. /\ HeardNext(e) = Heard(e) /\ WrittenNext(e) = Written(e)
        /\ e = "task" => Written(e) = Len(Msgs[Out[e]][kind])
        /\ e = "handler" => Heard(e) = Len(Msgs[In[e]][kind])
    BY <2>1, NextPlace
  <2>3. /\ \A d \in Dir \ {Out[e]} : wr'[d] = wr[d]
        /\ \A d \in Dir \ {In[e]} : rd'[d] = rd[d]
        /\ wr'[Out[e]] = "copy" => wr[Out[e]] = "copy" \/ Out[e] = "up"
        /\ rd'[In[e]] = "copy" => rd[In[e]] = "copy" \/ In[e] = "up"
    BY <1>7 DEF StartBody, StartCopies, WireTypes
  <2>4. (Out[e] = "up" => e = "task") /\ (In[e] = "up" => e = "handler")
    BY DEF Out, In, End
  <2> QED
    <3>1. /\ wr'[Out[e]] = "copy" => wr[Out[e]] = "copy" \/ WrittenNext(e) = Len(Msgs[Out[e]][kind])
          /\ rd'[In[e]] = "copy" => rd[In[e]] = "copy" \/ HeardNext(e) = Len(Msgs[In[e]][kind])
      BY <2>2, <2>3, <2>4
    <3>2. phase' \in [End -> {"talk", "relay", "leaving", "over"}]
      BY DEF EndTypes
    <3>3. say'[Out[e]] = say[Out[e]] /\ say'[In[e]] = say[In[e]] /\ phase[e] = "talk"
          /\ (\A o \in End \ {e} : phase'[o] = phase[o])
      BY <2>1
    <3> QED
      BY <1>1, <2>1, <2>3, <3>1, <3>2, <3>3, AdvanceAgreed
<1>8. CASE Answer
  <2>1. /\ phase["handler"] = "talk" /\ At("handler", "answer") /\ ~At("handler", "read")
        /\ lost' = lost
    BY <1>8 DEF Answer, At
  <2>2. ASSUME NEW v, CanWrite("down"), Write("down", Report(v)), Report(v) # "err",
               Advance("handler")
        PROVE AInv'
    <3>1. ~lost /\ Report(v) = What("handler")
      BY <2>2 DEF CanWrite, Refused, Report
    <3> DEFINE e == "handler"
    <3>2. /\ say'[Out[e]] = Append(say[Out[e]], What(e)) /\ say'[In[e]] = say[In[e]]
          /\ UNCHANGED flow
      BY <2>2, <3>1 DEF Write, WireTypes
    <3>3. e \in End /\ Advance(e) /\ phase[e] = "talk" /\ At(e, "answer") /\ ~At(e, "read")
      BY <2>1, <2>2
    <3> HIDE DEF e
    <3> QED
      BY <1>1, <2>1, <3>1, <3>2, <3>3, AdvanceEffect, AdvanceAgreed
  <2>3. ASSUME CanWrite("down"), Write("down", "err"), Fail("handler"), UNCHANGED <<wr, rd>>
        PROVE AInv'
    BY <1>1, <2>1, <2>3, ErrorStep
  <2>4. CASE Fail("handler") /\ UNCHANGED <<say, flow, wr, rd>>
    BY <1>3, <2>1, <2>4
  <2> QED
    BY <1>8, <2>2, <2>3, <2>4 DEF Answer, wireVars
<1>9. ASSUME NEW d \in Dir, Pull(d) PROVE AInv'
  <2>1. /\ wr[d] = "copy" /\ ~lost /\ UNCHANGED <<lost, wr, rd, endVars, say>>
        /\ \A o \in Dir \ {d} : flow'[o] = flow[o]
    BY <1>9 DEF Pull, SendChunk, CanWrite, Refused, WireTypes
  <2>2. Calm
    BY <2>1 DEF Calm, endVars
  <2> QED
    BY <1>2, <2>2
<1>10. ASSUME NEW d \in Dir, Push(d) PROVE AInv'
  <2>1. /\ UNCHANGED <<lost, wr, rd, endVars, say>> /\ flow[d] # <<>>
        /\ \A o \in Dir \ {d} : flow'[o] = flow[o]
    BY <1>10 DEF Push, TakeChunk, HasChunk, WireTypes
  <2>2. Calm
    BY <2>1 DEF Calm, endVars
  <2> QED
    BY <1>2, <2>2
<1>11. ASSUME NEW d \in Dir, PullEnd(d) PROVE AInv'
  <2>1. Release({d}, {}) /\ UNCHANGED endVars
    BY <1>11 DEF PullEnd
  <2>2. Calm
    BY <2>1, CalmRelease DEF endVars
  <2> QED
    BY <1>2, <2>2
<1>12. ASSUME NEW d \in Dir, PushFail(d) \/ PushEnd(d) PROVE AInv'
  <2>1. Release({}, {d}) /\ say[d] = <<>> /\ pc' = pc /\ (Fail("task") \/ phase' = phase)
    BY <1>12 DEF PushFail, PushEnd, HasChunk, AtEnd, Dry, Empty, Fail
  <2>2. \A e \in End : phase'[e] = "talk" => phase[e] = "talk"
    BY <2>1 DEF Fail, EndTypes
  <2>3. Calm
    BY <1>1, <2>1, <2>2, CalmRelease
  <2> QED
    BY <1>2, <2>3
<1>13. ASSUME NEW e \in End, Leave(e) PROVE AInv'
  <2>1. PICK W : Release(W, {}) \/ Release(W, {In[e]})
    BY <1>13 DEF Leave
  <2>2. phase' = [phase EXCEPT ![e] = "over"] /\ pc' = pc
    BY <1>13 DEF Leave
  <2>3. phase'[e] = "over" /\ \A o \in End : phase'[o] = "talk" => phase[o] = "talk"
    BY <2>2 DEF EndTypes
  <2>4. Calm
    BY <1>1, <2>1, <2>2, <2>3, CalmRelease
  <2> QED
    BY <1>2, <2>4
<1>14. ASSUME NEW e \in End, Finish(e) \/ Cancel(e) PROVE AInv'
  BY <1>3, <1>14 DEF Finish, Cancel, streamVars, wireVars
<1>15. CASE AssociateClosed
  BY <1>3, <1>15 DEF AssociateClosed, streamVars, wireVars
<1>16. CASE CancelBody
  <2>1. Calm
    BY <1>16, CalmRelease DEF CancelBody, endVars
  <2> QED
    BY <1>2, <2>1
<1>17. ASSUME UNCHANGED <<streamVars, kind, pc, phase>> PROVE AInv'
  <2>1. Calm
    BY <1>17 DEF Calm, streamVars, wireVars
  <2> QED
    BY <1>2, <2>1
<1>18. ASSUME NEW e \in End, Stop(e) PROVE AInv'
  BY <1>17, <1>18 DEF Stop
<1>19. ASSUME NEW d \in Dir, NEW x, Source(d, x) \/ Sink(d, x) PROVE AInv'
  BY <1>17, <1>19 DEF Source, Sink, endVars
<1>20. CASE Terminated \/ UNCHANGED vars
  BY <1>17, <1>20 DEF Terminated, vars, endVars, End
<1>21. CASE ConnLost
  BY <1>21, LossStep
<1> QED
  BY <1>4, <1>5, <1>6, <1>7, <1>8, <1>9, <1>10, <1>11, <1>12, <1>13, <1>14, <1>15, <1>16, <1>18,
     <1>19, <1>20, <1>21 DEF Next

-----------------------------------------------------------------------------
(* Chunks, halves and results *)

\* No chunk is in two places: those that are under way have been sent, and have
\* not been delivered.
LEMMA CountedStep ==
  ASSUME WireTypes, PipeTypes, Counted, [Next]_vars
  PROVE  Counted'
<1> USE Ends
<1>1. \A d \in Dir : /\ got[d] \in Nat /\ sent[d] \in Nat /\ Len(flow[d]) \in Nat
                     /\ flow[d] \in Seq(Chunk)
  BY DEF PipeTypes, WireTypes
<1>2. ASSUME UNCHANGED <<got, sent>>, \A d \in Dir : Len(flow'[d]) \in 0..Len(flow[d])
      PROVE  Counted'
  BY <1>1, <1>2 DEF Counted
<1>3. CASE UNCHANGED <<got, sent, flow>>
  BY <1>3 DEF Counted
<1>4. ASSUME NEW e \in End, Say(e) \/ Hear(e) \/ StartBody(e) PROVE UNCHANGED <<got, sent, flow>>
  BY <1>4 DEF Say, Hear, StartBody, Write, Read, wireVars, pipeVars
<1>5. CASE Wait
  BY <1>3, <1>5 DEF Wait, wireVars, pipeVars
<1>6. CASE Answer
  <2>1. UNCHANGED <<got, sent, flow>>
    BY <1>6 DEF Answer, Write, wireVars, pipeVars
  <2> QED
    BY <1>3, <2>1
<1>7. ASSUME NEW e \in End, Finish(e) \/ Cancel(e) \/ Stop(e) PROVE UNCHANGED <<got, sent, flow>>
  BY <1>7 DEF Finish, Cancel, Stop, streamVars, wireVars, pipeVars
<1>8. CASE AssociateClosed \/ Terminated \/ UNCHANGED vars
  BY <1>3, <1>8 DEF AssociateClosed, Terminated, vars, streamVars, wireVars, pipeVars, End
<1>9. ASSUME NEW d \in Dir, NEW x, Source(d, x) \/ Sink(d, x) PROVE UNCHANGED <<got, sent, flow>>
  BY <1>9 DEF Source, Sink, streamVars, wireVars
<1>10. ASSUME NEW W, NEW R, Release(W, R), UNCHANGED <<got, sent>> PROVE Counted'
  <2>1. \A d \in Dir : Len(flow'[d]) \in 0..Len(flow[d])
    <3> SUFFICES ASSUME NEW d \in Dir PROVE Len(flow'[d]) \in 0..Len(flow[d])
      OBVIOUS
    <3>1. flow'[d] = flow[d] \/ flow'[d] = <<>>
      BY <1>10 DEF Release
    <3> QED
      BY <1>1, <3>1
  <2> QED
    BY <1>2, <1>10, <2>1
<1>11. ASSUME NEW d \in Dir, PullEnd(d) \/ PushFail(d) \/ PushEnd(d) PROVE Counted'
  BY <1>10, <1>11 DEF PullEnd, PushFail, PushEnd, pipeVars
<1>12. CASE CancelBody
  BY <1>10, <1>12 DEF CancelBody, pipeVars
<1>13. ASSUME NEW e \in End, Leave(e) PROVE Counted'
  BY <1>10, <1>13 DEF Leave
<1>14. ASSUME NEW d \in Dir, Pull(d) PROVE Counted'
  <2>1. PICK c \in Frames : SendChunk(d, c)
    BY <1>14 DEF Pull
  <2>2. c \in Chunk
    BY CommandAssumption DEF Frames, Chunk
  <2>3. flow' = [flow EXCEPT ![d] = Append(@, c)]
    BY <2>1 DEF SendChunk
  <2>4. Len(flow'[d]) = Len(flow[d]) + 1 /\ \A o \in Dir \ {d} : flow'[o] = flow[o]
    BY <1>1, <2>2, <2>3 DEF WireTypes
  <2>5. sent[d] < Chunks /\ sent' = [sent EXCEPT ![d] = @ + 1] /\ got' = got
    BY <1>14 DEF Pull
  <2> QED
    <3>1. Chunks \in Nat /\ sent'[d] = sent[d] + 1 /\ \A o \in Dir \ {d} : sent'[o] = sent[o]
      BY <2>5, CommandAssumption DEF PipeTypes
    <3> QED
      BY ONLY <1>1, <2>4, <2>5, <3>1, Counted DEF Counted
<1>15. ASSUME NEW d \in Dir, Push(d) PROVE Counted'
  <2>1. flow' = [flow EXCEPT ![d] = Tail(@)] /\ flow[d] # <<>>
    BY <1>15 DEF Push, HasChunk, TakeChunk
  <2>2. Len(flow'[d]) = Len(flow[d]) - 1 /\ \A o \in Dir \ {d} : flow'[o] = flow[o]
    BY <1>1, <2>1 DEF WireTypes
  <2>3. got' = [got EXCEPT ![d] = @ + 1] /\ sent' = sent
    BY <1>15 DEF Push
  <2> QED
    <3>1. got'[d] = got[d] + 1 /\ \A o \in Dir \ {d} : got'[o] = got[o]
      BY <2>3 DEF PipeTypes
    <3> QED
      BY ONLY <1>1, <2>2, <2>3, <3>1, Counted DEF Counted
<1>16. CASE ConnLost
  <2>1. PICK n \in [Dir -> 0..Window + 1] :
          flow' = [d \in Dir |-> First(flow[d], n[d] - Len(say[d]))]
    BY <1>16 DEF ConnLost, Lose
  <2>2. \A d \in Dir : n[d] - Len(say[d]) \in Int
    BY CommandAssumption DEF WireTypes
  <2>3. \A d \in Dir : Len(flow'[d]) \in 0..Len(flow[d])
    BY <1>1, <2>1, <2>2, FirstOf
  <2> QED
    BY <1>2, <1>16, <2>3 DEF ConnLost, pipeVars
<1> QED
  BY <1>3, <1>4, <1>5, <1>6, <1>7, <1>8, <1>9, <1>11, <1>12, <1>13, <1>14, <1>15, <1>16 DEF Next

\* An end that is gone has left no half behind, but for those of a request body.
LEMMA DroppedStep ==
  ASSUME WireTypes, EndTypes, InScript, Dropped, [Next]_vars
  PROVE  Dropped'
<1> USE Ends
<1>1. kind' = kind
  BY KindKept
<1>2. ASSUME \A e \in End : phase'[e] = "over" => phase[e] = "over",
             \A d \in Dir : /\ wr[d] = "shut" => wr'[d] = "shut"
                            /\ rd[d] = "shut" => rd'[d] = "shut"
      PROVE Dropped'
  BY <1>1, <1>2 DEF Dropped
<1>3. ASSUME NEW e \in End, Fail(e), UNCHANGED <<wr, rd>> PROVE Dropped'
  BY <1>2, <1>3 DEF Fail, EndTypes
<1>4. ASSUME NEW e \in End, Advance(e) PROVE Dropped'
  <2>1. \A o \in End : phase'[o] = "over" => phase[o] = "over"
    BY <1>4 DEF Advance, EndTypes
  <2>2. \A d \in Dir : (wr[d] = "shut" => wr'[d] = "shut") /\ (rd[d] = "shut" => rd'[d] = "shut")
    BY <1>4 DEF Advance, StartCopies, WireTypes
  <2> QED
    BY <1>2, <2>1, <2>2
<1>5. CASE UNCHANGED <<wr, rd, phase>>
  BY <1>2, <1>5
<1>6. ASSUME NEW e \in End, Say(e) \/ Hear(e) PROVE Dropped'
  BY <1>3, <1>4, <1>6 DEF Say, Hear
<1>7. CASE Wait
  BY <1>3, <1>4, <1>7 DEF Wait
<1>8. CASE Answer
  BY <1>3, <1>4, <1>8 DEF Answer
<1>9. ASSUME NEW e \in End, StartBody(e) PROVE Dropped'
  <2>1. phase' = phase /\ StartCopies(e, {"up"})
    BY <1>9 DEF StartBody
  <2>2. \A d \in Dir : (wr[d] = "shut" => wr'[d] = "shut") /\ (rd[d] = "shut" => rd'[d] = "shut")
    BY <2>1 DEF StartCopies, WireTypes
  <2> QED
    BY <1>2, <2>1, <2>2
<1>10. ASSUME NEW W, NEW R, Release(W, R), phase' = phase \/ Fail("task") PROVE Dropped'
  <2>1. \A d \in Dir : (wr[d] = "shut" => wr'[d] = "shut") /\ (rd[d] = "shut" => rd'[d] = "shut")
    BY <1>10 DEF Release
  <2>2. \A e \in End : phase'[e] = "over" => phase[e] = "over"
    BY <1>10 DEF Fail, EndTypes
  <2> QED
    BY <1>2, <2>1, <2>2
<1>11. ASSUME NEW d \in Dir, PullEnd(d) \/ PushFail(d) \/ PushEnd(d) PROVE Dropped'
  BY <1>10, <1>11 DEF PullEnd, PushFail, PushEnd, endVars
<1>12. CASE CancelBody
  BY <1>10, <1>12 DEF CancelBody, endVars
<1>13. ASSUME NEW e \in End, Leave(e) PROVE Dropped'
  <2>1. phase' = [phase EXCEPT ![e] = "over"]
    BY <1>13 DEF Leave
  <2>2. PICK W, R : Release(W, R) /\ (kind # "http" => Out[e] \in W /\ In[e] \in R)
    BY <1>13 DEF Leave
  <2>3. \A d \in Dir : (wr[d] = "shut" => wr'[d] = "shut") /\ (rd[d] = "shut" => rd'[d] = "shut")
    BY <2>2 DEF Release
  <2>4. kind # "http" => wr'[Out[e]] = "shut" /\ rd'[In[e]] = "shut"
    BY <2>2 DEF Release
  <2>5. \A d \in Dir : /\ WriterOf[d] = e => d = Out[e]
                       /\ ReaderOf[d] = e => d = In[e]
    OBVIOUS
  <2>6. \A o \in End : o # e => phase'[o] = phase[o]
    BY <2>1 DEF EndTypes
  <2> QED
    BY <1>1, <2>3, <2>4, <2>5, <2>6 DEF Dropped
<1>14. ASSUME NEW e \in End, Finish(e) \/ Cancel(e) PROVE Dropped'
  BY <1>3, <1>14 DEF Finish, Cancel, streamVars
<1>15. CASE AssociateClosed
  BY <1>3, <1>15 DEF AssociateClosed, streamVars
<1>16. ASSUME NEW d \in Dir, Pull(d) \/ Push(d) PROVE Dropped'
  BY <1>5, <1>16 DEF Pull, Push, endVars
<1>17. ASSUME NEW e \in End, Stop(e) PROVE Dropped'
  BY <1>5, <1>17 DEF Stop, streamVars
<1>18. ASSUME NEW d \in Dir, NEW x, Source(d, x) \/ Sink(d, x) PROVE Dropped'
  BY <1>5, <1>18 DEF Source, Sink, endVars, streamVars
<1>19. CASE ConnLost \/ Terminated \/ UNCHANGED vars
  BY <1>5, <1>19 DEF ConnLost, Lose, Terminated, vars, endVars, streamVars, End
<1> QED
  BY <1>6, <1>7, <1>8, <1>9, <1>11, <1>12, <1>13, <1>14, <1>15, <1>16, <1>17, <1>18, <1>19 DEF Next

\* A handler writes the reply once, as the answer to what it was asked to do.
LEMMA RepliesOnce ==
  ASSUME kind \in Kinds, kind \notin {"ping", "delete"}
  PROVE  /\ Reply[kind] \notin {"ack", "err"}
         /\ \A i \in 1..Len(Script("handler")) :
              Script("handler")[i][1] = "write" => Script("handler")[i][2] = "ack"
         /\ \A i, j \in 1..Len(Script("handler")) :
              /\ Script("handler")[i][1] = "answer" /\ Script("handler")[i][2] = Reply[kind]
              /\ Script("handler")[j][1] = "answer" /\ Script("handler")[j][2] = Reply[kind]
              => i = j
         /\ kind # "read" =>
              \A i \in 1..Len(Script("handler")) : Script("handler")[i][1] = "answer" =>
                \E j \in i..Len(Script("handler")) :
                    Script("handler")[j][1] = "answer" /\ Script("handler")[j][2] = Reply[kind]
<1> DEFINE S == HandlerScript[kind]
           Once(T, m) == /\ m \notin {"ack", "err"}
                         /\ \A i \in 1..Len(T) : T[i][1] = "write" => T[i][2] = "ack"
                         /\ \A i, j \in 1..Len(T) :
                              (T[i][1] = "answer" /\ T[i][2] = m /\ T[j][1] = "answer" /\ T[j][2] = m)
                              => i = j
                         /\ kind # "read" => \A i \in 1..Len(T) : T[i][1] = "answer" =>
                              \E j \in i..Len(T) : T[j][1] = "answer" /\ T[j][2] = m
<1>1. kind \in DOMAIN Carries
  BY CommandAssumption
<1> SUFFICES Once(S, Reply[kind])
  BY DEF Script
<1>2. CASE kind = "list"
  <2>1. Is(S, <<<<"read", "cmd">>, <<"write", "ack">>, <<"answer", "list">>>>)
    BY <1>2, Spelled DEF HandlerScript
  <2>2. Reply[kind] = "list"
    BY <1>2 DEF Reply
  <2> HIDE DEF S
  <2> QED
    BY <2>1, <2>2 DEF Is
<1>3. CASE kind = "read"
  <2>1. Is(S, <<<<"read", "cmd">>, <<"write", "ack">>, <<"answer", "meta">>, <<"read", "ack">>,
                <<"answer", "ack">>>>)
    BY <1>3, Spelled DEF HandlerScript
  <2>2. Reply[kind] = "meta"
    BY <1>3 DEF Reply
  <2> HIDE DEF S
  <2> QED
    BY <1>3, <2>1, <2>2 DEF Is
<1>4. CASE kind = "http"
  <2>1. Is(S, <<<<"read", "cmd">>, <<"answer", "ack">>, <<"start", "body">>, <<"answer", "resp">>>>)
    BY <1>4, Spelled DEF HandlerScript
  <2>2. Reply[kind] = "resp"
    BY <1>4 DEF Reply
  <2> HIDE DEF S
  <2> QED
    BY <2>1, <2>2 DEF Is
<1>5. CASE kind \in {"tcp", "udp"}
  <2>1. Is(S, <<<<"read", "cmd">>, <<"write", "ack">>, <<"answer", "addr">>, <<"read", "ack">>>>)
    BY <1>5, Spelled DEF HandlerScript, UdpHandler
  <2>2. Reply[kind] = "addr"
    BY <1>5 DEF Reply
  <2> HIDE DEF S
  <2> QED
    BY <2>1, <2>2 DEF Is
<1> QED
  BY <1>1, <1>2, <1>3, <1>4, <1>5 DEF Carries

\* Told of its success is only who reads the reply, and the reply is written only
\* once the command has succeeded.
LEMMA HonestStep ==
  ASSUME WireTypes, EndTypes, InScript, EndTypes', Honest, [Next]_vars
  PROVE  Honest'
<1> USE Ends
<1>1. kind' = kind
  BY KindKept
<1> SUFFICES ASSUME kind \notin {"ping", "delete"} PROVE Honest'
  BY <1>1 DEF Honest
<1> DEFINE S == Script("handler")
           m == Reply[kind]
           R(i) == S[i][1] = "answer" /\ S[i][2] = m
<1>2. Script("handler")' = S /\ Reply[kind]' = m
  BY <1>1, SameScript
<1>3. /\ m \notin {"ack", "err"}
      /\ \A i \in 1..Len(S) : S[i][1] = "write" => S[i][2] = "ack"
      /\ \A i, j \in 1..Len(S) : R(i) /\ R(j) => i = j
      /\ kind # "read" => \A i \in 1..Len(S) : S[i][1] = "answer" => \E j \in i..Len(S) : R(j)
  BY RepliesOnce DEF EndTypes
<1>4. /\ told = "ok" => Good
      /\ \A i \in 1..Len(say["down"]) : say["down"][i] = m => Good
      /\ Good /\ phase["handler"] = "talk" => \A i \in pc["handler"]..Len(S) : ~R(i)
  BY DEF Honest
<1>5. /\ pc["handler"] \in Nat /\ Len(S) \in Nat \ {0}
      /\ say["down"] \in Seq(Message)
      /\ phase["handler"] = "talk" => pc["handler"] \in 1..Len(S)
  BY ScriptFits DEF EndTypes, InScript, WireTypes, Fits
<1> HIDE DEF S, m
<1>6. ASSUME told' = "ok" => Good', \A i \in 1..Len(say'["down"]) : say'["down"][i] = m => Good',
             Good' /\ phase'["handler"] = "talk" => \A i \in pc'["handler"]..Len(S) : ~R(i)
      PROVE Honest'
  BY <1>1, <1>2, <1>6 DEF Honest, m
<1>7. ASSUME did' = did, told' \in {told, "err"}, pc'["handler"] \in {pc["handler"], pc["handler"] + 1},
             phase'["handler"] = "talk" => phase["handler"] = "talk",
             \A i \in 1..Len(say'["down"]) :
                say'["down"][i] = m => \E j \in 1..Len(say["down"]) : say["down"][j] = m
      PROVE Honest'
  <2>1. Good' = Good
    BY <1>1, <1>7 DEF Good
  <2> QED
    BY <1>4, <1>5, <1>6, <1>7, <2>1
<1>8. ASSUME did' = did, told' \in {told, "err"}, UNCHANGED <<pc, say>>,
             \A e \in End : phase'[e] = "talk" => phase[e] = "talk"
      PROVE Honest'
  BY <1>7, <1>8
<1>9. ASSUME NEW e \in End, Fail(e), UNCHANGED <<did, say>> PROVE Honest'
  BY <1>8, <1>9 DEF Fail, EndTypes
<1>10. ASSUME NEW e \in End, pc' = [pc EXCEPT ![e] = @ + 1], phase[e] = "talk",
              \A o \in End \ {e} : phase'[o] = phase[o]
       PROVE /\ pc'["handler"] \in {pc["handler"], pc["handler"] + 1}
             /\ phase'["handler"] = "talk" => phase["handler"] = "talk"
  BY <1>10 DEF EndTypes
<1>11. ASSUME NEW e \in End, Advance(e), phase[e] = "talk"
       PROVE /\ pc' = [pc EXCEPT ![e] = @ + 1]
             /\ \A o \in End \ {e} : phase'[o] = phase[o]
  BY <1>11 DEF Advance, EndTypes
<1>12. ASSUME NEW e \in End, Say(e) PROVE Honest'
  <2>1. phase[e] = "talk" /\ At(e, "write") /\ did' = did
    BY <1>12 DEF Say, At
  <2>2. CASE Write(Out[e], What(e)) /\ Advance(e) /\ told' = told
    <3>1. say' = [say EXCEPT ![Out[e]] = Append(@, What(e))]
      BY <2>2 DEF Write
    <3>2. CASE e = "task"
      <4>1. say'["down"] = say["down"]
        BY <3>1, <3>2 DEF WireTypes
      <4> QED
        BY <1>7, <1>10, <1>11, <2>1, <2>2, <4>1
    <3>3. CASE e = "handler"
      <4>1. What(e) = "ack"
        BY <1>3, <1>5, <2>1, <3>3 DEF At, What, S
      <4>2. say'["down"] = Append(say["down"], "ack")
        BY <3>1, <3>3, <4>1 DEF WireTypes
      <4>3. \A i \in 1..Len(say'["down"]) :
              say'["down"][i] = m => \E j \in 1..Len(say["down"]) : say["down"][j] = m
        BY <1>3, <1>5, <4>2 DEF Message
      <4> QED
        BY <1>7, <1>10, <1>11, <2>1, <2>2, <4>3
    <3> QED
      BY <3>2, <3>3 DEF End
  <2>3. CASE Fail(e) /\ say' = say
    BY <1>9, <2>1, <2>3
  <2> QED
    BY <1>12, <2>2, <2>3 DEF Say, wireVars
<1>13. ASSUME NEW e \in End, Hear(e) PROVE Honest'
  <2>1. phase[e] = "talk" /\ did' = did
    BY <1>13 DEF Hear, At
  <2>2. CASE say[In[e]] # <<>> /\ Head(say[In[e]]) = What(e) /\ Read(In[e])
             /\ (Fail(e) \/ (Advance(e) /\ (told' = told \/ (told' = "ok" /\ e = "task" /\ What(e) = m))))
    <3>1. say' = [say EXCEPT ![In[e]] = Tail(@)]
      BY <2>2 DEF Read
    <3>2. say'["down"] = say["down"] \/ (say["down"] # <<>> /\ say'["down"] = Tail(say["down"]))
      BY <2>2, <3>1 DEF WireTypes
    <3>3. \A i \in 1..Len(say'["down"]) :
            say'["down"][i] = m => \E j \in 1..Len(say["down"]) : say["down"][j] = m
      <4>1. CASE say'["down"] = say["down"]
        BY <4>1
      <4>2. CASE say["down"] # <<>> /\ say'["down"] = Tail(say["down"])
        <5>1. /\ Len(say'["down"]) = Len(say["down"]) - 1
              /\ \A i \in 1..Len(say'["down"]) : i + 1 \in 1..Len(say["down"]) /\ say'["down"][i] = say["down"][i + 1]
          BY <1>5, <4>2
        <5> QED
          BY <5>1
      <4> QED
        BY <3>2, <4>1, <4>2
    <3>4. CASE Fail(e)
      BY <1>7, <2>1, <3>3, <3>4 DEF Fail, EndTypes
    <3>5. CASE Advance(e) /\ told' = told
      BY <1>7, <1>10, <1>11, <2>1, <3>3, <3>5
    <3>6. CASE Advance(e) /\ told' = "ok" /\ e = "task" /\ What(e) = m
      <4>1. say["down"] # <<>> /\ Head(say["down"]) = m
        BY <2>2, <3>6 DEF In
      <4>2. 1 \in 1..Len(say["down"]) /\ say["down"][1] = m
        BY <1>5, <4>1
      <4>3. Good
        BY <1>4, <4>2
      <4>4. Good'
        BY <1>1, <2>1, <4>3 DEF Good
      <4>5. phase'["handler"] = "talk" => \A i \in pc'["handler"]..Len(S) : ~R(i)
        BY <1>4, <1>5, <1>10, <1>11, <2>1, <3>6, <4>3
      <4> QED
        BY <1>6, <4>4, <4>5
    <3> QED
      BY <2>2, <3>4, <3>5, <3>6
  <2>3. CASE Fail(e) /\ say' = say
    BY <1>9, <2>1, <2>3
  <2> QED
    BY <1>13, <2>2, <2>3 DEF Hear, wireVars, m
<1>14. CASE Wait
  <2>1. phase["task"] = "talk" /\ did' = did /\ say' = say
    BY <1>14 DEF Wait, At, wireVars
  <2>2. CASE Advance("task") /\ told' = told
    BY <1>7, <1>10, <1>11, <2>1, <2>2
  <2>3. CASE Fail("task")
    BY <1>9, <2>1, <2>3
  <2> QED
    BY <1>14, <2>2, <2>3 DEF Wait
<1>15. ASSUME NEW e \in End, StartBody(e) PROVE Honest'
  <2>1. /\ phase[e] = "talk" /\ UNCHANGED <<did, told, say, phase>>
        /\ pc' = [pc EXCEPT ![e] = @ + 1]
    BY <1>15 DEF StartBody, At, wireVars
  <2> QED
    BY <1>7, <1>10, <2>1
<1>16. CASE Answer
  <2>1. /\ phase["handler"] = "talk" /\ At("handler", "answer")
        /\ pc["handler"] \in 1..Len(S)
        /\ S[pc["handler"]][1] = "answer" /\ What("handler") = S[pc["handler"]][2]
    BY <1>5, <1>16 DEF Answer, At, What, S
  <2>2. PICK v \in {"ok", "err"} :
          /\ did' = IF What("handler") = Reply[kind] THEN v ELSE IF v = "err" THEN "refused" ELSE did
          /\ \/ /\ Write("down", Report(v))
                /\ IF Report(v) = "err" THEN Fail("handler")
                                        ELSE Advance("handler") /\ told' = told
             \/ Fail("handler") /\ say' = say
    BY <1>16 DEF Answer, wireVars
  <2>3. v = "ok" \/ Report(v) = "err"
    BY <2>2 DEF Report
  <2>4. Write("down", Report(v)) => say'["down"] = Append(say["down"], Report(v))
    BY DEF Write, WireTypes
  <2>5. /\ Fail("handler") => phase'["handler"] = "leaving" /\ told' = told /\ pc' = pc
        /\ Advance("handler") => pc'["handler"] = pc["handler"] + 1
    BY <2>1 DEF Fail, Advance, EndTypes
  <2>6. CASE What("handler") = m
    <3>1. ~Good /\ told # "ok" /\ \A i \in 1..Len(say["down"]) : say["down"][i] # m
      <4>1. R(pc["handler"]) /\ pc["handler"] \in pc["handler"]..Len(S)
        BY <1>5, <2>1, <2>6
      <4> QED
        BY <1>4, <2>1, <4>1
    <3>2. told' = told
      BY <2>2, <2>5
    <3>3. CASE v = "ok"
      <4>1. Good'
        BY <2>2, <2>6, <3>3 DEF Good, m
      <4>2. phase'["handler"] = "talk" => \A i \in pc'["handler"]..Len(S) : ~R(i)
        <5>1. CASE Fail("handler")
          BY <2>5, <5>1
        <5>2. CASE Advance("handler")
          <6>1. R(pc["handler"]) /\ pc'["handler"] = pc["handler"] + 1
            BY <2>1, <2>5, <2>6, <5>2
          <6>2. \A i \in pc'["handler"]..Len(S) : i \in 1..Len(S) /\ i # pc["handler"]
            BY <1>5, <2>1, <6>1
          <6> QED
            BY <1>3, <2>1, <6>1, <6>2
        <5> QED
          BY <2>2, <5>1, <5>2
      <4> QED
        BY <1>6, <4>1, <4>2
    <3>4. CASE v = "err"
      <4>1. did' = "err" /\ ~Good'
        BY <2>2, <2>6, <3>4 DEF Good, m
      <4>2. say'["down"] = say["down"] \/ say'["down"] = Append(say["down"], "err")
        BY <2>2, <2>3, <2>4, <3>4
      <4>3. \A i \in 1..Len(say'["down"]) : say'["down"][i] # m
        <5>1. CASE say'["down"] = say["down"]
          BY <3>1, <5>1
        <5>2. CASE say'["down"] = Append(say["down"], "err")
          <6>1. /\ Len(say'["down"]) = Len(say["down"]) + 1
                /\ say'["down"][Len(say["down"]) + 1] = "err"
                /\ \A i \in 1..Len(say["down"]) : say'["down"][i] = say["down"][i]
            BY <1>5, <5>2 DEF Message
          <6>2. Len(say["down"]) \in Nat /\ m # "err"
            BY <1>3, <1>5
          <6>3. ASSUME NEW i \in 1..Len(say'["down"]) PROVE say'["down"][i] # m
            <7>1. i \in 1..Len(say["down"]) \/ i = Len(say["down"]) + 1
              BY <6>1, <6>2, <6>3
            <7> QED
              BY <3>1, <6>1, <6>2, <7>1
          <6> QED
            BY <6>3
        <5> QED
          BY <4>2, <5>1, <5>2
      <4> QED
        BY <1>6, <3>1, <3>2, <4>1, <4>3
    <3> QED
      BY <3>3, <3>4
  <2>7. CASE What("handler") # m
    <3>1. told' = told
      BY <2>2, <2>5
    <3>2. \A i \in 1..Len(say'["down"]) :
            say'["down"][i] = m => \E j \in 1..Len(say["down"]) : say["down"][j] = m
      <4>1. Report(v) \in {What("handler"), "err"}
        BY DEF Report
      <4>2. Report(v) \in Message /\ Report(v) # m
        BY <1>3, <2>1, <2>7, <4>1, NextStep DEF Message
      <4>3. say'["down"] = say["down"] \/ say'["down"] = Append(say["down"], Report(v))
        BY <2>2, <2>4
      <4>4. CASE say'["down"] = say["down"]
        BY <4>4
      <4>5. CASE say'["down"] = Append(say["down"], Report(v))
        <5>1. /\ Len(say'["down"]) = Len(say["down"]) + 1 /\ Len(say["down"]) \in Nat
              /\ say'["down"][Len(say["down"]) + 1] = Report(v)
              /\ \A i \in 1..Len(say["down"]) : say'["down"][i] = say["down"][i]
          BY <1>5, <4>2, <4>5
        <5>2. ASSUME NEW i \in 1..Len(say'["down"]), say'["down"][i] = m
              PROVE  i \in 1..Len(say["down"]) /\ say["down"][i] = m
          <6>1. i \in 1..Len(say["down"]) \/ i = Len(say["down"]) + 1
            BY <5>1, <5>2
          <6> QED
            BY <4>2, <5>1, <5>2, <6>1
        <5> QED
          BY <5>2
      <4> QED
        BY <4>3, <4>4, <4>5
    <3>3. CASE v = "ok"
      <4>1. did' = did
        BY <2>2, <2>7, <3>3 DEF m
      <4>2. /\ pc'["handler"] \in {pc["handler"], pc["handler"] + 1}
            /\ phase'["handler"] = "talk" => phase["handler"] = "talk"
        BY <2>1, <2>2, <2>5
      <4> QED
        BY <1>7, <3>1, <3>2, <4>1, <4>2
    <3>4. CASE v = "err"
      <4>1. did' = "refused" /\ phase'["handler"] = "leaving"
        BY <2>2, <2>3, <2>5, <2>7, <3>4 DEF m
      <4>2. Good => Good'
        <5>1. CASE kind = "read"
          BY <1>1, <4>1, <5>1 DEF Good
        <5>2. CASE kind # "read"
          <6>1. PICK j \in pc["handler"]..Len(S) : R(j)
            BY <1>3, <2>1, <5>2
          <6> QED
            BY <1>4, <2>1, <6>1
        <5> QED
          BY <5>1, <5>2
      <4> QED
        BY <1>4, <1>6, <3>1, <3>2, <4>1, <4>2
    <3> QED
      BY <3>3, <3>4
  <2> QED
    BY <2>6, <2>7
<1>17. ASSUME NEW W, NEW R0, Release(W, R0), did' = did, told' \in {told, "err"}, pc' = pc,
              \A e \in End : phase'[e] = "talk" => phase[e] = "talk"
       PROVE Honest'
  <2>1. say'["down"] = say["down"] \/ say'["down"] = <<>>
    BY <1>17 DEF Release
  <2> QED
    BY <1>7, <1>17, <2>1
<1>18. ASSUME NEW d \in Dir, PullEnd(d) \/ PushFail(d) \/ PushEnd(d) PROVE Honest'
  <2>1. PICK W, R0 : Release(W, R0)
    BY <1>18 DEF PullEnd, PushFail, PushEnd
  <2>2. did' = did /\ (UNCHANGED <<pc, phase, told>> \/ Fail("task"))
    BY <1>18 DEF PullEnd, PushFail, PushEnd, endVars
  <2>3. /\ told' \in {told, "err"} /\ pc' = pc
        /\ \A e \in End : phase'[e] = "talk" => phase[e] = "talk"
    BY <2>2 DEF Fail, EndTypes
  <2> QED
    BY <1>17, <2>1, <2>2, <2>3
<1>19. CASE CancelBody
  BY <1>17, <1>19 DEF CancelBody, endVars
<1>20. ASSUME NEW e \in End, Leave(e) PROVE Honest'
  <2>1. PICK W, R0 : Release(W, R0)
    BY <1>20 DEF Leave
  <2>2. UNCHANGED <<did, told, pc>> /\ phase' = [phase EXCEPT ![e] = "over"]
    BY <1>20 DEF Leave
  <2>3. \A o \in End : phase'[o] = "talk" => phase[o] = "talk"
    BY <2>2 DEF EndTypes
  <2> QED
    BY <1>17, <2>1, <2>2, <2>3
<1>21. ASSUME NEW e \in End, Finish(e) \/ Cancel(e) PROVE Honest'
  BY <1>9, <1>21 DEF Finish, Cancel, streamVars, wireVars
<1>22. CASE AssociateClosed
  BY <1>9, <1>22 DEF AssociateClosed, streamVars, wireVars
<1>23. ASSUME UNCHANGED <<did, told, pc, say, phase>> PROVE Honest'
  BY <1>8, <1>23
<1>24. ASSUME NEW d \in Dir, Pull(d) \/ Push(d) PROVE Honest'
  BY <1>23, <1>24 DEF Pull, Push, SendChunk, TakeChunk, endVars
<1>25. ASSUME NEW e \in End, Stop(e) PROVE Honest'
  BY <1>23, <1>25 DEF Stop, streamVars, wireVars
<1>26. ASSUME NEW d \in Dir, NEW x, Source(d, x) \/ Sink(d, x) PROVE Honest'
  BY <1>23, <1>26 DEF Source, Sink, streamVars, wireVars, endVars
<1>27. CASE Terminated \/ UNCHANGED vars
  BY <1>23, <1>27 DEF Terminated, vars, streamVars, wireVars, endVars, End
<1>28. CASE ConnLost
  <2>1. PICK n \in [Dir -> 0..Window + 1] : say' = [d \in Dir |-> First(say[d], n[d])]
    BY <1>28 DEF ConnLost, Lose
  <2>2. n["down"] \in Int
    BY CommandAssumption
  <2>3. /\ Len(say'["down"]) \in 0..Len(say["down"])
        /\ \A i \in 1..Len(say'["down"]) : say'["down"][i] = say["down"][i]
    BY <1>5, <2>1, <2>2, FirstOf
  <2>4. UNCHANGED <<did, told, pc, phase>>
    BY <1>28 DEF ConnLost, endVars
  <2> QED
    <3>1. \A i \in 1..Len(say'["down"]) :
            say'["down"][i] = m => \E j \in 1..Len(say["down"]) : say["down"][j] = m
      BY <1>5, <2>3
    <3> QED
      BY <1>7, <2>4, <3>1
<1> QED
  BY <1>12, <1>13, <1>14, <1>15, <1>16, <1>18, <1>19, <1>20, <1>21, <1>22, <1>24, <1>25, <1>26,
     <1>27, <1>28 DEF Next

-----------------------------------------------------------------------------
(* Theorems *)

\* The scripts begin with nothing said, and nothing under way.
LEMMA InitIInv == Init => IInv
<1> SUFFICES ASSUME Init PROVE IInv
  OBVIOUS
<1> USE Ends DEF Init, StreamInit
<1>1. \A e \in End : Fits(Script(e), kind, e)
  BY ScriptFits
<1>2. WireTypes /\ EndTypes /\ PipeTypes
  <2>1. WireTypes
    <3>1. say \in [Dir -> Seq(Message)]
      OBVIOUS
    <3>2. flow \in [Dir -> Seq(Chunk)]
      OBVIOUS
    <3>3. fin \in [Dir -> BOOLEAN] /\ lost \in BOOLEAN
      OBVIOUS
    <3>4. wr \in [Dir -> {"own", "copy", "shut"}] /\ rd \in [Dir -> {"own", "copy", "shut"}]
      OBVIOUS
    <3> QED
      BY <3>1, <3>2, <3>3, <3>4 DEF WireTypes
  <2>2. EndTypes
    BY DEF EndTypes
  <2>3. PipeTypes
    BY DEF PipeTypes
  <2> QED
    BY <2>1, <2>2, <2>3
<1>3. InScript
  BY <1>1 DEF InScript, Fits
<1>4. Counted
  BY CommandAssumption DEF Counted
<1>5. Dropped
  BY DEF Dropped
<1>6. AInv
  <2> SUFFICES ASSUME NEW d \in Dir PROVE Agreed(d)
    BY DEF AInv
  <2>1. /\ Heard(ReaderOf[d]) = 0 /\ Written(WriterOf[d]) = 0
    BY <1>1 DEF Fits, Reads, Writes, Heard, Written
  <2>2. Msgs[d][kind] \in Seq(Message)
    BY <1>2, <1>3, Places
  <2>3. Len(Msgs[d][kind]) \in Nat /\ Len(say[d]) = 0 /\ flow[d] = <<>>
    BY <2>2
  <2>4. wr[d] = "own" /\ rd[d] = "own"
    OBVIOUS
  <2> QED
    BY <2>1, <2>3, <2>4 DEF Agreed, Agrees
<1>7. Honest
  BY DEF Honest, Good
<1> QED
  BY <1>2, <1>3, <1>4, <1>5, <1>6, <1>7 DEF IInv, TInv

\* Each part of the inductive invariant survives every step.
LEMMA StepIInv == IInv /\ [Next]_vars => IInv'
<1> SUFFICES ASSUME IInv, [Next]_vars PROVE IInv'
  OBVIOUS
<1> USE DEF IInv, TInv
<1>1. WireTypes' /\ EndTypes' /\ PipeTypes'
  BY WireStep, EndStep, PipeStep
<1>2. InScript' /\ Counted' /\ Dropped'
  BY InScriptStep, CountedStep, DroppedStep
<1>3. AInv' /\ Honest'
  BY <1>1, AgreedStep, HonestStep
<1> QED
  BY <1>1, <1>2, <1>3

\* The inductive invariant holds for all kinds and faults and any window.
THEOREM Invariance == Spec => []IInv
BY InitIInv, StepIInv, PTL DEF Spec

\* Every value keeps its type, a sink never gets more than its source has yielded,
\* and who returns drops both halves of its stream.
THEOREM TypeCorrect == Spec => []TypeOK
<1>1. IInv => TypeOK
  <2> SUFFICES ASSUME IInv PROVE TypeOK
    OBVIOUS
  <2>1. \A d \in Dir : sent[d] \in 0..Chunks /\ got[d] \in 0..Chunks
    <3> SUFFICES ASSUME NEW d \in Dir PROVE sent[d] \in 0..Chunks /\ got[d] \in 0..Chunks
      OBVIOUS
    <3>1. /\ got[d] \in Nat /\ sent[d] \in Nat /\ Len(flow[d]) \in Nat /\ Chunks \in Nat
      BY CommandAssumption DEF IInv, TInv, PipeTypes, WireTypes
    <3>2. got[d] + Len(flow[d]) <= sent[d] /\ sent[d] <= Chunks
      BY DEF IInv, TInv, Counted
    <3> QED
      BY <3>1, <3>2
  <2>2. sent \in [Dir -> 0..Chunks] /\ got \in [Dir -> 0..Chunks]
    BY <2>1 DEF IInv, TInv, PipeTypes
  <2>3. StreamTyped(Chunk)
    BY DEF IInv, TInv, WireTypes, StreamTyped
  <2> QED
    BY <2>2, <2>3 DEF IInv, TInv, EndTypes, PipeTypes, Dropped, TypeOK
<1> QED
  BY <1>1, Invariance, PTL

\* No end of a stream ever takes a message for another one, bytes for a message or
\* a message for bytes: the scripts of the tasks and those of the handlers agree,
\* however the messages, errors and losses fall.
THEOREM UnderstoodHolds == Spec => []Understood
<1>1. IInv => Understood
  <2> SUFFICES ASSUME IInv, NEW e \in End
               PROVE  /\ At(e, "read") => /\ say[In[e]] # <<>> => Head(say[In[e]]) \in {What(e), "err"}
                                          /\ say[In[e]] = <<>> => flow[In[e]] = <<>>
                      /\ rd[In[e]] = "copy" => say[In[e]] = <<>>
    BY DEF Understood
  <2> DEFINE d == In[e]
             D == Msgs[d][kind]
  <2>1. d \in Dir /\ ReaderOf[d] = e
    BY Ends
  <2>2. /\ Heard(e) \in Nat /\ Len(D) \in Nat /\ D \in Seq(Message)
        /\ say[d] \in Seq(Message)
    BY <2>1, Places DEF IInv, TInv, WireTypes
  <2>3. /\ rd[d] = "copy" => Heard(e) = Len(D)
        /\ phase[e] = "talk" \/ rd[d] = "copy" =>
            /\ Heard(e) + Len(say[d]) <= Len(D)
            /\ \A i \in 1..Len(say[d]) : say[d][i] \in {D[Heard(e) + i], "err"}
            /\ flow[d] # <<>> => Heard(e) + Len(say[d]) >= Len(D)
    BY <2>1 DEF IInv, AInv, Agreed, Agrees
  <2>4. CASE rd[d] = "copy"
    <3>1. Len(say[d]) = 0
      BY <2>2, <2>3, <2>4
    <3>2. say[d] = <<>>
      BY <2>2, <3>1
    <3>3. ~At(e, "read")
      <4>1. At(e, "read") => Heard(e) + 1 \in 0..Len(D)
        BY NextPlace DEF IInv, TInv, At
      <4> QED
        BY <2>2, <2>3, <2>4, <4>1
    <3> QED
      BY <3>2, <3>3
  <2>5. CASE At(e, "read")
    <3>1. /\ phase[e] = "talk" /\ What(e) = D[Heard(e) + 1]
          /\ Heard(e) + 1 <= Len(D)
      <4>1. phase[e] = "talk"
        BY <2>5 DEF At
      <4>2. HeardNext(e) \in 0..Len(D) /\ HeardNext(e) = Heard(e) + 1 /\ What(e) = D[Heard(e) + 1]
        BY <2>5, <4>1, NextPlace DEF IInv, TInv
      <4> QED
        BY <2>2, <4>1, <4>2
    <3>2. say[d] # <<>> => Head(say[d]) \in {What(e), "err"}
      <4> SUFFICES ASSUME say[d] # <<>> PROVE Head(say[d]) \in {What(e), "err"}
        OBVIOUS
      <4>1. 1 \in 1..Len(say[d]) /\ Head(say[d]) = say[d][1]
        BY <2>2
      <4> QED
        BY <2>3, <3>1, <4>1
    <3>3. say[d] = <<>> => flow[d] = <<>>
      <4> SUFFICES ASSUME say[d] = <<>> PROVE flow[d] = <<>>
        OBVIOUS
      <4>1. Len(say[d]) = 0
        OBVIOUS
      <4> QED
        BY <2>2, <2>3, <3>1, <4>1
    <3>4. rd[d] # "copy"
      BY <2>2, <2>3, <3>1
    <3> QED
      BY <3>2, <3>3, <3>4
  <2> QED
    BY <2>4, <2>5
<1> QED
  BY <1>1, Invariance, PTL

\* A caller is told of the success of its command only if the node has done what the
\* command says, whatever becomes of the stream or of either end afterwards.
THEOREM OkMeansDoneHolds == Spec => []OkMeansDone
<1>1. IInv => OkMeansDone
  BY DEF IInv, Honest, Good, OkMeansDone
<1> QED
  BY <1>1, Invariance, PTL

=============================================================================
