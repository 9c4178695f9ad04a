------------------------------ MODULE Command -------------------------------
(***************************************************************************)
(* One command over its stream, from both ends: the task that was queued   *)
(* through a Handle (src/crab/proto/tasks.rs with the executors of         *)
(* src/app) and the handler on the node (src/app/protocol).                *)
(*                                                                         *)
(* Each end first follows a script of messages.  Then, for the commands    *)
(* that carry bytes, one copy per direction runs from a source at one end, *)
(* over the stream, to a sink at the other:                                *)
(*                                                                         *)
(*   up     request body or TCP or UDP client  ->  target                  *)
(*   down   file, response body, target        ->  HTTP or other client    *)
(*                                                                         *)
(* WriteFile, whose end has a verdict, is in the module of that name.      *)
(***************************************************************************)
EXTENDS Stream, FiniteSets

CONSTANTS
    Kinds,      \* the commands that are looked at
    Faults,     \* what may go wrong together in a behaviour
    Chunks,     \* chunks a source yields at most (a bound)
    Mtu,        \* UDP_FORWARD_MTU: 1500 in the code
    HeaderLen   \* PacketHeader as it is written: 9 or 21 bytes in the code

End == {"task", "handler"}
Out == [task |-> "up", handler |-> "down"]
In == [task |-> "down", handler |-> "up"]
WriterOf == [up |-> "task", down |-> "handler"]
ReaderOf == [up |-> "handler", down |-> "task"]

\* Mutant: the task does not wait for the first ack.
CallUnacked == <<<<"write", "cmd">>>>

\* What the tasks do: each sends its command and waits for the first ack.
Call == <<<<"write", "cmd">>, <<"read", "ack">>>>

ListTask == Call \o <<<<"read", "list">>>>

\* exec_ack hands the first result m to its caller and waits for an executor.
TwoStageTask(m) == Call \o <<<<"read", m>>, <<"wait", "caller">>, <<"write", "ack">>>>

ReadTask == TwoStageTask("meta") \o <<<<"read", "ack">>>>

HttpTask == Call \o <<<<"start", "body">>, <<"read", "resp">>>>

TaskScript == [
    ping |-> Call, delete |-> Call, list |-> ListTask, read |-> ReadTask, http |-> HttpTask,
    tcp |-> TwoStageTask("addr"), udp |-> TwoStageTask("addr")]

\* What the handlers do; an answer is a message or, if that fails, an error.
Handle == <<<<"read", "cmd">>, <<"write", "ack">>>>

SimpleHandler(m) == Handle \o <<<<"answer", m>>>>

ReadHandler == Handle \o <<<<"answer", "meta">>, <<"read", "ack">>, <<"answer", "ack">>>>

HttpHandler == <<<<"read", "cmd">>, <<"answer", "ack">>, <<"start", "body">>, <<"answer", "resp">>>>

\* Mutant: the handler waits for the task's ack before it connects.
TcpHandlerLate == Handle \o <<<<"read", "ack">>, <<"answer", "addr">>>>

TcpHandler == Handle \o <<<<"answer", "addr">>, <<"read", "ack">>>>

UdpHandler == TcpHandler

HandlerScript == [
    ping |-> Handle, delete |-> SimpleHandler("ack"), list |-> SimpleHandler("list"),
    read |-> ReadHandler, http |-> HttpHandler, tcp |-> TcpHandler, udp |-> UdpHandler]

\* The message the caller of the command waits for.
Reply == [ping |-> "ack", delete |-> "ack", list |-> "list", read |-> "meta",
          http |-> "resp", tcp |-> "addr", udp |-> "addr"]

\* The directions in which bytes follow.
Carries == [ping |-> {}, delete |-> {}, list |-> {}, read |-> {"down"},
            http |-> Dir, tcp |-> Dir, udp |-> Dir]

ASSUME CommandAssumption ==
    /\ Kinds \subseteq DOMAIN Carries
    /\ Faults \subseteq SUBSET {"lost", "stop", "broken", "gone", "stalled"}
    /\ Window \in Nat \ {0} /\ Chunks \in Nat
    /\ Mtu \in Nat /\ HeaderLen \in 0..Mtu

VARIABLES
    kind,   \* the command
    fault,  \* what may go wrong, a choice at the start
    pc,     \* how far each end is in its script
    phase,  \* whether it still talks, or copies, or is on its way out
    told,   \* what the caller was told
    did,    \* what has become of the command on the node
    stop,   \* the token of the task, and that of the handler
    src,    \* where each direction's bytes come from
    sent,   \* chunks read from there
    snk,    \* where they go to; "text": it was given an error's text and its end
    got     \* chunks written there

endVars == <<kind, fault, pc, phase, told, did, stop>>
pipeVars == <<src, sent, snk, got>>
vars == <<streamVars, endVars, pipeVars>>

Chunk == [size : Nat, takes : Nat]

TypeOK ==
    /\ StreamTyped(Chunk)
    /\ kind \in Kinds /\ fault \in Faults
    /\ pc \in [End -> Nat]
    /\ phase \in [End -> {"talk", "relay", "leaving", "over"}]
    /\ told \in {"none", "ok", "err"}
    /\ did \in {"none", "ok", "err", "refused"}
    /\ stop \in [End -> BOOLEAN]
    /\ src \in [Dir -> {"open", "eof", "broken"}]
    /\ snk \in [Dir -> {"open", "stalled", "gone", "eof", "text"}]
    /\ sent \in [Dir -> 0..Chunks] /\ got \in [Dir -> 0..Chunks]
    \* no half is used before the script says so, and none outlives its end
    \* but those of a request body
    /\ \A d \in Dir :
        /\ phase[WriterOf[d]] = "over" => wr[d] = "shut" \/ kind = "http"
        /\ phase[ReaderOf[d]] = "over" => rd[d] = "shut" \/ kind = "http"

Init ==
    /\ StreamInit
    /\ kind \in Kinds /\ fault \in Faults
    /\ pc = [e \in End |-> 1]
    /\ phase = [e \in End |-> "talk"]
    /\ told = "none" /\ did = "none"
    /\ stop = [e \in End |-> FALSE]
    /\ src = [d \in Dir |-> "open"] /\ snk = [d \in Dir |-> "open"]
    /\ sent = [d \in Dir |-> 0] /\ got = [d \in Dir |-> 0]

-----------------------------------------------------------------------------
(* The scripts *)

Script(e) == IF e = "task" THEN TaskScript[kind] ELSE HandlerScript[kind]

At(e, op) == phase[e] = "talk" /\ Script(e)[pc[e]][1] = op

What(e) == Script(e)[pc[e]][2]

\* The HTTP client has hung up, so that nobody takes the answer.
CallerGone == kind \in {"read", "http"} /\ snk["down"] = "gone"

\* The halves of e among the directions D are handed to a copy.
StartCopies(e, D) ==
    /\ wr' = [wr EXCEPT ![Out[e]] = IF Out[e] \in D /\ @ = "own" THEN "copy" ELSE @]
    /\ rd' = [rd EXCEPT ![In[e]] = IF In[e] \in D /\ @ = "own" THEN "copy" ELSE @]

Advance(e) ==
    /\ pc' = [pc EXCEPT ![e] = @ + 1]
    /\ IF pc[e] < Len(Script(e))
       THEN UNCHANGED <<phase, wr, rd>>
       ELSE /\ phase' = [phase EXCEPT ![e] = IF Carries[kind] = {} THEN "leaving" ELSE "relay"]
            /\ StartCopies(e, Carries[kind])

\* e returns; its caller, if it still waits, gets an error.
Fail(e) ==
    /\ phase' = [phase EXCEPT ![e] = "leaving"]
    /\ told' = IF e = "task" /\ told = "none" THEN "err" ELSE told
    /\ UNCHANGED pc

Say(e) ==
    /\ At(e, "write")
    /\ \/ CanWrite(Out[e]) /\ Write(Out[e], What(e)) /\ Advance(e) /\ UNCHANGED told
       \/ Refused(Out[e]) /\ Fail(e) /\ UNCHANGED <<wireVars, wr, rd>>
    /\ UNCHANGED <<lost, kind, fault, did, stop, pipeVars>>

\* read_message: the expected message, or the other end's error, or something
\* else that does not decode, or the end of the stream.
Hear(e) ==
    /\ At(e, "read")
    /\ LET d == In[e]
           isReply == e = "task" /\ told = "none" /\ What(e) = Reply[kind]
       IN \/ /\ say[d] # <<>> /\ Head(say[d]) = What(e)
             /\ Read(d)
             /\ IF isReply /\ CallerGone
                THEN Fail(e) /\ UNCHANGED <<wr, rd>>
                ELSE Advance(e) /\ told' = IF isReply THEN "ok" ELSE told
          \/ /\ \/ say[d] # <<>> /\ Head(say[d]) # What(e)
                \/ say[d] = <<>> /\ flow[d] # <<>>
                \/ AtEnd(d) \/ Dry(d)
             /\ Fail(e)
             /\ UNCHANGED <<wireVars, wr, rd>>
    /\ UNCHANGED <<lost, kind, fault, did, stop, pipeVars>>

\* The caller of exec_ack sends an executor, or drops the Sender.
Wait ==
    /\ At("task", "wait")
    /\ \/ ~CallerGone /\ Advance("task") /\ UNCHANGED told
       \/ (CallerGone \/ kind # "read") /\ Fail("task") /\ UNCHANGED <<wr, rd>>
    /\ UNCHANGED <<lost, wireVars, kind, fault, did, stop, pipeVars>>

\* do_http_request_proxy spawns the copy of the request body; the request that
\* the handler makes reads it.
StartBody(e) ==
    /\ At(e, "start")
    /\ pc' = [pc EXCEPT ![e] = @ + 1]
    /\ StartCopies(e, {"up"})
    /\ UNCHANGED <<lost, wireVars, kind, fault, phase, told, did, stop, pipeVars>>

\* Mutant: every result is written as an answer.
ReportAnswer(v) == What("handler")

\* The result of delete is written as an ack with a code, all others as a
\* message of their own or with write_error.
Report(v) == IF v = "ok" \/ kind = "delete" THEN What("handler") ELSE "err"

\* The handler does what it was asked for and reports it.
Answer ==
    /\ At("handler", "answer")
    /\ \E v \in {"ok", "err"} :
        /\ did' = IF What("handler") = Reply[kind] THEN v ELSE IF v = "err" THEN "refused" ELSE did
        /\ \/ /\ CanWrite("down")
              /\ Write("down", Report(v))
              /\ IF Report(v) = "err"
                 THEN Fail("handler") /\ UNCHANGED <<wr, rd>>
                 ELSE Advance("handler") /\ UNCHANGED told
           \/ Refused("down") /\ Fail("handler") /\ UNCHANGED <<wireVars, wr, rd>>
    /\ UNCHANGED <<lost, kind, fault, stop, pipeVars>>

-----------------------------------------------------------------------------
(* The copies *)

\* A UDP frame is a header and a payload.  The header is written without the
\* type of its address, and read with one: its length as it is read depends on
\* the first byte of the address, which is seldom a type (0 here).
Frames ==
    IF kind = "udp"
    THEN {[size |-> HeaderLen + n, takes |-> t] : n \in 0..Mtu, t \in {0, HeaderLen + 1}}
    ELSE {[size |-> 1, takes |-> 0]}

Pull(d) ==
    /\ wr[d] = "copy"
    /\ src[d] = "open" /\ sent[d] < Chunks
    /\ CanWrite(d)
    /\ \E c \in Frames : SendChunk(d, c)
    /\ sent' = [sent EXCEPT ![d] = @ + 1]
    /\ UNCHANGED <<lost, wr, rd, endVars, src, snk, got>>

\* The source is at its end or broken, or it has more and the write fails.
\* The stream is finished in any case.
PullEnd(d) ==
    /\ wr[d] = "copy"
    /\ src[d] # "open" \/ Refused(d)
    /\ Release({d}, {})
    /\ UNCHANGED <<endVars, pipeVars>>

\* NO_ENOUGH_SPACE or BAD_MESSAGE_HEADER
Illegible(c) == kind = "udp" /\ (c.size > Mtu \/ c.takes \notin 1..c.size)

HasChunk(d) == rd[d] = "copy" /\ say[d] = <<>> /\ flow[d] # <<>>

Push(d) ==
    /\ HasChunk(d)
    /\ snk[d] = "open" /\ ~Illegible(Head(flow[d]))
    /\ TakeChunk(d)
    /\ got' = [got EXCEPT ![d] = @ + 1]
    /\ UNCHANGED <<lost, wr, rd, endVars, src, sent, snk>>

\* The response of an HTTP request is copied by a function that returns at once
\* on an error, and ends the response when it returns.
Response(d) == kind = "http" /\ d = "down"

\* The reader is dropped with what it has not read.
PushFail(d) ==
    /\ HasChunk(d)
    /\ snk[d] = "gone" \/ Illegible(Head(flow[d]))
    /\ Release({}, {d})
    /\ IF Response(d) THEN Fail("task") ELSE UNCHANGED <<pc, phase, told>>
    /\ UNCHANGED <<kind, fault, did, stop, pipeVars>>

\* Mutant: the copy does not shut its sink down.
PushEndSilent(d) ==
    /\ rd[d] = "copy"
    /\ AtEnd(d) \/ Dry(d)
    /\ Release({}, {d})
    /\ IF Response(d) /\ Dry(d) THEN Fail("task") ELSE UNCHANGED <<pc, phase, told>>
    /\ UNCHANGED <<kind, fault, did, stop, pipeVars>>

\* The end of the stream ends the sink as well, and so does its loss: only the
\* request body of a client can tell its sink of an error.
PushEnd(d) ==
    /\ rd[d] = "copy"
    /\ AtEnd(d) \/ Dry(d)
    /\ Release({}, {d})
    /\ snk' = [snk EXCEPT ![d] = IF @ = "gone" \/ Response(d) THEN @
                                 ELSE IF kind = "http" /\ Dry(d) THEN "gone" ELSE "eof"]
    /\ IF Response(d) /\ Dry(d) THEN Fail("task") ELSE UNCHANGED <<pc, phase, told>>
    /\ UNCHANGED <<kind, fault, did, stop, src, sent, got>>

\* Mutant: tcp_forward returns when either direction has ended.
FinishEither(e) ==
    /\ phase[e] = "relay"
    /\ wr[Out[e]] = "shut" \/ rd[In[e]] = "shut"
    /\ Fail(e)
    /\ UNCHANGED <<streamVars, kind, fault, did, stop, pipeVars>>

\* Both copies of a TCP forward and of the task of an HTTP request are joined,
\* the first of a UDP forward to end is the last, and else there is one.
Copied(e) ==
    LET w == wr[Out[e]] = "shut"
        r == rd[In[e]] = "shut"
    IN \/ w /\ r
       \/ w /\ (kind = "udp" \/ (kind # "tcp" /\ e = "handler"))
       \/ r /\ (kind = "udp" \/ (kind = "read" /\ e = "task"))

Finish(e) ==
    /\ phase[e] = "relay" /\ Copied(e)
    /\ Fail(e)
    /\ UNCHANGED <<streamVars, kind, fault, did, stop, pipeVars>>

\* Mutant: each copy is a task of its own, as that of a request body is.
LeaveCopies(e) ==
    /\ phase[e] = "leaving"
    /\ phase' = [phase EXCEPT ![e] = "over"]
    /\ Release({Out[e]} \ {d \in Dir : wr[d] = "copy"}, {In[e]} \ {d \in Dir : rd[d] = "copy"})
    /\ UNCHANGED <<kind, fault, pc, told, did, stop, pipeVars>>

\* How e ends the sink it had: the executor of a file download that has failed to
\* read the second ack writes the text of the error into the HTTP response first.
Ending(e) == IF e = "task" /\ kind = "read" /\ pc[e] = Len(Script(e)) THEN "text" ELSE "eof"

\* The end is dropped with the halves it still has, and with it the sink it
\* copied to.  A request body goes on without the task that spawned its copy;
\* on the node it is the HTTP client's, which may have done with it or not.
Leave(e) ==
    /\ phase[e] = "leaving"
    /\ phase' = [phase EXCEPT ![e] = "over"]
    /\ LET d == In[e]
           body == kind = "http" /\ e = "handler" /\ rd["up"] = "copy"
           W == IF kind = "http" /\ wr[Out[e]] = "copy" /\ e = "task" THEN {} ELSE {Out[e]}
           closes == rd[d] = "copy" \/ (e = "task" /\ kind \in {"read", "http"} /\ told = "ok")
       IN \/ body /\ Release(W, {}) /\ UNCHANGED snk
          \/ /\ Release(W, {d})
             /\ snk' = [snk EXCEPT ![d] = IF ~closes \/ @ \notin {"open", "stalled"} THEN @
                                          ELSE IF body THEN "gone" ELSE Ending(e)]
    /\ UNCHANGED <<kind, fault, pc, told, did, stop, src, sent, got>>

-----------------------------------------------------------------------------
(* The tokens *)

\* Which of the ends look at their token, and when.
Cancellable(e) ==
    \/ phase[e] = "relay" /\ \/ kind \in {"tcp", "udp"}
                             \/ e = "handler"
                             \/ kind = "http" /\ rd["down"] = "copy"
    \/ kind = "http" /\ e = "handler" /\ At(e, "answer") /\ What(e) = "resp"

Cancel(e) ==
    /\ stop[e]
    /\ Cancellable(e)
    /\ Fail(e)
    /\ UNCHANGED <<streamVars, kind, fault, did, stop, pipeVars>>

\* Mutant: the spawned copy does not look at the token.
CancelBodyNever == FALSE /\ UNCHANGED vars

\* The copy of the request body has a clone of the token.
CancelBody ==
    /\ stop["task"]
    /\ kind = "http" /\ wr["up"] = "copy"
    /\ Release({"up"}, {})
    /\ UNCHANGED <<endVars, pipeVars>>

\* associate.wait_close
AssociateClosed ==
    /\ kind = "udp" /\ phase["task"] = "relay"
    /\ Fail("task")
    /\ UNCHANGED <<streamVars, kind, fault, did, stop, pipeVars>>

\* The node of e is cancelled: by its process, or by its heartbeat, because the
\* connection is lost or the other node does not answer any more.
Stop(e) ==
    /\ ~stop[e]
    /\ "stop" \in fault \/ lost \/ \E o \in End : stop[o]
    /\ wr["up"] = "copy" \/ \E o \in End : phase[o] # "over"
    /\ stop' = [stop EXCEPT ![e] = TRUE]
    /\ UNCHANGED <<streamVars, kind, fault, pc, phase, told, did, pipeVars>>

ConnLost == "lost" \in fault /\ Lose /\ UNCHANGED <<endVars, pipeVars>>

-----------------------------------------------------------------------------
(* Sources and sinks *)

\* A source that no one is going to read is of no interest, nor is a sink that
\* no one writes to.
Source(d, s) ==
    /\ src[d] = "open" /\ d \in Carries[kind] /\ wr[d] # "shut"
    /\ s = "eof" => kind # "udp"
    /\ s = "broken" => s \in fault
    /\ src' = [src EXCEPT ![d] = s]
    /\ UNCHANGED <<streamVars, endVars, sent, snk, got>>

\* A sink takes no more, goes on, or closes.
Sink(d, s) ==
    /\ s \in fault \cup {"open"}
    /\ snk[d] \in {"open", "stalled"} \ {s} /\ d \in Carries[kind]
    /\ rd[d] # "shut" \/ phase[ReaderOf[d]] # "over"
    /\ snk' = [snk EXCEPT ![d] = s]
    /\ UNCHANGED <<streamVars, endVars, src, sent, got>>

Terminated == \A e \in End : phase[e] = "over" /\ UNCHANGED vars

Next ==
    \/ \E e \in End : Say(e) \/ Hear(e) \/ StartBody(e) \/ Finish(e) \/ Leave(e)
    \/ Wait \/ Answer
    \/ \E d \in Dir : Pull(d) \/ PullEnd(d) \/ Push(d) \/ PushFail(d) \/ PushEnd(d)
    \/ \E e \in End : Cancel(e) \/ Stop(e)
    \/ CancelBody \/ AssociateClosed \/ ConnLost
    \/ \E d \in Dir : Source(d, "eof") \/ Source(d, "broken")
    \/ \E d \in Dir : Sink(d, "open") \/ Sink(d, "stalled") \/ Sink(d, "gone")
    \/ Terminated

Spec == Init /\ [][Next]_vars

\* The runtime runs every ready task, and a node whose connection is lost or
\* whose peer has stopped its heartbeats is cancelled.  Nothing is assumed of a
\* source that has not ended, of a stalled sink, or of the target of an HTTP
\* request: it may never answer.  What else the handlers do ends: a connect has
\* a timeout, the others are calls of the operating system.
Runs(e) ==
    \/ Say(e) \/ Hear(e) \/ StartBody(e) \/ Finish(e) \/ Leave(e) \/ Cancel(e)
    \/ e = "task" /\ Wait
    \/ e = "handler" /\ At(e, "answer") /\ What(e) # "resp" /\ Answer

Fairness ==
    /\ \A e \in End : WF_vars(Runs(e)) /\ WF_vars((lost \/ \E o \in End : stop[o]) /\ Stop(e))
    /\ WF_vars(CancelBody)
    /\ \A d \in Dir :
        /\ WF_vars(src[d] # "open" /\ PullEnd(d))
        /\ WF_vars(Push(d) \/ PushFail(d) \/ PushEnd(d))

FairSpec == Spec /\ Fairness

-----------------------------------------------------------------------------
(* Properties. *)

\* Both ends agree on what comes next: no end takes a message for another one,
\* bytes for a message, or a message, like the ack that precedes a file, for
\* bytes.
Understood ==
    \A e \in End :
        LET d == In[e]
        IN /\ At(e, "read") => /\ say[d] # <<>> => Head(say[d]) \in {What(e), "err"}
                               /\ say[d] = <<>> => flow[d] = <<>>
           /\ rd[d] = "copy" => say[d] = <<>>

\* Who is told that a command has succeeded is told so because it has; delete
\* is the exception, see DeleteDone.
OkMeansDone ==
    told = "ok" /\ kind \notin {"ping", "delete"} =>
        did = "ok" \/ (kind = "read" /\ did = "refused")

\* What may cut a direction short.
Cut(d) ==
    \/ lost \/ src[d] = "broken" \/ (\E e \in End : stop[e])
    \/ did \in {"err", "refused"} \/ kind = "udp"

\* Each direction is a pipe of its own.
Up == INSTANCE Pipe WITH sent <- sent["up"], got <- got["up"], source <- src["up"],
                         sink <- snk["up"], cut <- Cut("up")
Down == INSTANCE Pipe WITH sent <- sent["down"], got <- got["down"], source <- src["down"],
                           sink <- snk["down"], cut <- Cut("down")

\* Unless something has cut it short, a sink gets what its source has yielded
\* and its end when all of it is there, whatever the other direction does.  One
\* that is cut may be given the text of an error instead, but no part of the
\* bytes before it.
Pipes == Up!Spec /\ Down!Spec

\* The end of a source reaches the sink, unless that takes no more; but that of
\* an HTTP response waits until the request body is through, too.
EndsArrive ==
    \A d \in Dir :
        src[d] = "eof" /\ rd[d] = "copy" ~>
            \/ snk[d] # "open"
            \/ Response(d) /\ wr["up"] = "copy"

\* A node that stops, or whose connection is lost, gets rid of its commands and
\* handlers, and of what they have spawned; but the copy of a file into an HTTP
\* response looks at nothing but the client.
EndsLeave ==
    \A e \in End :
        stop[e] \/ lost ~>
            \/ phase[e] = "over" /\ (e = "task" /\ kind = "http" => wr["up"] = "shut")
            \/ kind = "read" /\ e = "task" /\ snk["down"] = "stalled"

\* An end goes on by itself, and so does a copy.
EndGoes(e) ==
    \/ phase[e] = "leaving" \/ At(e, "start") \/ At(e, "wait")
    \/ At(e, "write") /\ (Room(Out[e]) \/ Refused(Out[e]))
    \/ At(e, "answer") /\ What(e) # "resp" /\ (Room(Out[e]) \/ Refused(Out[e]))
    \/ At(e, "read") /\ (~Empty(In[e]) \/ fin[In[e]] \/ lost)
    \/ phase[e] = "relay" /\ Copied(e)
    \/ stop[e] /\ Cancellable(e)

CopyGoes(d) ==
    \/ wr[d] = "copy" /\ src[d] # "open"
    \/ HasChunk(d) /\ (snk[d] \in {"open", "gone"} \/ Illegible(Head(flow[d])))
    \/ rd[d] = "copy" /\ (AtEnd(d) \/ Dry(d))
    \/ d = "up" /\ kind = "http" /\ wr[d] = "copy" /\ stop["task"]

Goes == (\E e \in End : EndGoes(e)) \/ (\E d \in Dir : CopyGoes(d))

\* It waits for the target of an HTTP request, a source that has nothing to
\* say, or a sink that takes nothing.
Asked == At("handler", "answer") /\ What("handler") = "resp"

Idle(d) == wr[d] = "copy" /\ src[d] = "open" /\ (Room(d) \/ Refused(d))

Stuffed(d) == rd[d] = "copy" /\ snk[d] = "stalled"

\* The two ends never wait for each other: while one follows its script only the
\* target of an HTTP request is waited for, whatever the window holds, and
\* later only sources and sinks.  Once both nodes have stopped nothing is, but
\* for the HTTP client that a file is copied to.
NeverStuck ==
    /\ (\E e \in End : phase[e] = "talk") => Goes \/ Asked
    /\ (\E e \in End : phase[e] # "over") =>
          Goes \/ Asked \/ \E d \in Dir : Idle(d) \/ Stuffed(d)
    /\ (\A e \in End : stop[e]) /\ (wr["up"] = "copy" \/ \E e \in End : phase[e] # "over") =>
          Goes \/ (kind = "read" /\ Stuffed("down"))

\* src/app/protocol/types.rs: delete deletes a file or directory of the node.
DeleteDone == kind = "delete" /\ told = "ok" => did # "err"

\* README: UDP ASSOCIATE of the SOCKS5 proxy has the node reach the target.  The
\* other end can read what was framed, and sends that payload on; but it sends
\* what follows the header in its buffer, up to the Mtu.
UdpIntact ==
    \A d \in Dir : kind = "udp" /\ flow[d] # <<>> =>
        LET c == Head(flow[d]) IN ~Illegible(c) /\ Mtu - c.takes = c.size - HeaderLen

=============================================================================
