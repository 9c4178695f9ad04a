----------------------------- MODULE PipeProofs ------------------------------
(***************************************************************************)
(* Proof that each direction of a command is a Pipe, for every kind, any   *)
(* window and number of chunks and any faults: a sink is ended early only  *)
(* by what cuts its direction, whatever the other one does.                *)
(*                                                                         *)
(* The argument is about how an end can come to leave in the middle of its *)
(* script, or of a copy, when nothing has cut the command.  It also gives  *)
(* that the two ends of a command never wait for each other.               *)
(***************************************************************************)
EXTENDS CommandProofs

\* The node has failed to do what the command says.
Bad == did \in {"err", "refused"}

\* Something has cut both directions.
Hard == lost \/ Bad \/ (\E e \in End : stop[e]) \/ kind = "udp"

Complete(e) == pc[e] = Len(Script(e)) + 1
Gone(e) == phase[e] \in {"leaving", "over"}
Early(e) == Gone(e) /\ ~Complete(e)

-----------------------------------------------------------------------------
(* The invariant *)

\* A handler that fails leaves; who copies is through with its script.
Left ==
    /\ Bad => phase["handler"] # "talk"
    /\ \A e \in End : phase[e] = "relay" => Complete(e)

\* A sink has ended once nothing reads for it, a stream once nothing writes.
Shut ==
    /\ \A d \in Dir : snk[d] \in {"eof", "text"} => rd[d] = "shut"
    /\ \A d \in Dir : fin[d] => wr[d] = "shut"
    /\ \A d \in Dir : wr[d] = "copy" \/ rd[d] = "copy" => d \in Carries[kind]

\* As long as someone reads, no chunk is lost.
Exact == ~lost => \A d \in Dir : rd[d] # "shut" => got[d] + Len(flow[d]) = sent[d]

\* A half is with its end as long as that talks, and in a copy later; but the
\* copies of a request body begin before the response.
Body(e, x) == kind = "http" /\ e = x /\ pc[e] = 4

Copying ==
    \A e \in End :
        /\ phase[e] = "talk" => /\ wr[Out[e]] # "own" => Body(e, "task")
                                /\ rd[In[e]] # "own" => Body(e, "handler")
        /\ wr[Out[e]] = "copy" => Complete(e) \/ Body(e, "task")
        /\ rd[In[e]] = "copy" => Complete(e) \/ Body(e, "handler")
        /\ Complete(e) => /\ Out[e] \in Carries[kind] => wr[Out[e]] # "own"
                          /\ In[e] \in Carries[kind] => rd[In[e]] # "own"
        /\ Body(e, "task") => wr[Out[e]] # "own"

Shape == Left /\ Shut /\ Exact /\ Copying

\* Nothing is under way that was not written, and no error but that of a
\* handler that has failed.
Trusted ==
    ~Bad => \A d \in Dir :
        /\ Heard(ReaderOf[d]) + Len(say[d]) <= Written(WriterOf[d])
        /\ \A i \in 1..Len(say[d]) : say[d][i] # "err"

\* Who leaves early, though nothing has cut the command, does so because its
\* caller or the client is gone, or because the other end has left early.
Excused ==
    ~Hard /\ Carries[kind] # {} =>
        /\ Early("handler") => kind \in {"tcp", "read"} /\ Early("task")
        /\ Early("task") =>
            \/ kind = "tcp" /\ pc["task"] = 4 /\ pc["handler"] <= 4
            \/ kind = "read" /\ snk["down"] = "gone"
            \/ kind = "http" /\ pc["task"] = 4 /\ Complete("handler") /\ snk["down"] = "gone"

\* The source of d is at its end, and all it has yielded is there or under way.
Done(d) == src[d] = "broken" \/ (src[d] = "eof" /\ got[d] + Len(flow[d]) = sent[d])

\* A stream that is finished is whole, unless its sink does not care.
Whole ==
    ~Hard => \A d \in Carries[kind] :
        wr[d] = "shut" /\ rd[d] # "shut" =>
            Done(d) \/ snk[d] = "gone" \/ (kind = "tcp" /\ Early("task"))

\* Who leaves late has no copy left, but for a request body.
Through ==
    ~Hard => \A e \in End : Gone(e) /\ Complete(e) =>
        /\ Out[e] \in Carries[kind] => wr[Out[e]] = "shut" \/ (kind = "http" /\ e = "task")
        /\ In[e] \in Carries[kind] => rd[In[e]] = "shut" \/ (kind = "http" /\ e = "handler")

\* The HTTP response ends with its task, when all of it is there.
Answered ==
    ~Hard /\ kind \in {"read", "http"} /\ told = "ok" /\ rd["down"] = "shut"
          /\ phase["task"] # "over" =>
        snk["down"] \in {"gone", "eof"} \/ (Done("down") /\ flow["down"] = <<>>)

\* Only a task that has heard the reply has told its caller so.
Told == told = "ok" /\ kind \in {"read", "http"} => pc["task"] >= IF kind = "read" THEN 4 ELSE 5

\* No part of a file is there before the task is through with its script.
Untouched == kind = "read" /\ ~Complete("task") => got["down"] = 0

PInv == Shape /\ Trusted /\ Excused /\ Whole /\ Through /\ Answered /\ Told /\ Untouched

-----------------------------------------------------------------------------
(* What the steps of the scripts do *)

\* e does the next step of its script.
Advances(e) ==
    /\ phase[e] = "talk" /\ Advance(e)
    /\ UNCHANGED <<lost, kind, stop, flow, fin, pipeVars>>
    /\ \/ /\ (At(e, "write") \/ At(e, "answer")) /\ ~Refused(Out[e])
          /\ say' = [say EXCEPT ![Out[e]] = Append(@, What(e))]
       \/ At(e, "read") /\ say[In[e]] # <<>> /\ say' = [say EXCEPT ![In[e]] = Tail(@)]
       \/ At(e, "wait") /\ say' = say
    /\ did' = did \/ (e = "handler" /\ At(e, "answer") /\ (did' = "ok" \/ kind = "delete"))
    /\ told' = told \/ (told' = "ok" /\ e = "task" /\ At(e, "read") /\ What(e) = Reply[kind])

\* e leaves in the middle of its script: it cannot write, ...
Unheard(e) == (At(e, "write") \/ At(e, "answer")) /\ Refused(Out[e]) /\ say' = say

\* ... or what it reads is an error, or the end, ...
Untold(e) ==
    /\ At(e, "read") /\ say' = say
    /\ \/ say[In[e]] # <<>> /\ Head(say[In[e]]) # What(e)
       \/ say[In[e]] = <<>> /\ (flow[In[e]] # <<>> \/ fin[In[e]] \/ lost)

\* ... or its caller is gone, ...
Unwanted(e) ==
    /\ e = "task"
    /\ \/ /\ At(e, "read") /\ What(e) = Reply[kind] /\ CallerGone
          /\ say[In[e]] # <<>> /\ say' = [say EXCEPT ![In[e]] = Tail(@)]
       \/ At(e, "wait") /\ (CallerGone \/ kind # "read") /\ say' = say

\* ... or it has failed.
Failed(e) ==
    /\ e = "handler" /\ At(e, "answer")
    /\ did' \in {"err", "refused"}
    /\ say' = [say EXCEPT ![Out[e]] = Append(@, "err")]

Fails(e) ==
    /\ phase[e] = "talk" /\ Fail(e)
    /\ UNCHANGED <<lost, kind, stop, flow, fin, wr, rd, pipeVars>>
    /\ Unheard(e) \/ Untold(e) \/ Unwanted(e) \/ Failed(e)
    /\ did' = did \/ (e = "handler" /\ At(e, "answer"))

\* The actions that follow a script do one or the other.
LEMMA Follows ==
  ASSUME IInv, PInv, NEW e \in End,
         Say(e) \/ Hear(e) \/ (e = "task" /\ Wait) \/ (e = "handler" /\ Answer)
  PROVE  Advances(e) \/ Fails(e)
<1> USE Ends DEF At, wireVars
<1>1. CASE Say(e)
  <2>1. At(e, "write") /\ UNCHANGED <<lost, kind, stop, did, pipeVars>>
    BY <1>1 DEF Say
  <2>2. CASE CanWrite(Out[e]) /\ Write(Out[e], What(e)) /\ Advance(e) /\ UNCHANGED told
    BY <2>1, <2>2 DEF Write, CanWrite, Advances
  <2>3. CASE Refused(Out[e]) /\ Fail(e) /\ UNCHANGED <<wireVars, wr, rd>>
    BY <2>1, <2>3 DEF Fails, Unheard
  <2> QED
    BY <1>1, <2>2, <2>3 DEF Say
<1>2. CASE Hear(e)
  <2>1. UNCHANGED <<lost, kind, stop, did, pipeVars>> /\ At(e, "read")
    BY <1>2 DEF Hear
  <2>2. CASE say[In[e]] # <<>> /\ Head(say[In[e]]) = What(e) /\ Read(In[e])
    <3> DEFINE isReply == e = "task" /\ told = "none" /\ What(e) = Reply[kind]
    <3>1. IF isReply /\ CallerGone
          THEN Fail(e) /\ UNCHANGED <<wr, rd>>
          ELSE Advance(e) /\ told' = IF isReply THEN "ok" ELSE told
      BY <1>2, <2>2 DEF Hear, AtEnd, Dry, Empty
    <3>2. say' = [say EXCEPT ![In[e]] = Tail(@)] /\ UNCHANGED <<flow, fin>>
      BY <2>2 DEF Read
    <3>3. CASE isReply /\ CallerGone
      BY <2>1, <2>2, <3>1, <3>2, <3>3 DEF Fails, Unwanted
    <3>4. CASE ~(isReply /\ CallerGone)
      BY <2>1, <2>2, <3>1, <3>2, <3>4 DEF Advances
    <3> QED
      BY <3>3, <3>4
  <2>3. CASE /\ \/ say[In[e]] # <<>> /\ Head(say[In[e]]) # What(e)
                \/ say[In[e]] = <<>> /\ flow[In[e]] # <<>>
                \/ AtEnd(In[e]) \/ Dry(In[e])
             /\ Fail(e) /\ UNCHANGED <<wireVars, wr, rd>>
    BY <2>1, <2>3 DEF AtEnd, Dry, Empty, Fails, Untold
  <2> QED
    BY <1>2, <2>2, <2>3 DEF Hear
<1>3. CASE e = "task" /\ Wait
  BY <1>3 DEF Wait, Advances, Fails, Unwanted
<1>4. CASE e = "handler" /\ Answer
  <2>1. PICK v \in {"ok", "err"} :
          /\ did' = IF What("handler") = Reply[kind] THEN v ELSE IF v = "err" THEN "refused" ELSE did
          /\ \/ /\ CanWrite("down")
                /\ Write("down", Report(v))
                /\ IF Report(v) = "err"
                   THEN Fail("handler") /\ UNCHANGED <<wr, rd>>
                   ELSE Advance("handler") /\ UNCHANGED told
             \/ Refused("down") /\ Fail("handler") /\ UNCHANGED <<wireVars, wr, rd>>
    BY <1>4 DEF Answer
  <2>2. /\ UNCHANGED <<lost, kind, stop, pipeVars>> /\ At("handler", "answer")
        /\ phase["handler"] = "talk"
    BY <1>4 DEF Answer
  <2>3. What("handler") # "err"
    BY <2>2, NextStep DEF IInv, TInv
  <2>4. CASE Refused("down") /\ Fail("handler") /\ UNCHANGED <<wireVars, wr, rd>>
    BY <1>4, <2>2, <2>4 DEF Fails, Unheard
  <2>5. CASE /\ CanWrite("down") /\ Write("down", "err") /\ Report(v) = "err"
             /\ Fail("handler") /\ UNCHANGED <<wr, rd>>
    <3>1. v = "err"
      BY <2>3, <2>5 DEF Report
    <3>2. did' \in {"err", "refused"}
      BY <2>1, <3>1
    <3> QED
      BY <1>4, <2>2, <2>5, <3>2 DEF Fails, Failed, Write
  <2>6. CASE /\ CanWrite("down") /\ Write("down", Report(v)) /\ Report(v) # "err"
             /\ Advance("handler") /\ UNCHANGED told
    <3>1. Report(v) = What("handler") /\ (v = "ok" \/ kind = "delete")
      BY <2>6 DEF Report
    <3>2. did' = did \/ did' = "ok" \/ kind = "delete"
      BY <2>1, <3>1
    <3> QED
      BY <1>4, <2>2, <2>6, <3>1, <3>2 DEF Advances, Write, CanWrite
  <2> QED
    BY <2>1, <2>4, <2>5, <2>6
<1> QED
  BY <1>1, <1>2, <1>3, <1>4

\* What going on in a script does to places and halves.
LEMMA Onward ==
  ASSUME IInv, NEW e \in End, phase[e] = "talk", Advance(e)
  PROVE  /\ pc'[e] = pc[e] + 1
         /\ phase'[e] = IF pc[e] < Len(Script(e)) THEN "talk"
                        ELSE IF Carries[kind] = {} THEN "leaving" ELSE "relay"
         /\ \A o \in End \ {e} : pc'[o] = pc[o] /\ phase'[o] = phase[o]
         /\ \A d \in Dir : /\ wr'[d] = IF /\ d = Out[e] /\ pc[e] = Len(Script(e))
                                          /\ d \in Carries[kind] /\ wr[d] = "own"
                                       THEN "copy" ELSE wr[d]
                           /\ rd'[d] = IF /\ d = In[e] /\ pc[e] = Len(Script(e))
                                          /\ d \in Carries[kind] /\ rd[d] = "own"
                                       THEN "copy" ELSE rd[d]
<1> USE Ends
<1>1. pc[e] \in 1..Len(Script(e)) /\ Len(Script(e)) \in Nat \ {0}
  BY NextStep DEF IInv, TInv
<1>2. pc \in [End -> Nat] /\ phase \in [End -> {"talk", "relay", "leaving", "over"}]
  BY DEF IInv, TInv, EndTypes
<1>3. wr \in [Dir -> {"own", "copy", "shut"}] /\ rd \in [Dir -> {"own", "copy", "shut"}]
  BY DEF IInv, TInv, WireTypes
<1>4. pc' = [pc EXCEPT ![e] = @ + 1]
  BY DEF Advance
<1>5. CASE pc[e] < Len(Script(e))
  BY <1>1, <1>2, <1>4, <1>5 DEF Advance
<1>6. CASE pc[e] = Len(Script(e))
  <2>1. /\ phase' = [phase EXCEPT ![e] = IF Carries[kind] = {} THEN "leaving" ELSE "relay"]
        /\ StartCopies(e, Carries[kind])
    BY <1>1, <1>6 DEF Advance
  <2>2. /\ wr' = [wr EXCEPT ![Out[e]] = IF Out[e] \in Carries[kind] /\ @ = "own" THEN "copy" ELSE @]
        /\ rd' = [rd EXCEPT ![In[e]] = IF In[e] \in Carries[kind] /\ @ = "own" THEN "copy" ELSE @]
    BY <2>1 DEF StartCopies
  <2>3. \A d \in Dir : /\ wr'[d] = IF d = Out[e] /\ d \in Carries[kind] /\ wr[d] = "own"
                                   THEN "copy" ELSE wr[d]
                       /\ rd'[d] = IF d = In[e] /\ d \in Carries[kind] /\ rd[d] = "own"
                                   THEN "copy" ELSE rd[d]
    BY <1>3, <2>2
  <2> QED
    BY <1>1, <1>2, <1>4, <1>6, <2>1, <2>3
<1> QED
  BY <1>1, <1>5, <1>6

\* What leaving does to them.
LEMMA Leaving ==
  ASSUME IInv, NEW e \in End, Fail(e)
  PROVE  /\ phase'[e] = "leaving" /\ pc' = pc
         /\ \A o \in End \ {e} : phase'[o] = phase[o]
         /\ told' = told \/ told' = "err"
BY DEF Fail, IInv, TInv, EndTypes

\* The scripts of an HTTP request: both ends start to copy its body before the
\* last step.
LEMMA HttpScripts ==
  ASSUME kind = "http"
  PROVE  /\ Len(Script("task")) = 4 /\ Len(Script("handler")) = 4
         /\ Is(Script("task"), <<<<"write", "cmd">>, <<"read", "ack">>, <<"start", "body">>,
                                 <<"read", "resp">>>>)
         /\ Is(Script("handler"), <<<<"read", "cmd">>, <<"answer", "ack">>, <<"start", "body">>,
                                    <<"answer", "resp">>>>)
         /\ Carries[kind] = Dir /\ Reply[kind] = "resp"
<1>1. Script("task") = HttpTask /\ Script("handler") = HttpHandler
  BY DEF Script, TaskScript, HandlerScript
<1>2. Carries[kind] = Dir /\ Reply[kind] = "resp"
  BY DEF Carries, Reply
<1> QED
  BY <1>1, <1>2, Spelled DEF Is

-----------------------------------------------------------------------------
(* What the other steps have in common *)

Rest ==
    /\ UNCHANGED <<kind, pc, did>>
    /\ \A e \in End : phase'[e] # phase[e] =>
           phase'[e] \in {"leaving", "over"} /\ (phase[e] # "talk" \/ Hard')
    /\ \A d \in Dir :
        /\ wr'[d] # wr[d] => wr'[d] = "shut" /\ (wr[d] = "copy" \/ phase'[WriterOf[d]] = "over")
        /\ rd'[d] # rd[d] => rd'[d] = "shut" /\ (rd[d] = "copy" \/ phase'[ReaderOf[d]] = "over")
        /\ fin'[d] => fin[d] \/ wr'[d] = "shut"
        /\ snk'[d] \in {"eof", "text"} => snk[d] \in {"eof", "text"} \/ rd'[d] = "shut"
        /\ snk[d] = "gone" => snk'[d] = "gone"
        /\ Len(say'[d]) <= Len(say[d])
        /\ \A i \in 1..Len(say'[d]) : say'[d][i] = say[d][i]
    /\ told' = told \/ told' = "err"
    /\ lost => lost'
    /\ \A e \in End : stop[e] => stop'[e]

Other ==
    \/ \E e \in End : Finish(e) \/ Leave(e) \/ Cancel(e) \/ Stop(e)
    \/ \E d \in Dir : Pull(d) \/ PullEnd(d) \/ Push(d) \/ PushFail(d) \/ PushEnd(d)
    \/ CancelBody \/ AssociateClosed \/ ConnLost
    \/ \E d \in Dir : Source(d, "eof") \/ Source(d, "broken")
    \/ \E d \in Dir : Sink(d, "open") \/ Sink(d, "stalled") \/ Sink(d, "gone")
    \/ UNCHANGED vars

\* A step is one of a script, or one of the others.
LEMMA Steps ==
  ASSUME IInv, PInv, [Next]_vars
  PROVE  Other \/ \E e \in End : Advances(e) \/ Fails(e) \/ StartBody(e)
<1> USE Ends
<1>1. ASSUME NEW e \in End, Say(e) \/ Hear(e) PROVE Advances(e) \/ Fails(e)
  BY <1>1, Follows
<1>2. CASE Wait
  BY <1>2, Follows
<1>3. CASE Answer
  BY <1>3, Follows
<1>4. CASE Terminated
  BY <1>4 DEF Terminated, Other, End
<1> QED
  BY <1>1, <1>2, <1>3, <1>4 DEF Next, Other

\* The types that the rest relies on.
LEMMA Typed ==
  ASSUME IInv
  PROVE  /\ pc \in [End -> Nat] /\ phase \in [End -> {"talk", "relay", "leaving", "over"}]
         /\ wr \in [Dir -> {"own", "copy", "shut"}] /\ rd \in [Dir -> {"own", "copy", "shut"}]
         /\ fin \in [Dir -> BOOLEAN] /\ stop \in [End -> BOOLEAN]
         /\ say \in [Dir -> Seq(Message)] /\ flow \in [Dir -> Seq(Chunk)]
         /\ src \in [Dir -> {"open", "eof", "broken"}]
         /\ snk \in [Dir -> {"open", "stalled", "gone", "eof", "text"}]
         /\ sent \in [Dir -> Nat] /\ got \in [Dir -> Nat]
         /\ told \in {"none", "ok", "err"}
         /\ \A e \in End : /\ Len(Script(e)) \in Nat \ {0} /\ pc[e] \in 1..Len(Script(e)) + 1
                           /\ phase[e] = "talk" => pc[e] <= Len(Script(e))
BY ScriptFits DEF IInv, TInv, WireTypes, EndTypes, PipeTypes, InScript, Fits

\* A release that leaves the ends, or lets the one go whose halves it takes.
LEMMA Releases ==
  ASSUME IInv, NEW W, NEW R, Release(W, R)
  PROVE  /\ lost' = lost
         /\ \A d \in Dir :
              /\ wr'[d] = IF d \in W THEN "shut" ELSE wr[d]
              /\ rd'[d] = IF d \in R THEN "shut" ELSE rd[d]
              /\ say'[d] = IF d \in R THEN <<>> ELSE say[d]
              /\ flow'[d] = IF d \in R THEN <<>> ELSE flow[d]
              /\ fin'[d] <=> d \notin R /\ (fin[d] \/ (d \in W /\ ~Refused(d)))
              /\ Len(say'[d]) <= Len(say[d])
              /\ \A i \in 1..Len(say'[d]) : say'[d][i] = say[d][i]
<1>1. \A d \in Dir : Len(say[d]) \in Nat
  BY Typed
<1>2. lost' = lost /\ \A d \in Dir :
              /\ wr'[d] = IF d \in W THEN "shut" ELSE wr[d]
              /\ rd'[d] = IF d \in R THEN "shut" ELSE rd[d]
              /\ say'[d] = IF d \in R THEN <<>> ELSE say[d]
              /\ flow'[d] = IF d \in R THEN <<>> ELSE flow[d]
              /\ fin'[d] <=> d \notin R /\ (fin[d] \/ (d \in W /\ ~Refused(d)))
  BY DEF Release
<1>3. ASSUME NEW d \in Dir
      PROVE  Len(say'[d]) <= Len(say[d]) /\ \A i \in 1..Len(say'[d]) : say'[d][i] = say[d][i]
  <2>1. CASE say'[d] = say[d]
    BY <1>1, <2>1
  <2>2. CASE say'[d] = <<>>
    BY <1>1, <2>2
  <2> QED
    BY <1>2, <2>1, <2>2
<1> QED
  BY <1>2, <1>3

\* All other steps only close, cut or end something.
LEMMA RestStep ==
  ASSUME IInv, PInv, Other
  PROVE  Rest
<1> USE Ends
<1>0. phase \in [End -> {"talk", "relay", "leaving", "over"}]
      /\ snk \in [Dir -> {"open", "stalled", "gone", "eof", "text"}]
  BY Typed
<1> DEFINE Same == \A d \in Dir : /\ Len(say'[d]) <= Len(say[d])
                                  /\ \A i \in 1..Len(say'[d]) : say'[d][i] = say[d][i]
<1>1. say' = say => Same
  BY Typed
<1>2. \A d \in Dir : snk[d] \in {"eof", "text"} => rd[d] = "shut"
  BY DEF PInv, Shape, Shut
<1>3. ASSUME NEW e \in End, Fail(e), phase[e] # "talk" \/ Hard',
             UNCHANGED <<streamVars, kind, did, stop, pipeVars>>
      PROVE Rest
  BY <1>1, <1>3, Leaving DEF Rest, streamVars, wireVars, pipeVars
<1>4. ASSUME NEW e \in End, Finish(e) PROVE Rest
  BY <1>3, <1>4 DEF Finish
<1>5. ASSUME NEW e \in End, Cancel(e) PROVE Rest
  <2>1. Hard'
    BY <1>5 DEF Cancel, Hard
  <2> QED
    BY <1>3, <1>5, <2>1 DEF Cancel
<1>6. ASSUME NEW e \in End, Stop(e) PROVE Rest
  <2>1. UNCHANGED <<streamVars, kind, phase, pc, told, did, pipeVars>>
    BY <1>6 DEF Stop
  <2>2. \A o \in End : stop[o] => stop'[o]
    BY <1>6 DEF Stop
  <2> QED
    BY <1>1, <2>1, <2>2 DEF Rest, streamVars, wireVars, pipeVars
<1>7. CASE AssociateClosed
  BY <1>3, <1>7 DEF AssociateClosed
<1>8. ASSUME NEW e \in End, Leave(e) PROVE Rest
  <2>1. /\ UNCHANGED <<kind, fault, pc, told, did, stop, src, sent, got>>
        /\ phase[e] = "leaving" /\ phase' = [phase EXCEPT ![e] = "over"]
    BY <1>8 DEF Leave
  <2>2. PICK W \in SUBSET {Out[e]}, R \in SUBSET {In[e]} :
          /\ Release(W, R)
          /\ snk' = snk \/ (R = {In[e]} /\ \E x \in {"gone", "eof", "text", snk[In[e]]} :
                /\ snk' = [snk EXCEPT ![In[e]] = x]
                /\ snk[In[e]] = "gone" => x = "gone")
    <3> DEFINE W == IF kind = "http" /\ wr[Out[e]] = "copy" /\ e = "task" THEN {} ELSE {Out[e]}
    <3>1. CASE Release(W, {}) /\ snk' = snk
      <4>1. W \in SUBSET {Out[e]} /\ {} \in SUBSET {In[e]}
        OBVIOUS
      <4> QED
        BY <3>1, <4>1
    <3>2. ASSUME NEW x \in {"gone", "eof", "text", snk[In[e]]}, Release(W, {In[e]}),
                 snk' = [snk EXCEPT ![In[e]] = x], snk[In[e]] = "gone" => x = "gone"
          PROVE \E V \in SUBSET {Out[e]}, R \in SUBSET {In[e]} :
                  /\ Release(V, R)
                  /\ snk' = snk \/ (R = {In[e]} /\ \E y \in {"gone", "eof", "text", snk[In[e]]} :
                        /\ snk' = [snk EXCEPT ![In[e]] = y]
                        /\ snk[In[e]] = "gone" => y = "gone")
      <4>1. W \in SUBSET {Out[e]} /\ {In[e]} \in SUBSET {In[e]}
        OBVIOUS
      <4> HIDE DEF W
      <4> QED
        BY <3>2, <4>1
    <3>3. \/ Release(W, {}) /\ snk' = snk
          \/ /\ Release(W, {In[e]})
             /\ \E x \in {"gone", "eof", "text", snk[In[e]]} :
                  snk' = [snk EXCEPT ![In[e]] = x] /\ (snk[In[e]] = "gone" => x = "gone")
      BY <1>8 DEF Leave, Ending
    <3> HIDE DEF W
    <3> QED
      BY <3>1, <3>2, <3>3
  <2>3. phase'[e] = "over" /\ \A o \in End \ {e} : phase'[o] = phase[o]
    BY <1>0, <2>1
  <2>4. \A d \in Dir : /\ d \in W => WriterOf[d] = e
                       /\ d \in R => ReaderOf[d] = e
    BY <2>2
  <2>5. \A d \in Dir : /\ snk'[d] \in {"eof", "text"} => snk[d] \in {"eof", "text"} \/ d \in R
                       /\ snk[d] = "gone" => snk'[d] = "gone"
    BY <1>0, <2>2
  <2> QED
    BY <2>1, <2>2, <2>3, <2>4, <2>5, Releases DEF Rest
<1>9. ASSUME NEW d \in Dir, Pull(d) \/ Push(d) PROVE Rest
  BY <1>1, <1>9 DEF Pull, Push, SendChunk, TakeChunk, Rest, endVars
<1>10. ASSUME NEW d \in Dir, PullEnd(d) PROVE Rest
  <2>1. wr[d] = "copy" /\ Release({d}, {}) /\ UNCHANGED <<endVars, pipeVars>>
    BY <1>10 DEF PullEnd
  <2> QED
    BY <2>1, Releases DEF Rest, endVars, pipeVars
<1>11. ASSUME NEW d \in Dir, rd[d] = "copy", Release({}, {d}),
              (Response(d) /\ Fail("task")) \/ UNCHANGED <<pc, phase, told>>,
              UNCHANGED <<kind, did, stop>>,
              snk' = snk \/ \E x \in {"gone", "eof"} : snk[d] # "gone" /\ snk' = [snk EXCEPT ![d] = x]
       PROVE Rest
  <2>1. Response(d) => phase["task"] # "talk"
    BY <1>11, Typed DEF Response, PInv, Shape, Copying, Complete, Body, In
  <2>2. /\ pc' = pc /\ (told' = told \/ told' = "err")
        /\ \A e \in End : phase'[e] # phase[e] => phase'[e] = "leaving" /\ phase[e] # "talk"
    BY <1>11, <2>1, Leaving
  <2>3. \A o \in Dir : /\ snk'[o] \in {"eof", "text"} => snk[o] \in {"eof", "text"} \/ o = d
                       /\ snk[o] = "gone" => snk'[o] = "gone"
    BY <1>0, <1>11
  <2> QED
    BY <1>11, <2>2, <2>3, Releases DEF Rest
<1>12. ASSUME NEW d \in Dir, PushFail(d) PROVE Rest
  BY <1>11, <1>12 DEF PushFail, HasChunk, pipeVars
<1>13. ASSUME NEW d \in Dir, PushEnd(d) PROVE Rest
  <2>1. snk' = snk \/ \E x \in {"gone", "eof"} : snk[d] # "gone" /\ snk' = [snk EXCEPT ![d] = x]
    BY <1>0, <1>13 DEF PushEnd
  <2> QED
    BY <1>11, <1>13, <2>1 DEF PushEnd
<1>14. CASE CancelBody
  <2>1. wr["up"] = "copy" /\ Release({"up"}, {}) /\ UNCHANGED <<endVars, pipeVars>>
    BY <1>14 DEF CancelBody
  <2> QED
    BY <2>1, Releases DEF Rest, endVars, pipeVars
<1>15. CASE ConnLost
  <2>1. PICK n \in [Dir -> 0..Window + 1] :
          /\ say' = [d \in Dir |-> First(say[d], n[d])]
          /\ fin' = [d \in Dir |-> fin[d] /\ n[d] > Len(say[d]) + Len(flow[d])]
    BY <1>15 DEF ConnLost, Lose
  <2>2. \A d \in Dir : n[d] \in Int
    BY CommandAssumption
  <2>3. Same
    <3>1. \A d \in Dir : say[d] \in Seq(Message) /\ say'[d] = First(say[d], n[d])
      BY <2>1, Typed
    <3>2. \A d \in Dir : /\ Len(First(say[d], n[d])) \in 0..Len(say[d])
                         /\ \A i \in 1..Len(First(say[d], n[d])) : First(say[d], n[d])[i] = say[d][i]
      BY <2>2, <3>1, FirstOf
    <3>3. \A d \in Dir : Len(say[d]) \in Nat
      BY <3>1
    <3> QED
      BY <3>1, <3>2, <3>3
  <2>4. UNCHANGED <<wr, rd, endVars, pipeVars>> /\ lost'
    BY <1>15 DEF ConnLost, Lose
  <2> QED
    BY <2>1, <2>3, <2>4 DEF Rest, endVars, pipeVars
<1>16. ASSUME NEW d \in Dir, Source(d, "eof") \/ Source(d, "broken") PROVE Rest
  BY <1>1, <1>16 DEF Source, Rest, streamVars, wireVars, endVars
<1>17. ASSUME NEW d \in Dir, NEW x \in {"open", "stalled", "gone"}, Sink(d, x) PROVE Rest
  <2>1. /\ snk[d] # "gone" /\ snk' = [snk EXCEPT ![d] = x] /\ UNCHANGED <<streamVars, endVars>>
    BY <1>17 DEF Sink
  <2> QED
    BY <1>1, <1>17, <2>1 DEF Rest, streamVars, wireVars, endVars
<1>18. CASE UNCHANGED vars
  BY <1>1, <1>18 DEF Rest, vars, streamVars, wireVars, endVars, pipeVars
<1> QED
  BY <1>4, <1>5, <1>6, <1>7, <1>8, <1>9, <1>10, <1>12, <1>13, <1>14, <1>15, <1>16, <1>17, <1>18
  DEF Other

-----------------------------------------------------------------------------
(* The shape *)

\* The two ends and directions, one by one.
LEMMA Sides ==
  /\ \A e \in End : e = "task" \/ e = "handler"
  /\ \A d \in Dir : d = "up" \/ d = "down"
  /\ In["task"] = "down" /\ In["handler"] = "up"
  /\ WriterOf["up"] = "task" /\ WriterOf["down"] = "handler"
  /\ ReaderOf["up"] = "handler" /\ ReaderOf["down"] = "task"
BY DEF End, Dir, In, WriterOf, ReaderOf

\* A script does not change.
LEMMA Same ==
  ASSUME kind' = kind
  PROVE  \A e \in End : /\ Complete(e)' <=> pc'[e] = Len(Script(e)) + 1
                        /\ \A x : Body(e, x)' <=> kind = "http" /\ e = x /\ pc'[e] = 4
BY SameScript DEF Complete, Body

\* Where the scripts of an HTTP request start to copy its body.
LEMMA HttpStarts ==
  ASSUME kind = "http", NEW e \in End, NEW i \in 1..4
  PROVE  /\ Script(e)[i][1] = "start" <=> i = 3
         /\ Len(Script(e)) = 4
         /\ Script(e)[i][1] = "read" /\ e = "handler" => i = 1
         /\ Script(e)[i][1] # "wait"
<1>1. CASE e = "task"
  <2>1. /\ Script(e)[1] = <<"write", "cmd">> /\ Script(e)[2] = <<"read", "ack">>
        /\ Script(e)[3] = <<"start", "body">> /\ Script(e)[4] = <<"read", "resp">>
    BY <1>1, HttpScripts DEF Is
  <2>2. i = 1 \/ i = 2 \/ i = 3 \/ i = 4
    OBVIOUS
  <2> QED
    BY <1>1, <2>1, <2>2, HttpScripts
<1>2. CASE e = "handler"
  <2>1. /\ Script(e)[1] = <<"read", "cmd">> /\ Script(e)[2] = <<"answer", "ack">>
        /\ Script(e)[3] = <<"start", "body">> /\ Script(e)[4] = <<"answer", "resp">>
    BY <1>2, HttpScripts DEF Is
  <2>2. i = 1 \/ i = 2 \/ i = 3 \/ i = 4
    OBVIOUS
  <2> QED
    BY <1>2, <2>1, <2>2, HttpScripts
<1> QED
  BY <1>1, <1>2, Sides

\* A request body is copied from the last but one step of a script on.
LEMMA BodyStarts ==
  ASSUME IInv, NEW e \in End, StartBody(e)
  PROVE  /\ kind = "http" /\ phase[e] = "talk" /\ pc[e] = 3 /\ pc'[e] = 4
         /\ Len(Script(e)) = 4
         /\ \A o \in End \ {e} : pc'[o] = pc[o]
         /\ \A d \in Dir : /\ wr'[d] = IF e = "task" /\ d = "up" /\ wr[d] = "own"
                                       THEN "copy" ELSE wr[d]
                           /\ rd'[d] = IF e = "handler" /\ d = "up" /\ rd[d] = "own"
                                       THEN "copy" ELSE rd[d]
         /\ UNCHANGED <<lost, say, flow, fin, kind, phase, told, did, stop, src, sent, snk, got>>
<1>1. /\ phase[e] = "talk" /\ Script(e)[pc[e]][1] = "start"
      /\ pc' = [pc EXCEPT ![e] = @ + 1]
      /\ StartCopies(e, {"up"})
      /\ UNCHANGED <<lost, say, flow, fin, kind, phase, told, did, stop, src, sent, snk, got>>
  BY DEF StartBody, At, wireVars, pipeVars
<1>2. kind = "http" /\ pc[e] \in 1..Len(Script(e))
  BY <1>1, NextStep DEF At, IInv, TInv
<1>3. Len(Script(e)) = 4
  BY <1>2, HttpScripts, Sides
<1>4. pc[e] = 3
  BY <1>1, <1>2, <1>3, HttpStarts
<1>5. /\ wr' = [wr EXCEPT ![Out[e]] = IF Out[e] \in {"up"} /\ @ = "own" THEN "copy" ELSE @]
      /\ rd' = [rd EXCEPT ![In[e]] = IF In[e] \in {"up"} /\ @ = "own" THEN "copy" ELSE @]
  BY <1>1 DEF StartCopies
<1>6. \A d \in Dir : /\ wr'[d] = IF e = "task" /\ d = "up" /\ wr[d] = "own" THEN "copy" ELSE wr[d]
                     /\ rd'[d] = IF e = "handler" /\ d = "up" /\ rd[d] = "own" THEN "copy" ELSE rd[d]
  <2>1. wr \in [Dir -> {"own", "copy", "shut"}] /\ rd \in [Dir -> {"own", "copy", "shut"}]
    BY Typed
  <2>2. CASE e = "task"
    BY <1>5, <2>1, <2>2, Sides, Ends
  <2>3. CASE e = "handler"
    BY <1>5, <2>1, <2>3, Sides, Ends
  <2> QED
    BY <2>2, <2>3, Sides
<1>7. pc'[e] = 4 /\ \A o \in End \ {e} : pc'[o] = pc[o]
  <2>1. pc \in [End -> Nat]
    BY Typed
  <2> QED
    BY <1>1, <1>4, <2>1
<1> QED
  BY <1>1, <1>2, <1>3, <1>4, <1>6, <1>7

\* A handler that has failed leaves: the result of delete, which is always
\* written, is the last step.
LEMMA LeftStep ==
  ASSUME IInv, PInv, [Next]_vars
  PROVE  Left'
<1>1. kind' = kind
  BY KindKept
<1>2. \A e \in End : Complete(e)' <=> pc'[e] = Len(Script(e)) + 1
  BY <1>1, Same
<1>3. /\ Bad => phase["handler"] # "talk"
      /\ \A e \in End : phase[e] = "relay" => pc[e] = Len(Script(e)) + 1
  BY DEF PInv, Shape, Left, Complete
<1>4. "handler" \in End
  BY Ends
<1>5. SUFFICES /\ Bad' => phase'["handler"] # "talk"
               /\ \A e \in End : phase'[e] = "relay" => pc'[e] = Len(Script(e)) + 1
  BY <1>2 DEF Left
<1>6. CASE Other
  <2>1. /\ UNCHANGED <<pc, did>>
        /\ \A e \in End : phase'[e] # phase[e] => phase'[e] \in {"leaving", "over"}
    BY <1>6, RestStep DEF Rest
  <2> QED
    BY <1>3, <1>4, <2>1 DEF Bad
<1>7. ASSUME NEW e \in End, StartBody(e) PROVE Left'
  <2>1. phase' = phase /\ did' = did /\ phase[e] = "talk" /\ \A o \in End \ {e} : pc'[o] = pc[o]
    BY <1>7, BodyStarts
  <2> QED
    BY <1>2, <1>3, <1>4, <2>1 DEF Bad, Left
<1>8. ASSUME NEW e \in End, Fails(e) PROVE Left'
  <2>1. phase'[e] = "leaving" /\ pc' = pc /\ \A o \in End \ {e} : phase'[o] = phase[o]
    BY <1>8, Leaving DEF Fails
  <2>2. did' = did \/ e = "handler"
    BY <1>8 DEF Fails
  <2> QED
    BY <1>2, <1>3, <1>4, <2>1, <2>2 DEF Bad, Left
<1>9. ASSUME NEW e \in End, Advances(e) PROVE Left'
  <2>1. /\ phase[e] = "talk" /\ pc'[e] = pc[e] + 1
        /\ phase'[e] = IF pc[e] < Len(Script(e)) THEN "talk"
                       ELSE IF Carries[kind] = {} THEN "leaving" ELSE "relay"
        /\ \A o \in End \ {e} : pc'[o] = pc[o] /\ phase'[o] = phase[o]
    BY <1>9, Onward DEF Advances
  <2>2. pc[e] \in 1..Len(Script(e)) /\ Len(Script(e)) \in Nat
    BY <2>1, Typed
  <2>3. \A o \in End : phase'[o] = "relay" => pc'[o] = Len(Script(o)) + 1
    BY <1>3, <2>1, <2>2
  <2>4. ASSUME e = "handler", At(e, "answer"), kind = "delete" PROVE phase'[e] # "talk"
    <3>1. Is(Script("handler"), <<<<"read", "cmd">>, <<"write", "ack">>, <<"answer", "ack">>>>)
      BY <2>4, Spelled DEF Script, HandlerScript
    <3>2. Script(e)[1] = <<"read", "cmd">> /\ Script(e)[2] = <<"write", "ack">> /\ Len(Script(e)) = 3
      BY <2>4, <3>1 DEF Is
    <3>3. pc[e] = 3
      BY <2>2, <2>4, <3>2 DEF At
    <3> QED
      BY <2>1, <3>2, <3>3
  <2>5. did' = did \/ (e = "handler" /\ At(e, "answer") /\ (did' = "ok" \/ kind = "delete"))
    BY <1>9 DEF Advances
  <2>6. CASE e = "handler"
    <3>1. Bad => FALSE
      BY <1>3, <2>1, <2>6
    <3> QED
      BY <1>2, <2>3, <2>4, <2>5, <2>6, <3>1 DEF Bad, Left
  <2>7. CASE e # "handler"
    <3>1. did' = did /\ phase'["handler"] = phase["handler"]
      BY <1>4, <2>1, <2>5, <2>7
    <3> QED
      BY <1>2, <1>3, <2>3, <3>1 DEF Bad, Left
  <2> QED
    BY <2>6, <2>7
<1> QED
  <2>1. Left' => /\ Bad' => phase'["handler"] # "talk"
                 /\ \A e \in End : phase'[e] = "relay" => pc'[e] = Len(Script(e)) + 1
    BY <1>2 DEF Left
  <2> QED
    BY <1>6, <1>7, <1>8, <1>9, <2>1, Steps

\* Halves are handed to copies that the command has, and no sink or stream ends
\* before its copy does.
LEMMA ShutStep ==
  ASSUME IInv, PInv, [Next]_vars
  PROVE  Shut'
<1>1. kind' = kind
  BY KindKept
<1>2. Shut
  BY DEF PInv, Shape
<1>3. CASE Other
  <2>1. Rest
    BY <1>3, RestStep
  <2>2. ASSUME NEW d \in Dir
        PROVE  /\ snk'[d] \in {"eof", "text"} => rd'[d] = "shut"
               /\ fin'[d] => wr'[d] = "shut"
               /\ wr'[d] = "copy" \/ rd'[d] = "copy" => d \in Carries[kind]
    BY <1>2, <2>1 DEF Rest, Shut
  <2> QED
    BY <1>1, <2>2 DEF Shut
<1>4. ASSUME NEW e \in End, StartBody(e) PROVE Shut'
  <2>1. Carries[kind] = Dir
    BY <1>4, BodyStarts, HttpScripts
  <2>2. UNCHANGED <<fin, snk>> /\ \A d \in Dir : /\ wr[d] = "shut" => wr'[d] = "shut"
                                                 /\ rd[d] = "shut" => rd'[d] = "shut"
    BY <1>4, BodyStarts
  <2> QED
    BY <1>1, <1>2, <2>1, <2>2 DEF Shut
<1>5. ASSUME NEW e \in End, Fails(e) PROVE Shut'
  BY <1>1, <1>2, <1>5 DEF Fails, pipeVars, Shut
<1>6. ASSUME NEW e \in End, Advances(e) PROVE Shut'
  <2>1. UNCHANGED <<fin, snk>> /\ phase[e] = "talk" /\ Advance(e)
    BY <1>6 DEF Advances, pipeVars
  <2>2. \A d \in Dir : /\ wr'[d] = wr[d] \/ (wr[d] = "own" /\ wr'[d] = "copy" /\ d \in Carries[kind])
                       /\ rd'[d] = rd[d] \/ (rd[d] = "own" /\ rd'[d] = "copy" /\ d \in Carries[kind])
    BY <2>1, Onward
  <2> QED
    BY <1>1, <1>2, <2>1, <2>2 DEF Shut
<1> QED
  BY <1>3, <1>4, <1>5, <1>6, Steps

\* Copies begin with the last step of a script, but for those of a request body.
LEMMA CopyingStep ==
  ASSUME IInv, PInv, [Next]_vars
  PROVE  Copying'
<1> DEFINE Halves(e, p, ph, w, r) ==
      /\ ph = "talk" => /\ w # "own" => kind = "http" /\ e = "task" /\ p = 4
                        /\ r # "own" => kind = "http" /\ e = "handler" /\ p = 4
      /\ w = "copy" => p = Len(Script(e)) + 1 \/ (kind = "http" /\ e = "task" /\ p = 4)
      /\ r = "copy" => p = Len(Script(e)) + 1 \/ (kind = "http" /\ e = "handler" /\ p = 4)
      /\ p = Len(Script(e)) + 1 => /\ Out[e] \in Carries[kind] => w # "own"
                                   /\ In[e] \in Carries[kind] => r # "own"
      /\ kind = "http" /\ e = "task" /\ p = 4 => w # "own"
<1>1. kind' = kind
  BY KindKept
<1>2. \A e \in End : Halves(e, pc[e], phase[e], wr[Out[e]], rd[In[e]])
  BY DEF PInv, Shape, Copying, Complete, Body
<1>3. SUFFICES \A e \in End : Halves(e, pc'[e], phase'[e], wr'[Out[e]], rd'[In[e]])
  <2>1. \A e \in End : /\ Complete(e)' <=> pc'[e] = Len(Script(e)) + 1
                       /\ \A x : Body(e, x)' <=> kind = "http" /\ e = x /\ pc'[e] = 4
    BY <1>1, Same
  <2> QED
    BY <1>1, <2>1 DEF Copying
<1>4. ASSUME NEW e \in End, pc'[e] = pc[e], wr'[Out[e]] = wr[Out[e]], rd'[In[e]] = rd[In[e]],
             phase'[e] = "talk" => phase[e] = "talk"
      PROVE  Halves(e, pc'[e], phase'[e], wr'[Out[e]], rd'[In[e]])
  BY <1>2, <1>4
<1>5. CASE Other
  <2> SUFFICES ASSUME NEW e \in End PROVE Halves(e, pc'[e], phase'[e], wr'[Out[e]], rd'[In[e]])
    OBVIOUS
  <2>1. Rest
    BY <1>5, RestStep
  <2>2. Out[e] \in Dir /\ In[e] \in Dir /\ WriterOf[Out[e]] = e /\ ReaderOf[In[e]] = e
    BY Ends
  <2>3. /\ phase'[e] = "talk" => phase[e] = "talk"
        /\ pc'[e] = pc[e]
        /\ wr'[Out[e]] = wr[Out[e]] \/
              (wr'[Out[e]] = "shut" /\ (wr[Out[e]] = "copy" \/ phase'[e] = "over"))
        /\ rd'[In[e]] = rd[In[e]] \/
              (rd'[In[e]] = "shut" /\ (rd[In[e]] = "copy" \/ phase'[e] = "over"))
    BY <2>1, <2>2 DEF Rest
  <2> QED
    BY <1>2, <2>3
<1>6. ASSUME NEW o \in End, StartBody(o)
      PROVE  \A e \in End : Halves(e, pc'[e], phase'[e], wr'[Out[e]], rd'[In[e]])
  <2>1. /\ kind = "http" /\ phase[o] = "talk" /\ pc[o] = 3 /\ pc'[o] = 4 /\ Len(Script(o)) = 4
        /\ \A e \in End \ {o} : pc'[e] = pc[e]
        /\ phase' = phase
    BY <1>6, BodyStarts
  <2>2. \A d \in Dir : /\ wr'[d] = IF o = "task" /\ d = "up" /\ wr[d] = "own" THEN "copy" ELSE wr[d]
                       /\ rd'[d] = IF o = "handler" /\ d = "up" /\ rd[d] = "own" THEN "copy" ELSE rd[d]
    BY <1>6, BodyStarts
  <2>3. wr[Out[o]] = "own" /\ rd[In[o]] = "own"
    BY <1>2, <2>1
  <2>4. Halves(o, pc'[o], phase'[o], wr'[Out[o]], rd'[In[o]])
    <3>1. CASE o = "task"
      <4>1. wr'[Out[o]] = "copy" /\ rd'[In[o]] = "own"
        BY <2>2, <2>3, <3>1, Ends, Sides
      <4> QED
        BY <2>1, <3>1, <4>1
    <3>2. CASE o = "handler"
      <4>1. rd'[In[o]] = "copy" /\ wr'[Out[o]] = "own"
        BY <2>2, <2>3, <3>2, Ends, Sides
      <4> QED
        BY <2>1, <3>2, <4>1
    <3> QED
      BY <3>1, <3>2, Sides
  <2>5. ASSUME NEW e \in End \ {o} PROVE Halves(e, pc'[e], phase'[e], wr'[Out[e]], rd'[In[e]])
    <3>1. CASE o = "task"
      BY <1>4, <2>1, <2>2, <2>5, <3>1, Ends, Sides
    <3>2. CASE o = "handler"
      BY <1>4, <2>1, <2>2, <2>5, <3>2, Ends, Sides
    <3> QED
      BY <3>1, <3>2, Sides
  <2> QED
    BY <2>4, <2>5
<1>7. ASSUME NEW o \in End, Fails(o)
      PROVE  \A e \in End : Halves(e, pc'[e], phase'[e], wr'[Out[e]], rd'[In[e]])
  <2>1. phase'[o] = "leaving" /\ pc' = pc /\ \A e \in End \ {o} : phase'[e] = phase[e]
    BY <1>7, Leaving DEF Fails
  <2>2. wr' = wr /\ rd' = rd
    BY <1>7 DEF Fails
  <2> QED
    BY <1>4, <2>1, <2>2
<1>8. ASSUME NEW o \in End, Advances(o)
      PROVE  \A e \in End : Halves(e, pc'[e], phase'[e], wr'[Out[e]], rd'[In[e]])
  <2>1. /\ phase[o] = "talk" /\ Advance(o) /\ ~At(o, "start")
    BY <1>8 DEF Advances, At
  <2>2. pc[o] \in Nat /\ 1 <= pc[o] /\ pc[o] <= Len(Script(o)) /\ Len(Script(o)) \in Nat
    BY <2>1, Typed
  <2>3. kind = "http" => Len(Script(o)) = 4 /\ pc[o] # 3
    <3>1. CASE kind = "http"
      <4>1. Len(Script(o)) = 4
        BY <3>1, HttpScripts, Sides
      <4>2. pc[o] \in 1..4
        BY <2>2, <4>1
      <4> QED
        BY <2>1, <3>1, <4>1, <4>2, HttpStarts DEF At
    <3> QED
      BY <3>1
  <2>4. /\ pc'[o] = pc[o] + 1
        /\ phase'[o] = IF pc[o] < Len(Script(o)) THEN "talk"
                       ELSE IF Carries[kind] = {} THEN "leaving" ELSE "relay"
        /\ \A d \in Dir : /\ wr'[d] = IF /\ d = Out[o] /\ pc[o] = Len(Script(o))
                                         /\ d \in Carries[kind] /\ wr[d] = "own"
                                      THEN "copy" ELSE wr[d]
                          /\ rd'[d] = IF /\ d = In[o] /\ pc[o] = Len(Script(o))
                                         /\ d \in Carries[kind] /\ rd[d] = "own"
                                      THEN "copy" ELSE rd[d]
    BY <2>1, Onward
  <2>5. Out[o] \in Dir /\ In[o] \in Dir
    BY Ends
  <2>6. ASSUME NEW e \in End \ {o} PROVE Halves(e, pc'[e], phase'[e], wr'[Out[e]], rd'[In[e]])
    <3>1. /\ Out[e] \in Dir /\ In[e] \in Dir /\ Out[e] # Out[o] /\ In[e] # In[o]
      BY Ends
    <3>2. pc'[e] = pc[e] /\ phase'[e] = phase[e]
      BY <2>1, Onward
    <3> QED
      BY <1>4, <2>4, <3>1, <3>2
  <2>7. CASE pc[o] < Len(Script(o))
    <3>1. /\ wr'[Out[o]] = wr[Out[o]] /\ rd'[In[o]] = rd[In[o]] /\ phase'[o] = "talk"
      BY <2>2, <2>4, <2>5, <2>7
    <3>2. pc'[o] # Len(Script(o)) + 1 /\ (kind = "http" => pc[o] # 4 /\ pc'[o] # 4)
      <4>1. pc'[o] = pc[o] + 1
        BY <2>4
      <4>2. pc[o] + 1 # Len(Script(o)) + 1
        BY <2>2, <2>7
      <4>3. ASSUME kind = "http" PROVE pc[o] # 4 /\ pc[o] + 1 # 4
        <5>1. Len(Script(o)) = 4 /\ pc[o] # 3
          BY <2>3, <4>3
        <5>2. pc[o] < 4
          BY <2>7, <5>1
        <5> QED
          BY <2>2, <5>1, <5>2
      <4> QED
        BY <4>1, <4>2, <4>3
    <3>3. wr[Out[o]] = "own" /\ rd[In[o]] = "own"
      BY <1>2, <2>1, <3>2
    <3>4. Halves(o, pc'[o], phase'[o], wr'[Out[o]], rd'[In[o]])
      BY <3>1, <3>2, <3>3
    <3> QED
      BY <2>6, <3>4
  <2>8. CASE pc[o] = Len(Script(o))
    <3>1. /\ phase'[o] # "talk" /\ pc'[o] = Len(Script(o)) + 1 /\ (kind = "http" => pc'[o] # 4)
      <4>1. pc'[o] = pc[o] + 1 /\ phase'[o] # "talk"
        BY <2>2, <2>4, <2>8
      <4>2. kind = "http" => pc[o] + 1 # 4
        BY <2>2, <2>3
      <4> QED
        BY <2>8, <4>1, <4>2
    <3>2. /\ Out[o] \in Carries[kind] => wr'[Out[o]] # "own"
          /\ In[o] \in Carries[kind] => rd'[In[o]] # "own"
      BY <2>4, <2>5, <2>8
    <3>3. Halves(o, pc'[o], phase'[o], wr'[Out[o]], rd'[In[o]])
      BY <3>1, <3>2
    <3> QED
      BY <2>6, <3>3
  <2> QED
    BY <2>2, <2>7, <2>8
<1> QED
  BY <1>5, <1>6, <1>7, <1>8, Steps

-----------------------------------------------------------------------------
(* Bytes *)

\* A chunk that is read from a source goes onto the stream.
LEMMA Pulled ==
  ASSUME IInv, NEW d \in Dir, Pull(d)
  PROVE  /\ sent'[d] = sent[d] + 1 /\ Len(flow'[d]) = Len(flow[d]) + 1
         /\ wr[d] = "copy" /\ src[d] = "open" /\ ~Refused(d)
         /\ UNCHANGED <<lost, wr, rd, src, snk, got, kind, did, stop>>
         /\ \A o \in Dir \ {d} : sent'[o] = sent[o] /\ flow'[o] = flow[o]
<1>1. PICK c \in Frames : flow' = [flow EXCEPT ![d] = Append(@, c)]
  BY DEF Pull, SendChunk
<1>2. sent' = [sent EXCEPT ![d] = @ + 1]
  BY DEF Pull
<1>3. flow \in [Dir -> Seq(Chunk)] /\ sent \in [Dir -> Nat]
  BY Typed
<1>4. c \in Chunk
  BY CommandAssumption DEF Frames, Chunk
<1>5. Len(flow'[d]) = Len(flow[d]) + 1
  <2>1. flow[d] \in Seq(Chunk) /\ flow'[d] = Append(flow[d], c)
    BY <1>1, <1>3
  <2> QED
    BY <1>4, <2>1
<1> QED
  BY <1>1, <1>2, <1>3, <1>5 DEF Pull, CanWrite, endVars

\* A chunk that is written to a sink comes from there.
LEMMA Pushed ==
  ASSUME IInv, NEW d \in Dir, Push(d)
  PROVE  /\ got'[d] = got[d] + 1 /\ Len(flow'[d]) = Len(flow[d]) - 1 /\ Len(flow[d]) > 0
         /\ rd[d] = "copy" /\ snk[d] = "open"
         /\ UNCHANGED <<lost, wr, rd, src, snk, sent, kind, did, stop>>
         /\ \A o \in Dir \ {d} : got'[o] = got[o] /\ flow'[o] = flow[o]
<1>1. flow' = [flow EXCEPT ![d] = Tail(@)] /\ got' = [got EXCEPT ![d] = @ + 1]
      /\ flow[d] # <<>> /\ rd[d] = "copy"
  BY DEF Push, TakeChunk, HasChunk
<1>2. flow \in [Dir -> Seq(Chunk)] /\ got \in [Dir -> Nat]
  BY Typed
<1>3. Len(flow'[d]) = Len(flow[d]) - 1 /\ Len(flow[d]) > 0
  <2>1. flow[d] \in Seq(Chunk) /\ flow'[d] = Tail(flow[d])
    BY <1>1, <1>2
  <2>2. flow[d] # <<>> => Len(flow[d]) > 0 /\ Len(Tail(flow[d])) = Len(flow[d]) - 1
    BY <2>1
  <2> QED
    BY <1>1, <2>1, <2>2
<1> QED
  BY <1>1, <1>2, <1>3 DEF Push, endVars

\* No other step moves a chunk, but the reader of d may go, or the connection.
Quiet(d) ==
    /\ sent'[d] = sent[d] /\ got'[d] = got[d]
    /\ lost' \/ flow'[d] = flow[d] \/ (rd'[d] = "shut" /\ flow'[d] = <<>>)
    /\ src'[d] # src[d] => src[d] = "open"

\* A step moves a chunk into a direction, or out of it, or leaves it alone.
LEMMA Bytes ==
  ASSUME IInv, NEW d \in Dir, Other
  PROVE  Pull(d) \/ Push(d) \/ Quiet(d)
<1>1. ASSUME UNCHANGED <<flow, src, sent, got>> PROVE Quiet(d)
  BY <1>1 DEF Quiet
<1>2. ASSUME NEW W, NEW R, Release(W, R), UNCHANGED <<src, sent, got>> PROVE Quiet(d)
  BY <1>2, Releases DEF Quiet
<1>3. ASSUME NEW e \in End, Leave(e) PROVE Quiet(d)
  BY <1>2, <1>3 DEF Leave
<1>4. ASSUME NEW e \in End, Finish(e) \/ Cancel(e) \/ Stop(e) PROVE Quiet(d)
  BY <1>1, <1>4 DEF Finish, Cancel, Stop, streamVars, wireVars, pipeVars
<1>5. ASSUME NEW o \in Dir, PullEnd(o) \/ PushFail(o) \/ PushEnd(o) PROVE Quiet(d)
  <2>1. PullEnd(o) => Release({o}, {}) /\ UNCHANGED <<src, sent, got>>
    BY DEF PullEnd, pipeVars
  <2>2. PushFail(o) => Release({}, {o}) /\ UNCHANGED <<src, sent, got>>
    BY DEF PushFail, pipeVars
  <2>3. PushEnd(o) => Release({}, {o}) /\ UNCHANGED <<src, sent, got>>
    BY DEF PushEnd
  <2> QED
    BY <1>2, <1>5, <2>1, <2>2, <2>3
<1>6. ASSUME NEW o \in Dir, Pull(o) PROVE Pull(d) \/ Quiet(d)
  <2>1. CASE o = d
    BY <1>6, <2>1
  <2>2. CASE o # d
    BY <1>6, <2>2, Pulled DEF Quiet
  <2> QED
    BY <2>1, <2>2
<1>7. ASSUME NEW o \in Dir, Push(o) PROVE Push(d) \/ Quiet(d)
  <2>1. CASE o = d
    BY <1>7, <2>1
  <2>2. CASE o # d
    BY <1>7, <2>2, Pushed DEF Quiet
  <2> QED
    BY <2>1, <2>2
<1>8. ASSUME CancelBody PROVE Quiet(d)
  BY <1>2, <1>8 DEF CancelBody, pipeVars
<1>9. ASSUME AssociateClosed PROVE Quiet(d)
  BY <1>1, <1>9 DEF AssociateClosed, streamVars, wireVars, pipeVars
<1>10. ASSUME ConnLost PROVE Quiet(d)
  BY <1>10 DEF ConnLost, Lose, pipeVars, Quiet
<1>11. ASSUME NEW o \in Dir, Source(o, "eof") \/ Source(o, "broken") PROVE Quiet(d)
  <2>1. PICK s \in {"eof", "broken"} : Source(o, s)
    BY <1>11
  <2>2. src[o] = "open" /\ src' = [src EXCEPT ![o] = s] /\ UNCHANGED <<flow, sent, got>>
    BY <2>1 DEF Source, streamVars, wireVars
  <2>3. src \in [Dir -> {"open", "eof", "broken"}]
    BY Typed
  <2>4. src'[d] # src[d] => src[d] = "open"
    BY <2>2, <2>3
  <2> QED
    BY <2>2, <2>4 DEF Quiet
<1>12. ASSUME NEW o \in Dir, Sink(o, "open") \/ Sink(o, "stalled") \/ Sink(o, "gone") PROVE Quiet(d)
  BY <1>1, <1>12 DEF Sink, streamVars, wireVars
<1>13. ASSUME UNCHANGED vars PROVE Quiet(d)
  BY <1>1, <1>13 DEF vars, streamVars, wireVars, pipeVars
<1> QED
  BY <1>3, <1>4, <1>5, <1>6, <1>7, <1>8, <1>9, <1>10, <1>11, <1>12, <1>13 DEF Other

\* A half that is shut stays so, and so does a sink that is gone.
LEMMA Closing ==
  ASSUME IInv, PInv, [Next]_vars, NEW d \in Dir
  PROVE  /\ wr[d] = "shut" => wr'[d] = "shut"
         /\ rd[d] = "shut" => rd'[d] = "shut"
         /\ snk[d] = "gone" => snk'[d] = "gone"
<1>1. CASE Other
  BY <1>1, RestStep DEF Rest
<1>2. ASSUME NEW e \in End, StartBody(e)
      PROVE  /\ wr[d] = "shut" => wr'[d] = "shut"
             /\ rd[d] = "shut" => rd'[d] = "shut"
             /\ snk' = snk
  BY <1>2, BodyStarts
<1>3. ASSUME NEW e \in End, Fails(e) PROVE wr' = wr /\ rd' = rd /\ snk' = snk
  BY <1>3 DEF Fails, pipeVars
<1>4. ASSUME NEW e \in End, Advances(e)
      PROVE  /\ wr[d] = "shut" => wr'[d] = "shut"
             /\ rd[d] = "shut" => rd'[d] = "shut"
             /\ snk' = snk
  <2>1. phase[e] = "talk" /\ Advance(e) /\ snk' = snk
    BY <1>4 DEF Advances, pipeVars
  <2> QED
    BY <2>1, Onward
<1> QED
  BY <1>1, <1>2, <1>3, <1>4, Steps

\* As long as someone reads, every chunk is at its sink or under way.
LEMMA ExactStep ==
  ASSUME IInv, PInv, [Next]_vars
  PROVE  Exact'
<1> SUFFICES ASSUME ~lost', NEW d \in Dir, rd'[d] # "shut"
             PROVE  got'[d] + Len(flow'[d]) = sent'[d]
  BY DEF Exact
<1>1. got[d] \in Nat /\ sent[d] \in Nat /\ Len(flow[d]) \in Nat
  BY Typed
<1>2. rd[d] # "shut"
  BY Closing
<1>3. ~lost => got[d] + Len(flow[d]) = sent[d]
  BY <1>2 DEF PInv, Shape, Exact
<1>4. CASE Other
  <2>1. ~lost
    BY <1>4, RestStep DEF Rest
  <2>2. CASE Pull(d)
    BY <1>1, <1>3, <2>1, <2>2, Pulled
  <2>3. CASE Push(d)
    BY <1>1, <1>3, <2>1, <2>3, Pushed
  <2>4. CASE Quiet(d)
    BY <1>3, <2>1, <2>4 DEF Quiet
  <2> QED
    BY <1>4, <2>2, <2>3, <2>4, Bytes
<1>5. ASSUME NEW e \in End, StartBody(e) \/ Advances(e) \/ Fails(e)
      PROVE  got' = got /\ flow' = flow /\ sent' = sent /\ lost' = lost
  <2>1. CASE StartBody(e)
    BY <2>1, BodyStarts
  <2>2. CASE Advances(e) \/ Fails(e)
    BY <2>2 DEF Advances, Fails, pipeVars
  <2> QED
    BY <1>5, <2>1, <2>2
<1> QED
  BY <1>3, <1>4, <1>5, Steps

-----------------------------------------------------------------------------
(* Messages *)

\* What has gone wrong stays wrong.
LEMMA HardKept ==
  ASSUME IInv, PInv, [Next]_vars
  PROVE  (Bad => Bad') /\ (Hard => Hard')
<1>1. kind' = kind
  BY KindKept
<1>2. Bad => phase["handler"] # "talk"
  BY DEF PInv, Shape, Left
<1>3. (Bad => did' = did) /\ (lost => lost') /\ (\A e \in End : stop[e] => stop'[e])
  <2>1. CASE Other
    BY <2>1, RestStep DEF Rest
  <2>2. ASSUME NEW e \in End, StartBody(e) PROVE did' = did /\ lost' = lost /\ stop' = stop
    BY <2>2, BodyStarts
  <2>3. ASSUME NEW e \in End, Advances(e) \/ Fails(e)
        PROVE  lost' = lost /\ stop' = stop /\ (did' = did \/ phase["handler"] = "talk")
    BY <2>3 DEF Advances, Fails
  <2> QED
    BY <1>2, <2>1, <2>2, <2>3, Steps
<1> QED
  BY <1>1, <1>3 DEF Bad, Hard

\* The places are counted.
LEMMA PlaceTypes ==
  ASSUME IInv, NEW e \in End
  PROVE  Heard(e) \in Nat /\ Written(e) \in Nat
<1>1. EndTypes /\ InScript
  BY DEF IInv, TInv
<1>2. /\ Msgs[In[e]][kind] \in Seq(Message) /\ Msgs[Out[e]][kind] \in Seq(Message)
      /\ Heard(e) \in 0..Len(Msgs[In[e]][kind])
      /\ Written(e) \in 0..Len(Msgs[Out[e]][kind])
  BY <1>1, Places
<1> QED
  BY <1>2

\* Where an end is when it goes on.
LEMMA Place ==
  ASSUME IInv, NEW e \in End, phase[e] = "talk"
  PROVE  /\ Heard(e) \in Nat /\ Written(e) \in Nat
         /\ HeardNext(e) \in 0..Len(Msgs[In[e]][kind])
         /\ WrittenNext(e) \in 0..Len(Msgs[Out[e]][kind])
         /\ HeardNext(e) = IF At(e, "read") THEN Heard(e) + 1 ELSE Heard(e)
         /\ WrittenNext(e) = IF At(e, "write") \/ At(e, "answer") THEN Written(e) + 1 ELSE Written(e)
         /\ At(e, "read") => What(e) = Msgs[In[e]][kind][Heard(e) + 1]
         /\ At(e, "write") \/ At(e, "answer") => What(e) \in Message \ {"err"}
<1>1. EndTypes /\ InScript
  BY DEF IInv, TInv
<1>2. Heard(e) \in Nat /\ Written(e) \in Nat
  BY PlaceTypes
<1> QED
  BY <1>1, <1>2, NextPlace, NextStep

\* Nothing is under way that was not written.
Sound(d) ==
    /\ Heard(ReaderOf[d]) + Len(say[d]) <= Written(WriterOf[d])
    /\ \A i \in 1..Len(say[d]) : say[d][i] # "err"

\* A step that leaves the places, or takes an end past a step that neither reads
\* nor writes, and lets go of messages from the end on.
LEMMA SoundStays ==
  ASSUME IInv, NEW d \in Dir, Sound(d),
         Heard(ReaderOf[d])' = Heard(ReaderOf[d]), Written(WriterOf[d])' = Written(WriterOf[d]),
         Len(say'[d]) <= Len(say[d]), \A i \in 1..Len(say'[d]) : say'[d][i] = say[d][i],
         Len(say'[d]) \in Nat
  PROVE  Sound(d)'
<1>1. Len(say[d]) \in Nat
  BY Typed
<1>2. Heard(ReaderOf[d]) \in Nat /\ Written(WriterOf[d]) \in Nat
  BY PlaceTypes, Ends
<1> DEFINE H == Heard(ReaderOf[d])
           W == Written(WriterOf[d])
<1>3. H + Len(say[d]) <= W
  BY DEF Sound
<1>4. H + Len(say'[d]) <= W
  <2> HIDE DEF H, W
  <2>1. H \in Nat /\ W \in Nat
    BY <1>2 DEF H, W
  <2> QED
    BY <1>1, <1>3, <2>1
<1>5. \A i \in 1..Len(say'[d]) : i \in 1..Len(say[d])
  BY <1>1
<1> QED
  BY <1>4, <1>5 DEF Sound

\* The next message is under way behind the others, or the first is read.
LEMMA TrustedStep ==
  ASSUME IInv, PInv, [Next]_vars
  PROVE  Trusted'
<1> SUFFICES ASSUME ~Bad', NEW d \in Dir PROVE Sound(d)'
  BY DEF Trusted, Sound
<1>1. kind' = kind
  BY KindKept
<1>2. ~Bad
  BY HardKept
<1>3. \A o \in Dir : Sound(o)
  BY <1>2 DEF PInv, Trusted, Sound
<1>4. ReaderOf[d] \in End /\ WriterOf[d] \in End
  BY Ends
<1>5. Len(say[d]) \in Nat /\ Len(say'[d]) \in Nat
  <2>1. IInv'
    BY StepIInv
  <2>2. say' \in [Dir -> Seq(Message)]
    BY <2>1 DEF IInv, TInv, WireTypes
  <2>3. say'[d] \in Seq(Message)
    BY <2>2
  <2> QED
    BY <2>3, Typed
<1>6. \A e \in End : pc'[e] = pc[e] => Heard(e)' = Heard(e) /\ Written(e)' = Written(e)
  BY <1>1, Counts
<1>7. CASE Other
  <2>1. pc' = pc /\ Len(say'[d]) <= Len(say[d]) /\ \A i \in 1..Len(say'[d]) : say'[d][i] = say[d][i]
    BY <1>7, RestStep DEF Rest
  <2>2. Heard(ReaderOf[d])' = Heard(ReaderOf[d]) /\ Written(WriterOf[d])' = Written(WriterOf[d])
    BY <1>1, <1>4, <2>1, Counts
  <2> QED
    BY <1>3, <1>5, <2>1, <2>2, SoundStays
<1>8. ASSUME NEW e \in End, phase[e] = "talk", pc'[e] = pc[e] + 1,
             \A o \in End \ {e} : pc'[o] = pc[o]
      PROVE  /\ e = ReaderOf[d] =>
                  /\ Heard(ReaderOf[d])' = IF At(e, "read") THEN Heard(e) + 1 ELSE Heard(e)
                  /\ Written(WriterOf[d])' = Written(WriterOf[d])
             /\ e # ReaderOf[d] =>
                  /\ Written(WriterOf[d])' = IF At(e, "write") \/ At(e, "answer")
                                             THEN Written(e) + 1 ELSE Written(e)
                  /\ Heard(ReaderOf[d])' = Heard(ReaderOf[d])
                  /\ e = WriterOf[d]
  <2>1. e # ReaderOf[d] => e = WriterOf[d]
    BY Ends, Sides
  <2>2. e = ReaderOf[d] => e # WriterOf[d]
    BY Ends
  <2>3. Heard(e)' = HeardNext(e) /\ Written(e)' = WrittenNext(e)
    BY <1>1, <1>8, Counts
  <2>4. \A o \in End \ {e} : Heard(o)' = Heard(o) /\ Written(o)' = Written(o)
    BY <1>6, <1>8
  <2>5. CASE e = ReaderOf[d]
    BY <1>4, <1>8, <2>2, <2>3, <2>4, <2>5, Place
  <2>6. CASE e # ReaderOf[d]
    BY <1>4, <1>8, <2>1, <2>3, <2>4, <2>6, Place
  <2> QED
    BY <2>5, <2>6
<1>9. ASSUME NEW e \in End, StartBody(e) PROVE Sound(d)'
  <2>1. /\ phase[e] = "talk" /\ pc'[e] = pc[e] + 1 /\ \A o \in End \ {e} : pc'[o] = pc[o]
        /\ say' = say
    BY <1>9, BodyStarts
  <2>2. ~At(e, "read") /\ ~At(e, "write") /\ ~At(e, "answer")
    BY <1>9 DEF StartBody, At
  <2>3. Heard(ReaderOf[d])' = Heard(ReaderOf[d]) /\ Written(WriterOf[d])' = Written(WriterOf[d])
    BY <1>8, <2>1, <2>2
  <2> QED
    BY <1>3, <1>5, <2>1, <2>3, SoundStays
<1>10. ASSUME NEW e \in End, Advances(e) PROVE Sound(d)'
  <2>1. phase[e] = "talk" /\ pc'[e] = pc[e] + 1 /\ \A o \in End \ {e} : pc'[o] = pc[o]
    BY <1>10, Onward DEF Advances
  <2>2. CASE (At(e, "write") \/ At(e, "answer")) /\ say' = [say EXCEPT ![Out[e]] = Append(@, What(e))]
    <3>1. ~At(e, "read") /\ What(e) \in Message \ {"err"}
      BY <2>1, <2>2, Place DEF At
    <3>2. CASE e = ReaderOf[d]
      <4>1. Out[e] # d
        BY <3>2, Ends
      <4>2. say'[d] = say[d]
        BY <2>2, <4>1, Typed
      <4>3. Heard(ReaderOf[d])' = Heard(ReaderOf[d]) /\ Written(WriterOf[d])' = Written(WriterOf[d])
        BY <1>8, <2>1, <3>1, <3>2
      <4> QED
        BY <1>3, <1>5, <4>2, <4>3, SoundStays
    <3>3. CASE e # ReaderOf[d]
      <4>1. /\ Written(WriterOf[d])' = Written(e) + 1 /\ e = WriterOf[d]
            /\ Heard(ReaderOf[d])' = Heard(ReaderOf[d])
        BY <1>8, <2>1, <2>2, <3>3
      <4>2. say'[d] = Append(say[d], What(e)) /\ say[d] \in Seq(Message)
        <5>1. Out[e] = d
          BY <4>1, Ends
        <5> QED
          BY <2>2, <5>1, Typed
      <4>3. Len(say'[d]) = Len(say[d]) + 1
        BY <3>1, <4>2
      <4>4. \A i \in 1..Len(say'[d]) : say'[d][i] # "err"
        <5>1. \A i \in 1..Len(say[d]) : say'[d][i] = say[d][i]
          BY <3>1, <4>2
        <5>2. say'[d][Len(say[d]) + 1] = What(e)
          BY <3>1, <4>2
        <5>3. \A i \in 1..Len(say[d]) : say[d][i] # "err"
          BY <1>3 DEF Sound
        <5>4. \A i \in 1..Len(say'[d]) : i \in 1..Len(say[d]) \/ i = Len(say[d]) + 1
          BY <1>5, <4>3
        <5> QED
          BY <3>1, <5>1, <5>2, <5>3, <5>4
      <4>5. Heard(ReaderOf[d]) \in Nat /\ Written(WriterOf[d]) \in Nat
        BY <1>4, PlaceTypes
      <4>6. Heard(ReaderOf[d]) + Len(say[d]) <= Written(WriterOf[d])
        BY <1>3 DEF Sound
      <4>7. Heard(ReaderOf[d])' + Len(say'[d]) <= Written(WriterOf[d])'
        BY <1>5, <4>1, <4>3, <4>5, <4>6
      <4> QED
        BY <4>4, <4>7 DEF Sound
    <3> QED
      BY <3>2, <3>3
  <2>3. CASE At(e, "read") /\ say[In[e]] # <<>> /\ say' = [say EXCEPT ![In[e]] = Tail(@)]
    <3>1. ~At(e, "write") /\ ~At(e, "answer")
      BY <2>3 DEF At
    <3>2. CASE e # ReaderOf[d]
      <4>1. In[e] # d
        BY <3>2, Ends
      <4>2. say'[d] = say[d]
        BY <2>3, <4>1, Typed
      <4>3. Heard(ReaderOf[d])' = Heard(ReaderOf[d]) /\ Written(WriterOf[d])' = Written(WriterOf[d])
        BY <1>8, <2>1, <3>1, <3>2
      <4> QED
        BY <1>3, <1>5, <4>2, <4>3, SoundStays
    <3>3. CASE e = ReaderOf[d]
      <4>1. /\ Heard(ReaderOf[d])' = Heard(ReaderOf[d]) + 1
            /\ Written(WriterOf[d])' = Written(WriterOf[d])
        BY <1>8, <2>1, <2>3, <3>3
      <4>2. say'[d] = Tail(say[d]) /\ say[d] # <<>> /\ say[d] \in Seq(Message)
        <5>1. In[e] = d
          BY <3>3, Ends
        <5> QED
          BY <2>3, <5>1, Typed
      <4>3. Len(say'[d]) = Len(say[d]) - 1 /\ \A i \in 1..Len(say'[d]) : say'[d][i] = say[d][i + 1]
        BY <4>2
      <4>4. \A i \in 1..Len(say'[d]) : say'[d][i] # "err"
        <5>1. \A i \in 1..Len(say'[d]) : i + 1 \in 1..Len(say[d])
          BY <1>5, <4>3
        <5> QED
          BY <1>3, <4>3, <5>1 DEF Sound
      <4>5. Heard(ReaderOf[d]) \in Nat /\ Written(WriterOf[d]) \in Nat
        BY <1>4, PlaceTypes
      <4>6. Heard(ReaderOf[d]) + Len(say[d]) <= Written(WriterOf[d])
        BY <1>3 DEF Sound
      <4>7. Heard(ReaderOf[d])' + Len(say'[d]) <= Written(WriterOf[d])'
        BY <1>5, <4>1, <4>3, <4>5, <4>6
      <4> QED
        BY <4>4, <4>7 DEF Sound
    <3> QED
      BY <3>2, <3>3
  <2>4. CASE At(e, "wait") /\ say' = say
    <3>1. ~At(e, "read") /\ ~At(e, "write") /\ ~At(e, "answer")
      BY <2>4 DEF At
    <3>2. Heard(ReaderOf[d])' = Heard(ReaderOf[d]) /\ Written(WriterOf[d])' = Written(WriterOf[d])
      BY <1>8, <2>1, <3>1
    <3> QED
      BY <1>3, <1>5, <2>4, <3>2, SoundStays
  <2> QED
    BY <1>10, <2>2, <2>3, <2>4 DEF Advances
<1>11. ASSUME NEW e \in End, Fails(e) PROVE Sound(d)'
  <2>1. pc' = pc
    BY <1>11, Leaving DEF Fails
  <2>2. Heard(ReaderOf[d])' = Heard(ReaderOf[d]) /\ Written(WriterOf[d])' = Written(WriterOf[d])
    BY <1>1, <1>4, <2>1, Counts
  <2>3. CASE say' = say
    BY <1>3, <1>5, <2>2, <2>3, SoundStays
  <2>4. CASE e = "task" /\ say[In[e]] # <<>> /\ say' = [say EXCEPT ![In[e]] = Tail(@)]
    <3>1. CASE In[e] # d
      <4>1. say'[d] = say[d]
        BY <2>4, <3>1, Typed
      <4> QED
        BY <1>3, <1>5, <2>2, <4>1, SoundStays
    <3>2. CASE In[e] = d
      <4>1. say'[d] = Tail(say[d]) /\ say[d] # <<>> /\ say[d] \in Seq(Message)
        BY <2>4, <3>2, Typed
      <4>2. Len(say'[d]) = Len(say[d]) - 1 /\ \A i \in 1..Len(say'[d]) : say'[d][i] = say[d][i + 1]
        BY <4>1
      <4>3. \A i \in 1..Len(say'[d]) : say'[d][i] # "err"
        <5>1. \A i \in 1..Len(say'[d]) : i + 1 \in 1..Len(say[d])
          BY <1>5, <4>2
        <5> QED
          BY <1>3, <4>2, <5>1 DEF Sound
      <4>4. Heard(ReaderOf[d]) \in Nat /\ Written(WriterOf[d]) \in Nat
        BY <1>4, PlaceTypes
      <4>5. Heard(ReaderOf[d]) + Len(say[d]) <= Written(WriterOf[d])
        BY <1>3 DEF Sound
      <4>6. Heard(ReaderOf[d])' + Len(say'[d]) <= Written(WriterOf[d])'
        BY <1>5, <2>2, <4>2, <4>4, <4>5
      <4> QED
        BY <4>3, <4>6 DEF Sound
    <3> QED
      BY <3>1, <3>2
  <2>5. Unheard(e) \/ Untold(e) => say' = say
    BY DEF Unheard, Untold
  <2>6. Unwanted(e) => say' = say \/ (e = "task" /\ say[In[e]] # <<>>
                                     /\ say' = [say EXCEPT ![In[e]] = Tail(@)])
    BY DEF Unwanted
  <2>7. ~Failed(e)
    BY DEF Failed, Bad
  <2> QED
    BY <1>11, <2>3, <2>4, <2>5, <2>6, <2>7 DEF Fails
<1> QED
  BY <1>7, <1>9, <1>10, <1>11, Steps

-----------------------------------------------------------------------------
(* Who leaves, and why *)

\* The scripts of the commands that carry bytes, but for an HTTP request.
LEMMA Longer ==
  /\ kind = "read" =>
       /\ Len(Script("task")) = 6 /\ Carries[kind] = {"down"} /\ Reply[kind] = "meta"
       /\ Script("task")[1] = <<"write", "cmd">> /\ Script("task")[2] = <<"read", "ack">>
       /\ Script("task")[3] = <<"read", "meta">> /\ Script("task")[4] = <<"wait", "caller">>
       /\ Script("task")[5] = <<"write", "ack">> /\ Script("task")[6] = <<"read", "ack">>
  /\ kind = "tcp" =>
       /\ Len(Script("task")) = 5 /\ Len(Script("handler")) = 4 /\ Carries[kind] = Dir
       /\ Script("task")[1] = <<"write", "cmd">> /\ Script("task")[2] = <<"read", "ack">>
       /\ Script("task")[3] = <<"read", "addr">> /\ Script("task")[4] = <<"wait", "caller">>
       /\ Script("task")[5] = <<"write", "ack">>
<1>1. CASE kind = "read"
  <2>1. Is(Script("task"), <<<<"write", "cmd">>, <<"read", "ack">>, <<"read", "meta">>,
                    <<"wait", "caller">>, <<"write", "ack">>, <<"read", "ack">>>>)
    BY <1>1, Spelled DEF Script, TaskScript
  <2>2. Carries[kind] = {"down"} /\ Reply[kind] = "meta"
    BY <1>1 DEF Carries, Reply
  <2> QED
    BY <1>1, <2>1, <2>2 DEF Is
<1>2. CASE kind = "tcp"
  <2>1. Is(Script("task"), <<<<"write", "cmd">>, <<"read", "ack">>, <<"read", "addr">>,
                             <<"wait", "caller">>, <<"write", "ack">>>>)
    BY <1>2, Spelled DEF Script, TaskScript
  <2>2. Is(Script("handler"), <<<<"read", "cmd">>, <<"write", "ack">>, <<"answer", "addr">>,
                                <<"read", "ack">>>>)
    BY <1>2, Spelled DEF Script, HandlerScript
  <2>3. Carries[kind] = Dir
    BY <1>2 DEF Carries
  <2> QED
    BY <1>2, <2>1, <2>2, <2>3 DEF Is
<1> QED
  BY <1>1, <1>2

\* What has been read and written at the places that matter.
LEMMA PlaceCounts ==
  /\ kind = "http" => /\ pc["task"] = 4 => Heard("task") = 1
                      /\ pc["handler"] \in 1..4 => Written("handler") <= 1
                      /\ pc["task"] = 1 => Written("task") = 0
                      /\ pc["task"] = 4 => Written("task") = 1
                      /\ pc["handler"] = 1 => Heard("handler") = 0
                      /\ pc["handler"] = 4 => Heard("handler") = 1
  /\ kind = "tcp" => /\ pc["task"] = 4 => Written("task") = 1
                     /\ pc["handler"] = 4 => Heard("handler") = 1
                     /\ pc["handler"] = 5 => Heard("handler") = 2
<1>1. CASE kind = "http"
  <2>1. /\ ReadsAt["task"][kind] = <<0, 0, 1, 1, 2>> /\ WritesAt["task"][kind] = <<0, 1, 1, 1, 1>>
        /\ ReadsAt["handler"][kind] = <<0, 1, 1, 1, 1>> /\ WritesAt["handler"][kind] = <<0, 0, 1, 1, 2>>
    BY <1>1 DEF ReadsAt, WritesAt
  <2>2. pc["handler"] \in 1..4 =>
          pc["handler"] = 1 \/ pc["handler"] = 2 \/ pc["handler"] = 3 \/ pc["handler"] = 4
    OBVIOUS
  <2> QED
    BY <1>1, <2>1, <2>2 DEF Heard, Written
<1>2. CASE kind = "tcp"
  <2>1. /\ WritesAt["task"][kind] = <<0, 1, 1, 1, 1, 2>> /\ ReadsAt["handler"][kind] = <<0, 1, 1, 1, 2>>
    BY <1>2 DEF ReadsAt, WritesAt
  <2> QED
    BY <1>2, <2>1 DEF Heard, Written
<1> QED
  BY <1>1, <1>2

\* Where the task reads the reply.
LEMMA ReplyPlace ==
  ASSUME IInv, At("task", "read"), What("task") = Reply[kind]
  PROVE  /\ kind = "read" => pc["task"] = 3
         /\ kind = "http" => pc["task"] = 4
<1>1. pc["task"] \in 1..Len(Script("task")) /\ Script("task")[pc["task"]][1] = "read"
      /\ Script("task")[pc["task"]][2] = Reply[kind]
  <2>1. phase["task"] = "talk" /\ "task" \in End
    BY Ends DEF At
  <2> QED
    BY <2>1, Typed DEF At, What
<1>2. CASE kind = "read"
  <2>1. \A i \in 1..6 : i = 1 \/ i = 2 \/ i = 3 \/ i = 4 \/ i = 5 \/ i = 6
    OBVIOUS
  <2> QED
    BY <1>1, <1>2, <2>1, Longer
<1>3. CASE kind = "http"
  <2>1. \A i \in 1..4 : i = 1 \/ i = 2 \/ i = 3 \/ i = 4
    OBVIOUS
  <2>2. /\ Script("task")[1] = <<"write", "cmd">> /\ Script("task")[2] = <<"read", "ack">>
        /\ Script("task")[3] = <<"start", "body">> /\ Script("task")[4] = <<"read", "resp">>
        /\ Len(Script("task")) = 4 /\ Reply[kind] = "resp"
    BY <1>3, HttpScripts DEF Is
  <2> QED
    BY <1>1, <1>3, <2>1, <2>2
<1> QED
  BY <1>2, <1>3

\* The task that has told its caller ok has read the reply.
LEMMA ToldStep ==
  ASSUME IInv, PInv, [Next]_vars
  PROVE  Told'
<1> SUFFICES ASSUME told' = "ok", kind \in {"read", "http"}
             PROVE  pc'["task"] >= IF kind = "read" THEN 4 ELSE 5
  BY KindKept DEF Told
<1>1. told = "ok" => pc["task"] >= IF kind = "read" THEN 4 ELSE 5
  BY DEF PInv, Told
<1>2. pc["task"] \in Nat /\ "task" \in End
  BY Typed, Ends
<1>3. CASE Other
  BY <1>1, <1>3, RestStep DEF Rest
<1>4. ASSUME NEW e \in End, StartBody(e)
      PROVE  told' = told /\ pc'["task"] \in {pc["task"], pc["task"] + 1}
  BY <1>2, <1>4, BodyStarts
<1>5. ASSUME NEW e \in End, Fails(e) PROVE (told' = told \/ told' = "err") /\ pc' = pc
  BY <1>5, Leaving DEF Fails
<1>6. ASSUME NEW e \in End, Advances(e)
      PROVE  pc'["task"] >= IF kind = "read" THEN 4 ELSE 5
  <2>1. pc'[e] = pc[e] + 1 /\ \A o \in End \ {e} : pc'[o] = pc[o]
    BY <1>6, Onward DEF Advances
  <2>2. CASE told' = told
    BY <1>1, <1>2, <2>1, <2>2
  <2>3. CASE e = "task" /\ At(e, "read") /\ What(e) = Reply[kind]
    BY <2>1, <2>3, ReplyPlace
  <2> QED
    BY <1>6, <2>2, <2>3 DEF Advances
<1> QED
  BY <1>1, <1>2, <1>3, <1>4, <1>5, <1>6, Steps

\* Only a copy writes to a sink, and that of a file begins with the last step.
LEMMA UntouchedStep ==
  ASSUME IInv, PInv, [Next]_vars
  PROVE  Untouched'
<1> SUFFICES ASSUME kind = "read", ~Complete("task")', got'["down"] # 0 PROVE FALSE
  BY KindKept DEF Untouched
<1>1. "task" \in End /\ "down" \in Dir /\ In["task"] = "down" /\ kind' = kind
  BY KindKept, Ends, Sides
<1>2. pc'["task"] # Len(Script("task")) + 1
  BY <1>1, Same
<1>3. ~Complete("task")
  <2>1. CASE Other
    BY <1>2, <2>1, RestStep DEF Rest, Complete
  <2>2. ASSUME NEW e \in End, StartBody(e) PROVE FALSE
    BY <2>2, BodyStarts
  <2>3. ASSUME NEW e \in End, Fails(e) PROVE ~Complete("task")
    BY <1>2, <2>3, Leaving DEF Fails, Complete
  <2>4. ASSUME NEW e \in End, Advances(e) PROVE ~Complete("task")
    <3>1. phase[e] = "talk" /\ \A o \in End \ {e} : pc'[o] = pc[o]
      BY <2>4, Onward DEF Advances
    <3>2. phase["task"] = "talk" => ~Complete("task")
      BY <1>1, Typed DEF Complete
    <3> QED
      BY <1>1, <1>2, <3>1, <3>2 DEF Complete
  <2> QED
    BY <2>1, <2>2, <2>3, <2>4, Steps
<1>4. got["down"] = 0
  BY <1>3 DEF PInv, Untouched
<1>5. rd["down"] # "copy"
  BY <1>1, <1>3 DEF PInv, Shape, Copying, Body
<1>6. CASE Other
  BY <1>1, <1>4, <1>5, <1>6, Bytes, Pulled, Pushed DEF Quiet
<1>7. ASSUME NEW e \in End, StartBody(e) \/ Fails(e) \/ Advances(e) PROVE got' = got
  BY <1>7, BodyStarts DEF Fails, Advances, pipeVars
<1> QED
  BY <1>4, <1>6, <1>7, Steps

\* The other end of the stream.
LEMMA Peers ==
  ASSUME NEW e \in End
  PROVE  \E o \in End \ {e} : /\ Out[e] = In[o] /\ In[e] = Out[o]
                              /\ \A x \in End : x = e \/ x = o
                              /\ ReaderOf[Out[e]] = o /\ WriterOf[Out[e]] = e
                              /\ ReaderOf[In[e]] = e /\ WriterOf[In[e]] = o
<1>1. CASE e = "task"
  <2>1. "handler" \in End \ {e}
    BY <1>1 DEF End
  <2> QED
    BY <1>1, <2>1, Sides, Ends
<1>2. CASE e = "handler"
  <2>1. "task" \in End \ {e}
    BY <1>2 DEF End
  <2> QED
    BY <1>2, <2>1, Sides, Ends
<1> QED
  BY <1>1, <1>2, Sides

\* Who is through with its script has read and written all messages.
LEMMA AllDone ==
  ASSUME IInv, NEW e \in End, Complete(e), Carries[kind] # {}
  PROVE  Heard(e) = Len(Msgs[In[e]][kind]) /\ Written(e) = Len(Msgs[Out[e]][kind])
<1>1. Fits(Script(e), kind, e)
  BY ScriptFits DEF IInv, TInv, EndTypes
<1> QED
  BY <1>1 DEF Complete, Fits, Writes, Heard, Written

\* Who reads a message gets the one it expects.
LEMMA Hearing ==
  ASSUME IInv, PInv, ~Hard, NEW e \in End, At(e, "read")
  PROVE  /\ say[In[e]] # <<>> => Head(say[In[e]]) = What(e)
         /\ say[In[e]] = <<>> => flow[In[e]] = <<>>
<1>1. phase[e] = "talk" /\ In[e] \in Dir /\ ReaderOf[In[e]] = e
  BY Ends DEF At
<1>2. Agreed(In[e])
  BY <1>1 DEF IInv, AInv
<1>3. /\ \A i \in 1..Len(say[In[e]]) : say[In[e]][i] \in {Msgs[In[e]][kind][Heard(e) + i], "err"}
      /\ flow[In[e]] # <<>> => Heard(e) + Len(say[In[e]]) >= Len(Msgs[In[e]][kind])
  BY <1>1, <1>2 DEF Agreed, Agrees
<1>4. \A i \in 1..Len(say[In[e]]) : say[In[e]][i] # "err"
  BY <1>1 DEF PInv, Trusted, Hard
<1>5. /\ Heard(e) \in Nat /\ Heard(e) + 1 <= Len(Msgs[In[e]][kind])
      /\ What(e) = Msgs[In[e]][kind][Heard(e) + 1]
  BY <1>1, Place
<1>6. say[In[e]] \in Seq(Message)
  BY <1>1, Typed
<1>7. CASE say[In[e]] # <<>>
  <2>1. 1 \in 1..Len(say[In[e]]) /\ Head(say[In[e]]) = say[In[e]][1]
    BY <1>6, <1>7
  <2> QED
    BY <1>3, <1>4, <1>5, <1>7, <2>1
<1>8. CASE say[In[e]] = <<>>
  <2>1. Len(say[In[e]]) = 0
    BY <1>8
  <2>2. Len(Msgs[In[e]][kind]) \in Nat
    <3>1. Msgs[In[e]][kind] \in Seq(Message)
      BY Places DEF IInv, TInv
    <3> QED
      BY <3>1
  <2>3. Heard(e) + 0 < Len(Msgs[In[e]][kind])
    BY <1>5, <2>2
  <2> QED
    BY <1>3, <1>5, <1>8, <2>1, <2>2, <2>3
<1> QED
  BY <1>7, <1>8

\* Who is not through with its script and drops a half that the other end still
\* has use for leaves early.
LEMMA NotYet ==
  ASSUME IInv, PInv, NEW o \in End, ~Complete(o), phase[o] # "talk"
  PROVE  Early(o)
<1>1. phase[o] # "relay"
  BY DEF PInv, Shape, Left
<1> QED
  BY <1>1, Typed DEF Early, Gone

\* A write is refused because the other end has left early.
LEMMA RefusedEarly ==
  ASSUME IInv, PInv, ~Hard, Carries[kind] # {}, NEW e \in End, NEW o \in End \ {e},
         Out[e] = In[o], ReaderOf[Out[e]] = o, WriterOf[Out[e]] = e,
         At(e, "write") \/ At(e, "answer"), Refused(Out[e])
  PROVE  Early(o)
<1>1. phase[e] = "talk" /\ Out[e] \in Dir
  BY Ends DEF At
<1>2. rd[In[o]] = "shut"
  BY DEF Refused, Hard
<1>3. /\ Heard(o) \in Nat /\ Written(e) \in Nat /\ Len(say[Out[e]]) \in Nat
      /\ Written(e) + 1 <= Len(Msgs[In[o]][kind])
  <2>1. /\ WrittenNext(e) = Written(e) + 1
        /\ WrittenNext(e) \in 0..Len(Msgs[Out[e]][kind])
    BY <1>1, Place
  <2>2. Heard(o) \in Nat /\ Written(e) \in Nat
    BY PlaceTypes
  <2>3. Len(say[Out[e]]) \in Nat
    BY <1>1, Typed
  <2> QED
    BY <2>1, <2>2, <2>3
<1>4. Heard(o) + Len(say[Out[e]]) <= Written(e)
  BY <1>1 DEF PInv, Trusted, Hard
<1>5. Len(Msgs[In[o]][kind]) \in Nat
  <2>1. Msgs[In[o]][kind] \in Seq(Message)
    BY Places DEF IInv, TInv
  <2> QED
    BY <2>1
<1>6. ~Complete(o)
  <2>1. Heard(o) # Len(Msgs[In[o]][kind])
    BY <1>3, <1>4, <1>5
  <2> QED
    BY <2>1, AllDone
<1>7. ASSUME phase[o] = "talk" PROVE FALSE
  <2>1. Body(o, "handler")
    BY <1>2, <1>7 DEF PInv, Shape, Copying
  <2>2. kind = "http" /\ o = "handler" /\ pc[o] = 4 /\ e = "task"
    BY <2>1, Sides DEF Body
  <2>3. Heard(o) = 1
    BY <2>2, PlaceCounts
  <2>4. pc[e] = 1
    <3>1. pc[e] \in 1..4
      <4>1. Len(Script(e)) = 4
        BY <2>2, HttpScripts
      <4>2. pc[e] \in 1..Len(Script(e)) + 1 /\ pc[e] <= Len(Script(e))
        BY <1>1, Typed
      <4> QED
        BY <4>1, <4>2
    <3>2. pc[e] = 1 \/ pc[e] = 2 \/ pc[e] = 3 \/ pc[e] = 4
      BY <3>1
    <3>3. /\ Script(e)[2] = <<"read", "ack">> /\ Script(e)[3] = <<"start", "body">>
          /\ Script(e)[4] = <<"read", "resp">>
      BY <2>2, HttpScripts DEF Is
    <3> QED
      BY <3>2, <3>3 DEF At
  <2>5. Written(e) = 0
    BY <2>2, <2>4, PlaceCounts
  <2> QED
    BY <1>3, <1>4, <2>3, <2>5
<1> QED
  BY <1>6, <1>7, NotYet

\* A stream ends where a message should be because the other end has left early.
LEMMA EndedEarly ==
  ASSUME IInv, PInv, ~Hard, Carries[kind] # {}, NEW e \in End, NEW o \in End \ {e},
         In[e] = Out[o], ReaderOf[In[e]] = e, WriterOf[In[e]] = o,
         At(e, "read"), say[In[e]] = <<>>, fin[In[e]]
  PROVE  Early(o)
<1>1. phase[e] = "talk" /\ In[e] \in Dir
  BY Ends DEF At
<1>2. wr[Out[o]] = "shut"
  BY <1>1 DEF PInv, Shape, Shut
<1>3. /\ Heard(e) \in Nat /\ Written(o) \in Nat
      /\ Heard(e) + 1 <= Len(Msgs[Out[o]][kind])
  BY <1>1, Place, PlaceTypes
<1>4. Heard(e) >= Written(o)
  <2>1. Agreed(In[e])
    BY <1>1 DEF IInv, AInv
  <2>2. Conn = "live"
    BY DEF Conn, Hard
  <2>3. Heard(e) + Len(say[In[e]]) >= Written(o)
    BY <1>1, <2>1, <2>2 DEF Agreed, Agrees
  <2>4. Len(say[In[e]]) = 0
    OBVIOUS
  <2> QED
    BY <1>3, <2>3, <2>4
<1>5. Len(Msgs[Out[o]][kind]) \in Nat
  <2>1. Msgs[Out[o]][kind] \in Seq(Message)
    BY Places DEF IInv, TInv
  <2> QED
    BY <2>1
<1>6. ~Complete(o)
  <2>1. Written(o) # Len(Msgs[Out[o]][kind])
    BY <1>3, <1>4, <1>5
  <2> QED
    BY <2>1, AllDone
<1>7. ASSUME phase[o] = "talk" PROVE FALSE
  <2>1. Body(o, "task")
    BY <1>2, <1>7 DEF PInv, Shape, Copying
  <2>2. kind = "http" /\ o = "task" /\ pc[o] = 4 /\ e = "handler"
    BY <2>1, Sides DEF Body
  <2>3. Written(o) = 1
    BY <2>2, PlaceCounts
  <2>4. pc[e] = 1
    <3>1. pc[e] \in 1..4
      <4>1. Len(Script(e)) = 4
        BY <2>2, HttpScripts
      <4>2. pc[e] \in 1..Len(Script(e)) + 1 /\ pc[e] <= Len(Script(e))
        BY <1>1, Typed
      <4> QED
        BY <4>1, <4>2
    <3> QED
      BY <2>2, <3>1, HttpStarts DEF At
  <2>5. Heard(e) = 0
    BY <2>2, <2>4, PlaceCounts
  <2> QED
    BY <1>4, <2>3, <2>5
<1> QED
  BY <1>6, <1>7, NotYet

\* In numbers, as the provers take a length with a literal in it for an atom.
LEMMA Four ==
  ASSUME NEW n, n = 4, NEW p, p \in 1..n + 1
  PROVE  p \in 1..5 /\ n + 1 = 5
OBVIOUS

\* Why a task may leave early.
Reason ==
    \/ kind = "tcp" /\ pc["task"] = 4 /\ pc["handler"] <= 4
    \/ kind = "read" /\ snk["down"] = "gone"
    \/ kind = "http" /\ pc["task"] = 4 /\ Complete("handler") /\ snk["down"] = "gone"

\* The caller of a task is gone.
LEMMA CallerReason ==
  ASSUME IInv, PInv, ~Hard, Carries[kind] # {}, Unwanted("task")
  PROVE  Reason
<1>1. /\ "task" \in End /\ "handler" \in End /\ In["task"] = "down" /\ Out["task"] = "up"
      /\ "up" \in Dir /\ "down" \in Dir
      /\ ReaderOf["up"] = "handler" /\ WriterOf["up"] = "task"
      /\ ReaderOf["down"] = "task" /\ WriterOf["down"] = "handler"
  BY Ends, Sides
<1>2. /\ Heard("task") \in Nat /\ Written("task") \in Nat /\ Heard("handler") \in Nat
      /\ Written("handler") \in Nat
      /\ Len(say["up"]) \in Nat /\ Len(say["down"]) \in Nat
  BY <1>1, PlaceTypes, Typed
<1>3. /\ Heard("handler") + Len(say["up"]) <= Written("task")
      /\ Heard("task") + Len(say["down"]) <= Written("handler")
  BY <1>1 DEF PInv, Trusted, Hard
<1>4. CASE At("task", "read") /\ What("task") = Reply[kind] /\ CallerGone /\ say["down"] # <<>>
  <2>1. snk["down"] = "gone" /\ kind \in {"read", "http"}
    BY <1>4 DEF CallerGone
  <2>2. CASE kind = "http"
    <3>1. pc["task"] = 4
      BY <1>4, <2>2, ReplyPlace
    <3>2. Heard("task") = 1 /\ Len(say["down"]) # 0
      <4>1. say["down"] \in Seq(Message)
        BY <1>1, Typed
      <4> QED
        BY <1>4, <2>2, <3>1, <4>1, PlaceCounts
    <3>3. Written("handler") > 1
      BY <1>2, <1>3, <3>2
    <3>4. pc["handler"] \in 1..5 /\ Len(Script("handler")) + 1 = 5
      <4>1. Len(Script("handler")) = 4
        BY <2>2, HttpScripts
      <4>2. pc["handler"] \in 1..Len(Script("handler")) + 1
        BY <1>1, Typed
      <4> QED
        BY <4>1, <4>2, Four
    <3>5. pc["handler"] = 5
      <4>1. pc["handler"] \notin 1..4
        BY <1>2, <2>2, <3>3, PlaceCounts
      <4> QED
        BY <3>4, <4>1
    <3> QED
      BY <2>1, <2>2, <3>1, <3>4, <3>5 DEF Reason, Complete
  <2> QED
    BY <2>1, <2>2 DEF Reason
<1>5. CASE At("task", "wait") /\ (CallerGone \/ kind # "read")
  <2>1. phase["task"] = "talk" /\ pc["task"] \in 1..Len(Script("task"))
        /\ Script("task")[pc["task"]][1] = "wait"
    BY <1>1, <1>5, Typed DEF At
  <2>2. kind # "http"
    <3>1. CASE kind = "http"
      <4>1. Len(Script("task")) = 4
        BY <3>1, HttpScripts
      <4> QED
        BY <1>1, <2>1, <3>1, <4>1, HttpStarts
    <3> QED
      BY <3>1
  <2>3. kind \in {"read", "http", "tcp", "udp"}
    <3>1. kind \in DOMAIN Carries
      BY CommandAssumption DEF IInv, TInv, EndTypes
    <3>2. Carries["ping"] = {} /\ Carries["delete"] = {} /\ Carries["list"] = {}
      BY DEF Carries
    <3>3. kind \in {"ping", "delete", "list", "read", "http", "tcp", "udp"}
      BY <3>1 DEF Carries
    <3> QED
      BY <3>2, <3>3
  <2>4. CASE kind = "read"
    BY <1>5, <2>4 DEF CallerGone, Reason
  <2>5. CASE kind = "tcp"
    <3>1. \A i \in 1..5 : i = 1 \/ i = 2 \/ i = 3 \/ i = 4 \/ i = 5
      OBVIOUS
    <3>2. pc["task"] = 4
      BY <2>1, <2>5, <3>1, Longer
    <3>3. Written("task") = 1
      BY <2>5, <3>2, PlaceCounts
    <3>4. pc["handler"] # 5
      BY <1>2, <1>3, <2>5, <3>3, PlaceCounts
    <3>5. pc["handler"] \in 1..5
      <4>1. Len(Script("handler")) = 4
        BY <2>5, Longer
      <4>2. pc["handler"] \in 1..Len(Script("handler")) + 1
        BY <1>1, Typed
      <4> QED
        BY <4>1, <4>2, Four
    <3> QED
      BY <2>5, <3>2, <3>4, <3>5 DEF Reason
  <2> QED
    BY <2>2, <2>3, <2>4, <2>5 DEF Hard
<1> QED
  BY <1>1, <1>4, <1>5 DEF Unwanted

\* When nothing has cut the command, a task leaves in the middle of its script
\* because of its caller, and a handler because its task has.
LEMMA WhyFail ==
  ASSUME IInv, PInv, [Next]_vars, ~Hard', Carries[kind] # {}, NEW e \in End, Fails(e)
  PROVE  /\ e = "handler" => kind \in {"tcp", "read"} /\ Early("task")
         /\ e = "task" => Reason
<1>1. ~Hard /\ ~Failed(e)
  BY HardKept DEF Failed, Hard, Bad
<1>2. phase[e] = "talk" /\ (Unheard(e) \/ Untold(e) \/ Unwanted(e))
  BY <1>1 DEF Fails
<1>3. Excused
  BY DEF PInv
<1>4. PICK o \in End \ {e} : /\ Out[e] = In[o] /\ In[e] = Out[o]
                             /\ \A x \in End : x = e \/ x = o
                             /\ ReaderOf[Out[e]] = o /\ WriterOf[Out[e]] = e
                             /\ ReaderOf[In[e]] = e /\ WriterOf[In[e]] = o
  BY Peers
<1>5. Unheard(e) => Early(o)
  BY <1>1, <1>4, RefusedEarly DEF Unheard
<1>6. Untold(e) => Early(o)
  <2> SUFFICES ASSUME Untold(e) PROVE Early(o)
    OBVIOUS
  <2>1. At(e, "read")
    BY DEF Untold
  <2>2. say[In[e]] = <<>> /\ flow[In[e]] = <<>>
    BY <1>1, <2>1, Hearing DEF Untold
  <2>3. fin[In[e]]
    BY <1>1, <2>2 DEF Untold, Hard
  <2> QED
    BY <1>1, <1>4, <2>1, <2>2, <2>3, EndedEarly
<1>7. CASE e = "task"
  <2>1. o = "handler"
    BY <1>4, <1>7, Ends
  <2>2. ~Early("task")
    BY <1>2, <1>7 DEF Early, Gone
  <2>3. ~Early("handler")
    BY <1>1, <1>3, <2>2 DEF Excused
  <2>4. Unwanted("task")
    BY <1>2, <1>5, <1>6, <1>7, <2>1, <2>3
  <2> QED
    BY <1>1, <1>7, <2>4, CallerReason
<1>8. CASE e = "handler"
  <2>1. o = "task"
    BY <1>4, <1>8, Ends
  <2>2. Early("task")
    BY <1>2, <1>5, <1>6, <1>8, <2>1 DEF Unwanted
  <2>3. ~Complete("handler")
    <3>1. pc[e] <= Len(Script(e)) /\ Len(Script(e)) \in Nat /\ pc[e] \in Nat
      BY <1>2, Typed
    <3> QED
      BY <1>8, <3>1 DEF Complete
  <2> QED
    BY <1>1, <1>3, <1>8, <2>2, <2>3 DEF Excused
<1> QED
  BY <1>7, <1>8, Sides

\* An end that leaves early stays where it is.
LEMMA EarlyStays ==
  ASSUME IInv, PInv, [Next]_vars, NEW e \in End, Early(e)
  PROVE  Early(e)' /\ pc'[e] = pc[e]
<1>1. phase[e] \in {"leaving", "over"} /\ ~Complete(e)
  BY DEF Early, Gone
<1>2. kind' = kind
  BY KindKept
<1>3. phase'[e] \in {"leaving", "over"} /\ pc'[e] = pc[e]
  <2>1. CASE Other
    BY <1>1, <2>1, RestStep DEF Rest
  <2>2. ASSUME NEW o \in End, StartBody(o)
        PROVE  phase' = phase /\ phase[o] = "talk" /\ \A x \in End \ {o} : pc'[x] = pc[x]
    BY <2>2, BodyStarts
  <2>3. ASSUME NEW o \in End, Fails(o)
        PROVE  /\ pc' = pc /\ phase[o] = "talk"
               /\ \A x \in End \ {o} : phase'[x] = phase[x]
    BY <2>3, Leaving DEF Fails
  <2>4. ASSUME NEW o \in End, Advances(o)
        PROVE  /\ phase[o] = "talk"
               /\ \A x \in End \ {o} : pc'[x] = pc[x] /\ phase'[x] = phase[x]
    BY <2>4, Onward DEF Advances
  <2> QED
    BY <1>1, <2>1, <2>2, <2>3, <2>4, Steps
<1>4. ~Complete(e)'
  BY <1>1, <1>2, <1>3, Same DEF Complete
<1> QED
  BY <1>3, <1>4 DEF Early, Gone

\* An end that leaves in the middle of its script does so for a reason.
LEMMA ExcusedStep ==
  ASSUME IInv, PInv, [Next]_vars
  PROVE  Excused'
<1>1. kind' = kind
  BY KindKept
<1> SUFFICES ASSUME ~Hard', Carries[kind] # {}
             PROVE  /\ Early("handler")' => kind \in {"tcp", "read"} /\ Early("task")'
                    /\ Early("task")' => Reason'
  BY <1>1 DEF Excused, Reason
<1>2. ~Hard
  BY HardKept
<1>3. /\ Early("handler") => kind \in {"tcp", "read"} /\ Early("task")
      /\ Early("task") => Reason
  BY <1>2 DEF PInv, Excused, Reason
<1>4. "task" \in End /\ "handler" \in End /\ "down" \in Dir
  BY Ends
<1>5. \A e \in End : /\ Complete(e)' <=> pc'[e] = Len(Script(e)) + 1
                     /\ Complete(e) <=> pc[e] = Len(Script(e)) + 1
  BY <1>1, Same DEF Complete
<1>6. \A e \in End : phase[e] = "relay" => Complete(e)
  BY DEF PInv, Shape, Left
<1>7. snk["down"] = "gone" => snk'["down"] = "gone"
  BY <1>4, Closing
<1>8. \A e \in End : Early(e) => Early(e)' /\ pc'[e] = pc[e]
  BY EarlyStays
<1>9. ASSUME NEW e \in End, Early(e)', ~Early(e) PROVE Fails(e)
  <2>1. phase'[e] \in {"leaving", "over"} /\ ~Complete(e)'
    BY <1>9 DEF Early, Gone
  <2>2. ASSUME pc'[e] = pc[e] PROVE phase'[e] # phase[e] /\ phase[e] = "talk"
    <3>1. ~Complete(e)
      BY <1>5, <2>1, <2>2
    <3>2. phase[e] \notin {"leaving", "over"}
      BY <1>9, <3>1 DEF Early, Gone
    <3> QED
      BY <1>6, <2>1, <3>1, <3>2, Typed
  <2>3. CASE Other
    BY <2>2, <2>3, RestStep DEF Rest
  <2>4. ASSUME NEW o \in End, StartBody(o) PROVE FALSE
    <3>1. phase' = phase /\ phase[o] = "talk" /\ \A x \in End \ {o} : pc'[x] = pc[x]
      BY <2>4, BodyStarts
    <3> QED
      BY <2>1, <2>2, <3>1
  <2>5. ASSUME NEW o \in End, Fails(o) PROVE Fails(e)
    <3>1. pc' = pc /\ \A x \in End \ {o} : phase'[x] = phase[x]
      BY <2>5, Leaving DEF Fails
    <3> QED
      BY <2>2, <2>5, <3>1
  <2>6. ASSUME NEW o \in End, Advances(o) PROVE FALSE
    <3>1. /\ phase[o] = "talk" /\ \A x \in End \ {o} : pc'[x] = pc[x] /\ phase'[x] = phase[x]
          /\ phase'[o] \in {"talk", "relay"}
      BY <2>6, Onward DEF Advances
    <3> QED
      BY <2>1, <2>2, <3>1
  <2> QED
    BY <2>3, <2>4, <2>5, <2>6, Steps
<1>10. ASSUME Early("handler")' PROVE kind \in {"tcp", "read"} /\ Early("task")'
  <2>1. CASE Early("handler")
    BY <1>3, <1>4, <1>8, <2>1
  <2>2. CASE ~Early("handler")
    <3>1. kind \in {"tcp", "read"} /\ Early("task")
      BY <1>4, <1>9, <1>10, <2>2, WhyFail
    <3> QED
      BY <1>4, <1>8, <3>1
  <2> QED
    BY <2>1, <2>2
<1>11. ASSUME Early("task")' PROVE Reason'
  <2>1. ASSUME Reason, pc'["task"] = pc["task"],
               kind = "http" /\ Complete("handler") => Complete("handler")',
               kind = "tcp" /\ pc["handler"] <= 4 => pc'["handler"] <= 4
        PROVE Reason'
    BY <1>1, <1>7, <2>1 DEF Reason
  <2>2. CASE ~Early("task")
    <3>1. Fails("task")
      BY <1>4, <1>9, <1>11, <2>2
    <3>2. Reason
      BY <1>4, <3>1, WhyFail
    <3>3. pc' = pc
      BY <1>4, <3>1, Leaving DEF Fails
    <3> QED
      BY <1>4, <1>5, <2>1, <3>2, <3>3
  <2>3. CASE Early("task")
    <3>1. Reason /\ pc'["task"] = pc["task"]
      BY <1>3, <1>4, <1>8, <2>3
    <3>2. phase["task"] # "talk"
      BY <2>3 DEF Early, Gone
    <3>3. \/ pc'["handler"] = pc["handler"]
          \/ (phase["handler"] = "talk" /\ pc'["handler"] = pc["handler"] + 1)
      <4>1. CASE Other
        BY <4>1, RestStep DEF Rest
      <4>2. ASSUME NEW o \in End, StartBody(o)
            PROVE phase[o] = "talk" /\ pc'[o] = pc[o] + 1
        BY <4>2, BodyStarts
      <4>3. ASSUME NEW o \in End, Fails(o) PROVE pc' = pc
        BY <4>3, Leaving DEF Fails
      <4>4. ASSUME NEW o \in End, Advances(o)
            PROVE phase[o] = "talk" /\ pc'[o] = pc[o] + 1
        BY <4>4, Onward DEF Advances
      <4> QED
        BY <3>2, <4>1, <4>2, <4>3, <4>4, Steps, Sides
    <3>4. pc["handler"] \in Nat /\ Len(Script("handler")) \in Nat
          /\ (phase["handler"] = "talk" => pc["handler"] <= Len(Script("handler")))
      BY <1>4, Typed
    <3>5. Complete("handler") => Complete("handler")'
      BY <1>4, <1>5, <3>3, <3>4
    <3>6. ASSUME kind = "tcp", pc["handler"] <= 4 PROVE pc'["handler"] <= 4
      <4>1. CASE pc["handler"] = 4 /\ phase["handler"] = "talk" /\ pc'["handler"] = 5
        <5>1. pc["task"] = 4
          BY <3>1, <3>6 DEF Reason
        <5>2. IInv'
          BY StepIInv
        <5>3. Trusted'
          BY TrustedStep
        <5>4. Heard("handler")' = 2 /\ Written("task")' = 1
          <6>1. pc'["task"] = 4 /\ kind' = "tcp" /\ pc'["handler"] = 5
            BY <1>1, <3>1, <3>6, <4>1, <5>1
          <6>2. /\ WritesAt["task"]["tcp"] = <<0, 1, 1, 1, 1, 2>>
                /\ ReadsAt["handler"]["tcp"] = <<0, 1, 1, 1, 2>>
            BY DEF WritesAt, ReadsAt
          <6> QED
            BY <6>1, <6>2 DEF Heard, Written
        <5>5. "up" \in Dir /\ ReaderOf["up"] = "handler" /\ WriterOf["up"] = "task"
          BY Ends, Sides
        <5>6. Heard("handler")' + Len(say'["up"]) <= Written("task")'
          BY <5>3, <5>5 DEF Trusted, Hard
        <5>7. Len(say'["up"]) \in Nat
          <6>1. say' \in [Dir -> Seq(Message)]
            BY <5>2 DEF IInv, TInv, WireTypes
          <6>2. say'["up"] \in Seq(Message)
            BY <5>5, <6>1
          <6> QED
            BY <6>2
        <5> QED
          BY <5>4, <5>6, <5>7
      <4> QED
        BY <3>3, <3>4, <3>6, <4>1
    <3> QED
      BY <2>1, <3>1, <3>5, <3>6
  <2> QED
    BY <2>2, <2>3
<1> QED
  BY <1>10, <1>11

-----------------------------------------------------------------------------
(* The ends of the streams *)

\* What was whole stays so until the sink has it all.
LEMMA DoneStays ==
  ASSUME IInv, PInv, [Next]_vars, NEW d \in Dir, Done(d), wr[d] = "shut", rd'[d] # "shut", ~lost'
  PROVE  Done(d)'
<1>1. src[d] # "open" /\ (src[d] = "eof" => got[d] + Len(flow[d]) = sent[d])
  BY DEF Done
<1>2. got[d] \in Nat /\ sent[d] \in Nat /\ Len(flow[d]) \in Nat
  BY Typed
<1>3. SUFFICES src'[d] = src[d] /\ (src[d] = "eof" => got'[d] + Len(flow'[d]) = sent'[d])
  BY DEF Done
<1>4. CASE Other
  <2>1. ~Pull(d)
    BY DEF Pull
  <2>2. CASE Push(d)
    BY <1>1, <1>2, <2>2, Pushed
  <2>3. CASE Quiet(d)
    BY <1>1, <2>3 DEF Quiet
  <2> QED
    BY <1>4, <2>1, <2>2, <2>3, Bytes
<1>5. ASSUME NEW e \in End, StartBody(e) \/ Advances(e) \/ Fails(e)
      PROVE  got' = got /\ flow' = flow /\ sent' = sent /\ src' = src
  <2>1. CASE StartBody(e)
    BY <1>5, <2>1, BodyStarts
  <2>2. CASE Advances(e) \/ Fails(e)
    BY <2>2 DEF Advances, Fails, pipeVars
  <2> QED
    BY <1>5, <2>1, <2>2
<1> QED
  BY <1>1, <1>4, <1>5, Steps

\* A stream ends with its copy or with its end.
LEMMA WriterGoes ==
  ASSUME IInv, PInv, [Next]_vars, ~Hard', NEW d \in Dir, wr[d] # "shut", wr'[d] = "shut"
  PROVE  PullEnd(d) \/ Leave(WriterOf[d])
<1>1. ASSUME NEW e \in End, StartBody(e) \/ Advances(e) \/ Fails(e) PROVE FALSE
  <2>1. CASE StartBody(e)
    BY <2>1, BodyStarts
  <2>2. CASE Advances(e)
    <3>1. phase[e] = "talk" /\ Advance(e)
      BY <2>2 DEF Advances
    <3> QED
      BY <3>1, Onward
  <2>3. CASE Fails(e)
    BY <2>3 DEF Fails
  <2> QED
    BY <1>1, <2>1, <2>2, <2>3
<1>2. ASSUME NEW e \in End, Leave(e) PROVE Leave(WriterOf[d])
  <2>1. PICK W \in SUBSET {Out[e]} : \E R : Release(W, R)
    <3> DEFINE V == IF kind = "http" /\ wr[Out[e]] = "copy" /\ e = "task" THEN {} ELSE {Out[e]}
    <3>1. V \in SUBSET {Out[e]}
      OBVIOUS
    <3>2. Release(V, {}) \/ Release(V, {In[e]})
      BY <1>2 DEF Leave
    <3> HIDE DEF V
    <3> QED
      BY <3>1, <3>2
  <2>2. d \in W
    BY <2>1, Releases
  <2>3. WriterOf[d] = e
    BY <2>2, Ends
  <2> QED
    BY <1>2, <2>3
<1>3. ASSUME NEW o \in Dir, PullEnd(o) PROVE PullEnd(d)
  <2>1. Release({o}, {})
    BY <1>3 DEF PullEnd
  <2>2. o = d
    BY <2>1, Releases
  <2> QED
    BY <1>3, <2>2
<1>4. ASSUME NEW o \in Dir, PushFail(o) \/ PushEnd(o) PROVE FALSE
  <2>1. Release({}, {o})
    BY <1>4 DEF PushFail, PushEnd
  <2> QED
    BY <2>1, Releases
<1>5. ASSUME CancelBody PROVE FALSE
  <2>1. stop["task"] /\ stop' = stop
    BY <1>5 DEF CancelBody, endVars
  <2> QED
    BY <2>1, Ends DEF Hard
<1>6. ASSUME wr' = wr PROVE FALSE
  BY <1>6
<1>7. CASE Other
  <2>1. \/ wr' = wr
        \/ \E e \in End : Leave(e)
        \/ \E o \in Dir : PullEnd(o) \/ PushFail(o) \/ PushEnd(o)
        \/ CancelBody
    BY <1>7 DEF Other, Finish, Cancel, Stop, Pull, Push, AssociateClosed, ConnLost, Lose, Source,
                Sink, vars, streamVars
  <2> QED
    BY <1>2, <1>3, <1>4, <1>5, <2>1
<1> QED
  BY <1>1, <1>7, Steps

\* A stream that is finished is whole, unless it ends with a task that leaves
\* early or nobody is there to have it.
LEMMA WholeStep ==
  ASSUME IInv, PInv, [Next]_vars
  PROVE  Whole'
<1>1. kind' = kind
  BY KindKept
<1> SUFFICES ASSUME ~Hard', NEW d \in Carries[kind], wr'[d] = "shut", rd'[d] # "shut"
             PROVE  Done(d)' \/ snk'[d] = "gone" \/ (kind = "tcp" /\ Early("task")')
  BY <1>1 DEF Whole
<1>2. ~Hard /\ ~lost /\ ~lost'
  BY HardKept DEF Hard
<1>3. d \in Dir /\ "task" \in End /\ "handler" \in End
  <2>1. kind \in DOMAIN Carries /\ \A k \in DOMAIN Carries : Carries[k] \subseteq Dir
    BY CommandAssumption DEF IInv, TInv, EndTypes, Carries, Dir
  <2> QED
    BY <2>1, Ends
<1>4. rd[d] # "shut" /\ (snk[d] = "gone" => snk'[d] = "gone")
  BY <1>3, Closing
<1>5. CASE wr[d] = "shut"
  <2>1. Done(d) \/ snk[d] = "gone" \/ (kind = "tcp" /\ Early("task"))
    BY <1>2, <1>4, <1>5 DEF PInv, Whole
  <2>2. Early("task") => Early("task")'
    BY <1>3, EarlyStays
  <2>3. Done(d) => Done(d)'
    BY <1>2, <1>3, <1>5, DoneStays
  <2> QED
    BY <1>4, <2>1, <2>2, <2>3
<1>6. CASE wr[d] # "shut" /\ PullEnd(d)
  <2>1. src[d] # "open" /\ Release({d}, {}) /\ UNCHANGED <<src, sent, got>>
    BY <1>2, <1>4, <1>6 DEF PullEnd, Refused, pipeVars
  <2>2. flow'[d] = flow[d]
    BY <1>3, <2>1, Releases
  <2>3. got[d] + Len(flow[d]) = sent[d]
    BY <1>2, <1>3, <1>4 DEF PInv, Shape, Exact
  <2>4. src[d] \in {"eof", "broken"}
    BY <1>3, <2>1, Typed
  <2> QED
    BY <2>1, <2>2, <2>3, <2>4 DEF Done
<1>7. CASE wr[d] # "shut" /\ Leave(WriterOf[d])
  <2> DEFINE e == WriterOf[d]
  <2>1. e \in End /\ Out[e] = d
    BY <1>3, Ends
  <2>2. phase[e] = "leaving" /\ Gone(e)
    BY <1>7 DEF Leave, Gone
  <2>3. ~(kind = "http" /\ e = "task" /\ wr[d] = "copy")
    <3> SUFFICES ASSUME kind = "http", e = "task", wr[d] = "copy" PROVE FALSE
      OBVIOUS
    <3>1. Release({}, {}) \/ Release({}, {In[e]})
      BY <1>7, <2>1 DEF Leave
    <3> QED
      BY <1>3, <3>1, Releases
  <2>4. wr[d] \in {"own", "copy"}
    BY <1>3, <1>7, Typed
  <2>5. CASE Complete(e)
    <3>1. kind = "http" /\ e = "task"
      BY <1>2, <1>7, <2>1, <2>2, <2>5 DEF PInv, Through
    <3>2. wr[d] # "own"
      BY <2>1, <2>5 DEF PInv, Shape, Copying
    <3> QED
      BY <2>3, <2>4, <3>1, <3>2
  <2>6. CASE Early(e)
    <3>1. /\ Early("handler") => kind \in {"tcp", "read"} /\ Early("task")
          /\ Early("task") => Reason
      BY <1>2 DEF PInv, Excused, Reason
    <3>2. Early("task") /\ Reason
      BY <2>1, <2>6, <3>1, Sides
    <3>3. Early("task")'
      BY <1>3, <3>2, EarlyStays
    <3>4. CASE kind = "tcp"
      BY <3>3, <3>4
    <3>5. CASE kind = "read" /\ snk["down"] = "gone"
      <4>1. d = "down"
        BY <3>5, Longer
      <4> QED
        BY <1>4, <3>5, <4>1
    <3>6. CASE kind = "http" /\ pc["task"] = 4
      <4>1. e = "task"
        BY <2>1, <2>6, <3>1, <3>6, Sides
      <4>2. wr[d] # "own"
        BY <2>1, <3>6, <4>1 DEF PInv, Shape, Copying, Body
      <4> QED
        BY <2>3, <2>4, <3>6, <4>1, <4>2
    <3> QED
      BY <3>2, <3>4, <3>5, <3>6 DEF Reason
  <2> QED
    BY <2>2, <2>5, <2>6 DEF Early
<1> QED
  BY <1>3, <1>5, <1>6, <1>7, WriterGoes

\* Who copies leaves when its copies have ended.
LEMMA CopyEnds ==
  ASSUME IInv, PInv, [Next]_vars, ~Hard', NEW e \in End, phase[e] = "relay", phase'[e] # "relay"
  PROVE  Finish(e) \/ (e = "task" /\ kind = "http" /\ rd'["down"] = "shut")
<1>1. ASSUME NEW o \in End, StartBody(o) \/ Advances(o) \/ Fails(o) PROVE FALSE
  <2>1. CASE StartBody(o)
    BY <2>1, BodyStarts
  <2>2. CASE Advances(o)
    <3>1. phase[o] = "talk" /\ Advance(o)
      BY <2>2 DEF Advances
    <3> QED
      BY <3>1, Onward
  <2>3. CASE Fails(o)
    <3>1. phase[o] = "talk" /\ Fail(o)
      BY <2>3 DEF Fails
    <3> QED
      BY <3>1, Leaving
  <2> QED
    BY <1>1, <2>1, <2>2, <2>3
<1>2. ASSUME NEW o \in End, Finish(o) PROVE Finish(e)
  <2>1. Fail(o)
    BY <1>2 DEF Finish
  <2>2. o = e
    BY <2>1, Leaving
  <2> QED
    BY <1>2, <2>2
<1>3. ASSUME NEW o \in End, Leave(o) PROVE FALSE
  <2>1. phase[o] = "leaving" /\ phase' = [phase EXCEPT ![o] = "over"]
    BY <1>3 DEF Leave
  <2> QED
    BY <2>1, Typed
<1>4. ASSUME NEW o \in End, Cancel(o) PROVE FALSE
  BY <1>4 DEF Cancel, Hard
<1>5. ASSUME AssociateClosed PROVE FALSE
  BY <1>5 DEF AssociateClosed, Hard
<1>6. ASSUME NEW d \in Dir, PushFail(d) \/ PushEnd(d)
      PROVE  e = "task" /\ kind = "http" /\ rd'["down"] = "shut"
  <2>1. Release({}, {d}) /\ (phase' = phase \/ (Response(d) /\ Fail("task")))
    BY <1>6 DEF PushFail, PushEnd
  <2>2. Response(d) /\ Fail("task")
    BY <2>1
  <2>3. e = "task"
    BY <2>2, Leaving, Ends
  <2>4. rd'[d] = "shut"
    BY <2>1, Releases
  <2> QED
    BY <2>2, <2>3, <2>4 DEF Response
<1>7. CASE Other
  <2>1. \/ phase' = phase
        \/ \E o \in End : Finish(o) \/ Leave(o) \/ Cancel(o)
        \/ \E d \in Dir : PushFail(d) \/ PushEnd(d)
        \/ AssociateClosed
    BY <1>7 DEF Other, Stop, Pull, PullEnd, Push, CancelBody, ConnLost, Source, Sink, vars, endVars
  <2> QED
    BY <1>2, <1>3, <1>4, <1>5, <1>6, <2>1
<1> QED
  BY <1>1, <1>7, Steps

\* Who leaves at the end of its script has no copy left, but for a request body.
LEMMA ThroughStep ==
  ASSUME IInv, PInv, [Next]_vars
  PROVE  Through'
<1>1. kind' = kind
  BY KindKept
<1> SUFFICES ASSUME ~Hard', NEW e \in End, Gone(e)', Complete(e)'
             PROVE  /\ Out[e] \in Carries[kind] => wr'[Out[e]] = "shut" \/ (kind = "http" /\ e = "task")
                    /\ In[e] \in Carries[kind] => rd'[In[e]] = "shut" \/ (kind = "http" /\ e = "handler")
  BY <1>1 DEF Through
<1>2. ~Hard
  BY HardKept
<1>3. /\ Complete(e) <=> pc[e] = Len(Script(e)) + 1
      /\ pc'[e] = Len(Script(e)) + 1
      /\ phase'[e] \in {"leaving", "over"}
  BY <1>1, Same DEF Complete, Gone
<1>4. Out[e] \in Dir /\ In[e] \in Dir
  BY Ends
<1>5. CASE Gone(e) /\ Complete(e)
  <2>1. /\ Out[e] \in Carries[kind] => wr[Out[e]] = "shut" \/ (kind = "http" /\ e = "task")
        /\ In[e] \in Carries[kind] => rd[In[e]] = "shut" \/ (kind = "http" /\ e = "handler")
    BY <1>2, <1>5 DEF PInv, Through
  <2> QED
    BY <1>4, <2>1, Closing
<1>6. CASE ~Gone(e) /\ Complete(e)
  <2>1. phase[e] = "relay"
    BY <1>3, <1>6, Typed DEF Gone
  <2>2. kind # "udp"
    BY <1>2 DEF Hard
  <2>3. CASE Finish(e)
    <3>1. UNCHANGED <<wr, rd>>
      BY <2>3 DEF Finish, streamVars
    <3>2. \/ wr[Out[e]] = "shut" /\ rd[In[e]] = "shut"
          \/ wr[Out[e]] = "shut" /\ kind # "tcp" /\ e = "handler"
          \/ rd[In[e]] = "shut" /\ kind = "read" /\ e = "task"
      BY <2>2, <2>3 DEF Finish, Copied
    <3>3. e = "handler" /\ kind # "tcp" /\ In[e] \in Carries[kind] => kind = "http"
      <4>1. kind \in {"ping", "delete", "list", "read", "http", "tcp", "udp"}
        BY CommandAssumption DEF IInv, TInv, EndTypes, Carries
      <4>2. CASE kind \in {"ping", "delete", "list", "read"}
        BY <4>2, Sides DEF Carries
      <4> QED
        BY <2>2, <4>1, <4>2
    <3>4. kind = "read" /\ e = "task" => Out[e] \notin Carries[kind]
      BY Ends, Longer DEF Dir
    <3> QED
      BY <3>1, <3>2, <3>3, <3>4
  <2>4. CASE e = "task" /\ kind = "http" /\ rd'["down"] = "shut"
    BY <2>4, Sides
  <2> QED
    BY <1>3, <2>1, <2>3, <2>4, CopyEnds
<1>7. CASE ~Complete(e)
  <2>1. pc'[e] # pc[e]
    BY <1>3, <1>7
  <2>2. CASE Other
    BY <2>1, <2>2, RestStep DEF Rest
  <2>3. ASSUME NEW o \in End, StartBody(o) PROVE FALSE
    <3>1. phase' = phase /\ phase[o] = "talk" /\ \A x \in End \ {o} : pc'[x] = pc[x]
      BY <2>3, BodyStarts
    <3> QED
      BY <1>3, <2>1, <3>1
  <2>4. ASSUME NEW o \in End, Fails(o) PROVE FALSE
    BY <2>1, <2>4, Leaving DEF Fails
  <2>5. ASSUME NEW o \in End, Advances(o) PROVE Carries[kind] = {}
    <3>1. /\ \A x \in End \ {o} : pc'[x] = pc[x]
          /\ phase'[o] \in {"talk", "relay"} \/ Carries[kind] = {}
      BY <2>5, Onward DEF Advances
    <3> QED
      BY <1>3, <2>1, <3>1
  <2> QED
    BY <2>2, <2>3, <2>4, <2>5, Steps
<1> QED
  BY <1>5, <1>6, <1>7

\* A stream is read to its end, or given up, by its copy or by its end.
LEMMA ReaderGoes ==
  ASSUME IInv, PInv, [Next]_vars, NEW d \in Dir, rd[d] # "shut", rd'[d] = "shut"
  PROVE  PushFail(d) \/ PushEnd(d) \/ Leave(ReaderOf[d])
<1>1. ASSUME NEW e \in End, StartBody(e) \/ Advances(e) \/ Fails(e) PROVE FALSE
  <2>1. CASE StartBody(e)
    BY <2>1, BodyStarts
  <2>2. CASE Advances(e)
    <3>1. phase[e] = "talk" /\ Advance(e)
      BY <2>2 DEF Advances
    <3> QED
      BY <3>1, Onward
  <2>3. CASE Fails(e)
    BY <2>3 DEF Fails
  <2> QED
    BY <1>1, <2>1, <2>2, <2>3
<1>2. ASSUME NEW e \in End, Leave(e) PROVE Leave(ReaderOf[d])
  <2>1. PICK R \in SUBSET {In[e]} : \E W : Release(W, R)
    <3>1. {} \in SUBSET {In[e]} /\ {In[e]} \in SUBSET {In[e]}
      OBVIOUS
    <3>2. PICK W : Release(W, {}) \/ Release(W, {In[e]})
      BY <1>2 DEF Leave
    <3> QED
      BY <3>1, <3>2
  <2>2. d \in R
    BY <2>1, Releases
  <2>3. ReaderOf[d] = e
    BY <2>2, Ends
  <2> QED
    BY <1>2, <2>3
<1>3. ASSUME NEW o \in Dir, NEW W, Release(W, {o}) PROVE o = d
  BY <1>3, Releases
<1>4. ASSUME NEW o \in Dir, PushFail(o) \/ PushEnd(o) PROVE PushFail(d) \/ PushEnd(d)
  <2>1. Release({}, {o})
    BY <1>4 DEF PushFail, PushEnd
  <2>2. o = d
    BY <1>3, <2>1
  <2> QED
    BY <1>4, <2>2
<1>5. ASSUME NEW W, Release(W, {}) PROVE FALSE
  BY <1>5, Releases
<1>6. CASE Other
  <2>1. \/ rd' = rd
        \/ \E e \in End : Leave(e)
        \/ \E o \in Dir : PushFail(o) \/ PushEnd(o)
        \/ \E W : Release(W, {})
    BY <1>6 DEF Other, Finish, Cancel, Stop, Pull, PullEnd, Push, CancelBody, AssociateClosed,
                ConnLost, Lose, Source, Sink, vars, streamVars
  <2> QED
    BY <1>2, <1>4, <1>5, <2>1
<1> QED
  BY <1>1, <1>6, Steps

\* When its stream is done with, the sink of a task changes for its own reasons
\* only, or when the task is dropped.
LEMMA SinkKept ==
  ASSUME IInv, PInv, Other, rd["down"] = "shut", phase'["task"] # "over"
  PROVE  /\ phase["task"] # "over"
         /\ snk["down"] \in {"gone", "eof"} => snk'["down"] = snk["down"]
<1>1. /\ phase \in [End -> {"talk", "relay", "leaving", "over"}]
      /\ snk \in [Dir -> {"open", "stalled", "gone", "eof", "text"}]
      /\ "task" \in End /\ "down" \in Dir
  BY Typed, Ends
<1>2. ASSUME NEW e \in End, Fail(e), e = "task" => phase["task"] # "over", snk' = snk
      PROVE  phase["task"] # "over" /\ snk' = snk
  BY <1>1, <1>2, Leaving
<1>3. ASSUME NEW e \in End, Finish(e) \/ Cancel(e)
      PROVE  phase["task"] # "over" /\ snk' = snk
  BY <1>2, <1>3 DEF Finish, Cancel, Cancellable, At, pipeVars
<1>4. CASE AssociateClosed
  BY <1>1, <1>2, <1>4 DEF AssociateClosed, pipeVars
<1>5. ASSUME NEW e \in End, Leave(e)
      PROVE  phase["task"] # "over" /\ snk'["down"] = snk["down"]
  <2>1. /\ phase' = [phase EXCEPT ![e] = "over"]
        /\ snk' = snk \/ \E x : snk' = [snk EXCEPT ![In[e]] = x]
    BY <1>5 DEF Leave
  <2>2. e # "task"
    BY <1>1, <2>1
  <2>3. In[e] = "up"
    BY <2>2, Sides
  <2> QED
    BY <1>1, <2>1, <2>2, <2>3
<1>6. ASSUME NEW d \in Dir, PushFail(d) \/ PushEnd(d)
      PROVE  phase["task"] # "over" /\ snk'["down"] = snk["down"]
  <2>1. /\ rd[d] = "copy" /\ (phase' = phase \/ Response(d))
        /\ snk' = snk \/ \E x : snk' = [snk EXCEPT ![d] = x]
    BY <1>6 DEF PushFail, PushEnd, HasChunk, pipeVars
  <2>2. d # "down"
    BY <1>6 DEF PushFail, PushEnd, HasChunk
  <2> QED
    BY <1>1, <2>1, <2>2 DEF Response
<1>7. ASSUME NEW d \in Dir, NEW x \in {"open", "stalled", "gone"}, Sink(d, x)
      PROVE  /\ phase["task"] # "over"
             /\ snk["down"] \in {"gone", "eof"} => snk'["down"] = snk["down"]
  <2>1. snk[d] \notin {"gone", "eof"} /\ snk' = [snk EXCEPT ![d] = x] /\ phase' = phase
    BY <1>7 DEF Sink, endVars
  <2> QED
    BY <1>1, <2>1
<1>8. ASSUME UNCHANGED <<phase, snk>> PROVE phase["task"] # "over" /\ snk' = snk
  BY <1>8
<1>9. \/ UNCHANGED <<phase, snk>>
      \/ \E e \in End : Finish(e) \/ Cancel(e) \/ Leave(e)
      \/ \E d \in Dir : PushFail(d) \/ PushEnd(d)
      \/ \E d \in Dir : Sink(d, "open") \/ Sink(d, "stalled") \/ Sink(d, "gone")
      \/ AssociateClosed
  BY DEF Other, Stop, Pull, PullEnd, Push, CancelBody, ConnLost, Source, vars, endVars, pipeVars
<1> QED
  BY <1>3, <1>4, <1>5, <1>6, <1>7, <1>8, <1>9

\* Who has been answered gets the end of the response when all of it is there.
LEMMA AnsweredStep ==
  ASSUME IInv, PInv, [Next]_vars
  PROVE  Answered'
<1>1. kind' = kind
  BY KindKept
<1> SUFFICES ASSUME ~Hard', kind \in {"read", "http"}, told' = "ok", rd'["down"] = "shut",
                    phase'["task"] # "over"
             PROVE  snk'["down"] \in {"gone", "eof"} \/ (Done("down")' /\ flow'["down"] = <<>>)
  BY <1>1 DEF Answered
<1>2. ~Hard /\ ~lost /\ ~lost'
  BY HardKept DEF Hard
<1>3. "task" \in End /\ "down" \in Dir /\ ReaderOf["down"] = "task" /\ In["task"] = "down"
  BY Ends, Sides
<1>4. "down" \in Carries[kind]
  BY <1>3, Longer, HttpScripts
<1>5. ASSUME src'["down"] = src["down"], sent'["down"] = sent["down"], got'["down"] = got["down"],
             flow'["down"] = <<>>, flow["down"] = <<>>, Done("down")
      PROVE  Done("down")' /\ flow'["down"] = <<>>
  BY <1>5 DEF Done
<1>6. CASE told = "ok" /\ rd["down"] = "shut"
  <2>1. CASE Other
    <3>1. /\ phase["task"] # "over"
          /\ snk["down"] \in {"gone", "eof"} => snk'["down"] = snk["down"]
      BY <1>6, <2>1, SinkKept
    <3>2. snk["down"] \in {"gone", "eof"} \/ (Done("down") /\ flow["down"] = <<>>)
      BY <1>2, <1>6, <3>1 DEF PInv, Answered
    <3>3. ASSUME Done("down"), flow["down"] = <<>> PROVE Done("down")' /\ flow'["down"] = <<>>
      <4>1. src["down"] # "open"
        BY <3>3 DEF Done
      <4>2. Quiet("down")
        <5>1. ~Pull("down") /\ ~Push("down")
          BY <1>6, <4>1 DEF Pull, Push, HasChunk
        <5> QED
          BY <1>3, <2>1, <5>1, Bytes
      <4> QED
        BY <1>2, <1>5, <3>3, <4>1, <4>2 DEF Quiet
    <3> QED
      BY <3>1, <3>2, <3>3
  <2>2. ASSUME NEW e \in End, StartBody(e) \/ Advances(e) \/ Fails(e)
        PROVE  /\ UNCHANGED <<src, sent, got, flow, snk>>
               /\ phase["task"] # "over"
    <3>1. CASE StartBody(e)
      BY <3>1, BodyStarts
    <3>2. CASE Advances(e)
      <4>1. UNCHANGED <<src, sent, got, flow, snk>> /\ phase[e] = "talk" /\ Advance(e)
        BY <3>2 DEF Advances, pipeVars
      <4>2. \A o \in End \ {e} : phase'[o] = phase[o]
        BY <4>1, Onward
      <4> QED
        BY <1>3, <4>1, <4>2
    <3>3. CASE Fails(e)
      BY <1>3, <3>3, Leaving DEF Fails, pipeVars
    <3> QED
      BY <2>2, <3>1, <3>2, <3>3
  <2>3. CASE ~Other
    <3>1. UNCHANGED <<src, sent, got, flow, snk>> /\ phase["task"] # "over"
      BY <2>2, <2>3, Steps
    <3>2. snk["down"] \in {"gone", "eof"} \/ (Done("down") /\ flow["down"] = <<>>)
      BY <1>2, <1>6, <3>1 DEF PInv, Answered
    <3> QED
      BY <1>5, <3>1, <3>2
  <2> QED
    BY <2>1, <2>3
<1>7. CASE rd["down"] # "shut"
  <2>1. CASE PushFail("down")
    <3>1. snk["down"] = "gone"
      BY <2>1 DEF PushFail, Illegible
    <3> QED
      BY <1>3, <3>1, Closing
  <2>2. CASE PushEnd("down")
    <3>1. AtEnd("down") /\ rd["down"] = "copy" /\ Release({}, {"down"})
          /\ UNCHANGED <<src, sent, got>>
          /\ snk' = [snk EXCEPT !["down"] = IF @ = "gone" \/ Response("down") THEN @
                                            ELSE IF kind = "http" /\ Dry("down") THEN "gone" ELSE "eof"]
      BY <1>2, <2>2 DEF PushEnd, Dry
    <3>2. snk \in [Dir -> {"open", "stalled", "gone", "eof", "text"}]
      BY Typed
    <3>3. CASE kind = "read"
      BY <1>3, <3>1, <3>2, <3>3 DEF Response
    <3>4. CASE kind = "http"
      <4>1. snk'["down"] = snk["down"] /\ flow["down"] = <<>> /\ fin["down"]
        BY <1>3, <3>1, <3>2, <3>4 DEF Response, AtEnd, Empty
      <4>2. flow'["down"] = <<>>
        BY <1>3, <3>1, Releases
      <4>3. wr["down"] = "shut"
        BY <1>3, <4>1 DEF PInv, Shape, Shut
      <4>4. Done("down") \/ snk["down"] = "gone"
        BY <1>2, <1>4, <1>7, <3>4, <4>3 DEF PInv, Whole
      <4> QED
        BY <1>5, <3>1, <4>1, <4>2, <4>4
    <3> QED
      BY <3>3, <3>4
  <2>3. CASE Leave("task")
    <3>1. phase'["task"] = "over"
      BY <1>3, <2>3, Typed DEF Leave
    <3> QED
      BY <3>1
  <2> QED
    BY <1>3, <1>7, <2>1, <2>2, <2>3, ReaderGoes
<1>8. CASE told # "ok"
  <2>1. CASE Other
    BY <1>8, <2>1, RestStep DEF Rest
  <2>2. ASSUME NEW e \in End, StartBody(e) PROVE told' = told
    BY <2>2, BodyStarts
  <2>3. ASSUME NEW e \in End, Fails(e) PROVE told' = told \/ told' = "err"
    BY <2>3, Leaving DEF Fails
  <2>4. ASSUME NEW e \in End, Advances(e) PROVE rd["down"] # "shut"
    <3>1. e = "task" /\ phase["task"] = "talk"
      BY <1>8, <2>4 DEF Advances
    <3>2. ~Body("task", "handler")
      BY DEF Body
    <3> QED
      BY <1>3, <3>1, <3>2 DEF PInv, Shape, Copying
  <2> QED
    BY <1>7, <1>8, <2>1, <2>2, <2>3, <2>4, Steps
<1> QED
  BY <1>6, <1>7, <1>8

-----------------------------------------------------------------------------

\* A command starts with both halves at their ends and nothing under way.
LEMMA InitPInv ==
  ASSUME Init, IInv
  PROVE  PInv
<1>1. /\ say = [d \in Dir |-> <<>>] /\ flow = [d \in Dir |-> <<>>] /\ fin = [d \in Dir |-> FALSE]
      /\ wr = [d \in Dir |-> "own"] /\ rd = [d \in Dir |-> "own"]
      /\ pc = [e \in End |-> 1] /\ phase = [e \in End |-> "talk"]
      /\ told = "none" /\ did = "none"
      /\ snk = [d \in Dir |-> "open"]
      /\ sent = [d \in Dir |-> 0] /\ got = [d \in Dir |-> 0]
  BY DEF Init, StreamInit
<1>2. \A e \in End : /\ pc[e] = 1 /\ phase[e] = "talk" /\ ~Complete(e)
                     /\ wr[Out[e]] = "own" /\ rd[In[e]] = "own"
  <2>1. \A e \in End : pc[e] # Len(Script(e)) + 1
    BY <1>1, Typed
  <2> QED
    BY <1>1, <2>1, Ends DEF Complete
<1>3. Left
  BY <1>1, <1>2 DEF Left, Bad
<1>4. Shut
  BY <1>1 DEF Shut
<1>5. Exact
  BY <1>1 DEF Exact
<1>6. Copying
  BY <1>2 DEF Copying, Body
<1>7. Trusted
  <2> SUFFICES ASSUME NEW d \in Dir PROVE Sound(d)
    BY DEF Trusted, Sound
  <2>1. Heard(ReaderOf[d]) = 0 /\ Written(WriterOf[d]) = 0
    <3>1. \A k \in DOMAIN Carries, e \in End : ReadsAt[e][k][1] = 0 /\ WritesAt[e][k][1] = 0
      BY DEF ReadsAt, WritesAt, Carries, End
    <3>2. kind \in DOMAIN Carries
      BY CommandAssumption DEF IInv, TInv, EndTypes
    <3> QED
      BY <1>2, <3>1, <3>2, Ends DEF Heard, Written
  <2>2. say[d] = <<>>
    BY <1>1
  <2> QED
    BY <2>1, <2>2 DEF Sound
<1>8. Excused /\ Through
  BY <1>2, Ends DEF Excused, Early, Gone, Through
<1>9. Whole /\ Answered /\ Told /\ Untouched
  <2>1. \A d \in Carries[kind] : wr[d] # "shut"
    <3>1. kind \in DOMAIN Carries /\ \A k \in DOMAIN Carries : Carries[k] \subseteq Dir
      BY CommandAssumption DEF IInv, TInv, EndTypes, Carries, Dir
    <3> QED
      BY <1>1, <3>1
  <2> QED
    BY <1>1, <2>1, Ends DEF Whole, Answered, Told, Untouched, Dir
<1> QED
  BY <1>3, <1>4, <1>5, <1>6, <1>7, <1>8, <1>9 DEF PInv, Shape

\* Every step keeps each part of the invariant.
LEMMA StepPInv ==
  ASSUME IInv, PInv, [Next]_vars
  PROVE  PInv'
<1>1. Shape'
  BY LeftStep, ShutStep, ExactStep, CopyingStep DEF Shape
<1> QED
  BY <1>1, TrustedStep, ExcusedStep, WholeStep, ThroughStep, AnsweredStep, ToldStep,
     UntouchedStep DEF PInv

\* Both invariants hold in every reachable state.
THEOREM PipesInvariant == Spec => [](IInv /\ PInv)
<1>1. Init => IInv /\ PInv
  BY InitIInv, InitPInv
<1>2. IInv /\ PInv /\ [Next]_vars => (IInv /\ PInv)'
  BY StepIInv, StepPInv
<1> QED
  BY <1>1, <1>2, PTL DEF Spec

-----------------------------------------------------------------------------
(* Each direction is a Pipe *)

\* The steps of a Pipe, as a direction takes them.
Yields(d) ==
    /\ src[d] = "open" /\ sent'[d] = sent[d] + 1
    /\ got'[d] = got[d] /\ src'[d] = src[d] /\ snk'[d] = snk[d] /\ (Cut(d)' <=> Cut(d))

Delivers(d) ==
    /\ snk[d] = "open" /\ got[d] < sent[d] /\ got'[d] = got[d] + 1
    /\ sent'[d] = sent[d] /\ src'[d] = src[d] /\ snk'[d] = snk[d] /\ (Cut(d)' <=> Cut(d))

SourceEnds(d) ==
    /\ src[d] = "open" /\ src'[d] \in {"eof", "broken"} /\ (Cut(d) => Cut(d)')
    /\ sent'[d] = sent[d] /\ got'[d] = got[d] /\ snk'[d] = snk[d]

SinkChanges(d) ==
    /\ snk[d] \in {"open", "stalled"} /\ snk'[d] \in {"open", "stalled", "gone"}
    /\ sent'[d] = sent[d] /\ got'[d] = got[d] /\ src'[d] = src[d] /\ (Cut(d)' <=> Cut(d))

SinkEnds(d) ==
    /\ snk[d] \in {"open", "stalled"} /\ snk'[d] = "eof"
    /\ (src[d] = "eof" /\ got[d] = sent[d]) \/ Cut(d)
    /\ sent'[d] = sent[d] /\ got'[d] = got[d] /\ src'[d] = src[d] /\ (Cut(d)' <=> Cut(d))

Replaces(d) ==
    /\ snk[d] \in {"open", "stalled"} /\ snk'[d] = "text"
    /\ Cut(d) /\ got[d] = 0
    /\ sent'[d] = sent[d] /\ got'[d] = got[d] /\ src'[d] = src[d] /\ (Cut(d)' <=> Cut(d))

Stays(d) ==
    /\ sent'[d] = sent[d] /\ got'[d] = got[d] /\ src'[d] = src[d] /\ snk'[d] = snk[d]
    /\ Cut(d) => Cut(d)'

Moves(d) ==
    \/ Yields(d) \/ Delivers(d) \/ SourceEnds(d)
    \/ SinkChanges(d) \/ SinkEnds(d) \/ Replaces(d) \/ Stays(d)

\* A direction is cut by what cuts both, or by its source.
LEMMA CutIs ==
  ASSUME NEW d
  PROVE  Cut(d) <=> Hard \/ src[d] = "broken"
BY DEF Cut, Hard, Bad

\* What is cut stays so.
LEMMA CutKept ==
  ASSUME IInv, PInv, [Next]_vars, NEW d, src'[d] = src[d]
  PROVE  Cut(d) => Cut(d)'
<1>1. Cut(d) <=> Hard \/ src[d] = "broken"
  BY CutIs
<1>2. Cut(d)' <=> Hard' \/ src'[d] = "broken"
  BY DEF Cut, Hard, Bad
<1> QED
  BY <1>1, <1>2, HardKept

\* Nothing is cut by a step that leaves these alone.
LEMMA CutSame ==
  ASSUME UNCHANGED <<lost, kind, did, stop>>, NEW d, src'[d] = src[d]
  PROVE  Cut(d)' <=> Cut(d)
BY DEF Cut

\* As a value, it does not change, or becomes TRUE.
LEMMA CutValue ==
  ASSUME NEW d
  PROVE  /\ (Cut(d)' <=> Cut(d)) => Cut(d)' = Cut(d)
         /\ (Cut(d) => Cut(d)') => Cut(d)' = Cut(d) \/ (~Cut(d) /\ Cut(d)' = TRUE)
<1>1. Cut(d) \in BOOLEAN /\ Cut(d)' \in BOOLEAN
  BY DEF Cut
<1>2. ASSUME NEW b \in BOOLEAN, NEW c \in BOOLEAN
      PROVE  ((c <=> b) => c = b) /\ ((b => c) => c = b \/ (~b /\ c = TRUE))
  BY <1>2
<1> QED
  BY <1>1, <1>2

\* A stream that ends while someone copies it was whole.
LEMMA EndedWhole ==
  ASSUME IInv, PInv, NEW d \in Dir, rd[d] = "copy", AtEnd(d), ~Cut(d), snk[d] # "gone"
  PROVE  src[d] = "eof" /\ got[d] = sent[d]
<1>1. ~Hard /\ src[d] # "broken"
  BY CutIs
<1>2. wr[d] = "shut" /\ d \in Carries[kind]
  BY DEF PInv, Shape, Shut, AtEnd
<1>3. ~(kind = "tcp" /\ Early("task"))
  <2> SUFFICES ASSUME kind = "tcp", Early("task") PROVE FALSE
    OBVIOUS
  <2>1. pc["handler"] <= 4
    <3>1. Reason
      BY <1>1, <1>2 DEF PInv, Excused, Reason
    <3> QED
      BY <3>1 DEF Reason
  <2>2. Complete(ReaderOf[d])
    <3>1. ~Body(ReaderOf[d], "handler")
      BY DEF Body
    <3>2. In[ReaderOf[d]] = d /\ ReaderOf[d] \in End
      BY Ends
    <3> QED
      BY <3>1, <3>2 DEF PInv, Shape, Copying
  <2>3. ReaderOf[d] = "handler"
    BY <2>2, Sides DEF Early
  <2>4. pc["handler"] = Len(Script("handler")) + 1 /\ Len(Script("handler")) = 4
    BY <2>2, <2>3, Longer DEF Complete
  <2>5. pc["handler"] \in 1..Len(Script("handler")) + 1
    BY Ends, Typed
  <2>6. Len(Script("handler")) + 1 = 5
    BY <2>4, <2>5, Four
  <2> QED
    BY <2>1, <2>4, <2>6
<1>4. Done(d)
  BY <1>1, <1>2, <1>3 DEF PInv, Whole
<1>5. flow[d] = <<>> /\ got[d] \in Nat
  BY Typed DEF AtEnd, Empty
<1> QED
  BY <1>1, <1>4, <1>5 DEF Done

\* The sink of an end that is dropped has got everything, too.
LEMMA DroppedWhole ==
  ASSUME IInv, PInv, NEW e \in End, phase[e] = "leaving",
         rd[In[e]] = "copy" \/ (e = "task" /\ kind \in {"read", "http"} /\ told = "ok"),
         ~(kind = "http" /\ e = "handler" /\ rd["up"] = "copy"),
         ~Cut(In[e]), snk[In[e]] \notin {"gone", "eof"}
  PROVE  src[In[e]] = "eof" /\ got[In[e]] = sent[In[e]]
<1>1. ~Hard /\ src[In[e]] # "broken"
  BY CutIs
<1>2. Gone(e) /\ In[e] \in Dir /\ "task" \in End
  BY Ends DEF Gone
<1>3. ASSUME Complete(e), In[e] \in Carries[kind]
      PROVE  rd[In[e]] = "shut" \/ (kind = "http" /\ e = "handler")
  BY <1>1, <1>2, <1>3 DEF PInv, Through
<1>4. CASE rd[In[e]] = "copy"
  <2>1. In[e] \in Carries[kind]
    BY <1>2, <1>4 DEF PInv, Shape, Shut
  <2>2. Complete(e) \/ Body(e, "handler")
    BY <1>4 DEF PInv, Shape, Copying
  <2>3. ~(kind = "http" /\ e = "handler")
    BY <1>4, Sides
  <2> QED
    BY <1>3, <1>4, <2>1, <2>2, <2>3 DEF Body
<1>5. CASE rd[In[e]] # "copy"
  <2>1. e = "task" /\ kind \in {"read", "http"} /\ told = "ok" /\ In[e] = "down"
    BY <1>5, Sides
  <2>2. "down" \in Carries[kind]
    BY <1>2, <2>1, Longer, HttpScripts
  <2>3. rd["down"] = "shut"
    <3> SUFFICES ASSUME rd["down"] = "own" PROVE FALSE
      BY <1>2, <1>5, <2>1, Typed
    <3>1. ~Complete("task")
      BY <1>2, <2>1, <2>2 DEF PInv, Shape, Copying
    <3>2. Early("task")
      BY <1>2, <2>1, <3>1 DEF Early
    <3>3. Reason
      BY <1>1, <2>2, <3>2 DEF PInv, Excused, Reason
    <3>4. kind = "http" /\ pc["task"] = 4
      BY <2>1, <3>3 DEF Reason
    <3>5. pc["task"] >= 5
      BY <2>1, <3>4 DEF PInv, Told
    <3> QED
      BY <3>4, <3>5
  <2>4. Done("down") /\ flow["down"] = <<>>
    BY <1>1, <2>1, <2>3 DEF PInv, Answered
  <2>5. got["down"] \in Nat
    BY <1>2, <2>1, Typed
  <2> QED
    BY <1>1, <2>1, <2>4, <2>5 DEF Done
<1> QED
  BY <1>4, <1>5

\* The end of a stream ends its sink.
LEMMA EndMoves ==
  ASSUME IInv, PInv, [Next]_vars, NEW d \in Dir, PushEnd(d)
  PROVE  Moves(d)
<1>1. /\ rd[d] = "copy" /\ (AtEnd(d) \/ Dry(d))
      /\ UNCHANGED <<lost, kind, did, stop, src, sent, got>>
      /\ snk' = [snk EXCEPT ![d] = IF @ = "gone" \/ Response(d) THEN @
                                   ELSE IF kind = "http" /\ Dry(d) THEN "gone" ELSE "eof"]
  BY DEF PushEnd, Release
<1>2. snk \in [Dir -> {"open", "stalled", "gone", "eof", "text"}] /\ snk[d] \notin {"eof", "text"}
  BY <1>1, Typed DEF PInv, Shape, Shut
<1>3. Cut(d)' <=> Cut(d)
  BY <1>1, CutSame
<1>4. CASE snk'[d] = snk[d]
  BY <1>1, <1>3, <1>4 DEF Moves, Stays
<1>5. CASE snk[d] # "gone" /\ snk'[d] = "gone"
  BY <1>1, <1>2, <1>3, <1>5 DEF Moves, SinkChanges
<1>6. CASE snk[d] # "gone" /\ snk'[d] = "eof"
  <2>1. (src[d] = "eof" /\ got[d] = sent[d]) \/ Cut(d)
    <3>1. CASE AtEnd(d)
      BY <1>1, <1>6, <3>1, EndedWhole
    <3>2. CASE Dry(d)
      BY <3>2 DEF Dry, Cut
    <3> QED
      BY <1>1, <3>1, <3>2
  <2> QED
    BY <1>1, <1>2, <1>3, <1>6, <2>1 DEF Moves, SinkEnds
<1> QED
  BY <1>1, <1>2, <1>4, <1>5, <1>6

\* An end that is dropped ends its sink.
LEMMA LeaveMoves ==
  ASSUME IInv, PInv, [Next]_vars, NEW d \in Dir, NEW e \in End, Leave(e)
  PROVE  Moves(d)
<1> DEFINE body == kind = "http" /\ e = "handler" /\ rd["up"] = "copy"
           closes == rd[In[e]] = "copy" \/ (e = "task" /\ kind \in {"read", "http"} /\ told = "ok")
<1>1. /\ phase[e] = "leaving"
      /\ UNCHANGED <<lost, kind, did, stop, src, sent, got>>
      /\ \/ snk' = snk
         \/ snk' = [snk EXCEPT ![In[e]] = IF ~closes \/ @ \notin {"open", "stalled"} THEN @
                                          ELSE IF body THEN "gone" ELSE Ending(e)]
  BY DEF Leave, Release
<1>2. snk \in [Dir -> {"open", "stalled", "gone", "eof", "text"}] /\ In[e] \in Dir
  BY Typed, Ends
<1>3. Cut(d)' <=> Cut(d)
  BY <1>1, CutSame
<1>4. CASE snk'[d] = snk[d]
  BY <1>1, <1>3, <1>4 DEF Moves, Stays
<1>5. CASE snk'[d] # snk[d]
  <2>1. /\ d = In[e] /\ closes /\ snk[d] \in {"open", "stalled"}
        /\ snk'[d] = IF body THEN "gone" ELSE Ending(e)
    BY <1>1, <1>2, <1>5
  <2>2. CASE body
    BY <1>1, <1>3, <2>1, <2>2 DEF Moves, SinkChanges
  <2>3. CASE ~body /\ snk'[d] = "eof"
    <3>1. (src[d] = "eof" /\ got[d] = sent[d]) \/ Cut(d)
      BY <1>1, <2>1, <2>3, DroppedWhole
    <3> QED
      BY <1>1, <1>3, <2>1, <2>3, <3>1 DEF Moves, SinkEnds
  <2>4. CASE ~body /\ snk'[d] = "text"
    <3>1. e = "task" /\ d = "down" /\ kind = "read" /\ pc["task"] = Len(Script("task"))
      BY <2>1, <2>4, Sides DEF Ending
    <3>2. ~Complete("task") /\ Early("task")
      <4>1. Len(Script("task")) \in Nat
        BY <1>1, <3>1, Typed
      <4> QED
        BY <1>1, <3>1, <4>1 DEF Complete, Early, Gone
    <3>3. got[d] = 0
      BY <3>1, <3>2 DEF PInv, Untouched
    <3>4. Cut(d)
      <4>1. Carries[kind] # {}
        BY <3>1 DEF Carries
      <4>2. ~Hard => snk["down"] = "gone"
        BY <3>1, <3>2, <4>1 DEF PInv, Excused
      <4> QED
        BY <2>1, <3>1, <4>2, CutIs
    <3> QED
      BY <1>1, <1>3, <2>1, <2>4, <3>3, <3>4 DEF Moves, Replaces
  <2> QED
    BY <2>1, <2>2, <2>3, <2>4 DEF Ending
<1> QED
  BY <1>4, <1>5

\* Sources and sinks.
LEMMA EnvironmentMoves ==
  ASSUME IInv, PInv, [Next]_vars, NEW d \in Dir, NEW o \in Dir,
         \/ Source(o, "eof") \/ Source(o, "broken")
         \/ Sink(o, "open") \/ Sink(o, "stalled") \/ Sink(o, "gone")
  PROVE  Moves(d)
<1>1. /\ snk \in [Dir -> {"open", "stalled", "gone", "eof", "text"}]
      /\ src \in [Dir -> {"open", "eof", "broken"}]
  BY Typed
<1>2. ASSUME NEW s \in {"eof", "broken"}, Source(o, s) PROVE Moves(d)
  <2>1. /\ src[o] = "open" /\ src' = [src EXCEPT ![o] = s]
        /\ UNCHANGED <<lost, kind, did, stop, sent, got, snk>>
    BY <1>2 DEF Source, streamVars, endVars
  <2>2. CASE o = d
    <3>1. src[d] = "open" /\ src'[d] = s
      BY <1>1, <2>1, <2>2
    <3>2. Cut(d) => Cut(d)'
      BY <2>1, <3>1 DEF Cut
    <3> QED
      BY <2>1, <3>1, <3>2 DEF Moves, SourceEnds
  <2>3. CASE o # d
    <3>1. src'[d] = src[d]
      BY <1>1, <2>1, <2>3
    <3> QED
      BY <2>1, <3>1, CutKept DEF Moves, Stays
  <2> QED
    BY <2>2, <2>3
<1>3. ASSUME NEW s \in {"open", "stalled", "gone"}, Sink(o, s) PROVE Moves(d)
  <2>1. /\ snk[o] \in {"open", "stalled"} /\ snk' = [snk EXCEPT ![o] = s]
        /\ UNCHANGED <<lost, kind, did, stop, src, sent, got>>
    BY <1>3 DEF Sink, streamVars, endVars
  <2>2. Cut(d)' <=> Cut(d)
    BY <2>1, CutSame
  <2>3. CASE o = d
    <3>1. snk[d] \in {"open", "stalled"} /\ snk'[d] = s
      BY <1>1, <2>1, <2>3
    <3> QED
      BY <2>1, <2>2, <3>1 DEF Moves, SinkChanges
  <2>4. CASE o # d
    <3>1. snk'[d] = snk[d]
      BY <1>1, <2>1, <2>4
    <3> QED
      BY <2>1, <2>2, <3>1 DEF Moves, Stays
  <2> QED
    BY <2>3, <2>4
<1> QED
  BY <1>2, <1>3

\* Every step is one of the Pipe, or leaves it alone.
LEMMA StepMoves ==
  ASSUME IInv, PInv, [Next]_vars, NEW d \in Dir
  PROVE  Moves(d)
<1>1. ASSUME UNCHANGED <<src, sent, got, snk>> PROVE Moves(d)
  <2>1. Cut(d) => Cut(d)'
    BY <1>1, CutKept
  <2> QED
    BY <1>1, <2>1 DEF Moves, Stays
<1>2. ASSUME NEW e \in End, StartBody(e) \/ Advances(e) \/ Fails(e) PROVE Moves(d)
  <2>1. CASE StartBody(e)
    BY <1>1, <2>1, BodyStarts
  <2>2. CASE Advances(e) \/ Fails(e)
    BY <1>1, <2>2 DEF Advances, Fails, pipeVars
  <2> QED
    BY <1>2, <2>1, <2>2
<1>3. ASSUME NEW o \in Dir, Pull(o) PROVE Moves(d)
  <2>1. CASE o = d
    <3>1. /\ sent'[d] = sent[d] + 1 /\ src[d] = "open"
          /\ UNCHANGED <<lost, src, snk, got, kind, did, stop>>
      BY <1>3, <2>1, Pulled
    <3>2. Cut(d)' <=> Cut(d)
      BY <3>1, CutSame
    <3> QED
      BY <3>1, <3>2 DEF Moves, Yields
  <2>2. CASE o # d
    <3>1. sent'[d] = sent[d] /\ UNCHANGED <<src, snk, got>>
      BY <1>3, <2>2, Pulled
    <3> QED
      BY <3>1, CutKept DEF Moves, Stays
  <2> QED
    BY <2>1, <2>2
<1>4. ASSUME NEW o \in Dir, Push(o) PROVE Moves(d)
  <2>1. CASE o = d
    <3>1. /\ got'[d] = got[d] + 1 /\ snk[d] = "open" /\ Len(flow[d]) > 0
          /\ UNCHANGED <<lost, src, snk, sent, kind, did, stop>>
      BY <1>4, <2>1, Pushed
    <3>2. got[d] < sent[d]
      <4>1. got[d] + Len(flow[d]) <= sent[d]
        BY DEF IInv, TInv, Counted
      <4>2. got[d] \in Nat /\ sent[d] \in Nat /\ Len(flow[d]) \in Nat
        BY Typed
      <4> QED
        BY <3>1, <4>1, <4>2
    <3>3. Cut(d)' <=> Cut(d)
      BY <3>1, CutSame
    <3> QED
      BY <3>1, <3>2, <3>3 DEF Moves, Delivers
  <2>2. CASE o # d
    <3>1. got'[d] = got[d] /\ UNCHANGED <<src, snk, sent>>
      BY <1>4, <2>2, Pushed
    <3> QED
      BY <3>1, CutKept DEF Moves, Stays
  <2> QED
    BY <2>1, <2>2
<1>5. ASSUME NEW o \in Dir, PushEnd(o) PROVE Moves(d)
  <2>1. CASE o = d
    BY <1>5, <2>1, EndMoves
  <2>2. CASE o # d
    <3>1. /\ UNCHANGED <<src, sent, got>>
          /\ \E x : snk' = [snk EXCEPT ![o] = x]
      BY <1>5 DEF PushEnd
    <3>2. snk'[d] = snk[d]
      BY <2>2, <3>1, Typed
    <3> QED
      BY <3>1, <3>2, CutKept DEF Moves, Stays
  <2> QED
    BY <2>1, <2>2
<1>6. ASSUME NEW e \in End, Leave(e) PROVE Moves(d)
  BY <1>6, LeaveMoves
<1>7. ASSUME NEW o \in Dir,
             \/ Source(o, "eof") \/ Source(o, "broken")
             \/ Sink(o, "open") \/ Sink(o, "stalled") \/ Sink(o, "gone")
      PROVE  Moves(d)
  BY <1>7, EnvironmentMoves
<1>8. CASE Other
  <2>1. \/ UNCHANGED <<src, sent, got, snk>>
        \/ \E o \in Dir : \/ Pull(o) \/ Push(o) \/ PushEnd(o)
                          \/ Source(o, "eof") \/ Source(o, "broken")
                          \/ Sink(o, "open") \/ Sink(o, "stalled") \/ Sink(o, "gone")
        \/ \E e \in End : Leave(e)
    BY <1>8 DEF Other, Finish, Cancel, Stop, PullEnd, PushFail, CancelBody, AssociateClosed,
                ConnLost, vars, pipeVars
  <2> QED
    BY <1>1, <1>3, <1>4, <1>5, <1>6, <1>7, <2>1
<1> QED
  BY <1>2, <1>8, Steps

\* The same, as the instances of Pipe state it.
LEMMA UpMoves ==
  ASSUME IInv, PInv, [Next]_vars
  PROVE  [Up!Next]_(Up!vars)
<1>1. Moves("up")
  BY StepMoves, Ends
<1>0. /\ (Cut("up")' <=> Cut("up")) => Cut("up")' = Cut("up")
      /\ (Cut("up") => Cut("up")') =>
            Cut("up")' = Cut("up") \/ (~Cut("up") /\ Cut("up")' = TRUE)
  BY CutValue
<1>2. CASE Yields("up")
  BY <1>0, <1>2 DEF Yields, Up!Next, Up!Yield
<1>3. CASE Delivers("up")
  BY <1>0, <1>3 DEF Delivers, Up!Next, Up!Deliver
<1>4. CASE SourceEnds("up")
  BY <1>0, <1>4 DEF SourceEnds, Up!Next, Up!EndSource
<1>5. CASE SinkChanges("up")
  BY <1>0, <1>5 DEF SinkChanges, Up!Next, Up!Change
<1>6. CASE SinkEnds("up")
  BY <1>0, <1>6 DEF SinkEnds, Up!Next, Up!EndSink
<1>7. CASE Replaces("up")
  BY <1>0, <1>7 DEF Replaces, Up!Next, Up!Replace
<1>8. CASE Stays("up")
  BY <1>0, <1>8 DEF Stays, Up!Next, Up!Sever, Up!vars
<1> QED
  BY <1>1, <1>2, <1>3, <1>4, <1>5, <1>6, <1>8, <1>7 DEF Moves

\* The same for the other direction.
LEMMA DownMoves ==
  ASSUME IInv, PInv, [Next]_vars
  PROVE  [Down!Next]_(Down!vars)
<1>1. Moves("down")
  BY StepMoves, Ends
<1>0. /\ (Cut("down")' <=> Cut("down")) => Cut("down")' = Cut("down")
      /\ (Cut("down") => Cut("down")') =>
            Cut("down")' = Cut("down") \/ (~Cut("down") /\ Cut("down")' = TRUE)
  BY CutValue
<1>2. CASE Yields("down")
  BY <1>0, <1>2 DEF Yields, Down!Next, Down!Yield
<1>3. CASE Delivers("down")
  BY <1>0, <1>3 DEF Delivers, Down!Next, Down!Deliver
<1>4. CASE SourceEnds("down")
  BY <1>0, <1>4 DEF SourceEnds, Down!Next, Down!EndSource
<1>5. CASE SinkChanges("down")
  BY <1>0, <1>5 DEF SinkChanges, Down!Next, Down!Change
<1>6. CASE SinkEnds("down")
  BY <1>0, <1>6 DEF SinkEnds, Down!Next, Down!EndSink
<1>7. CASE Replaces("down")
  BY <1>0, <1>7 DEF Replaces, Down!Next, Down!Replace
<1>8. CASE Stays("down")
  BY <1>0, <1>8 DEF Stays, Down!Next, Down!Sever, Down!vars
<1> QED
  BY <1>1, <1>2, <1>3, <1>4, <1>5, <1>6, <1>8, <1>7 DEF Moves

\* Each direction of every command is a pipe: unless something cuts it, its sink
\* gets what its source has yielded, and its end when all of it is there.  Only
\* one that is cut may get an error's text instead, and then nothing else.
THEOREM PipesHold == Spec => Pipes
<1>1. Init => Up!Init /\ Down!Init
  BY Ends DEF Init, StreamInit, Up!Init, Down!Init, Cut
<1>2. IInv /\ PInv /\ [Next]_vars => [Up!Next]_(Up!vars) /\ [Down!Next]_(Down!vars)
  BY UpMoves, DownMoves
<1> QED
  BY <1>1, <1>2, PipesInvariant, PTL DEF Spec, Pipes, Up!Spec, Down!Spec

-----------------------------------------------------------------------------
(* The two ends never wait for each other *)

\* What a finished stream, an end that is over and one that copies look like.
Standing ==
    /\ \A d \in Dir : wr[d] = "shut" => fin[d] \/ lost \/ rd[d] = "shut"
    /\ \A e \in End : phase[e] = "over" => wr[Out[e]] # "own" /\ rd[In[e]] # "own"
    /\ \A e \in End : phase[e] = "relay" => Carries[kind] # {}
    /\ Bad => phase["handler"] # "relay"

\* Whoever shuts a stream finishes it, unless no one is there to read it.
LEMMA FinishedStep ==
  ASSUME IInv, PInv, Standing, [Next]_vars, NEW d \in Dir, wr'[d] = "shut"
  PROVE  fin'[d] \/ lost' \/ rd'[d] = "shut"
<1>1. wr[d] = "shut" => fin[d] \/ lost \/ rd[d] = "shut"
  BY DEF Standing
<1>2. ASSUME NEW e \in End, Advances(e) PROVE fin'[d] \/ lost' \/ rd'[d] = "shut"
  BY <1>1, <1>2, Onward DEF Advances
<1>3. ASSUME NEW e \in End, Fails(e) PROVE fin'[d] \/ lost' \/ rd'[d] = "shut"
  BY <1>1, <1>3 DEF Fails
<1>4. ASSUME NEW e \in End, StartBody(e) PROVE fin'[d] \/ lost' \/ rd'[d] = "shut"
  BY <1>1, <1>4, BodyStarts
<1>5. ASSUME NEW W, NEW R, Release(W, R) PROVE fin'[d] \/ lost' \/ rd'[d] = "shut"
  BY <1>1, <1>5, Releases DEF Refused
<1>6. CASE Other
  <2>1. \/ \E W, R : Release(W, R)
        \/ lost'
        \/ UNCHANGED <<lost, fin, wr, rd>>
    <3>1. ASSUME NEW e \in End, Finish(e) \/ Leave(e) \/ Cancel(e) \/ Stop(e)
          PROVE  (\E W, R : Release(W, R)) \/ UNCHANGED <<lost, fin, wr, rd>>
      BY <3>1 DEF Finish, Leave, Cancel, Stop, streamVars, wireVars
    <3>2. ASSUME NEW o \in Dir, Pull(o) \/ PullEnd(o) \/ Push(o) \/ PushFail(o) \/ PushEnd(o)
          PROVE  (\E W, R : Release(W, R)) \/ UNCHANGED <<lost, fin, wr, rd>>
      BY <3>2 DEF Pull, PullEnd, Push, PushFail, PushEnd, SendChunk, TakeChunk
    <3>3. ASSUME NEW o \in Dir, NEW x, Source(o, x) \/ Sink(o, x)
          PROVE  UNCHANGED <<lost, fin, wr, rd>>
      BY <3>3 DEF Source, Sink, streamVars, wireVars
    <3>4. CancelBody \/ AssociateClosed \/ ConnLost \/ UNCHANGED vars =>
            (\E W, R : Release(W, R)) \/ lost' \/ UNCHANGED <<lost, fin, wr, rd>>
      BY DEF CancelBody, AssociateClosed, ConnLost, Lose, vars, streamVars, wireVars
    <3> QED
      BY <1>6, <3>1, <3>2, <3>3, <3>4 DEF Other
  <2> QED
    BY <1>1, <1>5, <2>1
<1> QED
  BY <1>2, <1>3, <1>4, <1>6, Steps

\* Only Leave ends an end, and it drops the halves that are not in a copy.
LEMMA OverStep ==
  ASSUME IInv, PInv, Standing, [Next]_vars, NEW e \in End, phase'[e] = "over"
  PROVE  wr'[Out[e]] # "own" /\ rd'[In[e]] # "own"
<1> USE Ends
<1>1. phase[e] = "over" => wr[Out[e]] # "own" /\ rd[In[e]] # "own"
  BY DEF Standing
<1>2. ASSUME NEW x \in End, Advances(x) PROVE wr'[Out[e]] # "own" /\ rd'[In[e]] # "own"
  <2>1. phase[e] = "over"
    BY <1>2, Onward DEF Advances
  <2> QED
    BY <1>1, <1>2, <2>1, Onward DEF Advances
<1>3. ASSUME NEW x \in End, Fails(x) PROVE wr'[Out[e]] # "own" /\ rd'[In[e]] # "own"
  BY <1>1, <1>3, Leaving DEF Fails
<1>4. ASSUME NEW x \in End, StartBody(x) PROVE wr'[Out[e]] # "own" /\ rd'[In[e]] # "own"
  BY <1>1, <1>4, BodyStarts
<1>5. CASE Other /\ phase[e] = "over"
  BY <1>1, <1>5, RestStep DEF Rest
<1>6. CASE Other /\ phase[e] # "over"
  <2>1. Leave(e)
    <3>1. \A x \in End : ~Fail(x)
      BY <1>6, Leaving
    <3>2. phase' # phase
      BY <1>6
    <3>3. \A x \in End : Leave(x) => x = e
      BY <1>6, Typed DEF Leave
    <3> QED
      BY <1>6, <3>1, <3>2, <3>3 DEF Other, Finish, Cancel, Stop, Pull, PullEnd, Push, PushFail, PushEnd,
         CancelBody, AssociateClosed, ConnLost, Source, Sink, vars, endVars
  <2>2. PICK W, R :
          /\ Release(W, R)
          /\ Out[e] \in W \/ wr[Out[e]] = "copy"
          /\ In[e] \in R \/ rd[In[e]] = "copy"
    <3> DEFINE body == kind = "http" /\ e = "handler" /\ rd["up"] = "copy"
               W0 == IF kind = "http" /\ wr[Out[e]] = "copy" /\ e = "task" THEN {} ELSE {Out[e]}
    <3>1. (body /\ Release(W0, {})) \/ Release(W0, {In[e]})
      BY <2>1 DEF Leave
    <3>2. Out[e] \in W0 \/ wr[Out[e]] = "copy"
      OBVIOUS
    <3>3. body => rd[In[e]] = "copy"
      BY Sides
    <3>4. In[e] \in {In[e]}
      OBVIOUS
    <3> HIDE DEF body, W0
    <3> QED
      BY <3>1, <3>2, <3>3, <3>4
  <2> QED
    BY <2>2, Releases
<1> QED
  BY <1>2, <1>3, <1>4, <1>5, <1>6, Steps

\* Nothing is finished, over or copied at first.
LEMMA InitStanding == Init => Standing
<1> SUFFICES ASSUME Init PROVE Standing
  OBVIOUS
<1>1. /\ \A d \in Dir : wr[d] = "own"
      /\ \A e \in End : phase[e] = "talk"
      /\ did = "none"
  BY DEF Init, StreamInit
<1> QED
  BY <1>1, Ends DEF Standing, Bad

\* Only bytes are copied, and a handler that fails copies none.
LEMMA StandingStep ==
  ASSUME IInv, PInv, Standing, [Next]_vars
  PROVE  Standing'
<1> USE Ends
<1>1. kind' = kind
  BY KindKept
<1>2. ASSUME NEW e \in End, phase'[e] = "relay" PROVE Carries[kind] # {}
  <2>1. phase[e] = "relay" => Carries[kind] # {}
    BY DEF Standing
  <2>2. ASSUME NEW x \in End, Advances(x) PROVE Carries[kind] # {}
    BY <1>2, <2>1, <2>2, Onward DEF Advances
  <2>3. ASSUME NEW x \in End, Fails(x) PROVE Carries[kind] # {}
    BY <1>2, <2>1, <2>3, Leaving DEF Fails
  <2>4. ASSUME NEW x \in End, StartBody(x) PROVE Carries[kind] # {}
    BY <1>2, <2>1, <2>4, BodyStarts
  <2>5. CASE Other
    BY <1>2, <2>1, <2>5, RestStep DEF Rest
  <2> QED
    BY <2>2, <2>3, <2>4, <2>5, Steps
<1>3. Bad' => phase'["handler"] # "relay"
  <2>1. Bad => phase["handler"] \notin {"talk", "relay"}
    BY DEF Standing, PInv, Shape, Left
  <2>2. ASSUME NEW x \in End, Advances(x), Bad' PROVE phase'["handler"] # "relay"
    <3>1. CASE x = "handler"
      <4>1. kind = "delete"
        BY <2>1, <2>2, <3>1 DEF Advances, Bad
      <4> QED
        BY <2>2, <3>1, <4>1, Onward DEF Advances, Carries
    <3>2. CASE x # "handler"
      BY <2>1, <2>2, <3>2, Onward DEF Advances, Bad
    <3> QED
      BY <3>1, <3>2
  <2>3. ASSUME NEW x \in End, Fails(x), Bad' PROVE phase'["handler"] # "relay"
    <3>1. CASE x = "handler"
      BY <2>3, <3>1, Leaving DEF Fails
    <3>2. CASE x # "handler"
      BY <2>1, <2>3, <3>2, Leaving DEF Fails, Bad
    <3> QED
      BY <3>1, <3>2
  <2>4. ASSUME NEW x \in End, StartBody(x), Bad' PROVE phase'["handler"] # "relay"
    BY <2>1, <2>4, BodyStarts DEF Bad
  <2>5. CASE Other
    BY <2>1, <2>5, RestStep DEF Rest, Bad
  <2> QED
    BY <2>2, <2>3, <2>4, <2>5, Steps
<1>4. \A d \in Dir : wr'[d] = "shut" => fin'[d] \/ lost' \/ rd'[d] = "shut"
  BY FinishedStep
<1>5. \A e \in End : phase'[e] = "over" => wr'[Out[e]] # "own" /\ rd'[In[e]] # "own"
  BY OverStep
<1> QED
  BY <1>1, <1>2, <1>3, <1>4, <1>5 DEF Standing

\* What end e has read and written where script S reads or writes: a task writes
\* before it reads and a handler reads before it writes, and where a task reads
\* again the handler is not yet to read, or has read.
Turns(S, R, W, e) ==
    \A i \in 1..Len(S) :
        /\ e = "task" =>
            /\ S[i][1] \in {"write", "read", "wait", "start"}
            /\ S[i][1] = "write" => W[i] <= 1
            /\ S[i][1] = "read" => W[i] >= 1 /\ (R[i] <= 1 \/ W[i] = 2)
        /\ e = "handler" =>
            /\ S[i][1] \in {"write", "read", "answer", "start"}
            /\ S[i][1] = "read" => R[i] = 0 \/ (R[i] = 1 /\ W[i] = 2)
            /\ S[i][1] \in {"write", "answer"} => R[i] >= 1

\* The scripts take turns.
LEMMA ScriptsTakeTurns ==
  ASSUME NEW k \in DOMAIN Carries
  PROVE  /\ Turns(TaskScript[k], ReadsAt["task"][k], WritesAt["task"][k], "task")
         /\ Turns(HandlerScript[k], ReadsAt["handler"][k], WritesAt["handler"][k], "handler")
<1>1. CASE k = "ping"
  <2>1. Is(TaskScript[k], <<<<"write", "cmd">>, <<"read", "ack">>>>)
    BY <1>1, Spelled DEF TaskScript
  <2>2. Turns(TaskScript[k], <<0, 0, 1>>, <<0, 1, 1>>, "task")
    BY <2>1 DEF Is, Turns
  <2>3. Is(HandlerScript[k], <<<<"read", "cmd">>, <<"write", "ack">>>>)
    BY <1>1, Spelled DEF HandlerScript
  <2>4. Turns(HandlerScript[k], <<0, 1, 1>>, <<0, 0, 1>>, "handler")
    BY <2>3 DEF Is, Turns
  <2> QED
    BY <1>1, <2>2, <2>4 DEF ReadsAt, WritesAt
<1>2. CASE k = "delete"
  <2>1. Is(TaskScript[k], <<<<"write", "cmd">>, <<"read", "ack">>>>)
    BY <1>2, Spelled DEF TaskScript
  <2>2. Turns(TaskScript[k], <<0, 0, 1>>, <<0, 1, 1>>, "task")
    BY <2>1 DEF Is, Turns
  <2>3. Is(HandlerScript[k], <<<<"read", "cmd">>, <<"write", "ack">>, <<"answer", "ack">>>>)
    BY <1>2, Spelled DEF HandlerScript
  <2>4. Turns(HandlerScript[k], <<0, 1, 1, 1>>, <<0, 0, 1, 2>>, "handler")
    BY <2>3 DEF Is, Turns
  <2> QED
    BY <1>2, <2>2, <2>4 DEF ReadsAt, WritesAt
<1>3. CASE k = "list"
  <2>1. Is(TaskScript[k], <<<<"write", "cmd">>, <<"read", "ack">>, <<"read", "list">>>>)
    BY <1>3, Spelled DEF TaskScript
  <2>2. Turns(TaskScript[k], <<0, 0, 1, 2>>, <<0, 1, 1, 1>>, "task")
    BY <2>1 DEF Is, Turns
  <2>3. Is(HandlerScript[k], <<<<"read", "cmd">>, <<"write", "ack">>, <<"answer", "list">>>>)
    BY <1>3, Spelled DEF HandlerScript
  <2>4. Turns(HandlerScript[k], <<0, 1, 1, 1>>, <<0, 0, 1, 2>>, "handler")
    BY <2>3 DEF Is, Turns
  <2> QED
    BY <1>3, <2>2, <2>4 DEF ReadsAt, WritesAt
<1>4. CASE k = "read"
  <2>1. Is(TaskScript[k], <<<<"write", "cmd">>, <<"read", "ack">>, <<"read", "meta">>,
                            <<"wait", "caller">>, <<"write", "ack">>, <<"read", "ack">>>>)
    BY <1>4, Spelled DEF TaskScript
  <2>2. Turns(TaskScript[k], <<0, 0, 1, 2, 2, 2, 3>>, <<0, 1, 1, 1, 1, 2, 2>>, "task")
    BY <2>1 DEF Is, Turns
  <2>3. Is(HandlerScript[k], <<<<"read", "cmd">>, <<"write", "ack">>, <<"answer", "meta">>,
                               <<"read", "ack">>, <<"answer", "ack">>>>)
    BY <1>4, Spelled DEF HandlerScript
  <2>4. Turns(HandlerScript[k], <<0, 1, 1, 1, 2, 2>>, <<0, 0, 1, 2, 2, 3>>, "handler")
    BY <2>3 DEF Is, Turns
  <2> QED
    BY <1>4, <2>2, <2>4 DEF ReadsAt, WritesAt
<1>5. CASE k = "http"
  <2>1. Is(TaskScript[k], <<<<"write", "cmd">>, <<"read", "ack">>, <<"start", "body">>,
                            <<"read", "resp">>>>)
    BY <1>5, Spelled DEF TaskScript
  <2>2. Turns(TaskScript[k], <<0, 0, 1, 1, 2>>, <<0, 1, 1, 1, 1>>, "task")
    BY <2>1 DEF Is, Turns
  <2>3. Is(HandlerScript[k], <<<<"read", "cmd">>, <<"answer", "ack">>, <<"start", "body">>,
                               <<"answer", "resp">>>>)
    BY <1>5, Spelled DEF HandlerScript
  <2>4. Turns(HandlerScript[k], <<0, 1, 1, 1, 1>>, <<0, 0, 1, 1, 2>>, "handler")
    BY <2>3 DEF Is, Turns
  <2> QED
    BY <1>5, <2>2, <2>4 DEF ReadsAt, WritesAt
<1>6. CASE k \in {"tcp", "udp"}
  <2>1. Is(TaskScript[k], <<<<"write", "cmd">>, <<"read", "ack">>, <<"read", "addr">>,
                            <<"wait", "caller">>, <<"write", "ack">>>>)
    BY <1>6, Spelled DEF TaskScript
  <2>2. Turns(TaskScript[k], <<0, 0, 1, 2, 2, 2>>, <<0, 1, 1, 1, 1, 2>>, "task")
    BY <2>1 DEF Is, Turns
  <2>3. Is(HandlerScript[k], <<<<"read", "cmd">>, <<"write", "ack">>, <<"answer", "addr">>,
                               <<"read", "ack">>>>)
    BY <1>6, Spelled DEF HandlerScript, UdpHandler
  <2>4. Turns(HandlerScript[k], <<0, 1, 1, 1, 2>>, <<0, 0, 1, 2, 2>>, "handler")
    BY <2>3 DEF Is, Turns
  <2>5. CASE k = "tcp"
    BY <2>2, <2>4, <2>5 DEF ReadsAt, WritesAt
  <2>6. CASE k = "udp"
    BY <2>2, <2>4, <2>6 DEF ReadsAt, WritesAt
  <2> QED
    BY <1>6, <2>5, <2>6
<1> QED
  BY <1>1, <1>2, <1>3, <1>4, <1>5, <1>6 DEF Carries

\* Where the ends are when they read or write.
LEMMA TakeTurns ==
  ASSUME IInv, NEW e \in End, phase[e] = "talk"
  PROVE  /\ At(e, "write") \/ At(e, "answer") \/ At(e, "read") \/ At(e, "start") \/ At(e, "wait")
         /\ e = "task" =>
              /\ ~At(e, "answer")
              /\ At(e, "write") => Written(e) <= 1
              /\ At(e, "read") => Written(e) >= 1 /\ (Heard(e) <= 1 \/ Written(e) = 2)
         /\ e = "handler" =>
              /\ At(e, "read") => Heard(e) = 0 \/ (Heard(e) = 1 /\ Written(e) = 2)
              /\ At(e, "write") \/ At(e, "answer") => Heard(e) >= 1
<1>1. kind \in DOMAIN Carries
  BY CommandAssumption DEF IInv, TInv, EndTypes
<1>2. Turns(Script(e), ReadsAt[e][kind], WritesAt[e][kind], e)
  BY <1>1, ScriptsTakeTurns, Sides DEF Script
<1>3. pc[e] \in 1..Len(Script(e))
  BY NextStep DEF IInv, TInv
<1> QED
  BY <1>2, <1>3, Sides DEF Turns, At, Heard, Written

\* What is under way to who still reads, and how far the writer is.
LEMMA UnderWay ==
  ASSUME IInv, NEW e \in End, NEW o \in End \ {e}, Out[e] = In[o],
         phase[o] = "talk" \/ rd[In[o]] = "copy"
  PROVE  /\ say[Out[e]] \in Seq(Message) /\ flow[Out[e]] \in Seq(Chunk)
         /\ Len(Msgs[Out[e]][kind]) \in Nat /\ Heard(o) \in Nat /\ Written(e) \in Nat
         /\ Heard(o) + Len(say[Out[e]]) <= Len(Msgs[Out[e]][kind])
         /\ phase[e] = "talk" => Heard(o) + Len(say[Out[e]]) <= Written(e)
         /\ ~lost => Heard(o) + Len(say[Out[e]]) >= Written(e)
         /\ flow[Out[e]] # <<>> => Heard(o) + Len(say[Out[e]]) >= Len(Msgs[Out[e]][kind])
         /\ wr[Out[e]] = "copy" => Written(e) = Len(Msgs[Out[e]][kind])
         /\ rd[Out[e]] = "copy" => Heard(o) = Len(Msgs[Out[e]][kind])
<1>1. Out[e] \in Dir /\ WriterOf[Out[e]] = e /\ ReaderOf[Out[e]] = o
  BY Ends
<1>2. Agreed(Out[e])
  BY <1>1 DEF IInv, AInv
<1>3. Msgs[Out[e]][kind] \in Seq(Message)
  BY Places DEF IInv, TInv
<1>4. Agrees(wr[Out[e]], rd[Out[e]], Written(e), Heard(o), Msgs[Out[e]][kind], phase[e], phase[o],
             Conn, say[Out[e]], flow[Out[e]])
  BY <1>1, <1>2 DEF Agreed
<1>5. /\ say[Out[e]] \in Seq(Message) /\ flow[Out[e]] \in Seq(Chunk)
      /\ Len(Msgs[Out[e]][kind]) \in Nat /\ Heard(o) \in Nat /\ Written(e) \in Nat
  <2>1. say[Out[e]] \in Seq(Message) /\ flow[Out[e]] \in Seq(Chunk)
    BY <1>1, Typed
  <2>2. Len(Msgs[Out[e]][kind]) \in Nat
    BY <1>3
  <2>3. Heard(o) \in Nat /\ Written(e) \in Nat
    BY PlaceTypes
  <2> QED
    BY <2>1, <2>2, <2>3
<1>6. ~lost => Conn = "live"
  BY DEF Conn
<1> HIDE DEF Conn
<1> QED
  BY <1>4, <1>5, <1>6 DEF Agrees

\* A copy goes on unless its sink takes nothing, or nothing has come.
LEMMA CopyReads ==
  ASSUME IInv, PInv, ~Goes, NEW e \in End, rd[In[e]] = "copy"
  PROVE  snk[In[e]] = "stalled" \/ (Empty(In[e]) /\ ~fin[In[e]] /\ ~lost)
<1> DEFINE d == In[e]
<1>1. d \in Dir
  BY Ends
<1>2. PICK o \in End \ {e} : Out[o] = d
  BY Peers
<1>3. Heard(e) + Len(say[d]) <= Len(Msgs[d][kind]) /\ Heard(e) = Len(Msgs[d][kind])
      /\ Len(Msgs[d][kind]) \in Nat /\ say[d] \in Seq(Message)
  BY <1>2, UnderWay
<1>4. say[d] = <<>>
  <2>1. Len(say[d]) \in Nat /\ Heard(e) \in Nat
    BY <1>3
  <2>2. \A a, b, c \in Nat : a + b <= c /\ a = c => b = 0
    OBVIOUS
  <2>3. Len(say[d]) = 0
    BY <1>3, <2>1, <2>2, Zenon
  <2> QED
    BY <1>3, <2>3
<1>5. CASE flow[d] # <<>>
  <2>1. HasChunk(d)
    BY <1>4, <1>5 DEF HasChunk
  <2>2. snk[d] \notin {"eof", "text"}
    BY <1>1 DEF PInv, Shape, Shut
  <2>3. snk[d] \notin {"open", "gone"}
    BY <1>1, <2>1 DEF Goes, CopyGoes
  <2> QED
    BY <1>1, <2>2, <2>3, Typed
<1>6. CASE flow[d] = <<>>
  <2>1. ~AtEnd(d) /\ ~Dry(d)
    BY <1>1 DEF Goes, CopyGoes
  <2> QED
    BY <1>4, <1>6, <2>1 DEF AtEnd, Dry, Empty
<1> QED
  BY <1>5, <1>6

\* Who is held up by a full stream talks to one that still has to read what it
\* has written.
LEMMA FullWindow ==
  ASSUME IInv, PInv, Standing, ~Goes, ~Asked, NEW e \in End, NEW o \in End \ {e},
         Out[e] = In[o], In[e] = Out[o], phase[e] = "talk", At(e, "write") \/ At(e, "answer")
  PROVE  phase[o] = "talk" /\ ~Empty(In[o]) /\ Heard(o) < Written(e)
<1> DEFINE d == Out[e]
<1>1. d \in Dir /\ WriterOf[d] = e /\ ReaderOf[d] = o
  BY Ends
<1>2. ~Room(d) /\ ~Refused(d)
  <2>1. At(e, "answer") => e = "handler"
    BY TakeTurns, Sides
  <2> QED
    BY <2>1 DEF Goes, EndGoes, Asked
<1>3. ~lost /\ rd[d] # "shut"
  BY <1>2 DEF Refused
<1>4. Written(e) \in Nat /\ Written(e) < Len(Msgs[d][kind])
  <2>1. WrittenNext(e) \in 0..Len(Msgs[d][kind]) /\ WrittenNext(e) = Written(e) + 1
        /\ Written(e) \in Nat
    BY Place
  <2>2. Msgs[d][kind] \in Seq(Message)
    BY Places DEF IInv, TInv
  <2> QED
    BY <2>1, <2>2
<1>5. phase[o] = "talk"
  <2>1. phase[o] # "leaving"
    BY DEF Goes, EndGoes
  <2>2. ASSUME rd[d] = "copy" PROVE FALSE
    BY <1>4, <2>2, UnderWay
  <2>3. ASSUME phase[o] = "over" PROVE FALSE
    BY <1>1, <1>3, <2>2, <2>3, Typed DEF Standing
  <2>4. ASSUME phase[o] = "relay" PROVE FALSE
    <3>1. Complete(o) /\ Carries[kind] # {}
      BY <2>4 DEF PInv, Shape, Left, Standing
    <3>2. Heard(o) = Len(Msgs[d][kind])
      BY <3>1, AllDone
    <3>3. CASE o = "handler"
      <4>1. ~Bad
        BY <2>4, <3>3 DEF Standing
      <4>2. Heard(o) + Len(say[d]) <= Written(e)
        BY <1>1, <4>1 DEF PInv, Trusted
      <4>3. Heard(o) \in Nat /\ Len(say[d]) \in Nat
        BY <1>1, PlaceTypes, Typed
      <4>4. \A a, b, w, n \in Nat : a + b <= w /\ w < n => a # n
        OBVIOUS
      <4>5. Len(Msgs[d][kind]) \in Nat
        BY Places DEF IInv, TInv
      <4> QED
        BY <1>4, <3>2, <4>2, <4>3, <4>4, <4>5, Zenon
    <3>4. CASE o = "task"
      <4>1. d = "down" /\ d \in Carries[kind]
        <5>1. d = "down"
          BY <3>4, Sides
        <5>2. kind \in {"ping", "delete", "list", "read", "http", "tcp", "udp"}
          BY CommandAssumption DEF IInv, TInv, EndTypes, Carries
        <5> QED
          BY <3>1, <5>1, <5>2 DEF Carries, Dir
      <4>2. rd[d] # "own"
        BY <3>1, <4>1 DEF PInv, Shape, Copying
      <4> QED
        BY <1>1, <1>3, <2>2, <4>2, Typed
    <3> QED
      BY <3>3, <3>4, Sides
  <2> QED
    BY <2>1, <2>3, <2>4, Typed
<1>6. /\ say[d] \in Seq(Message) /\ flow[d] \in Seq(Chunk) /\ Heard(o) \in Nat
      /\ Heard(o) + Len(say[d]) <= Written(e)
      /\ flow[d] # <<>> => Heard(o) + Len(say[d]) >= Len(Msgs[d][kind])
      /\ Len(Msgs[d][kind]) \in Nat
  BY <1>5, UnderWay
<1>7. flow[d] = <<>>
  BY <1>4, <1>6
<1>8. Len(say[d]) >= 1
  <2>1. Window \in Nat \ {0}
    BY CommandAssumption
  <2>2. Len(say[d]) \in Nat /\ Len(flow[d]) = 0
    BY <1>6, <1>7
  <2> QED
    BY <1>2, <2>1, <2>2 DEF Room
<1>9. say[d] # <<>>
  BY <1>8
<1> QED
  BY <1>4, <1>5, <1>6, <1>8, <1>9 DEF Empty

\* Who waits for a message talks to one that has not written it.
LEMMA NothingCame ==
  ASSUME IInv, PInv, Standing, ~Goes, NEW e \in End, NEW o \in End \ {e},
         Out[e] = In[o], In[e] = Out[o], phase[e] = "talk", At(e, "read")
  PROVE  phase[o] = "talk" /\ Empty(In[e]) /\ Heard(e) >= Written(o)
<1> DEFINE d == In[e]
<1>1. d \in Dir /\ WriterOf[d] = o /\ ReaderOf[d] = e
  BY Ends
<1>2. Empty(d) /\ ~fin[d] /\ ~lost
  BY DEF Goes, EndGoes
<1>3. rd[d] = "own"
  <2>1. ~Body(e, "handler")
    <3> SUFFICES ASSUME Body(e, "handler") PROVE FALSE
      OBVIOUS
    <3>1. kind = "http" /\ e = "handler" /\ pc[e] = 4
      BY DEF Body
    <3>2. Script(e)[4][1] # "read"
      BY <3>1, HttpStarts
    <3> QED
      BY <3>1, <3>2 DEF At
  <2> QED
    BY <2>1 DEF PInv, Shape, Copying
<1>4. /\ Heard(e) >= Written(o) /\ Heard(e) \in Nat /\ Written(o) \in Nat
      /\ wr[d] = "copy" => Written(o) = Len(Msgs[d][kind])
  <2>1. Len(say[d]) = 0
    BY <1>2 DEF Empty
  <2> QED
    BY <1>2, <2>1, UnderWay
<1>5. Heard(e) < Len(Msgs[d][kind]) /\ Len(Msgs[d][kind]) \in Nat
  <2>1. HeardNext(e) \in 0..Len(Msgs[d][kind]) /\ HeardNext(e) = Heard(e) + 1
    BY Place
  <2>2. Msgs[d][kind] \in Seq(Message)
    BY Places DEF IInv, TInv
  <2> QED
    BY <1>4, <2>1, <2>2
<1>6. Written(o) # Len(Msgs[d][kind])
  BY <1>4, <1>5
<1>7. wr[d] = "own"
  <2>1. wr[d] # "shut"
    BY <1>1, <1>2, <1>3 DEF Standing
  <2> QED
    BY <1>1, <1>4, <1>6, <2>1, Typed
<1>8. phase[o] = "talk"
  <2>1. phase[o] # "leaving"
    BY DEF Goes, EndGoes
  <2>2. phase[o] # "over"
    BY <1>1, <1>7 DEF Standing
  <2>3. ASSUME phase[o] = "relay" PROVE FALSE
    <3>1. Complete(o) /\ Carries[kind] # {}
      BY <2>3 DEF PInv, Shape, Left, Standing
    <3> QED
      BY <1>6, <3>1, AllDone
  <2> QED
    BY <2>1, <2>2, <2>3, Typed
<1> QED
  BY <1>2, <1>4, <1>8

\* As long as an end follows its script, one of the two goes on, or waits for
\* the target of an HTTP request.
LEMMA TalkGoes ==
  ASSUME IInv, PInv, Standing, NEW e \in End, phase[e] = "talk", ~Goes, ~Asked
  PROVE  FALSE
<1>1. PICK o \in End \ {e} : Out[e] = In[o] /\ In[e] = Out[o]
  BY Peers
<1> DEFINE writes(x) == At(x, "write") \/ At(x, "answer")
<1>2. ASSUME NEW x \in End, phase[x] = "talk" PROVE writes(x) \/ At(x, "read")
  <2>1. ~At(x, "start") /\ ~At(x, "wait")
    BY DEF Goes, EndGoes
  <2> QED
    BY <1>2, <2>1, TakeTurns
<1>3. writes(e) => phase[o] = "talk" /\ ~Empty(In[o]) /\ Heard(o) < Written(e)
  BY <1>1, FullWindow
<1>4. At(e, "read") => phase[o] = "talk" /\ Empty(In[e]) /\ Heard(e) >= Written(o)
  BY <1>1, NothingCame
<1>5. phase[o] = "talk"
  BY <1>2, <1>3, <1>4
<1>6. writes(o) => ~Empty(In[e]) /\ Heard(e) < Written(o)
  BY <1>1, <1>5, FullWindow
<1>7. At(o, "read") => Empty(In[o]) /\ Heard(o) >= Written(e)
  BY <1>1, <1>5, NothingCame
<1>8. /\ Heard(e) \in Nat /\ Written(e) \in Nat /\ Heard(o) \in Nat /\ Written(o) \in Nat
      /\ (e = "task" /\ o = "handler") \/ (e = "handler" /\ o = "task")
  BY PlaceTypes, Sides
<1>9. CASE writes(e) /\ writes(o)
  BY <1>3, <1>5, <1>6, <1>8, <1>9, TakeTurns
<1>10. CASE At(e, "read") /\ At(o, "read")
  BY <1>4, <1>5, <1>7, <1>8, <1>10, TakeTurns
<1>11. CASE writes(e) /\ At(o, "read")
  BY <1>3, <1>7, <1>11
<1>12. CASE At(e, "read") /\ writes(o)
  BY <1>4, <1>6, <1>12
<1> QED
  BY <1>2, <1>5, <1>9, <1>10, <1>11, <1>12

\* Nor does a copy wait for anything but its source and its sink.
LEMMA CopiesGo ==
  ASSUME IInv, PInv, Standing, ~Goes, ~Asked, NEW d \in Dir
  PROVE  /\ wr[d] = "copy" => Idle(d) \/ Stuffed(d)
         /\ rd[d] = "copy" => wr[d] = "copy" \/ Stuffed(d)
<1>1. WriterOf[d] \in End /\ ReaderOf[d] \in End /\ In[ReaderOf[d]] = d /\ Out[WriterOf[d]] = d
  BY Ends
<1>2. \A e \in End : phase[e] \in {"relay", "over"}
  BY TalkGoes, Typed DEF Goes, EndGoes
<1>3. wr[d] = "copy" \/ rd[d] = "copy" => d \in Carries[kind]
  BY DEF PInv, Shape, Shut
\* Who neither talks nor leaves copies, if bytes follow at all.
<1>4. d \in Carries[kind] => wr[d] # "own" /\ rd[d] # "own"
  <2>1. \A e \in End : phase[e] = "relay" => Complete(e)
    BY DEF PInv, Shape, Left
  <2>2. \A e \in End : phase[e] = "over" => wr[Out[e]] # "own" /\ rd[In[e]] # "own"
    BY DEF Standing
  <2>3. \A e \in End : Complete(e) => /\ Out[e] \in Carries[kind] => wr[Out[e]] # "own"
                                      /\ In[e] \in Carries[kind] => rd[In[e]] # "own"
    BY DEF PInv, Shape, Copying
  <2> QED
    BY <1>1, <1>2, <2>1, <2>2, <2>3
<1>5. rd[d] = "copy" => snk[d] = "stalled" \/ (Empty(d) /\ ~fin[d] /\ ~lost)
  BY <1>1, CopyReads
<1>6. ASSUME wr[d] = "copy" PROVE Idle(d) \/ Stuffed(d)
  <2>1. src[d] = "open"
    BY <1>6 DEF Goes, CopyGoes
  <2>2. CASE Room(d) \/ Refused(d)
    BY <1>6, <2>1, <2>2 DEF Idle
  <2>3. CASE ~Room(d) /\ ~Refused(d)
    <3>1. rd[d] = "copy"
      BY <1>3, <1>4, <1>6, <2>3, Typed DEF Refused
    <3>2. ~Empty(d)
      <4>1. Empty(d) => Len(say[d]) = 0 /\ Len(flow[d]) = 0
        BY DEF Empty
      <4>2. Window \in Nat \ {0}
        BY CommandAssumption
      <4>3. 0 + 0 < Window
        BY <4>2
      <4> QED
        BY <2>3, <4>1, <4>3, Zenon DEF Room
    <3> QED
      BY <1>5, <3>1, <3>2 DEF Stuffed
  <2> QED
    BY <2>2, <2>3
<1>7. ASSUME rd[d] = "copy" PROVE wr[d] = "copy" \/ Stuffed(d)
  <2>1. CASE snk[d] = "stalled"
    BY <1>7, <2>1 DEF Stuffed
  <2>2. CASE ~fin[d] /\ ~lost
    <3>1. wr[d] # "shut"
      BY <1>7, <2>2 DEF Standing
    <3> QED
      BY <1>3, <1>4, <1>7, <3>1, Typed
  <2> QED
    BY <1>5, <1>7, <2>1, <2>2
<1> QED
  BY <1>6, <1>7

\* Who copies and has both its copies behind it goes on.
LEMMA RelayEnds ==
  ASSUME IInv, PInv, Standing, NEW e \in End, phase[e] = "relay",
         wr[Out[e]] # "copy" \/ Out[e] \notin Carries[kind],
         rd[In[e]] # "copy" \/ In[e] \notin Carries[kind]
  PROVE  EndGoes(e)
<1>1. Complete(e) /\ Carries[kind] # {}
  BY DEF PInv, Shape, Left, Standing
<1>2. /\ Out[e] \in Carries[kind] => wr[Out[e]] = "shut"
      /\ In[e] \in Carries[kind] => rd[In[e]] = "shut"
  <2>1. /\ Out[e] \in Carries[kind] => wr[Out[e]] # "own"
        /\ In[e] \in Carries[kind] => rd[In[e]] # "own"
    BY <1>1 DEF PInv, Shape, Copying
  <2>2. wr[Out[e]] \in {"own", "copy", "shut"} /\ rd[In[e]] \in {"own", "copy", "shut"}
    <3>1. Out[e] \in Dir /\ In[e] \in Dir
      BY Ends
    <3> QED
      BY <3>1, Typed
  <2> QED
    BY <2>1, <2>2
<1>3. kind \in {"read", "http", "tcp", "udp"}
  <2>1. kind \in {"ping", "delete", "list", "read", "http", "tcp", "udp"}
    BY CommandAssumption DEF IInv, TInv, EndTypes, Carries
  <2> QED
    BY <1>1, <2>1 DEF Carries
<1>4. CASE kind # "read"
  <2>1. Carries[kind] = Dir
    BY <1>3, <1>4 DEF Carries
  <2> QED
    BY <1>2, <2>1, Ends DEF EndGoes, Copied
<1>5. CASE kind = "read"
  <2>1. Carries[kind] = {"down"}
    BY <1>5 DEF Carries
  <2>2. CASE e = "task"
    BY <1>2, <1>5, <2>1, <2>2, Sides DEF EndGoes, Copied
  <2>3. CASE e = "handler"
    BY <1>2, <1>5, <2>1, <2>3, Ends DEF EndGoes, Copied
  <2> QED
    BY <2>2, <2>3, Sides
<1> QED
  BY <1>4, <1>5

\* What both nodes have stopped goes on, but for a file on its way to a client.
LEMMA StoppedGoes ==
  ASSUME IInv, PInv, Standing, \A e \in End : stop[e], ~Goes,
         wr["up"] = "copy" \/ \E e \in End : phase[e] # "over"
  PROVE  kind = "read" /\ Stuffed("down")
<1> USE Ends
<1>1. ~Asked
  <2> SUFFICES ASSUME Asked PROVE FALSE
    OBVIOUS
  <2>1. kind = "http"
    <3>1. kind \in {"ping", "delete", "list", "read", "http", "tcp", "udp"}
      BY CommandAssumption DEF IInv, TInv, EndTypes, Carries
    <3>2. /\ WrittenNext("handler") = Written("handler") + 1
          /\ WrittenNext("handler") \in 0..Len(Msgs["down"][kind]) /\ Written("handler") \in Nat
          /\ Msgs["down"][kind][Written("handler") + 1] = "resp"
      BY Place, NextPlace DEF Asked, At, IInv, TInv
    <3>3. PICK i \in 1..Len(Msgs["down"][kind]) : Msgs["down"][kind][i] = "resp"
      <4>1. Len(Msgs["down"][kind]) \in Nat
        BY Places DEF IInv, TInv
      <4> QED
        BY <3>2, <4>1
    <3>4. ASSUME kind # "http" PROVE FALSE
      <4>1. Msgs["down"][kind] \in {<<"ack">>, <<"ack", "ack">>, <<"ack", "list">>,
                                   <<"ack", "meta", "ack">>, <<"ack", "addr">>}
        BY <3>1, <3>4 DEF Msgs
      <4>2. CASE Msgs["down"][kind] = <<"ack">>
        BY <3>3, <4>2
      <4>3. CASE Msgs["down"][kind] = <<"ack", "ack">>
        BY <3>3, <4>3
      <4>4. CASE Msgs["down"][kind] = <<"ack", "list">>
        BY <3>3, <4>4
      <4>5. CASE Msgs["down"][kind] = <<"ack", "meta", "ack">>
        BY <3>3, <4>5
      <4>6. CASE Msgs["down"][kind] = <<"ack", "addr">>
        BY <3>3, <4>6
      <4> QED
        BY <4>1, <4>2, <4>3, <4>4, <4>5, <4>6
    <3> QED
      BY <3>4
  <2> QED
    BY <2>1 DEF Asked, Goes, EndGoes, Cancellable
<1>2. \A e \in End : phase[e] \in {"relay", "over"}
  BY <1>1, TalkGoes, Typed DEF Goes, EndGoes
<1>3. kind = "http" => wr["up"] # "copy"
  BY DEF Goes, CopyGoes
<1>4. \A e \in End : ~Cancellable(e)
  BY DEF Goes, EndGoes
<1>5. phase["handler"] = "over"
  BY <1>2, <1>4 DEF Cancellable
<1>6. phase["task"] = "relay"
  <2> SUFFICES ASSUME phase["task"] = "over", wr["up"] = "copy" PROVE FALSE
    BY <1>2, <1>5, Sides
  <2> QED
    BY <1>3 DEF IInv, TInv, Dropped
<1>7. kind \in {"read", "http"}
  <2>1. kind \in {"read", "http", "tcp", "udp"}
    <3>1. kind \in {"ping", "delete", "list", "read", "http", "tcp", "udp"}
      BY CommandAssumption DEF IInv, TInv, EndTypes, Carries
    <3>2. Carries[kind] # {}
      BY <1>6 DEF Standing
    <3> QED
      BY <3>1, <3>2 DEF Carries
  <2> QED
    BY <1>4, <1>6, <2>1 DEF Cancellable
<1>8. rd["down"] = "copy"
  <2> SUFFICES ASSUME rd["down"] # "copy" PROVE FALSE
    OBVIOUS
  <2>1. wr["up"] # "copy" \/ "up" \notin Carries[kind]
    BY <1>3, <1>7 DEF Carries
  <2> QED
    BY <1>6, <2>1, RelayEnds, Sides DEF Goes
<1>9. kind = "read"
  BY <1>4, <1>6, <1>7, <1>8 DEF Cancellable
<1>10. wr["down"] # "copy"
  BY <1>5, <1>9 DEF IInv, TInv, Dropped
<1> QED
  BY <1>1, <1>8, <1>9, <1>10, CopiesGo

\* The two ends of a command never wait for each other: a full stream never
\* holds up both, however small the window, no end reads what the other one
\* still has to be asked for, and no copy waits for anything but its source and
\* its sink.  What both nodes have stopped goes on until it has left.
THEOREM NeverStuckHolds == Spec => []NeverStuck
<1>1. ASSUME IInv, PInv, Standing PROVE NeverStuck
  <2> USE <1>1
  <2>1. (\E e \in End : phase[e] = "talk") => Goes \/ Asked
    BY TalkGoes
  <2>2. ASSUME NEW e \in End, phase[e] # "over", ~Goes, ~Asked
        PROVE  \E d \in Dir : Idle(d) \/ Stuffed(d)
    <3>1. phase[e] = "relay"
      BY <2>2, TalkGoes, Typed DEF Goes, EndGoes
    <3>2. wr[Out[e]] = "copy" \/ rd[In[e]] = "copy"
      BY <2>2, <3>1, RelayEnds DEF Goes
    <3> QED
      BY <2>2, <3>2, CopiesGo, Ends
  <2>3. (\A e \in End : stop[e]) /\ (wr["up"] = "copy" \/ \E e \in End : phase[e] # "over") =>
          Goes \/ (kind = "read" /\ Stuffed("down"))
    BY StoppedGoes
  <2> QED
    BY <2>1, <2>2, <2>3 DEF NeverStuck
<1>2. Spec => []Standing
  BY InitStanding, StandingStep, PipesInvariant, PTL DEF Spec
<1> QED
  BY <1>1, <1>2, PipesInvariant, PTL

=============================================================================
