------------------------------- MODULE Stream -------------------------------
(***************************************************************************)
(* One bidirectional QUIC stream as src/crab/proto/util.rs uses it: each   *)
(* direction carries messages (a header, and a payload that is a bincode   *)
(* value or an error) and then the raw bytes of a copy.  Nothing on the    *)
(* stream tells one from the other.                                        *)
(*                                                                         *)
(* A half that is dropped ends as if it had been finished: quinn sends FIN *)
(* for a SendStream and STOP_SENDING for a RecvStream.                     *)
(***************************************************************************)
EXTENDS Integers, Sequences

CONSTANT Window     \* what a direction holds before its writer has to wait

Dir == {"up", "down"}   \* up is from the end that opened the stream

VARIABLES
    lost,   \* the connection is dead
    say,    \* the messages that are under way in each direction
    flow,   \* the bytes behind them, in chunks
    fin,    \* and the end behind those
    wr,     \* each direction's SendStream: with its end, in a copy, or dropped
    rd      \* each direction's RecvStream

wireVars == <<say, flow, fin>>
streamVars == <<lost, say, flow, fin, wr, rd>>

Message == {"cmd", "ack", "meta", "list", "addr", "resp", "err"}

StreamTyped(Chunk) ==
    /\ lost \in BOOLEAN
    /\ say \in [Dir -> Seq(Message)]
    /\ flow \in [Dir -> Seq(Chunk)]
    /\ fin \in [Dir -> BOOLEAN]
    /\ wr \in [Dir -> {"own", "copy", "shut"}]
    /\ rd \in [Dir -> {"own", "copy", "shut"}]

StreamInit ==
    /\ lost = FALSE
    /\ say = [d \in Dir |-> <<>>]
    /\ flow = [d \in Dir |-> <<>>]
    /\ fin = [d \in Dir |-> FALSE]
    /\ wr = [d \in Dir |-> "own"]
    /\ rd = [d \in Dir |-> "own"]

Room(d) == Len(say[d]) + Len(flow[d]) < Window

\* A write fails; nobody notices before there is something to write.
Refused(d) == lost \/ rd[d] = "shut"

CanWrite(d) == ~Refused(d) /\ Room(d)

Empty(d) == say[d] = <<>> /\ flow[d] = <<>>

\* All was read that came before the end, or before the connection died.
AtEnd(d) == Empty(d) /\ fin[d]
Dry(d) == Empty(d) /\ ~fin[d] /\ lost

Write(d, m) == say' = [say EXCEPT ![d] = Append(@, m)] /\ UNCHANGED <<flow, fin>>

Read(d) == say' = [say EXCEPT ![d] = Tail(@)] /\ UNCHANGED <<flow, fin>>

SendChunk(d, c) == flow' = [flow EXCEPT ![d] = Append(@, c)] /\ UNCHANGED <<say, fin>>

TakeChunk(d) == flow' = [flow EXCEPT ![d] = Tail(@)] /\ UNCHANGED <<say, fin>>

\* The writers of W and the readers of R are finished or dropped, and what
\* nobody reads any more is gone.
Release(W, R) ==
    /\ wr' = [d \in Dir |-> IF d \in W THEN "shut" ELSE wr[d]]
    /\ rd' = [d \in Dir |-> IF d \in R THEN "shut" ELSE rd[d]]
    /\ say' = [d \in Dir |-> IF d \in R THEN <<>> ELSE say[d]]
    /\ flow' = [d \in Dir |-> IF d \in R THEN <<>> ELSE flow[d]]
    /\ fin' = [d \in Dir |-> d \notin R /\ (fin[d] \/ (d \in W /\ ~Refused(d)))]
    /\ UNCHANGED lost

\* The first n elements of s.
First(s, n) == SubSeq(s, 1, IF n < Len(s) THEN n ELSE Len(s))

\* What had not arrived when the connection died never does.
Lose ==
    /\ ~lost
    /\ lost' = TRUE
    /\ \E n \in [Dir -> 0..Window + 1] :
        /\ say' = [d \in Dir |-> First(say[d], n[d])]
        /\ flow' = [d \in Dir |-> First(flow[d], n[d] - Len(say[d]))]
        /\ fin' = [d \in Dir |-> fin[d] /\ n[d] > Len(say[d]) + Len(flow[d])]
    /\ UNCHANGED <<wr, rd>>

=============================================================================
