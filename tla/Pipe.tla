-------------------------------- MODULE Pipe --------------------------------
(***************************************************************************)
(* What one direction of a forward promises: the sink gets what the source *)
(* yields, in order, and its end only when all of it has arrived.  Only    *)
(* what cuts the pipe may end the sink early, or give it a text instead.   *)
(***************************************************************************)
EXTENDS Naturals

VARIABLES
    sent,   \* chunks the source has yielded
    got,    \* chunks the sink has
    source, \* "open", "eof" or "broken"
    sink,   \* "open", "stalled", "gone", "eof" or "text"
    cut     \* the pipe is cut

vars == <<sent, got, source, sink, cut>>

Init ==
    /\ sent = 0 /\ got = 0
    /\ source = "open" /\ sink = "open"
    /\ cut \in BOOLEAN

Yield ==
    /\ source = "open"
    /\ sent' = sent + 1
    /\ UNCHANGED <<got, source, sink, cut>>

Deliver ==
    /\ sink = "open"
    /\ got < sent
    /\ got' = got + 1
    /\ UNCHANGED <<sent, source, sink, cut>>

EndSource ==
    /\ source = "open"
    /\ source' \in {"eof", "broken"}
    /\ cut' \in {cut, TRUE}
    /\ UNCHANGED <<sent, got, sink>>

\* The sink closes, takes no more for a while, or goes on.
Change ==
    /\ sink \in {"open", "stalled"}
    /\ sink' \in {"open", "stalled", "gone"}
    /\ UNCHANGED <<sent, got, source, cut>>

EndSink ==
    /\ sink \in {"open", "stalled"}
    /\ (source = "eof" /\ got = sent) \/ cut
    /\ sink' = "eof"
    /\ UNCHANGED <<sent, got, source, cut>>

\* The sink gets the text of an error, and its end, in place of the bytes.
Replace ==
    /\ sink \in {"open", "stalled"}
    /\ cut /\ got = 0
    /\ sink' = "text"
    /\ UNCHANGED <<sent, got, source, cut>>

Sever ==
    /\ ~cut /\ cut' = TRUE
    /\ UNCHANGED <<sent, got, source, sink>>

Next == Yield \/ Deliver \/ EndSource \/ Change \/ EndSink \/ Replace \/ Sever

Spec == Init /\ [][Next]_vars

=============================================================================
