------------------------------ MODULE Process -------------------------------
(***************************************************************************)
(* The whole process: start in src/main.rs runs a Vec of workers           *)
(* (src/crab/utils/runit.rs) until all have ended, and wait_exit cancels   *)
(* their token on a signal.  A SOCKS5 server and a TCP forward run in      *)
(* detail; Other are the control API and the endpoint, which may end by    *)
(* themselves, with or without an error.                                   *)
(***************************************************************************)
EXTENDS Naturals, FiniteSets

CONSTANTS
    Other,      \* the workers that are not modelled here
    Client, HsCap, SessCap,     \* see Socks5
    Conn, FwdCap,               \* see TcpForward
    NoWorker    \* no error yet

ASSUME ProcessAssumption ==
    /\ IsFiniteSet(Client) /\ IsFiniteSet(Conn) /\ IsFiniteSet(Other)
    /\ HsCap \in Nat \ {0} /\ SessCap \in Nat \ {0} /\ FwdCap \in Nat \ {0}
    /\ Other \cap {"socks5", "forward", NoWorker} = {}
    /\ NoWorker \notin {"socks5", "forward"}

VARIABLES
    server, hsLoop, hs, step, sessLoop, sess,
    acceptor, held, fwdLoop, fwd,
    token,      \* the token of the group, a child of the process's
    signalled,  \* wait_exit has seen a signal
    other,      \* what each of Other has come to
    joined,     \* the workers that join_next has returned
    firstErr,   \* the worker whose error serve will return
    exit        \* what start returns

socksVars == <<server, hsLoop, hs, step, sessLoop, sess>>
fwdVars == <<acceptor, held, fwdLoop, fwd>>
groupVars == <<joined, firstErr, exit>>
vars == <<socksVars, fwdVars, token, signalled, other, groupVars>>

Socks == INSTANCE Socks5
Tcp == INSTANCE TcpForward

Worker == Other \cup {"socks5", "forward"}

Result(w) == IF w = "socks5" THEN server ELSE IF w = "forward" THEN acceptor ELSE other[w]

Ended(w) == Result(w) \in {"ok", "err"}

\* Type invariant, with the bounds of the three channels.
TypeOK ==
    /\ Socks!Typed /\ Tcp!Typed
    /\ token \in BOOLEAN /\ signalled \in BOOLEAN
    /\ other \in [Other -> {"run", "ok", "err"}]
    /\ joined \subseteq Worker
    /\ firstErr \in Worker \cup {NoWorker}
    /\ exit \in {"none", "ok", "err"}

Init ==
    /\ Socks!Init /\ Tcp!Init
    /\ token = FALSE /\ signalled = FALSE
    /\ other = [w \in Other |-> "run"]
    /\ joined = {}
    /\ firstErr = NoWorker
    /\ exit = "none"

-----------------------------------------------------------------------------
\* wait_exit
Signal ==
    /\ ~signalled
    /\ signalled' = TRUE
    /\ token' = TRUE
    /\ UNCHANGED <<socksVars, fwdVars, other, groupVars>>

\* A port in use, a drained endpoint, a panic, or the token.
OtherEnds(w) ==
    /\ other[w] = "run"
    /\ \E r \in {"ok", "err"} : other' = [other EXCEPT ![w] = r]
    /\ UNCHANGED <<socksVars, fwdVars, token, signalled, groupVars>>

\* Mutant: any end of a worker ends the others.
HarvestAny(w) ==
    /\ Ended(w) /\ w \notin joined
    /\ joined' = joined \cup {w}
    /\ token' = TRUE
    /\ firstErr' = IF Result(w) = "err" /\ firstErr = NoWorker THEN w ELSE firstErr
    /\ UNCHANGED <<socksVars, fwdVars, signalled, other, exit>>

\* Mutant: the error is kept, but the others are not told.
HarvestQuiet(w) ==
    /\ Ended(w) /\ w \notin joined
    /\ joined' = joined \cup {w}
    /\ UNCHANGED token
    /\ firstErr' = IF Result(w) = "err" /\ firstErr = NoWorker THEN w ELSE firstErr
    /\ UNCHANGED <<socksVars, fwdVars, signalled, other, exit>>

\* Mutant: the last error is returned.
HarvestLast(w) ==
    /\ Ended(w) /\ w \notin joined
    /\ joined' = joined \cup {w}
    /\ token' = (token \/ Result(w) = "err")
    /\ firstErr' = IF Result(w) = "err" THEN w ELSE firstErr
    /\ UNCHANGED <<socksVars, fwdVars, signalled, other, exit>>

\* join_next: an error cancels the others, and the first one is kept.
Harvest(w) ==
    /\ Ended(w) /\ w \notin joined
    /\ joined' = joined \cup {w}
    /\ token' = (token \/ Result(w) = "err")
    /\ firstErr' = IF Result(w) = "err" /\ firstErr = NoWorker THEN w ELSE firstErr
    /\ UNCHANGED <<socksVars, fwdVars, signalled, other, exit>>

Exit ==
    /\ exit = "none"
    /\ joined = Worker
    /\ exit' = IF firstErr = NoWorker THEN "ok" ELSE "err"
    /\ UNCHANGED <<socksVars, fwdVars, token, signalled, other, joined, firstErr>>

SocksStep ==
    /\ Socks!Next
    /\ UNCHANGED <<fwdVars, token, signalled, other, groupVars>>

TcpStep ==
    /\ Tcp!Next
    /\ UNCHANGED <<socksVars, token, signalled, other, groupVars>>

Terminated == exit # "none" /\ UNCHANGED vars

Next ==
    \/ Signal
    \/ \E w \in Other : OtherEnds(w)
    \/ \E w \in Worker : Harvest(w)
    \/ Exit
    \/ SocksStep
    \/ TcpStep
    \/ Terminated

\* Every ready task is polled.  Clients need not do anything before the token
\* fires, and need not send their request after that either.  The node answers
\* the exec_ack of a session (see RemoteNode).  The other workers need not end:
\* the HTTP server of the control API waits for its open responses, the endpoint
\* for its nodes, and both for a client that does not read its download.
Rest == <<token, signalled, other, groupVars>>

Fairness ==
    /\ \A w \in Worker : WF_vars(Harvest(w))
    /\ WF_vars(Exit)
    /\ WF_vars((Tcp!Bind \/ Tcp!StopAccept \/ Tcp!Join \/ Tcp!Loop) /\ UNCHANGED <<socksVars, Rest>>)
    /\ \A c \in Conn : WF_vars((Tcp!Hand(c) \/ Tcp!Forward(c)) /\ UNCHANGED <<socksVars, Rest>>)
    /\ WF_vars((Socks!Bind \/ (token /\ Socks!StopAccept) \/ Socks!Join) /\ UNCHANGED <<fwdVars, Rest>>)
    /\ WF_vars(Socks!Loops /\ UNCHANGED <<fwdVars, Rest>>)
    /\ \A c \in Client :
        /\ WF_vars((Socks!Offer(c) \/ Socks!HandshakeBegin(c)) /\ UNCHANGED <<fwdVars, Rest>>)
        /\ WF_vars(/\ token /\ step[c] = "auth"
                   /\ Socks!HandshakeFail(c)
                   /\ UNCHANGED <<fwdVars, Rest>>)
        /\ WF_vars(Socks!HandshakePass(c) /\ UNCHANGED <<fwdVars, Rest>>)
        /\ WF_vars((Socks!SessionBegin(c) \/ Socks!SessionEnd(c)) /\ UNCHANGED <<fwdVars, Rest>>)

Spec == Init /\ [][Next]_vars

FairSpec == Spec /\ Fairness

-----------------------------------------------------------------------------
(* Properties *)

\* When start returns, no connection, handshake or session of any worker that
\* got as far as listening is left in a channel or a task.
NothingLeft ==
    /\ exit # "none" => \A w \in Worker : Ended(w)
    /\ server = "ok" => Socks!Quiet
    /\ acceptor = "ok" => Tcp!Quiet

\* One worker's early but regular end leaves the others running: the token
\* fires on a signal or because one of them failed.
CancelHasCause == token => signalled \/ \E w \in joined : Result(w) = "err"

\* start returns the first error it has seen, whatever follows from it.
FirstErrorKept ==
    [][/\ firstErr # NoWorker => firstErr' = firstErr
       /\ exit' # exit => exit' = IF \E w \in Worker : Result(w) = "err" THEN "err" ELSE "ok"]_vars

GroupMoves ==
    \/ \E w \in Worker \ joined : Ended(w)
    \/ exit = "none" /\ joined = Worker

\* A full channel holds up who sends to it, but only until its loop goes on.  Once
\* the token has fired the SOCKS5 server can always go on until it has ended,
\* unless a client that has authenticated keeps its request to itself, and so
\* can the TCP forward; and a process that has to end either can go on itself or
\* has told the workers it waits for to end.
NeverStuck ==
    /\ server = "sending" \/ (\E c \in Client : step[c] = "passing") => Socks!Moves
    /\ held # {} => Tcp!Moves
    /\ token => /\ Ended("socks5") \/ Socks!Moves \/ Socks!Stalled
                /\ Ended("forward") \/ Tcp!Moves
    /\ exit = "none" /\ (token \/ \E w \in Worker : Result(w) = "err") =>
        GroupMoves \/ (token /\ \E w \in Worker : ~Ended(w))

\* After a signal or a failure the process ends, unless a client of the SOCKS5
\* server that has authenticated keeps its request to itself, or the control API
\* or the endpoint does not end.
Exits ==
    \/ <>(signalled \/ \E w \in Worker : Result(w) = "err") => <>(exit # "none")
    \/ <>[]Socks!Stalled
    \/ \E w \in Other : <>[](other[w] = "run")

=============================================================================
