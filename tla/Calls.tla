------------------------------- MODULE Calls --------------------------------
(***************************************************************************)
(* What Handle::exec and Handle::exec_ack of src/crab/node_handle.rs       *)
(* promise their callers, whatever happens to the node: every call that is *)
(* not abandoned returns, once, either what the peer answered or           *)
(* NODE_ALREADY_EXIT; and once the node has stopped the peer's answers     *)
(* stop too.                                                               *)
(***************************************************************************)
CONSTANT Call

VARIABLES
    up,     \* RemoteNode::serve has not returned
    reply   \* what each call has come to

Init ==
    /\ up = TRUE
    /\ reply = [k \in Call |-> "none"]

Pending == {k \in Call : reply[k] = "pending"}

Set(k, v) == reply' = [reply EXCEPT ![k] = v]

Issue(k) == reply[k] = "none" /\ Set(k, "pending") /\ UNCHANGED up

\* The peer's answer, a result or an error.
Answer(k) ==
    /\ up
    /\ k \in Pending
    /\ \E v \in {"ok", "err"} : Set(k, v)
    /\ UNCHANGED up

\* NODE_ALREADY_EXIT.
Refuse(k) == k \in Pending /\ Set(k, "exit") /\ UNCHANGED up

\* The caller's future is dropped, or it stops to wait.
Abandon(k) == k \in Pending /\ Set(k, "gone") /\ UNCHANGED up

Down == up /\ up' = FALSE /\ UNCHANGED reply

Next ==
    \/ \E k \in Call : Issue(k) \/ Answer(k) \/ Refuse(k) \/ Abandon(k)
    \/ Down

vars == <<up, reply>>

\* What can be said of a caller that is not given the time to wait.
Safe == Init /\ [][Next]_vars

Spec ==
    /\ Safe
    /\ \A k \in Call : WF_vars(Answer(k) \/ Refuse(k) \/ Abandon(k))

=============================================================================
