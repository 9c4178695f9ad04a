----------------------------- MODULE AtomicFile -----------------------------
(***************************************************************************)
(* What a remote write promises (README, "File reading and writing"): the  *)
(* file at the target path only ever goes from one complete content to     *)
(* another, and who is told that a write succeeded has written.  A writer  *)
(* may be told that it failed after its content went in: an answer can be  *)
(* lost.                                                                   *)
(***************************************************************************)
CONSTANTS
    Writer,     \* the writes
    NoFile,     \* the content when there is no file
    Old         \* the content before any write

VARIABLES
    content,    \* whose complete content the target has
    outcome     \* what each write has come to

vars == <<content, outcome>>

Init ==
    /\ content \in {NoFile, Old}
    /\ outcome = [w \in Writer |-> "open"]

Commit(w) ==
    /\ outcome[w] \in {"open", "failed"}
    /\ content' = w
    /\ \/ outcome[w] = "open" /\ outcome' = [outcome EXCEPT ![w] = "written"]
       \/ outcome[w] = "failed" /\ UNCHANGED outcome

Succeed(w) ==
    /\ outcome[w] = "written"
    /\ outcome' = [outcome EXCEPT ![w] = "succeeded"]
    /\ UNCHANGED content

Fail(w) ==
    /\ outcome[w] \in {"open", "written"}
    /\ outcome' = [outcome EXCEPT ![w] = "failed"]
    /\ UNCHANGED content

Next == \E w \in Writer : Commit(w) \/ Succeed(w) \/ Fail(w)

Spec == Init /\ [][Next]_vars

=============================================================================
