---------------------------- MODULE MCWriteFile -----------------------------
(***************************************************************************)
(* Instances of WriteFile for TLC: two writes of one path, the first of    *)
(* them with overwrite=true and a body of two chunks, so that it can break *)
(* in the middle and mix with the other.                                   *)
(***************************************************************************)
EXTENDS WriteFile

CONSTANTS w1, w2, noFile, old

\* The second body is shorter than the first and than the old file.
MCLen == [i \in Inode |-> IF i = w2 THEN 1 ELSE 2]

MCModes == {Calm, [overlap |-> TRUE, breaks |-> TRUE]}
MCCalm == {Calm}
MCBroken == {[overlap |-> FALSE, breaks |-> TRUE]}

=============================================================================
