----------------------------- MODULE WriteFile ------------------------------
(***************************************************************************)
(* Remote writes of one target path: the WriteFile handler of              *)
(* src/app/protocol/commands.rs on the node that has the file, and         *)
(* node_write_file of src/app/workers/ctrl/ctrl.rs, which streams the body *)
(* of an HTTP request to it.                                               *)
(*                                                                         *)
(* Each write has a handler, a controller and a stream between them.  All  *)
(* handlers of a path use one temporary path.  A file is an inode: Old, or *)
(* the inode created by a write; an open descriptor stays on its inode     *)
(* when the path is renamed.  A body is some chunks, and an inode records  *)
(* who wrote each of its positions.                                        *)
(***************************************************************************)
EXTENDS Naturals

CONSTANTS
    Writer,     \* the writes
    Overwrite,  \* the writes that ask for overwrite=true
    N,          \* chunks in the longest body
    Len,        \* chunks in each body, and in the file that may be there
    Modes,      \* whether writes overlap, and whether uploads break off
    NoFile,     \* no inode, no byte
    Old         \* the file that may be there at first

Inode == Writer \cup {Old}

ASSUME WriteFileAssumption ==
    /\ Overwrite \subseteq Writer
    /\ N \in Nat \ {0} /\ Len \in [Inode -> 1..N]
    /\ Modes \subseteq [overlap : BOOLEAN, breaks : BOOLEAN]
    /\ Old \notin Writer /\ NoFile \notin Inode

VARIABLES
    mode,       \* what may go wrong on the controlling side: a choice at the start
    target,     \* the inode at the target path
    temp,       \* the inode at the temporary path
    data,       \* what each inode holds
    handler,    \* WriteFile::handle of each write
    fd,         \* the inode its output file is open on
    offset,     \* the chunks it has copied
    verdict,    \* the ack that ends it
    ctl,        \* the controller of each write
    sent,       \* chunks sent
    fin,        \* the sending side of the stream is finished
    broken      \* the connection under the stream is lost

diskVars == <<target, temp, data>>
handlerVars == <<handler, fd, offset, verdict>>
ctlVars == <<ctl, sent, fin>>
vars == <<mode, target, temp, data, handler, fd, offset, verdict, ctl, sent, fin, broken>>

Empty == [p \in 1..N |-> NoFile]

\* The whole body of o, or the whole file that was there.
Filled(o) == [p \in 1..N |-> IF p <= Len[o] THEN o ELSE NoFile]

TypeOK ==
    /\ mode \in Modes
    /\ target \in Inode \cup {NoFile} /\ temp \in Inode \cup {NoFile}
    /\ data \in [Inode -> [1..N -> Inode \cup {NoFile}]]
    /\ handler \in [Writer -> {"idle", "create", "confirm", "copy", "check", "rename", "remove", "done"}]
    /\ fd \in [Writer -> Inode \cup {NoFile}]
    /\ offset \in [Writer -> 0..N]
    /\ verdict \in [Writer -> {"none", "ok", "err"}]
    /\ ctl \in [Writer -> {"idle", "sent", "upload", "finished", "ok", "err"}]
    /\ sent \in [Writer -> 0..N]
    /\ fin \in [Writer -> BOOLEAN] /\ broken \in [Writer -> BOOLEAN]
    /\ temp # NoFile => temp # target    \* an inode has one path

Init ==
    /\ mode \in Modes
    /\ target \in {NoFile, Old} /\ temp = NoFile
    /\ data = [i \in Inode |-> IF i = Old THEN Filled(Old) ELSE Empty]
    /\ handler = [w \in Writer |-> "idle"]
    /\ fd = [w \in Writer |-> NoFile]
    /\ offset = [w \in Writer |-> 0]
    /\ verdict = [w \in Writer |-> "none"]
    /\ ctl = [w \in Writer |-> "idle"]
    /\ sent = [w \in Writer |-> 0]
    /\ fin = [w \in Writer |-> FALSE]
    /\ broken = [w \in Writer |-> FALSE]

Active == {w \in Writer : handler[w] \notin {"idle", "done"}}

-----------------------------------------------------------------------------
(* The controller: MultiStageTask and node_write_file. *)

CtlStep(w, c) ==
    /\ ctl' = [ctl EXCEPT ![w] = c]
    /\ UNCHANGED <<mode, diskVars, broken>>

\* The command and its first ack; the handler starts.
Start(w) ==
    /\ ctl[w] = "idle"
    /\ mode.overlap \/ Active = {}
    /\ CtlStep(w, "sent")
    /\ handler' = [handler EXCEPT ![w] = "create"]
    /\ UNCHANGED <<fd, offset, verdict, sent, fin>>

\* The second ack: the caller sends the executor, or drops the Sender.
Ready(w) ==
    /\ ctl[w] = "sent"
    /\ handler[w] = "confirm"
    /\ ~broken[w]
    /\ \/ CtlStep(w, "upload") /\ UNCHANGED fin
       \/ CtlStep(w, "err") /\ fin' = [fin EXCEPT ![w] = TRUE]
    /\ UNCHANGED <<handlerVars, sent>>

SendChunk(w) ==
    /\ ctl[w] = "upload"
    /\ sent[w] < Len[w]
    /\ sent' = [sent EXCEPT ![w] = @ + 1]
    /\ CtlStep(w, "upload")
    /\ UNCHANGED <<handlerVars, fin>>

\* The body ended: shutdown, then read_ack.
Finish(w) ==
    /\ ctl[w] = "upload"
    /\ sent[w] = Len[w]
    /\ fin' = [fin EXCEPT ![w] = TRUE]
    /\ CtlStep(w, "finished")
    /\ UNCHANGED <<handlerVars, sent>>

\* The body failed or the node is cancelled.  Both finish the stream as if the
\* body had ended: shutdown runs before the result of copy is looked at, and a
\* SendStream that is dropped finishes.
BreakOff(w) ==
    /\ mode.breaks
    /\ ctl[w] = "upload"
    /\ fin' = [fin EXCEPT ![w] = TRUE]
    /\ CtlStep(w, "err")
    /\ UNCHANGED <<handlerVars, sent>>

\* The last ack, or an error in place of the second.
Result(w) ==
    /\ ~broken[w]
    /\ verdict[w] # "none"
    /\ ctl[w] = "finished" \/ (ctl[w] \in {"sent", "upload"} /\ verdict[w] = "err")
    /\ CtlStep(w, verdict[w])
    /\ fin' = [fin EXCEPT ![w] = TRUE]
    /\ UNCHANGED <<handlerVars, sent>>

Lost(w) ==
    /\ ctl[w] \in {"sent", "upload", "finished"}
    /\ broken[w]
    /\ CtlStep(w, "err")
    /\ UNCHANGED <<handlerVars, sent, fin>>

Controller(w) ==
    \/ Start(w)
    \/ Ready(w)
    \/ SendChunk(w)
    \/ Finish(w)
    \/ BreakOff(w)
    \/ Result(w)
    \/ Lost(w)

-----------------------------------------------------------------------------
(* WriteFile::handle *)

HandlerStep(w, h) ==
    /\ handler' = [handler EXCEPT ![w] = h]
    /\ UNCHANGED <<mode, ctlVars, broken>>

\* Mutant: the temporary file is opened without truncation.
CreateKeeps(w) ==
    /\ handler[w] = "create"
    /\ LET i == IF temp = NoFile THEN w ELSE temp
       IN temp' = i /\ fd' = [fd EXCEPT ![w] = i]
    /\ HandlerStep(w, "confirm")
    /\ UNCHANGED <<target, data, offset, verdict>>

\* create_temp_file.  File::create truncates what is there, whoever wrote it;
\* a directory that is missing, or the disk, makes it fail.
Create(w) ==
    /\ handler[w] = "create"
    /\ \/ LET i == IF temp = NoFile THEN w ELSE temp
          IN /\ temp' = i
             /\ fd' = [fd EXCEPT ![w] = i]
             /\ data' = [data EXCEPT ![i] = Empty]
             /\ HandlerStep(w, "confirm")
             /\ UNCHANGED <<target, offset, verdict>>
       \/ /\ verdict' = [verdict EXCEPT ![w] = "err"]
          /\ HandlerStep(w, "done")
          /\ UNCHANGED <<diskVars, fd, offset>>

\* read_ack; its failure returns at once and leaves the temporary file.
Confirm(w) ==
    /\ handler[w] = "confirm"
    /\ \/ ctl[w] \in {"upload", "finished"} /\ HandlerStep(w, "copy")
       \/ (broken[w] \/ ctl[w] = "err") /\ HandlerStep(w, "done")
    /\ UNCHANGED <<diskVars, fd, offset, verdict>>

\* io::copy, one chunk at the descriptor's own offset.
CopyChunk(w) ==
    /\ handler[w] = "copy"
    /\ offset[w] < sent[w]
    /\ data' = [data EXCEPT ![fd[w]][offset[w] + 1] = w]
    /\ offset' = [offset EXCEPT ![w] = @ + 1]
    /\ HandlerStep(w, "copy")
    /\ UNCHANGED <<target, temp, fd, verdict>>

\* The end of the stream, wherever it comes, is the end of the file.
CopyEnd(w) ==
    /\ handler[w] = "copy"
    /\ fin[w] /\ offset[w] = sent[w]
    /\ HandlerStep(w, "check")
    /\ UNCHANGED <<diskVars, fd, offset, verdict>>

\* The stream breaks, the disk is full, or the node is cancelled.
CopyFail(w) ==
    /\ handler[w] = "copy"
    /\ HandlerStep(w, "remove")
    /\ UNCHANGED <<diskVars, fd, offset, verdict>>

\* !exists || !overwrite
MayReplace(w) == target = NoFile \/ w \notin Overwrite

\* Mutant: the file that is in the way is unlinked first.
CheckUnlinks(w) ==
    /\ handler[w] = "check"
    /\ target' = NoFile
    /\ HandlerStep(w, "rename")
    /\ UNCHANGED <<temp, data, fd, offset, verdict>>

CheckExists(w) ==
    /\ handler[w] = "check"
    /\ HandlerStep(w, IF MayReplace(w) THEN "rename" ELSE "remove")
    /\ UNCHANGED <<diskVars, fd, offset, verdict>>

\* Mutant: a hard link in place of a rename.
RenameLinks(w) ==
    /\ handler[w] = "rename"
    /\ temp # NoFile
    /\ target' = temp
    /\ verdict' = [verdict EXCEPT ![w] = "ok"]
    /\ HandlerStep(w, "done")
    /\ UNCHANGED <<temp, data, fd, offset>>

\* fs::rename moves whatever file has the temporary path now.
Rename(w) ==
    /\ handler[w] = "rename"
    /\ \/ /\ temp # NoFile
          /\ target' = temp /\ temp' = NoFile
          /\ verdict' = [verdict EXCEPT ![w] = "ok"]
          /\ HandlerStep(w, "done")
          /\ UNCHANGED data
       \/ HandlerStep(w, "remove") /\ UNCHANGED <<diskVars, verdict>>
    /\ UNCHANGED <<fd, offset>>

\* fs::remove_file, of whatever file has the temporary path now.
Remove(w) ==
    /\ handler[w] = "remove"
    /\ temp' = NoFile
    /\ verdict' = [verdict EXCEPT ![w] = "err"]
    /\ HandlerStep(w, "done")
    /\ UNCHANGED <<target, data, fd, offset>>

Handler(w) ==
    \/ Create(w)
    \/ Confirm(w)
    \/ CopyChunk(w)
    \/ CopyEnd(w)
    \/ CopyFail(w)
    \/ CheckExists(w)
    \/ Rename(w)
    \/ Remove(w)

-----------------------------------------------------------------------------
(* Faults *)

ConnLost(w) ==
    /\ ctl[w] # "idle"
    /\ ~broken[w]
    /\ broken' = [broken EXCEPT ![w] = TRUE]
    /\ UNCHANGED <<mode, diskVars, handlerVars, ctlVars>>

\* The process that has the file dies and is started again: the disk stays.
Crash ==
    /\ Active # {}
    /\ handler' = [w \in Writer |-> IF w \in Active THEN "done" ELSE handler[w]]
    /\ broken' = [w \in Writer |-> broken[w] \/ ctl[w] # "idle"]
    /\ UNCHANGED <<mode, diskVars, fd, offset, verdict, ctlVars>>

Terminated ==
    /\ \A w \in Writer : handler[w] = "done" /\ ctl[w] \in {"ok", "err"}
    /\ UNCHANGED vars

Next ==
    \/ \E w \in Writer : Controller(w) \/ Handler(w) \/ ConnLost(w)
    \/ Crash
    \/ Terminated

Spec == Init /\ [][Next]_vars

-----------------------------------------------------------------------------
(* Properties. *)

Complete(i) == \E o \in Inode : data[i] = Filled(o)

\* The target is replaced by rename alone: once there is a file there always is
\* one, in the middle of any write, of several, and after a crash.
TargetStays == [][target # NoFile => target' # NoFile]_vars

Calm == [overlap |-> FALSE, breaks |-> FALSE]

\* Writes that do not overlap and whose bodies arrive whole, with any fault of
\* the connection, the disk or the handling process.
A == INSTANCE AtomicFile WITH
        content <- IF target = NoFile \/ mode # Calm THEN NoFile
                   ELSE IF Complete(target) THEN CHOOSE o \in Inode : data[target] = Filled(o)
                   ELSE "torn",
        outcome <- [w \in Writer |->
                      IF mode # Calm THEN "open"
                      ELSE IF ctl[w] = "ok" THEN "succeeded"
                      ELSE IF ctl[w] = "err" THEN "failed"
                      ELSE IF verdict[w] = "ok" THEN "written"
                      ELSE "open"]

\* The target goes from one complete content to another, at the one step where
\* the handler renames, and success is reported only after it.
WritesAtomic == A!Spec

\* README: a write goes to a temporary file first and is renamed when complete.
CompleteTarget == target # NoFile => Complete(target)

\* README: overwrite protection.  An existing file is replaced only by a write
\* that asks for it.
OverwriteProtects ==
    [][target # NoFile /\ target' # target =>
          \E w \in Overwrite : handler[w] = "rename" /\ handler'[w] = "done"]_vars

=============================================================================
