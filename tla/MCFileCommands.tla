---------------------------- MODULE MCFileCommands ----------------------------
(* An instance of FileCommands: the shell and a job; a file and its copy.     *)
EXTENDS FileCommands

CONSTANTS sh, p1  \* model values
Processes == {sh, p1}
LongerName == {<<"a1", "a">>}
Copies1 == [f \in {"a"} |-> "a1"]
\* The properties say nothing of what follows once the timer was armed inside
\* a command, and one of them nothing of what follows a replaced link.
Watched == ~cut /\ ~torn

\* No guard and no property of the run looks at the bytes.
WithoutBytes == <<files, fat, fds, stored, harm, Spilled, cpu, cmd, timer, cut, torn>>

\* Bytes that read as the end of a chain (two of 255), or as no block at all (most).
Entries == {[b \in Block |-> v] : v \in {END, MEMFULL}}
===============================================================================
