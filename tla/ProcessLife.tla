------------------------------ MODULE ProcessLife ------------------------------
(****************************************************************************)
(* What the kernel promises about the life of a process, without signals'   *)
(* details, lists, the terminal or the CPU: a process is spawned by another *)
(* one, is stopped and continued, dies once, and stays a zombie until the   *)
(* shell, its parent, reaps it or an ancestor of it, together with all its  *)
(* descendants.  Nothing else frees a pid.                                  *)
(****************************************************************************)
EXTENDS Integers

CONSTANTS Pid, InitPid, Shell, NoProc

VARIABLES
  life,     \* "free", "running", "stopped" or "zombie"
  parent    \* who spawned it, NoProc for a free pid and for init

vars == <<life, parent>>

System == {InitPid, Shell}

Init ==
  /\ life = [p \in Pid |-> IF p \in System THEN "running" ELSE "free"]
  /\ parent = [p \in Pid |-> IF p = Shell THEN InitPid ELSE NoProc]

Spawn(p, c) ==
  /\ life[p] # "free" /\ life[c] = "free"
  /\ life' = [life EXCEPT ![c] = "running"]
  /\ parent' = [parent EXCEPT ![c] = p]

Stop(p) ==
  /\ p \notin System /\ life[p] = "running"
  /\ life' = [life EXCEPT ![p] = "stopped"]
  /\ UNCHANGED parent

Continue(p) ==
  /\ life[p] = "stopped"
  /\ life' = [life EXCEPT ![p] = "running"]
  /\ UNCHANGED parent

Die(p) ==
  /\ p \notin System /\ life[p] \in {"running", "stopped"}
  /\ life' = [life EXCEPT ![p] = "zombie"]
  /\ UNCHANGED parent

\* p and everyone whose line of parents leads to p.
Descendants(p) ==
  LET Closed(S) == p \in S /\ \A q \in Pid : parent[q] \in S => q \in S
  IN  {q \in Pid : \A S \in SUBSET Pid : Closed(S) => q \in S}

Reap(p) ==
  /\ life[p] = "zombie" /\ parent[p] = Shell
  /\ life' = [q \in Pid |-> IF q \in Descendants(p) THEN "free" ELSE life[q]]
  /\ parent' = [q \in Pid |-> IF q \in Descendants(p) THEN NoProc ELSE parent[q]]

Next == \E p \in Pid : \/ \E c \in Pid : Spawn(p, c)
                       \/ Stop(p) \/ Continue(p) \/ Die(p) \/ Reap(p)

Spec == Init /\ [][Next]_vars
=============================================================================
