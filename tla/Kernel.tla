--------------------------------- MODULE Kernel ---------------------------------
(****************************************************************************)
(* The process kernel of PennOS (kernel.c) with the programs that call it:  *)
(* the shell's command loop and its commands (shell.c), which spawn, wait,  *)
(* signal and exit, and the terminal, whose user types lines, Ctrl-C and    *)
(* Ctrl-Z at any moment.                                                    *)
(*                                                                          *)
(* The processes share one CPU: a step is one kernel call, one handler or   *)
(* one decision of the scheduler, and SIGALRM can come between two steps    *)
(* while the interval timer is armed.  next_to_schedule appears here as any *)
(* choice among the processes it may return; Scheduler models how it        *)
(* chooses.                                                                 *)
(****************************************************************************)
EXTENDS Integers, Sequences

CONSTANTS
  MaxPid,     \* bound: pids in use; the code has TABLESIZE, unchecked
  Programs    \* the commands the user may start

InitPid == 1
Shell == 2    \* SHELLPID
Pid == InitPid .. MaxPid
NoProc == 0   \* a null PCB pointer

\* sleep; busy; zombify and orphanify, which spawn a child; "io" for cat, ls,
\* touch and rm, which make file calls and exit; ps, which also arms the timer.
Program == {"sleep", "busy", "zombify", "orphanify", "io", "ps"}

ASSUME MaxPidAssumption == MaxPid \in Nat /\ MaxPid > Shell
ASSUME ProgramsAssumption == Programs \subseteq Program

VARIABLES
  status,    \* curr_status, or "FREE" when pcb_table has no entry
  old,       \* old_status
  parent,    \* ppcb
  children,  \* the list of cpcb and its spcb, oldest child first
  prog,      \* what the process still has to do
  fg_pid,    \* the process that has the terminal
  current,   \* curr_process_pcb
  timer,     \* the interval timer is armed
  deciding,  \* k_schedule is running
  pc         \* where the shell is

vars == <<status, old, parent, children, prog, fg_pid, current, timer, deciding, pc>>
pcbs == <<status, old, parent, children, prog>>

\* Mutant: the scheduler passes over a process that waits.
RunnableReady == {"READY", "SIGNALREADY"}
Runnable == {"READY", "WAITING", "SIGNALREADY"}
Zombie == {"ZOMBIED", "SIGNALZOMBIED"}
Live == Runnable \cup {"SIGNALSTOPPED"} \cup Zombie

\* "exit": nothing is left but p_exit.  "shell" and "init" never exit.
Filing == {"io", "ps"}
Doing == Program \cup {"exit", "shell", "init", "none"}

Table == {p \in Pid : status[p] # "FREE"}
Runs(p) == current = p /\ ~deciding

-------------------------------------------------------------------------------
(* Scheduling.                                                               *)

\* SIGALRM while the timer is armed.
Alarm ==
  /\ timer
  /\ ~deciding
  /\ deciding' = TRUE
  /\ UNCHANGED <<pcbs, fg_pid, current, timer, pc>>

\* Mutant: the scheduler is entered without arming the timer.
GoToSchedulerUnarmed == UNCHANGED timer /\ deciding' = TRUE

\* go_to_scheduler: arm the timer, then enter k_schedule.
GoToScheduler == timer' = TRUE /\ deciding' = TRUE

\* k_schedule resumes what next_to_schedule returned; init is on no queue.
Dispatch(p) ==
  /\ deciding
  /\ p # InitPid
  /\ status[p] \in Runnable
  /\ current' = p
  /\ deciding' = FALSE
  /\ UNCHANGED <<pcbs, fg_pid, timer, pc>>

\* k_sleep polls the tick counter and yields.
SleepYields(p) ==
  /\ Runs(p)
  /\ prog[p] = "sleep"
  /\ GoToScheduler
  /\ UNCHANGED <<pcbs, fg_pid, current, pc>>

-------------------------------------------------------------------------------
(* k_process_kill, and who calls it.                                         *)

\* Mutants: a zombie can be killed again; one that exited can be continued.
ReceptiveTwice(sig) ==
  CASE sig = "S_SIGSTOP" -> Runnable
    [] sig = "S_SIGCONT" -> {"SIGNALSTOPPED"}
    [] sig = "S_SIGTERM" -> Live
ReceptiveRevive(sig) ==
  CASE sig = "S_SIGSTOP" -> Runnable
    [] sig = "S_SIGCONT" -> {"SIGNALSTOPPED", "ZOMBIED"}
    [] sig = "S_SIGTERM" -> Live \ Zombie

Receptive(sig) ==
  CASE sig = "S_SIGSTOP" -> Runnable
    [] sig = "S_SIGCONT" -> {"SIGNALSTOPPED"}
    [] sig = "S_SIGTERM" -> Live \ Zombie

\* Mutant: the other stopped status, which no code tests.
OutcomeStopped(sig) ==
  CASE sig = "S_SIGSTOP" -> "STOPPED"
    [] sig = "S_SIGCONT" -> "SIGNALREADY"
    [] sig = "S_SIGTERM" -> "SIGNALZOMBIED"

Outcome(sig) ==
  CASE sig = "S_SIGSTOP" -> "SIGNALSTOPPED"
    [] sig = "S_SIGCONT" -> "SIGNALREADY"
    [] sig = "S_SIGTERM" -> "SIGNALZOMBIED"

\* The terminal passes to the parent of the running process, when that one has
\* it: the test names the running process, not the one that gets the signal.
PassTerminal ==
  fg_pid' = IF current # fg_pid THEN fg_pid
            ELSE IF parent[current] = NoProc THEN Shell ELSE parent[current]

KProcessKill(p, sig) ==
  /\ timer' = TRUE
  /\ \/ /\ status[p] \in Receptive(sig)
        /\ old' = [old EXCEPT ![p] = status[p]]
        /\ status' = [status EXCEPT ![p] = Outcome(sig)]
        /\ IF sig = "S_SIGCONT" THEN UNCHANGED fg_pid ELSE PassTerminal
     \/ /\ status[p] \notin Receptive(sig)
        /\ UNCHANGED <<status, old, fg_pid>>
  /\ UNCHANGED <<parent, children, prog, current, deciding>>

\* Mutant: the handlers do not spare the shell.
KeyboardAny(sig) == KProcessKill(fg_pid, sig) /\ UNCHANGED pc

\* The handlers of SIGINT and SIGTSTP; no one masks these signals.
Keyboard(sig) ==
  IF fg_pid = Shell
    THEN UNCHANGED vars
    ELSE KProcessKill(fg_pid, sig) /\ UNCHANGED pc

CtrlC == Keyboard("S_SIGTERM")
CtrlZ == Keyboard("S_SIGSTOP")

\* f_read or f_write of the terminal by a process other than the foreground
\* one, pids up to 3 excepted: it stops itself, and runs on until SIGALRM.
TerminalFromBackground(p) ==
  /\ Runs(p)
  /\ prog[p] \in Filing
  /\ p # fg_pid
  /\ p > 3
  /\ KProcessKill(p, "S_SIGSTOP")
  /\ UNCHANGED pc

\* Any other file call: the timer is paused, and nothing in the file system
\* arms it again.
FileCall(p) ==
  /\ Runs(p)
  /\ prog[p] \in Filing
  /\ timer' = FALSE
  /\ UNCHANGED <<pcbs, fg_pid, current, deciding, pc>>

\* k_ps has written its lines; p_exit is next.
PsEnds(p) ==
  /\ Runs(p)
  /\ prog[p] = "ps"
  /\ timer' = TRUE
  /\ prog' = [prog EXCEPT ![p] = "exit"]
  /\ UNCHANGED <<status, old, parent, children, fg_pid, current, deciding, pc>>

-------------------------------------------------------------------------------
(* k_process_create and k_exit.                                              *)

\* The running process spawns program f, on the lowest free pid.
KProcessCreate(f, mode) ==
  \E p \in Pid :
    /\ p > InitPid
    /\ p \notin Table
    /\ \A q \in 2 .. p - 1 : q \in Table
    /\ status' = [status EXCEPT ![p] = "READY"]
    /\ old' = [old EXCEPT ![p] = "READY"]
    /\ parent' = [parent EXCEPT ![p] = current]
    /\ children' = [children EXCEPT ![p] = <<>>, ![current] = Append(@, p)]
    /\ prog' = [prog EXCEPT ![p] = f,
                            ![current] = CASE @ = "zombify" -> "busy"
                                           [] @ = "orphanify" -> "exit"
                                           [] OTHER -> @]
    /\ fg_pid' = IF current = fg_pid /\ mode = "FOREGROUND" THEN p ELSE fg_pid
    /\ timer' = TRUE
    /\ UNCHANGED <<current, deciding>>

\* zombify spawns zombie_child, which exits, and loops; orphanify spawns
\* orphan_child, which loops, and exits.
SpawnChild(p) ==
  /\ Runs(p)
  /\ \/ prog[p] = "zombify" /\ KProcessCreate("exit", "FOREGROUND")
     \/ prog[p] = "orphanify" /\ KProcessCreate("busy", "FOREGROUND")
  /\ UNCHANGED pc

KExit(p) ==
  /\ Runs(p)
  /\ prog[p] \in {"exit", "io", "sleep"}
  /\ old' = [old EXCEPT ![p] = status[p]]
  /\ status' = [status EXCEPT ![p] = "ZOMBIED"]
  /\ fg_pid' = IF p = fg_pid THEN parent[p] ELSE fg_pid
  /\ GoToScheduler
  /\ UNCHANGED <<parent, children, prog, current, pc>>

-------------------------------------------------------------------------------
(* k_process_wait, which only the shell calls.                               *)

Kids == children[Shell]
Changed(p) == old[p] # status[p]

\* Kids[i] is the first child whose status changed.
FirstChanged(i) == Changed(Kids[i]) /\ \A j \in 1 .. i - 1 : ~Changed(Kids[j])
NoneChanged == \A i \in DOMAIN Kids : ~Changed(Kids[i])

\* Mutant: the descendants are left.
FamilyAlone(p) == {p}

\* What k_process_terminate(p) goes through: p, its child list, their lists...
Family(p) ==
  LET Closed(S) == /\ p \in S
                   /\ \A q \in S : \A i \in DOMAIN children[q] : children[q][i] \in S
  IN  {q \in Pid : \A S \in SUBSET Pid : Closed(S) => q \in S}

\* Unlinking the i-th child.  The loop that looks for its predecessor never
\* moves: it ends when there is nothing after the first sibling it looks at,
\* or when the child comes second.

\* Mutant: the siblings go with the child.
UnlinkedAll(i) == <<>>
Unlinked(i) ==
  CASE i = 1 -> Tail(Kids)
    [] i = 2 -> SubSeq(Kids, 1, 1) \o SubSeq(Kids, 3, Len(Kids))
    [] OTHER -> Kids
UnlinkEnds(i) == Len(Kids) = 1 \/ i = 2

\* Reap the i-th child: k_process_terminate for it and its descendants.
Reap(i, next) ==
  LET gone == Family(Kids[i])
  IN  /\ UnlinkEnds(i)
      /\ status' = [p \in Pid |-> IF p \in gone THEN "FREE"
                                  ELSE IF p = Shell THEN "READY" ELSE status[p]]
      /\ children' = [p \in Pid |-> IF p \in gone THEN <<>>
                                    ELSE IF p = Shell THEN Unlinked(i)
                                    ELSE children[p]]
      /\ parent' = [p \in Pid |-> IF p \in gone THEN NoProc ELSE parent[p]]
      /\ prog' = [p \in Pid |-> IF p \in gone THEN "none" ELSE prog[p]]
      /\ timer' = TRUE
      /\ pc' = next
      /\ UNCHANGED <<fg_pid, current, deciding>>

\* The same, when the loop does not end: the shell runs in it for good.
ReapSticks(i) ==
  /\ ~UnlinkEnds(i)
  /\ children' = [children EXCEPT ![Shell] = Unlinked(i)]
  /\ status' = [status EXCEPT ![Shell] = "WAITING"]
  /\ pc' = "stuck"
  /\ UNCHANGED <<parent, prog, fg_pid, current, deciding>>

\* A freed PCB's old_status counts as READY; r is the shell's own.
OldAfterReap(i, r) ==
  [p \in Pid |-> IF p \in Family(Kids[i]) THEN "READY"
                 ELSE IF p = Shell THEN r ELSE old[p]]

\* p_wait(NOHANG): the timer is paused from entry to return.
WaitNoHang ==
  /\ Runs(Shell)
  /\ pc \in {"poll", "launched"}
  /\ \/ /\ NoneChanged    \* no child, or nothing new: NULL
        /\ old' = [old EXCEPT ![Shell] = "WAITING"]
        /\ status' = [status EXCEPT ![Shell] = "READY"]
        /\ timer' = TRUE
        /\ pc' = "prompt"
        /\ UNCHANGED <<parent, children, prog, fg_pid, current, deciding>>
     \/ \E i \in DOMAIN Kids :
          /\ FirstChanged(i)
          /\ \/ /\ status[Kids[i]] \notin Zombie    \* acknowledge the change
                /\ old' = [old EXCEPT ![Kids[i]] = status[Kids[i]],
                                      ![Shell] = status[Shell]]
                /\ status' = [status EXCEPT ![Shell] = "WAITING"]
                /\ timer' = TRUE
                /\ pc' = "poll"
                /\ UNCHANGED <<parent, children, prog, fg_pid, current,
                               deciding>>
             \/ /\ status[Kids[i]] \in Zombie
                /\ Reap(i, "poll")
                /\ old' = OldAfterReap(i, status[Shell])
             \/ /\ status[Kids[i]] \in Zombie
                /\ ReapSticks(i)
                /\ old' = [old EXCEPT ![Shell] = status[Shell]]
                /\ timer' = FALSE

\* p_wait(HANG), at entry ("spawned", the timer paused) or back from
\* go_to_scheduler ("hang", the timer armed).
WaitHang ==
  LET entry == pc = "spawned"
      kept  == IF entry THEN status[Shell] ELSE old[Shell]
  IN  /\ Runs(Shell)
      /\ pc \in {"spawned", "hang"}
      /\ \/ /\ NoneChanged
            /\ old' = [old EXCEPT ![Shell] = kept]
            /\ status' = [status EXCEPT ![Shell] = "WAITING"]
            /\ pc' = "hang"
            /\ GoToScheduler
            /\ UNCHANGED <<parent, children, prog, fg_pid, current>>
         \/ \E i \in DOMAIN Kids :
              /\ FirstChanged(i)
              /\ \/ /\ status[Kids[i]] \notin Zombie  \* the child keeps its old
                    /\ old' = [old EXCEPT ![Shell] = "WAITING"]
                    /\ status' = [status EXCEPT ![Shell] = "READY"]
                    /\ timer' = TRUE
                    /\ pc' = "poll"
                    /\ UNCHANGED <<parent, children, prog, fg_pid, current,
                                   deciding>>
                 \/ /\ status[Kids[i]] \in Zombie
                    /\ Reap(i, "poll")
                    /\ old' = OldAfterReap(i, kept)
                 \/ /\ status[Kids[i]] \in Zombie
                    /\ ReapSticks(i)
                    /\ old' = [old EXCEPT ![Shell] = kept]
                    /\ timer' = (timer /\ ~entry)

-------------------------------------------------------------------------------
(* The shell between its waits.                                              *)

\* f_write of the prompt and f_read of the terminal pause the timer.
Prompt ==
  /\ Runs(Shell)
  /\ pc = "prompt"
  /\ timer' = FALSE
  /\ pc' = "reading"
  /\ UNCHANGED <<pcbs, fg_pid, current, deciding>>

Reading == Runs(Shell) /\ pc = "reading"

\* A line that spawns and signals nothing.  An empty one leaves the timer as it is,
\* wrong ones, man and jobs pause it, if a key has armed it while the shell read;
\* nice_pid, cp, mv and defragment arm it.
OtherLine ==
  /\ Reading
  /\ pc' = "poll"
  /\ timer' \in BOOLEAN
  /\ UNCHANGED <<pcbs, fg_pid, current, deciding>>

\* bg and fg do the same: S_SIGCONT to a pid the user names, or to that of
\* the last stopped job.
Bg(p) == Reading /\ KProcessKill(p, "S_SIGCONT") /\ pc' = "poll"
Fg(p) == Bg(p)

ShellSpawn(f, mode) ==
  /\ Reading
  /\ KProcessCreate(f, mode)
  /\ pc' = IF mode = "FOREGROUND" THEN "spawned" ELSE "launched"

\* f_dup, which gives the new process a file for its input or output, if it
\* has not run already.
Redirect ==
  /\ Runs(Shell)
  /\ pc \in {"spawned", "launched"}
  /\ timer' = FALSE
  /\ UNCHANGED <<pcbs, fg_pid, current, deciding, pc>>

-------------------------------------------------------------------------------
\* init_kern and main: init has spawned the shell in the foreground and spins.
Init ==
  /\ status = [p \in Pid |-> CASE p = InitPid -> "WAITING"
                               [] p = Shell -> "READY" [] OTHER -> "FREE"]
  /\ old = [p \in Pid |-> IF p = InitPid THEN "WAITING" ELSE "READY"]
  /\ parent = [p \in Pid |-> IF p = Shell THEN InitPid ELSE NoProc]
  /\ children = [p \in Pid |-> IF p = InitPid THEN <<Shell>> ELSE <<>>]
  /\ prog = [p \in Pid |-> CASE p = InitPid -> "init"
                             [] p = Shell -> "shell" [] OTHER -> "none"]
  /\ fg_pid = Shell
  /\ current = InitPid
  /\ timer = TRUE
  /\ deciding = FALSE
  /\ pc = "poll"

UserLine ==
  \/ OtherLine
  \/ \E p \in Pid : Bg(p) \/ Fg(p)
  \/ \E f \in Programs, mode \in {"FOREGROUND", "BACKGROUND"} : ShellSpawn(f, mode)

ShellStep == WaitNoHang \/ WaitHang \/ Prompt

JobStep(p) == SpawnChild(p) \/ PsEnds(p) \/ KExit(p)

Next ==
  \/ Alarm
  \/ \E p \in Pid : \/ Dispatch(p) \/ SleepYields(p) \/ FileCall(p)
                    \/ TerminalFromBackground(p) \/ JobStep(p)
  \/ ShellStep
  \/ Redirect
  \/ UserLine
  \/ CtrlC
  \/ CtrlZ

Spec == Init /\ [][Next]_vars

\* The armed timer fires; the scheduler starves no process that stays
\* runnable (Scheduler!NoStarvation); the shell and the jobs that are given
\* the CPU again and again go on with their programs.
FairSpec ==
  /\ Spec
  /\ WF_vars(Alarm)
  /\ \A p \in Pid : SF_vars(Dispatch(p)) /\ SF_vars(JobStep(p))
  /\ SF_vars(ShellStep)

-------------------------------------------------------------------------------
(* Properties.                                                               *)

TypeOK ==
  /\ status \in [Pid -> Live \cup {"FREE"}]
  /\ old \in [Pid -> Live]
  /\ parent \in [Pid -> Pid \cup {NoProc}]
  /\ children \in [Pid -> Seq(Pid)]
  /\ prog \in [Pid -> Doing]
  /\ fg_pid \in Pid
  /\ current \in Pid
  /\ timer \in BOOLEAN
  /\ deciding \in BOOLEAN
  /\ pc \in {"poll", "prompt", "reading", "spawned", "launched", "hang", "stuck"}

\* p_wait tells a change by old_status # curr_status: whatever signals, exits
\* and earlier waits came in whatever order, a dead process always shows one,
\* so its parent can still reap it.
ZombieReportable == \A p \in Pid : status[p] \in Zombie => Changed(p)

\* No sequence of keys, signals and exits stops or kills the shell, or gives
\* the terminal to init, which Ctrl-C would then kill.
ShellSurvives == status[Shell] \in {"READY", "WAITING"} /\ fg_pid # InitPid

\* Reaping a process takes its whole family: no process is left with a parent
\* whose PCB was freed, and no child list names a freed PCB or another's
\* child, however pids are reused.
FamilyInTable ==
  /\ \A p \in Table \ {InitPid} : parent[p] \in Table
  /\ \A p \in Table : \A i \in DOMAIN children[p] :
        /\ children[p][i] \in Table
        /\ parent[children[p][i]] = p
        /\ \A j \in DOMAIN children[p] : children[p][i] = children[p][j] => i = j

\* While the shell is not caught in the unlink loop, every process but init
\* is on its parent's list, where p_wait can find it.
EveryChildListed ==
  pc # "stuck" =>
    \A p \in Table \ {InitPid} : \E i \in DOMAIN children[parent[p]] :
      children[parent[p]][i] = p

\* Multitasking is off only while the shell reads, parses or redirects, or is
\* caught, or while a job makes file calls: the scheduler is never entered
\* with the timer paused, so what it resumes can be interrupted again.
TimerPaused ==
  ~timer => /\ ~deciding
            /\ \/ current = Shell /\ pc \notin {"prompt", "hang"}
               \/ prog[current] \in Filing

\* Kernel_Documentation.md:67, "p_wait() should not block": the shell never
\* stays in the unlink loop of k_process_wait.
WaitReturns == pc # "stuck"

\* A dead child of the shell is reaped, once the user has answered the prompt,
\* unless the shell is caught in the unlink loop.
ChildReaped ==
  \A p \in Pid : status[p] \in Zombie /\ parent[p] = Shell
                   ~> status[p] \notin Zombie \/ pc = "stuck"

\* A shell that waits for its foreground job is back at its prompt when that
\* job, or any other child, has changed status.
HangEnds ==
  (pc = "hang" /\ ~NoneChanged) ~> pc # "hang"

-------------------------------------------------------------------------------
(* The kernel implements the life of a process that ProcessLife promises.    *)

LifeOf(s) ==
  CASE s \in Runnable -> "running"
    [] s = "SIGNALSTOPPED" -> "stopped"
    [] s \in Zombie -> "zombie"
    [] s = "FREE" -> "free"

Life == INSTANCE ProcessLife WITH life <- [p \in Pid |-> LifeOf(status[p])]

\* Every step of the kernel is a step of a process's life or none: no zombie
\* revives, no pid is freed but in the family of a dead child of the shell.
ImplementsLife == Life!Spec
=============================================================================
