------------------------------ MODULE JobControl ------------------------------
(****************************************************************************)
(* The shell's job list (job_list.c) beside the kernel: shell() learns of   *)
(* its children through p_wait alone, and after p_wait has returned, with   *)
(* the timer armed again, it changes the list by what p_wait said then.     *)
(* Every step of Kernel is a step here; the shell's take the list along.    *)
(****************************************************************************)
EXTENDS Kernel, SequencesExt

VARIABLES
  jobs,  \* the list after its head: the pid and stat of each job
  due    \* what the shell has yet to do to the list

jobVars == <<vars, jobs, due>>

NothingDue == [op |-> "none", pid |-> NoProc]
Update == {NothingDue}
          \cup [op : {"insert", "delete", "stopped", "running"}, pid : Pid]

-------------------------------------------------------------------------------
(* job_list.c.                                                               *)

\* The first element that holds p, 0 if none does.
Find(list, p) == SelectInSeq(list, LAMBDA e : e.pid = p)

\* Mutant: the element is put at the head.
InsertHead(list, p) == <<[pid |-> p, stat |-> "running"]>> \o list
InsertTail(list, p) == Append(list, [pid |-> p, stat |-> "running"])

\* Mutant: what is deleted is the tail (pop_tail in the wrong branch).
DeleteTail(list, p) == IF Find(list, p) = 0 THEN list ELSE Front(list)
DeleteElement(list, p) ==
  IF Find(list, p) = 0 THEN list ELSE RemoveAt(list, Find(list, p))

UpdateStatus(list, p, stat) ==
  IF Find(list, p) = 0 THEN list ELSE [list EXCEPT ![Find(list, p)].stat = stat]

\* The list once u is done.
Updated(list, u) ==
  CASE u.op = "none" -> list
    [] u.op = "insert" -> InsertTail(list, u.pid)
    [] u.op = "delete" -> DeleteElement(list, u.pid)
    [] OTHER -> UpdateStatus(list, u.pid, u.op)

-------------------------------------------------------------------------------
(* The shell.                                                                *)

\* Mutant: W_WIFCONTINUED tests READY.
ReportReady(p) ==
  CASE status[p] \in Zombie -> [op |-> "delete", pid |-> p]
    [] status[p] = "SIGNALSTOPPED" -> [op |-> "stopped", pid |-> p]
    [] status[p] = "READY" -> [op |-> "running", pid |-> p]
    [] OTHER -> NothingDue

\* Mutant: W_WIFSIGNALED is not tested.
ReportExited(p) ==
  CASE status[p] = "ZOMBIED" -> [op |-> "delete", pid |-> p]
    [] status[p] = "SIGNALSTOPPED" -> [op |-> "stopped", pid |-> p]
    [] status[p] = "SIGNALREADY" -> [op |-> "running", pid |-> p]
    [] OTHER -> NothingDue

\* The status p_wait returns, through the four W_WIF... tests.
Report(p) ==
  CASE status[p] \in Zombie -> [op |-> "delete", pid |-> p]
    [] status[p] = "SIGNALSTOPPED" -> [op |-> "stopped", pid |-> p]
    [] status[p] = "SIGNALREADY" -> [op |-> "running", pid |-> p]
    [] OTHER -> NothingDue

\* p_wait, in either mode: it returns the first child that changed, or NULL,
\* or goes to the scheduler, or never comes back.
Wait ==
  /\ due = NothingDue
  /\ WaitNoHang \/ WaitHang
  /\ \/ /\ NoneChanged \/ pc' = "stuck"
        /\ UNCHANGED due
     \/ \E i \in DOMAIN Kids :
          /\ FirstChanged(i)
          /\ pc' # "stuck"
          /\ due' = Report(Kids[i])
  /\ UNCHANGED jobs

UpdateList ==
  /\ Runs(Shell)
  /\ due # NothingDue
  /\ jobs' = Updated(jobs, due)
  /\ due' = NothingDue
  /\ UNCHANGED vars

\* p_spawn, whose pid goes into the list after the redirection.
Launch(f, mode) ==
  /\ ShellSpawn(f, mode)
  /\ \E p \in Pid :
       /\ status[p] = "FREE"
       /\ status'[p] # "FREE"
       /\ due' = [op |-> "insert", pid |-> p]
  /\ UNCHANGED jobs

\* bg and fg without a pid look for the last stopped job.  If there is none
\* they call p_kill(-1), which reads pcb_table before its start.
IsLastStopped(i) ==
  /\ jobs[i].stat = "stopped"
  /\ \A j \in i + 1 .. Len(jobs) : jobs[j].stat # "stopped"
BgLast == \E i \in DOMAIN jobs : IsLastStopped(i) /\ Bg(jobs[i].pid)

\* A line that leaves the list alone ("jobs" prints it, through f_write).
ListUntouched ==
  /\ \/ Prompt
     \/ OtherLine
     \/ BgLast
     \/ \E p \in Pid : Bg(p) \/ Fg(p)
     \/ due.op = "insert" /\ Redirect
  /\ UNCHANGED <<jobs, due>>

\* The other processes, the scheduler and the keyboard.
Others ==
  /\ \/ Alarm
     \/ \E p \in Pid : \/ Dispatch(p) \/ SleepYields(p) \/ FileCall(p)
                       \/ TerminalFromBackground(p) \/ JobStep(p)
     \/ CtrlC
     \/ CtrlZ
  /\ UNCHANGED <<jobs, due>>

-------------------------------------------------------------------------------
\* shell() starts with a head alone (init_list_head).
InitJobs == Init /\ jobs = <<>> /\ due = NothingDue

NextJobs ==
  \/ Wait
  \/ UpdateList
  \/ \E f \in Programs, mode \in {"FOREGROUND", "BACKGROUND"} : Launch(f, mode)
  \/ ListUntouched
  \/ Others

JobSpec == InitJobs /\ [][NextJobs]_jobVars

ShellGoesOn == Wait \/ UpdateList \/ (Prompt /\ UNCHANGED <<jobs, due>>)
UserAnswers ==
  \/ \E f \in Programs, mode \in {"FOREGROUND", "BACKGROUND"} : Launch(f, mode)
  \/ /\ OtherLine \/ BgLast \/ \E p \in Pid : Bg(p) \/ Fg(p)
     /\ UNCHANGED <<jobs, due>>

\* Of Kernel!FairSpec, what the shell needs, and a user who always answers the
\* prompt (without an answer the timer stays paused): a job that holds the CPU
\* with the timer paused goes on to its p_exit.
AnsweredJobs ==
  /\ JobSpec
  /\ WF_jobVars(Alarm /\ UNCHANGED <<jobs, due>>)
  /\ SF_jobVars(Dispatch(Shell) /\ UNCHANGED <<jobs, due>>)
  /\ WF_jobVars((\E p \in Pid : JobStep(p)) /\ UNCHANGED <<jobs, due>>)
  /\ SF_jobVars(ShellGoesOn)
  /\ SF_jobVars(UserAnswers)

-------------------------------------------------------------------------------
(* Properties.                                                               *)

JobsTypeOK ==
  /\ TypeOK
  /\ jobs \in Seq([pid : Pid, stat : {"running", "stopped"}])
  /\ due \in Update

\* The list and the kernel agree on the shell's children: counting what the
\* shell has yet to do, the jobs are the children in their order, so a pid in
\* the list is never free or that of a process spawned later (delete_element,
\* insert_tail and the unlinking in k_process_wait keep the order apart).
JobsAreChildren ==
  pc # "stuck" =>
    [i \in DOMAIN Updated(jobs, due) |-> Updated(jobs, due)[i].pid] = Kids

\* Nothing p_wait has acknowledged is forgotten: a job whose process has not
\* changed since is listed as it is, however reports and keys were mixed.  And
\* while the user types a line, no job listed as stopped runs: bg without a pid
\* never picks one that is running already, though the list was last brought
\* up to date before the prompt.
JobsShowStatus ==
  /\ \A i \in DOMAIN Updated(jobs, due) :
       LET job == Updated(jobs, due)[i]
       IN  ~Changed(job.pid) =>
             (job.stat = "stopped" <=> status[job.pid] = "SIGNALSTOPPED")
  /\ pc = "reading" =>
       \A i \in DOMAIN jobs : jobs[i].stat = "stopped" =>
         status[jobs[i].pid] \in Zombie \cup {"SIGNALSTOPPED"}

\* The job of a process that has died leaves the list, once the user has
\* answered the prompt, unless the shell is caught in the unlink loop.
DeadJobsLeave ==
  \A p \in Pid :
    (Find(jobs, p) # 0 /\ status[p] \in Zombie) ~> (Find(jobs, p) = 0 \/ pc = "stuck")

===============================================================================
