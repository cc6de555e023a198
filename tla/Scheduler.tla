------------------------------- MODULE Scheduler -------------------------------
(****************************************************************************)
(* The scheduler of PennOS: scheduler.c and queue.c, driven by the kernel   *)
(* calls that put a process on its queues, take it off, or change whether   *)
(* it may run (k_process_create, k_exit, k_process_kill, k_nice and         *)
(* k_process_terminate of kernel.c).                                        *)
(*                                                                          *)
(* k_schedule runs with SIGALRM masked, but SIGINT and SIGTSTP stay         *)
(* unmasked: their handlers may change a status between two turns of the    *)
(* loop of next_to_schedule.  Each turn of that loop is therefore one       *)
(* action, and `deciding' says that the CPU is inside the loop.             *)
(****************************************************************************)
EXTENDS Integers, Sequences

CONSTANTS
  Pid,          \* the process ids but init's, at most TABLESIZE of them
  Shell,        \* the pid of the shell (SHELLPID), spawned at boot
  InitProc,     \* pid 1, which spawns the shell, spins, and is on no queue
  Garbage,      \* what malloc may leave in runs_left of a new PCB
  SpawnNice,    \* niceness given to p_spawn: 0 or 1, or nice's argument
  ReniceTo,     \* priorities given to nice_pid
  ArmedReaps    \* bound: how many reaps may run with the timer armed

NUM_QUEUES == 3
Level == 0 .. NUM_QUEUES - 1

ASSUME PidAssumption == Shell \in Pid /\ InitProc \notin Pid
\* A negative runs_left fails the test runs_left > 0 like 0 does, and stays
\* negative: it is represented by 0, so garbage is a natural number.
ASSUME GarbageAssumption == Garbage \subseteq Nat
ASSUME NiceAssumption == SpawnNice \subseteq -1 .. 1 /\ ReniceTo \subseteq Int
ASSUME ArmedReapsAssumption == ArmedReaps \in Nat

VARIABLES
  active,     \* active[l]: the nodes of this epoch still to run, per level
  inactive,   \* inactive[l]: the nodes that had their turn, and the new ones
  curr_q,     \* the level served last, -1 at boot
  runs_left,  \* turns each PCB has left before it becomes inactive
  nice,       \* the niceness in each PCB
  status,     \* curr_status, READY, WAITING and SIGNALREADY in one class
  current,    \* curr_process_pcb
  deciding,   \* the CPU is in the loop of next_to_schedule
  victim,     \* the process a reap with the timer armed is unqueueing
  scanned,    \* how many of the six queues that reap has gone through
  armedReaps  \* how many such reaps there were

vars == <<active, inactive, curr_q, runs_left, nice, status, current,
          deciding, victim, scanned, armedReaps>>
queues == <<active, inactive, curr_q>>
reap == <<victim, scanned, armedReaps>>

\* next_to_schedule tells four statuses apart: RUNNABLE stands for READY,
\* WAITING and SIGNALREADY (a waiting process is scheduled: p_wait polls);
\* no code assigns STOPPED.  FREE: pcb_table has no entry.
Status == {"FREE", "RUNNABLE", "SIGNALSTOPPED", "SIGNALZOMBIED", "ZOMBIED"}

NoPid == InitProc  \* init is never reaped

In(s) == {s[i] : i \in 1 .. Len(s)}
Queued == UNION {In(active[l]) \cup In(inactive[l]) : l \in Level}

\* Mutant: only the head of the queue is looked at.
RemoveHead(s, p) == IF s # <<>> /\ Head(s) = p THEN Tail(s) ELSE s

\* remove_by_pid: unlink the node of p, if the queue has one.  (The loop goes
\* on from the `next' of the node it freed; it is taken to be still there.)
RemoveByPid(s, p) ==
  IF p \in In(s)
    THEN LET k == CHOOSE i \in 1 .. Len(s) : s[i] = p
         IN  [i \in 1 .. Len(s) - 1 |-> IF i < k THEN s[i] ELSE s[i + 1]]
    ELSE s

-------------------------------------------------------------------------------
(* next_to_schedule: one turn of its loop.                                   *)

NothingActive == \A l \in Level : active[l] = <<>>

\* The queues after add_to_active, which the loop calls when all active
\* queues are empty (enqueue_q onto an empty queue takes the chain over).
Active(l) == IF NothingActive THEN inactive[l] ELSE active[l]
Inactive(l) == IF NothingActive THEN <<>> ELSE inactive[l]

\* set_time gives one run to the last queue its loop finds non-empty, the
\* lowest priority; its counter is NUM_QUEUES after the loop, so neither of
\* the branches that would give the higher queues their share is taken.
Lowest(l) == Active(l) # <<>> /\ \A k \in Level : k > l => Active(k) = <<>>

RunsLeft(p) ==
  IF NothingActive /\ \E l \in Level : Lowest(l) /\ p \in In(Active(l))
    THEN 1 ELSE runs_left[p]

\* The level served: the first non-empty one after curr_q, cyclically.
Turn(l) ==
  \E q \in 1 .. NUM_QUEUES :
    /\ l = (curr_q + q) % NUM_QUEUES
    /\ Active(l) # <<>>
    /\ \A r \in 1 .. q - 1 : Active((curr_q + r) % NUM_QUEUES) = <<>>

\* Mutant: a turn costs nothing.
NoDecrement(n) == n
Decrement(n) == IF n = 0 THEN 0 ELSE n - 1

\* The head p of level l has its turn, which leaves it with `runs': it goes to
\* the tail of the active queue if `again', of the inactive one if `later'.
Requeue(l, p, runs, again, later) ==
  /\ active' = [k \in Level |->
        IF k # l THEN Active(k)
        ELSE IF again THEN Append(Tail(Active(l)), p) ELSE Tail(Active(l))]
  /\ inactive' = [k \in Level |->
        IF k = l /\ later THEN Append(Inactive(k), p) ELSE Inactive(k)]
  /\ runs_left' = [q \in Pid |-> IF q = p THEN runs ELSE RunsLeft(q)]
  /\ curr_q' = l

\* Mutants: a process with runs left goes to both queues; one out of runs goes to
\* neither; zombies stay queued; a process that may not run keeps its runs.
RotateBoth(l, p) ==
  LET runs == Decrement(RunsLeft(p))
  IN  Requeue(l, p, runs, runs > 0, status[p] # "ZOMBIED")
RotateDrops(l, p) ==
  LET runs == Decrement(RunsLeft(p))
  IN  Requeue(l, p, runs, runs > 0 /\ status[p] # "ZOMBIED", FALSE)
RotateZombies(l, p) ==
  LET runs == Decrement(RunsLeft(p))
  IN  Requeue(l, p, runs, runs > 0, runs = 0)
RotateKeeps(l, p) ==
  LET runs   == IF status[p] = "RUNNABLE" THEN Decrement(RunsLeft(p)) ELSE RunsLeft(p)
      zombie == status[p] = "ZOMBIED"
  IN  Requeue(l, p, runs, runs > 0 /\ ~zombie, runs = 0 /\ ~zombie)

\* While the process has runs left it stays active; a ZOMBIED one is on neither
\* queue any more.
Rotate(l, p) ==
  LET runs   == Decrement(RunsLeft(p))
      zombie == status[p] = "ZOMBIED"
  IN  Requeue(l, p, runs, runs > 0 /\ ~zombie, runs = 0 /\ ~zombie)

\* What line 123 reads.  The PCB of a FREE pid is freed memory, and its
\* status is whatever that memory holds.
MayRun(p) == status[p] \in {"RUNNABLE", "FREE"}
MayNotRun(p) == status[p] # "RUNNABLE"

Skip(l, p) ==
  /\ deciding /\ Turn(l) /\ p = Head(Active(l)) /\ MayNotRun(p)
  /\ Rotate(l, p)
  /\ UNCHANGED <<nice, status, current, deciding, reap>>

Dispatch(l, p) ==
  /\ deciding /\ Turn(l) /\ p = Head(Active(l)) /\ MayRun(p)
  /\ Rotate(l, p)
  /\ current' = p
  /\ deciding' = FALSE
  /\ UNCHANGED <<nice, status, reap>>

\* SIGALRM, or a process that calls go_to_scheduler.
KSchedule ==
  /\ ~deciding
  /\ deciding' = TRUE
  /\ UNCHANGED <<queues, runs_left, nice, status, current, reap>>

-------------------------------------------------------------------------------
(* The calls of the running process, and the signals.                        *)

ShellRuns == current = Shell /\ ~deciding /\ victim = NoPid

\* k_process_create by the running process.  Which free pid it takes makes
\* no difference to the queues.
Create(p, n, g) ==
  /\ ~deciding
  /\ current \in Pid
  /\ current = Shell => victim = NoPid
  /\ status[p] = "FREE"
  /\ status' = [status EXCEPT ![p] = "RUNNABLE"]
  /\ nice' = [nice EXCEPT ![p] = n]
  /\ runs_left' = [runs_left EXCEPT ![p] = g]
  /\ inactive' = [inactive EXCEPT ![n + 1] = Append(@, p)]
  /\ UNCHANGED <<active, curr_q, current, deciding, reap>>

\* k_exit: the process becomes a zombie and enters the scheduler.  A process
\* without a table entry returns.  The shell leaves PennOS instead.
KExit ==
  /\ ~deciding
  /\ current \in Pid \ {Shell}
  /\ status[current] # "FREE"
  /\ status' = [status EXCEPT ![current] = "ZOMBIED"]
  /\ deciding' = TRUE
  /\ UNCHANGED <<queues, runs_left, nice, current, reap>>

\* k_process_kill with S_SIGSTOP and S_SIGTERM.  They come from the handlers
\* of SIGTSTP and SIGINT, which may run in the scheduler too, and S_SIGSTOP
\* also from terminal input or output of a background process; none of them
\* is ever sent to the shell.

\* Mutant: the other stopped status, which no code assigns.
SigStopPlain(p) ==
  /\ p # Shell
  /\ status[p] = "RUNNABLE"
  /\ status' = [status EXCEPT ![p] = "STOPPED"]
  /\ UNCHANGED <<queues, runs_left, nice, current, deciding, reap>>

SigStop(p) ==
  /\ p # Shell
  /\ status[p] = "RUNNABLE"
  /\ status' = [status EXCEPT ![p] = "SIGNALSTOPPED"]
  /\ UNCHANGED <<queues, runs_left, nice, current, deciding, reap>>

SigTerm(p) ==
  /\ p # Shell
  /\ status[p] \notin {"FREE", "ZOMBIED", "SIGNALZOMBIED"}
  /\ status' = [status EXCEPT ![p] = "SIGNALZOMBIED"]
  /\ UNCHANGED <<queues, runs_left, nice, current, deciding, reap>>

\* S_SIGCONT comes from the shell's bg and fg.
SigCont(p) ==
  /\ ShellRuns
  /\ status[p] = "SIGNALSTOPPED"
  /\ status' = [status EXCEPT ![p] = "RUNNABLE"]
  /\ UNCHANGED <<queues, runs_left, nice, current, deciding, reap>>

\* k_nice by the shell's nice_pid: only the PCB changes, no queue does.
\* p_nice takes 0 for a priority it does not know and stores it plus one.
Clamp(n) == IF n < -1 \/ n > 1 THEN 0 ELSE n

KNice(p, n) ==
  /\ ShellRuns
  /\ status[p] # "FREE"
  /\ nice' = [nice EXCEPT ![p] = Clamp(n) + 1]
  /\ UNCHANGED <<queues, runs_left, status, current, deciding, reap>>

\* k_process_terminate, for a reaped child and for each of its descendants,
\* in a k_process_wait that holds the timer paused: one step.
Terminate(p) ==
  /\ ShellRuns
  /\ p # Shell
  /\ status[p] # "FREE"
  /\ active' = [l \in Level |-> RemoveByPid(active[l], p)]
  /\ inactive' = [l \in Level |-> RemoveByPid(inactive[l], p)]
  /\ status' = [status EXCEPT ![p] = "FREE"]
  /\ UNCHANGED <<curr_q, runs_left, nice, current, deciding, reap>>

\* The same in the HANG mode of k_process_wait once it has been through
\* go_to_scheduler, which arms the timer: remove_from_queues goes through
\* active[0], inactive[0], active[1], ... and SIGALRM may come in between.
\* (The reaped child alone: its descendants would follow in the same way.)
ArmedTerminate(p) ==
  /\ armedReaps < ArmedReaps
  /\ ShellRuns
  /\ status[p] \in {"ZOMBIED", "SIGNALZOMBIED"}
  /\ victim' = p
  /\ scanned' = 0
  /\ armedReaps' = armedReaps + 1
  /\ UNCHANGED <<queues, runs_left, nice, status, current, deciding>>

RemoveScan ==
  LET l == scanned \div 2
  IN  /\ current = Shell /\ ~deciding
      /\ victim # NoPid
      /\ scanned < 2 * NUM_QUEUES
      /\ IF scanned % 2 = 0
           THEN /\ active' = [active EXCEPT ![l] = RemoveByPid(@, victim)]
                /\ UNCHANGED inactive
           ELSE /\ inactive' = [inactive EXCEPT ![l] = RemoveByPid(@, victim)]
                /\ UNCHANGED active
      /\ scanned' = scanned + 1
      /\ UNCHANGED <<curr_q, runs_left, nice, status, current, deciding,
                     victim, armedReaps>>

RemoveDone ==
  /\ current = Shell /\ ~deciding
  /\ victim # NoPid
  /\ scanned = 2 * NUM_QUEUES
  /\ status' = [status EXCEPT ![victim] = "FREE"]
  /\ victim' = NoPid
  /\ scanned' = 0
  /\ UNCHANGED <<queues, runs_left, nice, current, deciding, armedReaps>>

-------------------------------------------------------------------------------
\* Boot: init has spawned the shell at niceness -1 and spins.
Init ==
  /\ active = [l \in Level |-> <<>>]
  /\ inactive = [l \in Level |-> IF l = 0 THEN <<Shell>> ELSE <<>>]
  /\ curr_q = -1
  /\ runs_left \in {[p \in Pid |-> IF p = Shell THEN g ELSE 0] : g \in Garbage}
  /\ nice = [p \in Pid |-> IF p = Shell THEN -1 ELSE 0]
  /\ status = [p \in Pid |-> IF p = Shell THEN "RUNNABLE" ELSE "FREE"]
  /\ current = InitProc
  /\ deciding = FALSE
  /\ victim = NoPid
  /\ scanned = 0
  /\ armedReaps = 0

NextToSchedule == \E l \in Level, p \in Pid : Skip(l, p) \/ Dispatch(l, p)

Next ==
  \/ NextToSchedule
  \/ KSchedule
  \/ KExit
  \/ RemoveScan
  \/ RemoveDone
  \/ \E p \in Pid :
       \/ \E n \in SpawnNice, g \in Garbage : Create(p, n, g)
       \/ SigStop(p) \/ SigTerm(p) \/ SigCont(p)
       \/ \E n \in ReniceTo : KNice(p, n)
       \/ Terminate(p)
       \/ ArmedTerminate(p)

Spec == Init /\ [][Next]_vars

\* The loop runs on, and the interval timer, periodic once armed, brings the
\* scheduler back: what pauses it for good is a read of the terminal, which
\* an answer of the user ends, and a call that then runs on to p_exit.
FairSpec == Spec /\ WF_vars(NextToSchedule) /\ WF_vars(KSchedule)

-------------------------------------------------------------------------------
(* Properties.                                                               *)

TypeOK ==
  /\ active \in [Level -> Seq(Pid)]
  /\ inactive \in [Level -> Seq(Pid)]
  /\ curr_q \in -1 .. NUM_QUEUES - 1
  /\ runs_left \in [Pid -> Nat]
  /\ nice \in [Pid -> -1 .. 2]
  /\ status \in [Pid -> Status]
  /\ current \in Pid \cup {InitProc}
  /\ deciding \in BOOLEAN
  /\ victim \in Pid \cup {NoPid}
  /\ scanned \in 0 .. 2 * NUM_QUEUES
  /\ armedReaps \in 0 .. ArmedReaps

NoDup(s) == \A i, j \in 1 .. Len(s) : s[i] = s[j] => i = j

\* A process has at most one node in the six queues, so it never gets two
\* turns for one, and taking one node away takes the process away.
OneNode ==
  /\ \A l \in Level : NoDup(active[l]) /\ NoDup(inactive[l])
  /\ \A l, m \in Level : In(active[l]) \cap In(inactive[m]) = {}
  /\ \A l, m \in Level : l # m => /\ In(active[l]) \cap In(active[m]) = {}
                                  /\ In(inactive[l]) \cap In(inactive[m]) = {}

\* Every process that has not exited has a node: whatever signals, exits and
\* epochs interleave, none that may ever run again is forgotten.
NoneLost ==
  \A p \in Pid : status[p] \notin {"FREE", "ZOMBIED"} /\ p # victim => p \in Queued

\* Every queued node refers to a PCB that exists: next_to_schedule reads no
\* freed memory.
QueuedHavePcb == \A p \in Queued : status[p] # "FREE"

\* next_to_schedule never returns NULL, on which k_schedule ends PennOS: the
\* shell has a node whatever is stopped, killed or reaped.
SomethingToSchedule == Shell \in Queued /\ status[Shell] = "RUNNABLE"

\* The loop of next_to_schedule ends, in spite of the stopped and killed
\* processes it turns over and of the signals that come meanwhile.
SchedulerReturns == deciding ~> ~deciding

\* A process that stays runnable gets the CPU again and again.
NoStarvation ==
  \A p \in Pid : <>[](status[p] = "RUNNABLE") => []<>(current = p /\ ~deciding)

\* The node of a process that has exited leaves the queues, reaped or not.
ZombieUnqueued ==
  \A p \in Pid : status[p] = "ZOMBIED" ~> p \notin Queued \/ status[p] # "ZOMBIED"
=============================================================================
