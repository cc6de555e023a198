---------------------------- MODULE JobControlProofs ----------------------------
(****************************************************************************)
(* Theorems about JobControl: the shell's list keeps up with the kernel's   *)
(* children of the shell, for any number of jobs and any programs.          *)
(****************************************************************************)
EXTENDS JobControl, KernelProofs

Job == [pid : Pid, stat : {"running", "stopped"}]

\* The list once the shell has done what it has yet to do.
Listed == Updated(jobs, due)

\* A job is in the table, and it is neither init nor the shell.
JobsInTable == \A i \in DOMAIN Listed : Listed[i].pid \in Table \ {InitPid, Shell}

\* The first half of JobsShowStatus.
ListShows ==
  \A i \in DOMAIN Listed :
    ~Changed(Listed[i].pid) =>
      (Listed[i].stat = "stopped" <=> status[Listed[i].pid] = "SIGNALSTOPPED")

\* The second half, from the wait that found nothing new on.
StoppedStay ==
  pc \in {"prompt", "reading"} =>
    \A i \in DOMAIN jobs : jobs[i].stat = "stopped" =>
      status[jobs[i].pid] \in Zombie \cup {"SIGNALSTOPPED"}

\* Nothing is due when the shell has found nothing new, or waits for good.
NothingWaits == pc \in {"prompt", "reading", "stuck"} => due = NothingDue

JobInv ==
  /\ KernelInv
  /\ jobs \in Seq(Job) /\ Listed \in Seq(Job) /\ due \in Update
  /\ JobsAreChildren /\ JobsInTable
  /\ ListShows /\ StoppedStay /\ NothingWaits

-------------------------------------------------------------------------------
(* job_list.c.                                                               *)

\* The element found is the one that holds p, when no other does.
LEMMA FindFacts ==
  ASSUME NEW list \in Seq(Job), NEW k \in DOMAIN list,
         \A j \in DOMAIN list : list[j].pid = list[k].pid => j = k
  PROVE  Find(list, list[k].pid) = k
<1> DEFINE I == {i \in 1 .. Len(list) : list[i].pid = list[k].pid}
<1>1. Find(list, list[k].pid) = IF I # {} THEN Min(I) ELSE 0
  BY DEF Find, SelectInSeq
<1>2. I = {k} /\ k \in Int
  OBVIOUS
<1> HIDE DEF I
<1>3. Min(I) = k
  <2>1. k \in I /\ \A y \in I : k <= y
    BY <1>2
  <2>2. \A x \in I : x = k
    BY <1>2
  <2>3. QED
    BY <2>1, <2>2 DEF Min
<1>4. QED
  BY <1>1, <1>2, <1>3

\* What each update does.
LEMMA UpdatedFacts ==
  ASSUME NEW list, NEW p \in Pid
  PROVE  /\ Updated(list, NothingDue) = list
         /\ Updated(list, [op |-> "insert", pid |-> p]) = InsertTail(list, p)
         /\ Updated(list, [op |-> "delete", pid |-> p]) = DeleteElement(list, p)
         /\ \A stat \in {"stopped", "running"} :
               Updated(list, [op |-> stat, pid |-> p]) = UpdateStatus(list, p, stat)
<1>1. \A u : /\ u.op = "none" => Updated(list, u) = list
             /\ u.op = "insert" => Updated(list, u) = InsertTail(list, u.pid)
             /\ u.op = "delete" => Updated(list, u) = DeleteElement(list, u.pid)
             /\ u.op = "stopped" => Updated(list, u) = UpdateStatus(list, u.pid, u.op)
             /\ u.op = "running" => Updated(list, u) = UpdateStatus(list, u.pid, u.op)
  <2>1. /\ "none" # "insert" /\ "none" # "delete" /\ "insert" # "delete"
        /\ "stopped" \notin {"none", "insert", "delete"}
        /\ "running" \notin {"none", "insert", "delete"}
    OBVIOUS
  <2>2. QED
    BY <2>1, Zenon DEF Updated
<1>2. NothingDue.op = "none"
  BY DEF NothingDue
<1>3. \A op : [op |-> op, pid |-> p].op = op /\ [op |-> op, pid |-> p].pid = p
  OBVIOUS
<1>4. \A stat \in {"stopped", "running"} :
        Updated(list, [op |-> stat, pid |-> p]) = UpdateStatus(list, p, stat)
  BY <1>1, <1>3, Zenon
<1>5. QED
  BY <1>1, <1>2, <1>3, <1>4, Zenon

\* What p_wait reports of a child.
LEMMA ReportFacts ==
  ASSUME NEW p \in Pid, status[p] \in Live \ {"WAITING", "READY"}
  PROVE  /\ status[p] \in Zombie => Report(p) = [op |-> "delete", pid |-> p]
         /\ status[p] = "SIGNALSTOPPED" => Report(p) = [op |-> "stopped", pid |-> p]
         /\ status[p] = "SIGNALREADY" => Report(p) = [op |-> "running", pid |-> p]
         /\ \/ status[p] \in Zombie \/ status[p] = "SIGNALSTOPPED"
            \/ status[p] = "SIGNALREADY"
<1>1. /\ "SIGNALSTOPPED" \notin Zombie /\ "SIGNALREADY" \notin Zombie
      /\ "SIGNALSTOPPED" # "SIGNALREADY"
  BY DEF Zombie
<1>2. \/ status[p] \in Zombie \/ status[p] = "SIGNALSTOPPED" \/ status[p] = "SIGNALREADY"
  BY DEF Live, Runnable
<1>3. QED
  BY <1>1, <1>2, Zenon DEF Report

\* The list agrees with a list of children.
LEMMA AgreeFacts ==
  ASSUME NEW list \in Seq(Job), NEW kids \in Seq(Pid)
  PROVE  [i \in DOMAIN list |-> list[i].pid] = kids
           <=> Len(list) = Len(kids) /\ \A i \in 1 .. Len(kids) : list[i].pid = kids[i]
<1>1. DOMAIN list = 1 .. Len(list) /\ DOMAIN kids = 1 .. Len(kids)
      /\ Len(list) \in Nat /\ Len(kids) \in Nat
      /\ kids = [i \in 1 .. Len(kids) |-> kids[i]]
  OBVIOUS
<1>2. ASSUME [i \in DOMAIN list |-> list[i].pid] = kids
      PROVE  Len(list) = Len(kids) /\ \A i \in 1 .. Len(kids) : list[i].pid = kids[i]
  <2>1. DOMAIN list = DOMAIN kids /\ \A i \in DOMAIN list : list[i].pid = kids[i]
    BY <1>2
  <2>2. ASSUME NEW m \in Nat, NEW n \in Nat, 1 .. m = 1 .. n PROVE m = n
    <3>1. (n \in 1 .. m \/ n = 0) /\ (m \in 1 .. n \/ m = 0)
      BY <2>2
    <3>2. QED
      BY <2>2, <3>1
  <2>3. Len(list) = Len(kids)
    BY <1>1, <2>1, <2>2
  <2>4. QED
    BY <1>1, <2>1, <2>3
<1>3. ASSUME Len(list) = Len(kids), \A i \in 1 .. Len(kids) : list[i].pid = kids[i]
      PROVE  [i \in DOMAIN list |-> list[i].pid] = kids
  BY <1>1, <1>3
<1>4. QED
  BY <1>2, <1>3

\* Deleting the element of the i-th child keeps the list beside the shell's
\* children, as k_process_terminate unlinks it from them.
LEMMA DeleteAgrees ==
  ASSUME NEW list \in Seq(Job), Kids \in Seq(Pid), NEW i \in DOMAIN Kids, UnlinkEnds(i),
         Len(list) = Len(Kids), \A j \in 1 .. Len(Kids) : list[j].pid = Kids[j],
         \A j, m \in DOMAIN Kids : Kids[j] = Kids[m] => j = m
  PROVE  LET left == DeleteElement(list, Kids[i])
         IN  /\ left \in Seq(Job) /\ Unlinked(i) \in Seq(Pid)
             /\ Len(left) = Len(Unlinked(i))
             /\ \A j \in 1 .. Len(left) : left[j].pid = Unlinked(i)[j]
             /\ \A j \in 1 .. Len(left) : \E m \in DOMAIN list \ {i} : left[j] = list[m]
<1> DEFINE s == Kids
           left == DeleteElement(list, s[i])
           U == Unlinked(i)
<1> HIDE DEF s
<1>1. /\ s \in Seq(Pid) /\ Len(s) \in Nat /\ Len(list) = Len(s)
      /\ DOMAIN list = 1 .. Len(s) /\ DOMAIN s = 1 .. Len(s) /\ i \in 1 .. Len(s)
      /\ \A j \in 1 .. Len(s) : list[j].pid = s[j]
      /\ \A j, m \in DOMAIN s : s[j] = s[m] => j = m
  BY DEF s
<1>2. i = 1 \/ i = 2
  BY <1>1 DEF UnlinkEnds, s
<1>3. left = SubSeq(list, 1, i - 1) \o SubSeq(list, i + 1, Len(list))
  <2>1. Find(list, s[i]) = i
    BY <1>1, FindFacts
  <2>2. i # 0
    BY <1>1
  <2>3. QED
    BY <2>1, <2>2 DEF DeleteElement, RemoveAt
<1>4. U = CASE i = 1 -> Tail(s)
            [] i = 2 -> SubSeq(s, 1, 1) \o SubSeq(s, 3, Len(s))
            [] OTHER -> s
  BY SMTT(30) DEF s, Unlinked
<1> HIDE DEF left, U
<1>5. CASE i = 1
  <2>1. i # 2
    BY <1>5
  <2>2. U = Tail(s)
    BY <1>4, <1>5, <2>1, Zenon
  <2>3. /\ U \in Seq(Pid) /\ Len(U) = Len(s) - 1
        /\ \A j \in 1 .. Len(U) : U[j] = s[j + 1]
    BY <1>1, <1>5, <2>2
  <2>4. /\ left \in Seq(Job) /\ Len(left) = Len(s) - 1
        /\ \A j \in 1 .. Len(left) : left[j] = list[j + 1]
    BY <1>1, <1>3, <1>5
  <2>5. \A j \in 1 .. Len(left) : j + 1 \in 1 .. Len(s) /\ j + 1 # i
    BY <1>1, <1>5, <2>4
  <2>6. QED
    BY <1>1, <2>3, <2>4, <2>5 DEF left, U, s
<1>6. CASE i = 2
  <2>1. i # 1
    BY <1>6
  <2>2. U = SubSeq(s, 1, 1) \o SubSeq(s, 3, Len(s))
    BY <1>4, <1>6, <2>1, Zenon
  <2>3. /\ U \in Seq(Pid) /\ Len(U) = Len(s) - 1
        /\ \A j \in 1 .. Len(U) : U[j] = IF j = 1 THEN s[j] ELSE s[j + 1]
    BY <1>1, <1>6, <2>2
  <2>4. /\ left \in Seq(Job) /\ Len(left) = Len(s) - 1
        /\ \A j \in 1 .. Len(left) : left[j] = IF j = 1 THEN list[j] ELSE list[j + 1]
    BY <1>1, <1>3, <1>6
  <2>5. \A j \in 1 .. Len(left) : /\ j \in 1 .. Len(s)
                                  /\ j # 1 => j + 1 \in 1 .. Len(s) /\ j + 1 # i
    BY <1>1, <1>6, <2>4
  <2>6. \A j \in 1 .. Len(left) : left[j].pid = U[j]
    BY <1>1, <2>3, <2>4, <2>5
  <2>7. \A j \in 1 .. Len(left) : \E m \in DOMAIN list \ {i} : left[j] = list[m]
    BY <1>1, <2>1, <2>4, <2>5
  <2>8. QED
    BY <2>3, <2>4, <2>6, <2>7 DEF left, U, s
<1>7. QED
  BY <1>2, <1>5, <1>6

-------------------------------------------------------------------------------
(* The steps that leave the list alone.                                      *)

\* The list that is due is the list itself when nothing is.
LEMMA ListedIsJobs == due = NothingDue => Listed = jobs
BY PidFacts, UpdatedFacts DEF Listed

\* A job that no step has changed is still shown; one that changed shows it to
\* p_wait, and one that was stopped does not run while the user types.
LEMMA JobsUntouched ==
  ASSUME JobInv, KernelInv', UNCHANGED <<jobs, due>>,
         pc' = "stuck" \/ (pc # "stuck" /\ Kids' = Kids),
         pc' = "stuck" => due = NothingDue,
         \A p \in Table \ {InitPid, Shell} :
           /\ status'[p] # "FREE"
           /\ (status'[p] = status[p] /\ old'[p] = old[p]) \/ old'[p] # status'[p],
         pc' \in {"prompt", "reading"} =>
           \/ due = NothingDue /\ StoppedStay'
           \/ /\ pc \in {"prompt", "reading"}
              /\ \A p \in Table \ {InitPid, Shell} :
                    status[p] \in Zombie \cup {"SIGNALSTOPPED"} =>
                      status'[p] \in Zombie \cup {"SIGNALSTOPPED"}
  PROVE  JobInv'
<1> USE DEF JobInv
<1>1. Listed' = Listed
  BY DEF Listed
<1>2. Job' = Job /\ Update' = Update
  BY DEF Job, Update
<1>3. JobsAreChildren'
  BY <1>1 DEF JobsAreChildren, Listed
<1>4. JobsInTable'
  BY <1>1 DEF JobsInTable, Table
<1>5. ListShows'
  BY <1>1 DEF ListShows, JobsInTable, Changed
<1>6. NothingWaits'
  BY DEF NothingWaits
<1>7. StoppedStay'
  <2>1. SUFFICES ASSUME ~StoppedStay', pc' \in {"prompt", "reading"},
                        NEW i \in DOMAIN jobs, jobs[i].stat = "stopped"
                 PROVE  status'[jobs[i].pid] \in Zombie \cup {"SIGNALSTOPPED"}
    BY DEF StoppedStay
  <2>2. pc \in {"prompt", "reading"} /\ Listed = jobs
    BY <2>1, ListedIsJobs DEF NothingWaits
  <2>3. /\ jobs[i].pid \in Table \ {InitPid, Shell}
        /\ status[jobs[i].pid] \in Zombie \cup {"SIGNALSTOPPED"}
    BY <2>1, <2>2 DEF JobsInTable, StoppedStay
  <2>4. QED
    BY <2>1, <2>3
<1>8. QED
  BY <1>1, <1>2, <1>3, <1>4, <1>5, <1>6, <1>7

\* Signals: whoever gets one shows a change, and only S_SIGCONT makes a stopped
\* process run.
LEMMA KillLists ==
  ASSUME JobInv, KernelInv', NEW p \in Pid,
         NEW sig \in {"S_SIGSTOP", "S_SIGCONT", "S_SIGTERM"}, KProcessKill(p, sig),
         pc' = pc \/ (pc = "reading" /\ pc' = "poll"),
         sig = "S_SIGCONT" => pc' = "poll",
         UNCHANGED <<jobs, due>>
  PROVE  JobInv'
<1>1. /\ children' = children
      /\ \/ UNCHANGED <<status, old>>
         \/ /\ status[p] \in Receptive(sig) /\ old' = [old EXCEPT ![p] = status[p]]
            /\ status' = [status EXCEPT ![p] = Outcome(sig)]
  BY DEF KProcessKill
<1>2. /\ status[p] \in Receptive(sig) => status[p] # Outcome(sig)
      /\ Outcome(sig) # "FREE"
      /\ sig # "S_SIGCONT" => Outcome(sig) \in Zombie \cup {"SIGNALSTOPPED"}
  BY DEF Receptive, Outcome, Live, Runnable, Zombie
<1>3. \A q \in Table \ {InitPid, Shell} :
        /\ status'[q] # "FREE"
        /\ (status'[q] = status[q] /\ old'[q] = old[q]) \/ old'[q] # status'[q]
        /\ \/ status'[q] = status[q]
           \/ sig # "S_SIGCONT" => status'[q] \in Zombie \cup {"SIGNALSTOPPED"}
  BY <1>1, <1>2 DEF JobInv, KernelInv, TypeOK, Table
<1>4. pc' = "stuck" => due = NothingDue
  BY DEF JobInv, NothingWaits
<1>5. Kids' = Kids
  BY <1>1 DEF Kids
<1>6. QED
  BY <1>3, <1>4, <1>5, JobsUntouched

\* What the other processes, the scheduler and the keyboard do.
LEMMA OthersList ==
  ASSUME JobInv, KernelInv', Others
  PROVE  JobInv'
<1> USE PidFacts
<1>1. UNCHANGED <<jobs, due>>
  BY DEF Others
<1>2. pc = "stuck" => due = NothingDue
  BY DEF JobInv, NothingWaits
<1>3. ASSUME UNCHANGED <<status, old, children, pc>> PROVE JobInv'
  BY <1>1, <1>2, <1>3, JobsUntouched DEF Kids, Table
<1>4. ASSUME NEW p \in Pid, TerminalFromBackground(p) PROVE JobInv'
  BY <1>1, <1>4, KillLists DEF TerminalFromBackground
<1>5. ASSUME NEW sig \in {"S_SIGSTOP", "S_SIGTERM"}, Keyboard(sig) PROVE JobInv'
  <2>1. CASE fg_pid = Shell
    BY <1>3, <1>5, <2>1 DEF Keyboard, vars
  <2>2. CASE fg_pid # Shell
    <3>1. fg_pid \in Pid
      BY DEF JobInv, KernelInv, TypeOK
    <3>2. QED
      BY <1>1, <1>5, <2>2, <3>1, KillLists DEF Keyboard
  <2>3. QED
    BY <2>1, <2>2
<1>6. ASSUME NEW p \in Pid, KExit(p) PROVE JobInv'
  <2>1. /\ status' = [status EXCEPT ![p] = "ZOMBIED"]
        /\ old' = [old EXCEPT ![p] = status[p]]
        /\ status[p] # "ZOMBIED" /\ UNCHANGED <<children, pc>>
    BY <1>6 DEF KExit, Runs, JobInv, KernelInv, GoneStaysGone
  <2>2. \A q \in Table \ {InitPid, Shell} :
          /\ status'[q] # "FREE"
          /\ (status'[q] = status[q] /\ old'[q] = old[q]) \/ old'[q] # status'[q]
          /\ status'[q] = status[q] \/ status'[q] \in Zombie
    BY <2>1 DEF JobInv, KernelInv, TypeOK, Table, Zombie
  <2>3. QED
    BY <1>1, <1>2, <2>1, <2>2, JobsUntouched DEF Kids
<1>7. ASSUME NEW p \in Pid, SpawnChild(p) PROVE JobInv'
  <2>1. /\ p # Shell /\ p = current /\ pc' = pc
        /\ \E f, mode : KProcessCreate(f, mode)
    BY <1>7 DEF SpawnChild, Runs, JobInv, KernelInv, Roots
  <2>2. PICK c \in Pid : /\ c \notin Table
                         /\ status' = [status EXCEPT ![c] = "READY"]
                         /\ old' = [old EXCEPT ![c] = "READY"]
                         /\ children' = [children EXCEPT ![c] = <<>>,
                                                         ![current] = Append(@, c)]
    BY <2>1 DEF KProcessCreate
  <2>3. c # Shell
    BY <2>2 DEF Table, JobInv, KernelInv, Roots
  <2>4. Kids' = Kids
    BY <2>1, <2>2, <2>3 DEF Kids, JobInv, KernelInv, TypeOK
  <2>5. \A q \in Table : status'[q] = status[q] /\ old'[q] = old[q]
    BY <2>2 DEF JobInv, KernelInv, TypeOK, Table
  <2>6. QED
    BY <1>1, <1>2, <2>1, <2>4, <2>5, JobsUntouched DEF Table
<1>8. ASSUME NEW p \in Pid, \/ Dispatch(p) \/ SleepYields(p) \/ FileCall(p) \/ PsEnds(p)
      PROVE  JobInv'
  BY <1>3, <1>8 DEF Dispatch, SleepYields, FileCall, PsEnds, pcbs
<1>9. CASE Alarm
  BY <1>3, <1>9 DEF Alarm, pcbs
<1>10. QED
  BY <1>4, <1>5, <1>6, <1>7, <1>8, <1>9 DEF Others, JobStep, CtrlC, CtrlZ

\* The shell's own steps that leave the list alone.
LEMMA ListUntouchedList ==
  ASSUME JobInv, KernelInv', ListUntouched
  PROVE  JobInv'
<1>1. UNCHANGED <<jobs, due>>
  BY DEF ListUntouched
<1>2. ASSUME UNCHANGED <<status, old, children>>, pc # "stuck", pc' # "stuck",
             pc' \in {"prompt", "reading"} => pc \in {"prompt", "reading"}
      PROVE  JobInv'
  BY <1>1, <1>2, JobsUntouched DEF Kids, Table
<1>3. CASE Prompt \/ OtherLine
  BY <1>2, <1>3 DEF Prompt, OtherLine, Reading, pcbs
<1>4. CASE due.op = "insert" /\ Redirect
  BY <1>2, <1>4 DEF Redirect, pcbs
<1>5. ASSUME NEW p \in Pid, Bg(p) PROVE JobInv'
  BY <1>1, <1>5, KillLists DEF Bg, Reading
<1>6. ASSUME NEW i \in DOMAIN jobs, Bg(jobs[i].pid) PROVE JobInv'
  <2>1. jobs \in Seq(Job)
    BY DEF JobInv
  <2>2. jobs[i] \in Job
    BY <1>6, <2>1
  <2>3. jobs[i].pid \in Pid
    BY <2>2 DEF Job
  <2>4. QED
    BY <1>5, <1>6, <2>3
<1>7. QED
  BY <1>3, <1>4, <1>5, <1>6 DEF ListUntouched, BgLast, Fg

\* Doing what is due makes the list that was expected.
LEMMA UpdateListList ==
  ASSUME JobInv, KernelInv', UpdateList
  PROVE  JobInv'
<1>1. /\ jobs' = Listed /\ due' = NothingDue /\ due # NothingDue
      /\ UNCHANGED vars
  BY DEF UpdateList, Listed
<1>2. Listed' = Listed
  <2>1. (due = NothingDue => Listed = jobs)'
    BY ListedIsJobs, PTL
  <2>2. QED
    BY <1>1, <2>1
<1>3. Job' = Job /\ Update' = Update /\ NothingDue \in Update
  BY DEF Job, Update
<1>4. JobsAreChildren' /\ JobsInTable' /\ ListShows'
  BY <1>1, <1>2 DEF JobInv, JobsAreChildren, JobsInTable, ListShows, Listed, Table,
                    Kids, Changed, vars
<1>5. pc' \notin {"prompt", "reading", "stuck"}
  BY <1>1 DEF JobInv, NothingWaits, vars
<1>6. QED
  BY <1>1, <1>2, <1>3, <1>4, <1>5 DEF JobInv, StoppedStay, NothingWaits

-------------------------------------------------------------------------------
(* The steps that change the shell's children.                               *)

\* What a wait may do: find nothing new, get caught, acknowledge the i-th child
\* or reap it.
LEMMA WaitCases ==
  ASSUME JobInv, Wait
  PROVE  /\ due = NothingDue /\ UNCHANGED jobs /\ pc \notin {"prompt", "reading", "stuck"}
         /\ \/ /\ NoneChanged \/ pc' = "stuck"
               /\ UNCHANGED due
               /\ pc' \in {"prompt", "hang", "stuck"}
               /\ pc' # "stuck" => UNCHANGED children
               /\ \E s \in {"READY", "WAITING"} : \E o :
                    /\ status' = [status EXCEPT ![Shell] = s]
                    /\ old' = [old EXCEPT ![Shell] = o]
            \/ \E i \in DOMAIN Kids :
                 /\ FirstChanged(i)
                 /\ due' = Report(Kids[i])
                 /\ pc' = "poll"
                 /\ \/ /\ status[Kids[i]] \notin Zombie
                       /\ UNCHANGED children
                       /\ \E s \in {"READY", "WAITING"} : \E o :
                            /\ status' = [status EXCEPT ![Shell] = s]
                            /\ \/ old' = [old EXCEPT ![Shell] = o]
                               \/ old' = [old EXCEPT ![Kids[i]] = status[Kids[i]],
                                                     ![Shell] = o]
                    \/ /\ status[Kids[i]] \in Zombie
                       /\ Reap(i, "poll")
                       /\ \E r : old' = OldAfterReap(i, r)
<1>1. due = NothingDue /\ UNCHANGED jobs /\ (WaitNoHang \/ WaitHang)
  BY DEF Wait
<1>2. pc \notin {"prompt", "reading", "stuck"}
  BY <1>1 DEF WaitNoHang, WaitHang
<1> DEFINE Idle == /\ NoneChanged
                   /\ pc' \in {"prompt", "hang"}
                   /\ UNCHANGED children
                   /\ \E s \in {"READY", "WAITING"} : \E o :
                        /\ status' = [status EXCEPT ![Shell] = s]
                        /\ old' = [old EXCEPT ![Shell] = o]
           Caught == /\ pc' = "stuck"
                     /\ \E s \in {"READY", "WAITING"} : \E o :
                          /\ status' = [status EXCEPT ![Shell] = s]
                          /\ old' = [old EXCEPT ![Shell] = o]
           Acknowledged(i) ==
                     /\ status[Kids[i]] \notin Zombie
                     /\ UNCHANGED children
                     /\ \E s \in {"READY", "WAITING"} : \E o :
                          /\ status' = [status EXCEPT ![Shell] = s]
                          /\ \/ old' = [old EXCEPT ![Shell] = o]
                             \/ old' = [old EXCEPT ![Kids[i]] = status[Kids[i]],
                                                   ![Shell] = o]
           Reaped(i) == /\ status[Kids[i]] \in Zombie
                        /\ Reap(i, "poll")
                        /\ \E r : old' = OldAfterReap(i, r)
<1>3. \/ Idle \/ Caught
      \/ \E i \in DOMAIN Kids : /\ FirstChanged(i) /\ pc' = "poll"
                                /\ Acknowledged(i) \/ Reaped(i)
  <2>1. CASE WaitNoHang
    <3>1. CASE \E i \in DOMAIN Kids : FirstChanged(i) /\ ReapSticks(i)
                 /\ old' = [old EXCEPT ![Shell] = status[Shell]]
      BY <3>1 DEF ReapSticks
    <3>2. CASE \E i \in DOMAIN Kids : FirstChanged(i) /\ status[Kids[i]] \in Zombie
                 /\ Reap(i, "poll") /\ old' = OldAfterReap(i, status[Shell])
      BY <3>2 DEF Reap
    <3>3. CASE /\ NoneChanged
               /\ old' = [old EXCEPT ![Shell] = "WAITING"]
               /\ status' = [status EXCEPT ![Shell] = "READY"]
               /\ pc' = "prompt" /\ UNCHANGED children
      BY <3>3
    <3>4. CASE \E i \in DOMAIN Kids : /\ FirstChanged(i) /\ status[Kids[i]] \notin Zombie
                 /\ old' = [old EXCEPT ![Kids[i]] = status[Kids[i]],
                                       ![Shell] = status[Shell]]
                 /\ status' = [status EXCEPT ![Shell] = "WAITING"]
                 /\ pc' = "poll" /\ UNCHANGED children
      BY <3>4
    <3>5. QED
      BY <2>1, <3>1, <3>2, <3>3, <3>4, Zenon DEF WaitNoHang
  <2>2. CASE WaitHang
    <3> DEFINE kept == IF pc = "spawned" THEN status[Shell] ELSE old[Shell]
    <3>1. CASE \E i \in DOMAIN Kids : FirstChanged(i) /\ ReapSticks(i)
                 /\ old' = [old EXCEPT ![Shell] = kept]
      BY <3>1 DEF ReapSticks
    <3>2. CASE \E i \in DOMAIN Kids : FirstChanged(i) /\ status[Kids[i]] \in Zombie
                 /\ Reap(i, "poll") /\ old' = OldAfterReap(i, kept)
      BY <3>2 DEF Reap
    <3>3. CASE /\ NoneChanged
               /\ old' = [old EXCEPT ![Shell] = kept]
               /\ status' = [status EXCEPT ![Shell] = "WAITING"]
               /\ pc' = "hang" /\ UNCHANGED children
      BY <3>3
    <3>4. CASE \E i \in DOMAIN Kids : /\ FirstChanged(i) /\ status[Kids[i]] \notin Zombie
                 /\ old' = [old EXCEPT ![Shell] = "WAITING"]
                 /\ status' = [status EXCEPT ![Shell] = "READY"]
                 /\ pc' = "poll" /\ UNCHANGED children
      BY <3>4
    <3>5. QED
      BY <2>2, <3>1, <3>2, <3>3, <3>4, Zenon DEF WaitHang
  <2>3. QED
    BY <1>1, <2>1, <2>2
<1>4. CASE Idle
  BY <1>1, <1>2, <1>4 DEF Wait, NoneChanged, FirstChanged
<1>5. CASE Caught
  BY <1>1, <1>2, <1>5 DEF Wait
<1>6. ASSUME NEW i \in DOMAIN Kids, FirstChanged(i), pc' = "poll",
             Acknowledged(i) \/ Reaped(i)
      PROVE  due' = Report(Kids[i])
  <2>1. ~NoneChanged
    BY <1>6 DEF NoneChanged, FirstChanged
  <2>2. PICK j \in DOMAIN Kids : FirstChanged(j) /\ due' = Report(Kids[j])
    BY <1>6, <2>1 DEF Wait
  <2>3. Kids \in Seq(Pid)
    BY PidFacts DEF JobInv, KernelInv, TypeOK, Kids
  <2>4. i \in Nat \ {0} /\ j \in Nat \ {0}
    BY <2>3
  <2>5. i = j
    <3>1. ~(i < j) /\ ~(j < i)
      BY <1>6, <2>2, <2>4 DEF FirstChanged
    <3>2. QED
      BY <2>4, <3>1
  <2>6. QED
    BY <2>2, <2>5
<1>7. CASE \E i \in DOMAIN Kids : /\ FirstChanged(i) /\ pc' = "poll"
                                  /\ Acknowledged(i) \/ Reaped(i)
  BY <1>1, <1>2, <1>6, <1>7
<1>8. QED
  BY <1>3, <1>4, <1>5, <1>7

\* The shell's children and its list, when nothing is due and nothing is lost.
LEMMA KidsFacts ==
  ASSUME JobInv, due = NothingDue, pc # "stuck"
  PROVE  /\ Kids \in Seq(Pid) /\ jobs \in Seq(Job)
         /\ DOMAIN jobs = 1 .. Len(Kids) /\ DOMAIN Kids = 1 .. Len(Kids)
         /\ Len(jobs) = Len(Kids)
         /\ \A i \in 1 .. Len(Kids) : jobs[i].pid = Kids[i]
         /\ \A i, j \in DOMAIN Kids : Kids[i] = Kids[j] => i = j
         /\ \A i \in DOMAIN Kids : Kids[i] \in Table \ {InitPid, Shell} /\ Kids[i] \in Pid
<1>1. Kids \in Seq(Pid) /\ jobs \in Seq(Job)
  BY PidFacts DEF JobInv, KernelInv, TypeOK, Kids
<1>2. Len(jobs) = Len(Kids) /\ \A i \in 1 .. Len(Kids) : jobs[i].pid = Kids[i]
  <2>1. [i \in DOMAIN jobs |-> jobs[i].pid] = Kids
    BY ListedIsJobs DEF JobInv, JobsAreChildren, Listed
  <2>2. QED
    BY <1>1, <2>1, AgreeFacts
<1>3. /\ \A i, j \in DOMAIN Kids : Kids[i] = Kids[j] => i = j
      /\ \A i \in DOMAIN Kids : Kids[i] \in Table /\ parent[Kids[i]] = Shell
  <2>1. Shell \in Table
    BY PidFacts DEF JobInv, KernelInv, Roots, Table
  <2>2. QED
    BY <2>1 DEF JobInv, KernelInv, FamilyInTable, Kids
<1>4. \A i \in DOMAIN Kids : Kids[i] \notin {InitPid, Shell} /\ Kids[i] \in Pid
  BY <1>3, PidFacts DEF JobInv, KernelInv, Roots, Table
<1>5. QED
  BY <1>1, <1>2, <1>3, <1>4

\* The parts of the invariant that the list and the children settle together.
LEMMA AgreeMakesInv ==
  ASSUME KernelInv', jobs' \in Seq(Job), due' \in Update,
         NEW list \in Seq(Job), Listed' = list,
         Kids' \in Seq(Pid), Len(list) = Len(Kids'),
         \A i \in 1 .. Len(Kids') : list[i].pid = Kids'[i],
         \A i \in 1 .. Len(Kids') :
           old'[Kids'[i]] = status'[Kids'[i]] =>
             (list[i].stat = "stopped" <=> status'[Kids'[i]] = "SIGNALSTOPPED"),
         pc' \notin {"prompt", "reading", "stuck"}
  PROVE  JobInv'
<1>1. Job' = Job /\ Update' = Update
  BY DEF Job, Update
<1>2. DOMAIN list = 1 .. Len(Kids') /\ DOMAIN Kids' = 1 .. Len(Kids')
  OBVIOUS
<1>3. [i \in DOMAIN list |-> list[i].pid] = Kids'
  BY AgreeFacts
<1>4. JobsAreChildren'
  BY <1>3 DEF JobsAreChildren, Listed
<1>5. \A i \in DOMAIN Kids' : Kids'[i] \in (Table \ {InitPid, Shell})'
  <2>1. Shell \in Table'
    BY PidFacts DEF KernelInv, Roots, Table
  <2>2. \A i \in DOMAIN Kids' : Kids'[i] \in Table' /\ parent'[Kids'[i]] = Shell
    BY <2>1 DEF KernelInv, FamilyInTable, Kids
  <2>3. QED
    BY <2>2, PidFacts DEF KernelInv, Roots
<1>6. JobsInTable'
  BY <1>2, <1>5 DEF JobsInTable
<1>7. ListShows'
  BY <1>2 DEF ListShows, Changed
<1>8. QED
  BY <1>1, <1>4, <1>6, <1>7 DEF JobInv, StoppedStay, NothingWaits

LEMMA WaitList ==
  ASSUME JobInv, KernelInv', Wait
  PROVE  JobInv'
<1> USE PidFacts
<1>1. due = NothingDue /\ UNCHANGED jobs /\ pc \notin {"prompt", "reading", "stuck"}
  BY WaitCases
<1>2. /\ Kids \in Seq(Pid) /\ jobs \in Seq(Job)
      /\ DOMAIN jobs = 1 .. Len(Kids) /\ DOMAIN Kids = 1 .. Len(Kids)
      /\ Len(jobs) = Len(Kids)
      /\ \A i \in 1 .. Len(Kids) : jobs[i].pid = Kids[i]
      /\ \A i, j \in DOMAIN Kids : Kids[i] = Kids[j] => i = j
      /\ \A i \in DOMAIN Kids : Kids[i] \in Table \ {InitPid, Shell} /\ Kids[i] \in Pid
  BY <1>1, KidsFacts
<1>3. \A i \in 1 .. Len(Kids) :
        old[Kids[i]] = status[Kids[i]] =>
          (jobs[i].stat = "stopped" <=> status[Kids[i]] = "SIGNALSTOPPED")
  BY <1>1, <1>2, ListedIsJobs DEF JobInv, ListShows, Changed
<1>4. Listed' = Updated(jobs, due')
  BY <1>1 DEF Listed
<1>5. CASE /\ NoneChanged \/ pc' = "stuck"
           /\ UNCHANGED due
           /\ pc' \in {"prompt", "hang", "stuck"}
           /\ pc' # "stuck" => UNCHANGED children
           /\ \E s \in {"READY", "WAITING"} : \E o :
                /\ status' = [status EXCEPT ![Shell] = s]
                /\ old' = [old EXCEPT ![Shell] = o]
  <2>1. \A p \in Pid \ {Shell} : status'[p] = status[p] /\ old'[p] = old[p]
    BY <1>5 DEF JobInv, KernelInv, TypeOK
  <2>2. \A p \in Table \ {InitPid, Shell} :
          status'[p] # "FREE" /\ status'[p] = status[p] /\ old'[p] = old[p]
    BY <2>1 DEF Table
  <2>3. ASSUME pc' = "prompt" PROVE StoppedStay'
    <3>1. \A i \in DOMAIN jobs : /\ jobs[i].pid = Kids[i] /\ i \in DOMAIN Kids
                                 /\ old[Kids[i]] = status[Kids[i]]
      BY <1>2, <1>5, <2>3 DEF NoneChanged, Changed
    <3>2. \A i \in DOMAIN jobs :
            jobs[i].stat = "stopped" => status'[jobs[i].pid] = "SIGNALSTOPPED"
      <4>1. ASSUME NEW i \in DOMAIN jobs, jobs[i].stat = "stopped"
            PROVE  status'[jobs[i].pid] = "SIGNALSTOPPED"
        <5>1. /\ Kids[i] \in Pid \ {Shell} /\ i \in 1 .. Len(Kids)
              /\ jobs[i].pid = Kids[i] /\ old[Kids[i]] = status[Kids[i]]
          BY <1>2, <3>1, <4>1
        <5>2. status[Kids[i]] = "SIGNALSTOPPED"
          BY <1>3, <4>1, <5>1
        <5>3. QED
          BY <2>1, <5>1, <5>2
      <4>2. QED
        BY <4>1
    <3>3. QED
      BY <1>1, <3>2 DEF StoppedStay
  <2>4. Kids' = Kids \/ pc' = "stuck"
    BY <1>5 DEF Kids
  <2>5. pc # "stuck"
    BY <1>1
  <2>6. UNCHANGED <<jobs, due>>
    BY <1>1, <1>5
  <2>7. pc' \in {"prompt", "reading"} => due = NothingDue /\ StoppedStay'
    BY <1>1, <1>5, <2>3
  <2>8. QED
    BY <1>1, <2>2, <2>4, <2>5, <2>6, <2>7, JobsUntouched
<1>6. ASSUME NEW i \in DOMAIN Kids, FirstChanged(i), due' = Report(Kids[i]), pc' = "poll",
             status[Kids[i]] \notin Zombie, UNCHANGED children,
             NEW s \in {"READY", "WAITING"}, NEW o,
             status' = [status EXCEPT ![Shell] = s],
             \/ old' = [old EXCEPT ![Shell] = o]
             \/ old' = [old EXCEPT ![Kids[i]] = status[Kids[i]], ![Shell] = o]
      PROVE  JobInv'
  <2>1. \A p \in Pid \ {Shell} : /\ status'[p] = status[p]
                                 /\ old'[p] = old[p] \/ p = Kids[i]
    BY <1>2, <1>6 DEF JobInv, KernelInv, TypeOK
  <2>2. /\ status[Kids[i]] \in {"SIGNALSTOPPED", "SIGNALREADY"}
    <3>1. Kids[i] \in Pid \ {InitPid, Shell} /\ status[Kids[i]] # "FREE"
      BY <1>2 DEF Table
    <3>2. status[Kids[i]] # "WAITING" /\ status[Kids[i]] # "READY"
      BY <1>6, <3>1 DEF JobInv, KernelInv, Rest, FirstChanged, Changed
    <3>3. QED
      BY <1>6, <3>1, <3>2 DEF JobInv, KernelInv, TypeOK, Live, Runnable, Zombie
  <2> DEFINE stat == IF status[Kids[i]] = "SIGNALSTOPPED" THEN "stopped" ELSE "running"
             list == [jobs EXCEPT ![i].stat = stat]
  <2>3. due' = [op |-> stat, pid |-> Kids[i]] /\ stat \in {"stopped", "running"}
    <3>1. status[Kids[i]] \in Live \ {"WAITING", "READY"}
      BY <2>2 DEF Live, Runnable
    <3>2. Report(Kids[i]) = [op |-> stat, pid |-> Kids[i]]
      BY <1>2, <2>2, <3>1, ReportFacts
    <3>3. QED
      BY <1>6, <3>2
  <2>4. due' \in Update
    BY <1>2, <2>3 DEF Update
  <2> HIDE DEF stat
  <2>5. Listed' = list
    <3>1. Listed' = UpdateStatus(jobs, Kids[i], stat)
      BY <1>2, <1>4, <2>3, UpdatedFacts
    <3>2. Find(jobs, Kids[i]) = i /\ i # 0
      <4>1. i \in DOMAIN jobs /\ jobs[i].pid = Kids[i]
        BY <1>2
      <4>2. \A j \in DOMAIN jobs : jobs[j].pid = jobs[i].pid => j = i
        BY <1>2
      <4>3. i # 0
        BY <1>2
      <4>4. QED
        BY <1>2, <4>1, <4>2, <4>3, FindFacts
    <3>3. QED
      BY <3>1, <3>2 DEF UpdateStatus
  <2>6. /\ list \in Seq(Job) /\ Len(list) = Len(Kids)
        /\ \A j \in 1 .. Len(Kids) : /\ list[j].pid = Kids[j]
                                     /\ list[j].stat = IF j = i THEN stat ELSE jobs[j].stat
    <3>1. \A j \in 1 .. Len(Kids) : jobs[j] \in Job
      BY <1>2
    <3>2. list = [j \in 1 .. Len(Kids) |->
                    IF j = i THEN [jobs[j] EXCEPT !.stat = stat] ELSE jobs[j]]
      BY <1>2
    <3>3. \A j \in 1 .. Len(Kids) : /\ list[j] \in Job /\ list[j].pid = jobs[j].pid
                                    /\ list[j].stat = IF j = i THEN stat ELSE jobs[j].stat
      BY <2>3, <3>1, <3>2 DEF Job
    <3>4. list \in [1 .. Len(Kids) -> Job] /\ Len(Kids) \in Nat
      BY <1>2, <3>2, <3>3
    <3>5. list \in Seq(Job)
      <4>1. Seq(Job) = UNION {[1 .. n -> Job] : n \in Nat}
        BY SeqDef
      <4>2. QED
        BY <3>4, <4>1, Zenon
    <3>6. Len(list) = Len(Kids)
      BY <3>4, <3>5
    <3>7. QED
      BY <1>2, <3>3, <3>5, <3>6
  <2> HIDE DEF list
  <2>7. Kids' = Kids
    BY <1>6 DEF Kids
  <2>8. ASSUME NEW j \in 1 .. Len(Kids), old'[Kids[j]] = status'[Kids[j]]
        PROVE  list[j].stat = "stopped" <=> status'[Kids[j]] = "SIGNALSTOPPED"
    <3>1. Kids[j] \in Pid \ {Shell}
      BY <1>2
    <3>2. CASE j = i
      BY <2>1, <2>6, <3>1, <3>2 DEF stat
    <3>3. CASE j # i
      <4>1. Kids[j] # Kids[i]
        BY <1>2, <3>3
      <4>2. old'[Kids[j]] = old[Kids[j]] /\ status'[Kids[j]] = status[Kids[j]]
        BY <2>1, <3>1, <4>1
      <4>3. QED
        BY <1>3, <2>6, <2>8, <3>3, <4>2
    <3>4. QED
      BY <3>2, <3>3
  <2>9. QED
    BY <1>1, <1>2, <1>6, <2>4, <2>5, <2>6, <2>7, <2>8, AgreeMakesInv
<1>7. ASSUME NEW i \in DOMAIN Kids, FirstChanged(i), due' = Report(Kids[i]), pc' = "poll",
             status[Kids[i]] \in Zombie, Reap(i, "poll"),
             NEW r, old' = OldAfterReap(i, r)
      PROVE  JobInv'
  <2> DEFINE list == DeleteElement(jobs, Kids[i])
  <2>1. due' = [op |-> "delete", pid |-> Kids[i]] /\ Kids[i] \in Pid
    <3>1. status[Kids[i]] \in Live \ {"WAITING", "READY"}
      BY <1>7 DEF Live, Zombie
    <3>2. QED
      BY <1>2, <1>7, <3>1, ReportFacts
  <2>2. due' \in Update
    BY <2>1 DEF Update
  <2>3. Listed' = list
    BY <1>4, <2>1, UpdatedFacts
  <2>4. UnlinkEnds(i) /\ Kids[i] \in Table \ {InitPid, Shell}
    BY <1>2, <1>7 DEF Reap
  <2>5. Shell \notin Family(Kids[i])
    BY <2>4, FamilyFacts DEF JobInv, KernelInv
  <2>6. Kids' = Unlinked(i)
    BY <1>7, <2>5 DEF Reap, Kids
  <2>7. /\ list \in Seq(Job) /\ Unlinked(i) \in Seq(Pid)
        /\ Len(list) = Len(Unlinked(i))
        /\ \A j \in 1 .. Len(list) : list[j].pid = Unlinked(i)[j]
        /\ \A j \in 1 .. Len(list) : \E m \in DOMAIN jobs \ {i} : list[j] = jobs[m]
    <3>1. PICK listed : listed = jobs
      OBVIOUS
    <3>2. /\ listed \in Seq(Job) /\ Kids \in Seq(Pid) /\ Len(listed) = Len(Kids)
          /\ \A j \in 1 .. Len(Kids) : listed[j].pid = Kids[j]
          /\ \A j, m \in DOMAIN Kids : Kids[j] = Kids[m] => j = m
          /\ i \in DOMAIN Kids /\ UnlinkEnds(i)
      BY <1>2, <2>4, <3>1
    <3>3. /\ DeleteElement(listed, Kids[i]) \in Seq(Job) /\ Unlinked(i) \in Seq(Pid)
          /\ Len(DeleteElement(listed, Kids[i])) = Len(Unlinked(i))
          /\ \A j \in 1 .. Len(DeleteElement(listed, Kids[i])) :
               DeleteElement(listed, Kids[i])[j].pid = Unlinked(i)[j]
          /\ \A j \in 1 .. Len(DeleteElement(listed, Kids[i])) :
               \E m \in DOMAIN listed \ {i} : DeleteElement(listed, Kids[i])[j] = listed[m]
      BY <3>2, DeleteAgrees
    <3>4. QED
      BY <3>1, <3>3
  <2> HIDE DEF list
  <2>8. ASSUME NEW j \in 1 .. Len(Kids'), old'[Kids'[j]] = status'[Kids'[j]]
        PROVE  list[j].stat = "stopped" <=> status'[Kids'[j]] = "SIGNALSTOPPED"
    <3>1. PICK m \in DOMAIN jobs \ {i} : list[j] = jobs[m]
      BY <2>6, <2>7
    <3>2. Kids'[j] = Kids[m] /\ Kids[m] \in Pid \ {Shell} /\ m \in 1 .. Len(Kids)
      BY <1>2, <2>6, <2>7, <3>1
    <3>3. status'[Kids[m]] # "FREE"
      <4>1. Shell \in Table'
        BY DEF KernelInv, Roots, Table
      <4>2. j \in DOMAIN Kids'
        BY <2>6, <2>7
      <4>3. Kids'[j] \in Table'
        BY <4>1, <4>2 DEF KernelInv, FamilyInTable, Kids
      <4>4. QED
        BY <3>2, <4>3 DEF Table
    <3>4. status'[Kids[m]] = status[Kids[m]] /\ old'[Kids[m]] = old[Kids[m]]
      BY <1>7, <3>2, <3>3 DEF Reap, OldAfterReap
    <3>5. QED
      BY <1>3, <2>8, <3>1, <3>2, <3>4
  <2>9. QED
    BY <1>1, <1>2, <1>7, <2>2, <2>3, <2>6, <2>7, <2>8, AgreeMakesInv
<1>8. QED
  BY <1>5, <1>6, <1>7, WaitCases

\* The new process comes last in both lists.
LEMMA LaunchList ==
  ASSUME JobInv, KernelInv', NEW f, NEW mode, Launch(f, mode)
  PROVE  JobInv'
<1> USE PidFacts
<1>1. /\ current = Shell /\ pc = "reading" /\ pc' \in {"spawned", "launched"}
      /\ UNCHANGED jobs /\ due = NothingDue
  BY DEF Launch, ShellSpawn, Reading, Runs, JobInv, NothingWaits
<1>2. /\ Kids \in Seq(Pid) /\ jobs \in Seq(Job)
      /\ DOMAIN jobs = 1 .. Len(Kids) /\ DOMAIN Kids = 1 .. Len(Kids)
      /\ Len(jobs) = Len(Kids)
      /\ \A i \in 1 .. Len(Kids) : jobs[i].pid = Kids[i]
      /\ \A i \in DOMAIN Kids : Kids[i] \in Table \ {InitPid, Shell} /\ Kids[i] \in Pid
  BY <1>1, KidsFacts
<1>3. \A i \in 1 .. Len(Kids) :
        old[Kids[i]] = status[Kids[i]] =>
          (jobs[i].stat = "stopped" <=> status[Kids[i]] = "SIGNALSTOPPED")
  BY <1>1, <1>2, ListedIsJobs DEF JobInv, ListShows, Changed
<1>4. PICK p \in Pid : /\ p \notin Table
                       /\ status' = [status EXCEPT ![p] = "READY"]
                       /\ old' = [old EXCEPT ![p] = "READY"]
                       /\ children' = [children EXCEPT ![p] = <<>>,
                                                       ![current] = Append(@, p)]
  BY DEF Launch, ShellSpawn, KProcessCreate
<1>5. /\ p # Shell
      /\ \A q \in Table : q \in Pid /\ status'[q] = status[q] /\ old'[q] = old[q]
      /\ status'[p] = "READY" /\ old'[p] = "READY" /\ status[p] = "FREE"
      /\ \A q \in Pid : status[q] = "FREE" /\ status'[q] # "FREE" => q = p
  BY <1>4 DEF JobInv, KernelInv, TypeOK, Roots, Table
<1>6. due' = [op |-> "insert", pid |-> p] /\ due' \in Update
  BY <1>5 DEF Launch, Update
<1> DEFINE e == [pid |-> p, stat |-> "running"]
           list == Append(jobs, e)
<1>7. Listed' = list
  <2>1. Listed' = Updated(jobs, due')
    BY <1>1 DEF Listed
  <2>2. QED
    BY <1>6, <2>1, UpdatedFacts DEF InsertTail
<1>8. Kids' = Append(Kids, p)
  BY <1>1, <1>4, <1>5 DEF Kids, JobInv, KernelInv, TypeOK
<1>9. e \in Job /\ e.pid = p /\ e.stat = "running"
  BY DEF Job
<1> HIDE DEF e
<1>10. /\ list \in Seq(Job) /\ Len(list) = Len(Kids) + 1
       /\ Kids' \in Seq(Pid) /\ Len(Kids') = Len(Kids) + 1 /\ Len(Kids) \in Nat
       /\ \A i \in 1 .. Len(Kids) : list[i] = jobs[i] /\ Kids'[i] = Kids[i]
       /\ list[Len(Kids) + 1] = e /\ Kids'[Len(Kids) + 1] = p
  BY <1>2, <1>8, <1>9
<1> HIDE DEF list
<1>11. \A i \in 1 .. Len(Kids') : i \in 1 .. Len(Kids) \/ i = Len(Kids) + 1
  BY <1>10
<1>12. \A i \in 1 .. Len(Kids') : list[i].pid = Kids'[i]
  BY <1>2, <1>9, <1>10, <1>11
<1>13. ASSUME NEW i \in 1 .. Len(Kids'), old'[Kids'[i]] = status'[Kids'[i]]
       PROVE  list[i].stat = "stopped" <=> status'[Kids'[i]] = "SIGNALSTOPPED"
  <2>1. CASE i \in 1 .. Len(Kids)
    <3>1. list[i] = jobs[i] /\ Kids'[i] = Kids[i] /\ Kids[i] \in Table
      BY <1>2, <1>10, <2>1
    <3>2. status'[Kids[i]] = status[Kids[i]] /\ old'[Kids[i]] = old[Kids[i]]
      BY <1>5, <3>1
    <3>3. QED
      BY <1>3, <1>13, <2>1, <3>1, <3>2
  <2>2. CASE i = Len(Kids) + 1
    BY <1>5, <1>9, <1>10, <2>2
  <2>3. QED
    BY <1>11, <1>13, <2>1, <2>2
<1>14. QED
  BY <1>1, <1>2, <1>6, <1>7, <1>10, <1>12, <1>13, AgreeMakesInv

-------------------------------------------------------------------------------
(* The invariant.                                                            *)

\* Every step of the shell with its list is a step of Kernel.
LEMMA JobStepIsKernelStep == JobInv /\ [NextJobs]_jobVars => [Next]_vars
<1> SUFFICES ASSUME JobInv, [NextJobs]_jobVars PROVE [Next]_vars
  OBVIOUS
<1>1. CASE Wait
  BY <1>1 DEF Wait, Next, ShellStep
<1>2. CASE UpdateList
  BY <1>2 DEF UpdateList
<1>3. ASSUME NEW f \in Programs, NEW mode \in {"FOREGROUND", "BACKGROUND"}, Launch(f, mode)
      PROVE  Next
  BY <1>3 DEF Launch, Next, UserLine
<1>4. CASE ListUntouched
  <2>1. ASSUME NEW i \in DOMAIN jobs, Bg(jobs[i].pid) PROVE Next
    <3>1. jobs \in Seq(Job)
      BY DEF JobInv
    <3>2. jobs[i] \in Job
      BY <2>1, <3>1
    <3>3. jobs[i].pid \in Pid
      BY <3>2 DEF Job
    <3>4. QED
      BY <2>1, <3>3 DEF Next, UserLine
  <2>2. QED
    BY <1>4, <2>1 DEF ListUntouched, BgLast, Next, ShellStep, UserLine
<1>5. CASE Others
  BY <1>5 DEF Others, Next
<1>6. CASE UNCHANGED jobVars
  BY <1>6 DEF jobVars
<1>7. QED
  BY <1>1, <1>2, <1>3, <1>4, <1>5, <1>6 DEF NextJobs

LEMMA InitJobsKeeps == InitJobs => JobInv
<1> SUFFICES ASSUME InitJobs PROVE JobInv
  OBVIOUS
<1>1. KernelInv
  BY InitKeeps DEF InitJobs
<1>2. jobs = <<>> /\ due = NothingDue /\ pc = "poll"
  BY DEF InitJobs, Init
<1>3. Kids = <<>>
  BY PidFacts DEF InitJobs, Init, Kids
<1>4. Listed = <<>>
  BY <1>2, ListedIsJobs
<1>5. <<>> \in Seq(Job) /\ due \in Update /\ DOMAIN <<>> = {}
  BY <1>2 DEF Update
<1>6. JobsAreChildren
  <2>1. <<>> \in Seq(Pid) /\ Len(<<>>) = 0
    OBVIOUS
  <2>2. \A i \in 1 .. Len(<<>>) : <<>>[i].pid = <<>>[i]
    BY <2>1
  <2>3. [i \in DOMAIN <<>> |-> <<>>[i].pid] = <<>>
    BY <1>5, <2>1, <2>2, AgreeFacts
  <2>4. QED
    BY <1>3, <1>4, <2>3 DEF JobsAreChildren, Listed
<1>7. QED
  BY <1>1, <1>2, <1>4, <1>5, <1>6
     DEF JobInv, JobsInTable, ListShows, StoppedStay, NothingWaits

LEMMA StepJobsKeeps == JobInv /\ [NextJobs]_jobVars => JobInv'
<1> SUFFICES ASSUME JobInv, [NextJobs]_jobVars PROVE JobInv'
  OBVIOUS
<1>1. KernelInv'
  BY JobStepIsKernelStep, StepKeeps DEF JobInv
<1>2. CASE UNCHANGED jobVars
  BY <1>1, <1>2, JobsUntouched DEF jobVars, vars, Kids, Table, JobInv, NothingWaits
<1>3. QED
  BY <1>1, <1>2, WaitList, UpdateListList, LaunchList, ListUntouchedList, OthersList
     DEF NextJobs

LEMMA JobInvariant == JobSpec => []JobInv
BY InitJobsKeeps, StepJobsKeeps, PTL DEF JobSpec

-------------------------------------------------------------------------------
(* What the runs check, for any number of jobs.                              *)

\* The shell with its job list is the kernel's shell: every theorem about Spec
\* holds of JobSpec.
THEOREM JobControlIsKernel == JobSpec => Spec
<1>1. InitJobs => Init
  BY DEF InitJobs
<1>2. QED
  BY <1>1, JobInvariant, JobStepIsKernelStep, PTL DEF JobSpec, Spec

\* The list holds jobs only, and what is due to it is one of four updates.
THEOREM JobListTypes == JobSpec => []JobsTypeOK
<1>1. Job = [pid : Pid, stat : {"running", "stopped"}]
  BY DEF Job
<1>2. JobInv => JobsTypeOK
  BY <1>1 DEF JobInv, JobsTypeOK, KernelInv
<1>3. QED
  BY <1>2, JobInvariant, PTL

\* delete_element, insert_tail and the unlinking in k_process_wait keep the job
\* list and the shell's child list the same list, whatever exits, signals and
\* spawns come between a p_wait and the update it calls for.
THEOREM JobListIsChildList == JobSpec => []JobsAreChildren
BY JobInvariant, PTL DEF JobInv

\* The list shows what p_wait has reported, and while the user types no job
\* listed as stopped runs.
THEOREM JobListIsTrue == JobSpec => []JobsShowStatus
<1>1. JobInv => JobsShowStatus
  BY DEF JobInv, JobsShowStatus, ListShows, StoppedStay, Listed
<1>2. QED
  BY <1>1, JobInvariant, PTL

\* The kernel beneath the list still implements the life of a process.
THEOREM JobControlImplementsLife == JobSpec => ImplementsLife
BY JobControlIsKernel, KernelImplementsLife
================================================================================
