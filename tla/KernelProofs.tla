------------------------------ MODULE KernelProofs ------------------------------
(****************************************************************************)
(* Theorems about Kernel, for any number of processes and any programs.     *)
(****************************************************************************)
EXTENDS Kernel, TLAPS, SequenceTheorems

-------------------------------------------------------------------------------
(* The inductive invariant.                                                  *)

\* init and the shell stay what they are, and nobody else is a child of init.
Roots ==
  /\ status[InitPid] = "WAITING" /\ prog[InitPid] = "init"
  /\ status[Shell] \in {"READY", "WAITING"} /\ prog[Shell] = "shell"
  /\ parent[InitPid] = NoProc
  /\ \A p \in Pid : parent[p] = InitPid <=> p = Shell
  /\ fg_pid # InitPid

\* A free pid leaves nothing behind, and no job ever waits.
Rest ==
  /\ \A p \in Pid : status[p] = "FREE" =>
        parent[p] = NoProc /\ children[p] = <<>> /\ prog[p] = "none"
  /\ \A p \in Pid \ {InitPid, Shell} : /\ status[p] # "WAITING"
                                       /\ status[p] = "READY" => old[p] = "READY"

\* What has exited does not run on.
GoneStaysGone == ~deciding => status[current] # "ZOMBIED"

KernelInv ==
  /\ TypeOK /\ Roots /\ Rest
  /\ FamilyInTable /\ EveryChildListed
  /\ ZombieReportable /\ GoneStaysGone /\ TimerPaused

-------------------------------------------------------------------------------
(* What the steps have in common.                                            *)

\* A step that frees and creates no process and moves none keeps the family.
LEMMA FamilyUntouched ==
  ASSUME FamilyInTable, EveryChildListed, UNCHANGED <<parent, children>>,
         \A p \in Pid : status'[p] = "FREE" <=> status[p] = "FREE",
         pc' # "stuck" => pc # "stuck"
  PROVE  FamilyInTable' /\ EveryChildListed'
<1>1. Table' = Table
  BY DEF Table
<1>2. QED
  BY <1>1 DEF FamilyInTable, EveryChildListed

\* The list that insert_child makes.
LEMMA AppendFacts ==
  ASSUME NEW S, NEW s \in Seq(S), NEW x \in S
  PROVE  /\ Append(s, x) \in Seq(S)
         /\ Len(s) \in Nat /\ DOMAIN s = 1 .. Len(s)
         /\ DOMAIN Append(s, x) = 1 .. Len(s) + 1
         /\ \A i \in 1 .. Len(s) : Append(s, x)[i] = s[i] /\ s[i] \in S
         /\ Append(s, x)[Len(s) + 1] = x
BY AppendProperties

\* Pids the proofs name.
LEMMA PidFacts ==
  /\ InitPid \in Pid /\ Shell \in Pid /\ InitPid # Shell /\ NoProc \notin Pid
  /\ Pid \subseteq Nat
BY MaxPidAssumption DEF InitPid, Shell, NoProc, Pid

\* Every handler and call that changes a status by a signal: init and the shell
\* are receptive to none of those they are sent, and the terminal never passes
\* from the shell.
LEMMA KillKeeps ==
  ASSUME KernelInv, NEW p \in Pid, NEW sig \in {"S_SIGSTOP", "S_SIGCONT", "S_SIGTERM"},
         KProcessKill(p, sig),
         sig = "S_SIGCONT" \/ p \notin {InitPid, Shell},
         sig = "S_SIGCONT" \/ current # fg_pid \/ fg_pid # Shell,
         pc' = pc \/ (pc = "reading" /\ pc' = "poll")
  PROVE  KernelInv'
<1> USE PidFacts DEF KernelInv
<1>1. Receptive(sig) \subseteq Live /\ Outcome(sig) \in Live \ Receptive(sig)
  BY DEF Receptive, Outcome, Live, Runnable, Zombie
<1>2. CASE status[p] \in Receptive(sig) /\ old' = [old EXCEPT ![p] = status[p]]
            /\ status' = [status EXCEPT ![p] = Outcome(sig)]
  <2>1. p \notin {InitPid, Shell}
    BY <1>2 DEF Receptive, Roots
  <2>2. fg_pid' \in Pid \ {InitPid}
    BY DEF KProcessKill, PassTerminal, TypeOK, Roots
  <2>3. TypeOK'
    BY <1>1, <1>2, <2>2 DEF TypeOK, KProcessKill
  <2>4. Roots'
    BY <1>2, <2>1, <2>2 DEF Roots, KProcessKill, TypeOK
  <2>5. Rest'
    BY <1>1, <1>2 DEF Rest, KProcessKill, TypeOK, Live, Outcome
  <2>6. FamilyInTable' /\ EveryChildListed'
    <3>1. \A q \in Pid : status'[q] = "FREE" <=> status[q] = "FREE"
      BY <1>1, <1>2 DEF TypeOK, Live, Runnable, Zombie
    <3>2. QED
      BY <3>1, FamilyUntouched DEF KProcessKill
  <2>7. ZombieReportable'
    BY <1>1, <1>2 DEF ZombieReportable, Changed, TypeOK
  <2>8. GoneStaysGone'
    BY <1>2 DEF GoneStaysGone, KProcessKill, TypeOK, Outcome
  <2>9. TimerPaused'
    BY DEF TimerPaused, KProcessKill
  <2>10. QED
    BY <2>3, <2>4, <2>5, <2>6, <2>7, <2>8, <2>9
<1>3. CASE UNCHANGED <<status, old, fg_pid>>
  <2>1. TypeOK' /\ Roots' /\ Rest'
    BY <1>3 DEF TypeOK, Roots, Rest, KProcessKill
  <2>2. FamilyInTable' /\ EveryChildListed'
    BY <1>3, FamilyUntouched DEF KProcessKill
  <2>3. ZombieReportable' /\ GoneStaysGone' /\ TimerPaused'
    BY <1>3 DEF ZombieReportable, Changed, GoneStaysGone, TimerPaused, KProcessKill
  <2>4. QED
    BY <2>1, <2>2, <2>3
<1>4. QED
  BY <1>2, <1>3 DEF KProcessKill

\* k_process_create by a process that has an entry: the new process is the last
\* child of its spawner and of nobody else.
LEMMA CreateKeeps ==
  ASSUME KernelInv, NEW f \in Program \cup {"exit"}, NEW mode,
         KProcessCreate(f, mode), ~deciding, current \in Table \ {InitPid},
         pc' = pc \/ (pc = "reading" /\ pc' \in {"spawned", "launched"})
  PROVE  KernelInv'
<1> USE PidFacts DEF KernelInv
<1> DEFINE next == CASE prog[current] = "zombify" -> "busy"
                     [] prog[current] = "orphanify" -> "exit"
                     [] OTHER -> prog[current]
<1>1. next \in Doing /\ (prog[current] = "shell" => next = "shell")
  <2>1. next \in {"busy", "exit", prog[current]}
        /\ (prog[current] = "shell" => next = "shell")
    BY Zenon
  <2>2. QED
    BY <2>1 DEF TypeOK, Doing, Program
<1>2. PICK p \in Pid :
        /\ p > InitPid /\ p \notin Table
        /\ status' = [status EXCEPT ![p] = "READY"]
        /\ old' = [old EXCEPT ![p] = "READY"]
        /\ parent' = [parent EXCEPT ![p] = current]
        /\ children' = [children EXCEPT ![p] = <<>>, ![current] = Append(@, p)]
        /\ prog' = [prog EXCEPT ![p] = f, ![current] = next]
        /\ fg_pid' = IF current = fg_pid /\ mode = "FOREGROUND" THEN p ELSE fg_pid
        /\ timer' = TRUE
        /\ UNCHANGED <<current, deciding>>
  BY DEF KProcessCreate
<1> HIDE DEF next
<1>3. /\ p \notin {InitPid, Shell, current} /\ status[p] = "FREE"
      /\ status[current] # "FREE" /\ current \in Pid
      /\ parent[p] = NoProc
  BY <1>2 DEF Table, Roots, Rest
<1>4. \A q \in Pid : /\ children[q] \in Seq(Pid)
                     /\ children'[q] = IF q = p THEN <<>>
                                       ELSE IF q = current THEN Append(children[q], p)
                                       ELSE children[q]
  BY <1>2, <1>3 DEF TypeOK
<1>5. TypeOK'
  <2>1. children' \in [Pid -> Seq(Pid)]
    <3>1. \A q \in Pid : children'[q] \in Seq(Pid)
      <4>1. Append(children[current], p) \in Seq(Pid) /\ <<>> \in Seq(Pid)
        BY <1>3, <1>4, AppendFacts
      <4>2. QED
        BY <1>4, <4>1
    <3>2. children' = [q \in Pid |-> children'[q]]
      BY <1>2 DEF TypeOK
    <3>3. QED
      BY <3>1, <3>2
  <2>2. f \in Doing /\ "READY" \in Live
    BY DEF Doing, Live, Runnable
  <2>3. prog' \in [Pid -> Doing]
    BY <1>1, <1>2, <2>2 DEF TypeOK
  <2>4. QED
    BY <1>2, <2>1, <2>2, <2>3 DEF TypeOK
<1>6. Roots'
  <2>1. prog'[Shell] = "shell" /\ prog'[InitPid] = "init"
    BY <1>1, <1>2, <1>3 DEF Roots, TypeOK
  <2>2. QED
    BY <1>2, <1>3, <2>1 DEF Roots, TypeOK
<1>7. Rest'
  BY <1>2, <1>3, <1>4 DEF Rest, TypeOK
<1>8. Table' = Table \cup {p}
  BY <1>2 DEF Table, TypeOK
<1>9. FamilyInTable'
  <2>1. \A q \in Table' \ {InitPid} : parent'[q] \in Table'
    BY <1>2, <1>3, <1>8 DEF FamilyInTable, TypeOK, Table
  <2>2. ASSUME NEW q \in Table', NEW i \in DOMAIN children'[q]
        PROVE  /\ children'[q][i] \in Table' /\ parent'[children'[q][i]] = q
               /\ \A j \in DOMAIN children'[q] :
                     children'[q][i] = children'[q][j] => i = j
    <3>1. CASE q = p
      <4>1. children'[q] = <<>>
        BY <1>4, <3>1
      <4>2. DOMAIN <<>> = {}
        OBVIOUS
      <4>3. QED
        BY <2>2, <4>1, <4>2
    <3>2. CASE q = current
      <4>1. \A j \in DOMAIN children[q] : /\ children[q][j] \in Table
                                          /\ parent[children[q][j]] = q
        BY <1>3, <3>2 DEF FamilyInTable, Table
      <4>2. /\ DOMAIN children'[q] = 1 .. Len(children[q]) + 1
            /\ DOMAIN children[q] = 1 .. Len(children[q])
            /\ \A j \in DOMAIN children[q] : children'[q][j] = children[q][j]
            /\ children'[q][Len(children[q]) + 1] = p
        <5>1. children[q] \in Seq(Pid) /\ children'[q] = Append(children[q], p)
          BY <1>3, <1>4, <3>2
        <5>2. QED
          BY <5>1, AppendFacts
      <4>3. p \notin Table
        BY <1>3 DEF Table
      <4>4. QED
        <5>1. \A j, k \in DOMAIN children[q] : children[q][j] = children[q][k] => j = k
          BY <1>3, <3>2 DEF FamilyInTable, Table
        <5>2. /\ parent'[p] = q
              /\ \A r \in Table : parent'[r] = parent[r]
          BY <1>2, <3>2, <4>3 DEF TypeOK, Table
        <5>3. Len(children[q]) \in Nat
          BY <1>3, <1>4, <3>2
        <5>4. \A j \in DOMAIN children'[q] : j \in DOMAIN children[q] \/ j = Len(children[q]) + 1
          BY <4>2, <5>3
        <5>5. \A j \in DOMAIN children[q] : j # Len(children[q]) + 1
          BY <4>2, <5>3
        <5>6. \A j \in DOMAIN children'[q] :
                 \/ j \in DOMAIN children[q] /\ children'[q][j] = children[q][j]
                 \/ j = Len(children[q]) + 1 /\ children'[q][j] = p
          BY <4>2, <5>4
        <5>7. children'[q][i] \in Table' /\ parent'[children'[q][i]] = q
          BY <1>8, <2>2, <4>1, <5>2, <5>6
        <5>8. ASSUME NEW j \in DOMAIN children'[q], children'[q][i] = children'[q][j]
              PROVE  i = j
          BY <2>2, <4>1, <4>3, <5>1, <5>6, <5>8
        <5>9. QED
          BY <5>7, <5>8
    <3>3. CASE q # p /\ q # current
      <4>1. children'[q] = children[q] /\ q \in Table
        BY <1>4, <1>8, <3>3 DEF Table
      <4>2. \A r \in Table : parent'[r] = parent[r]
        BY <1>2, <1>3 DEF TypeOK, Table
      <4>3. QED
        BY <1>8, <2>2, <4>1, <4>2 DEF FamilyInTable
    <3>4. QED
      BY <3>1, <3>2, <3>3
  <2>3. QED
    BY <2>1, <2>2 DEF FamilyInTable
<1>10. EveryChildListed'
  <2>1. SUFFICES ASSUME pc # "stuck", NEW q \in Table' \ {InitPid}
                 PROVE  \E i \in DOMAIN children'[parent'[q]] : children'[parent'[q]][i] = q
    BY DEF EveryChildListed
  <2>2. CASE q = p
    <3>1. /\ parent'[q] = current
          /\ Len(children[current]) + 1 \in DOMAIN children'[current]
          /\ children'[current][Len(children[current]) + 1] = p
      BY <1>2, <1>3, <1>4, <2>2, AppendProperties DEF TypeOK
    <3>2. QED
      BY <2>2, <3>1
  <2>3. CASE q # p
    <3>1. /\ parent'[q] = parent[q] /\ q \in Table \ {InitPid}
          /\ parent[q] # p /\ parent[q] \in Pid
      BY <1>2, <1>3, <1>8, <2>3 DEF FamilyInTable, Table, TypeOK
    <3>2. PICK i \in DOMAIN children[parent[q]] : children[parent[q]][i] = q
      BY <2>1, <3>1 DEF EveryChildListed
    <3>3. i \in DOMAIN children'[parent[q]] /\ children'[parent[q]][i] = q
      <4>1. CASE parent[q] = current
        <5>1. /\ children[current] \in Seq(Pid)
              /\ children'[current] = Append(children[current], p)
          BY <1>3, <1>4
        <5>2. QED
          BY <3>2, <4>1, <5>1, AppendFacts
      <4>2. CASE parent[q] # current
        BY <1>4, <3>1, <3>2, <4>2
      <4>3. QED
        BY <4>1, <4>2
    <3>4. QED
      BY <3>1, <3>3
  <2>4. QED
    BY <2>2, <2>3
<1>11. ZombieReportable' /\ GoneStaysGone' /\ TimerPaused'
  BY <1>2, <1>3 DEF ZombieReportable, Changed, GoneStaysGone, TimerPaused, TypeOK, Zombie
<1>12. QED
  BY <1>5, <1>6, <1>7, <1>9, <1>10, <1>11

-------------------------------------------------------------------------------
(* Reaping: the family of a dead child, and the list it is taken off.        *)

\* The family of a job: closed under the child lists, without init and the
\* shell, and all of them in the table.  Everyone but its head has its parent
\* in it; nobody outside has, when every process is on its parent's list.
LEMMA FamilyFacts ==
  ASSUME TypeOK, Roots, FamilyInTable, NEW k \in Table \ {InitPid, Shell}
  PROVE  /\ k \in Family(k)
         /\ Family(k) \subseteq Table \ {InitPid, Shell}
         /\ \A q \in Family(k) : \A i \in DOMAIN children[q] : children[q][i] \in Family(k)
         /\ \A c \in Family(k) \ {k} : parent[c] \in Family(k)
         /\ EveryChildListed /\ pc # "stuck" =>
              \A q \in Table \ Family(k) : q # InitPid => parent[q] \notin Family(k)
<1> USE PidFacts
<1> DEFINE Closed(S) == /\ k \in S
                        /\ \A q \in S : \A i \in DOMAIN children[q] : children[q][i] \in S
           F == Family(k)
<1>1. k \in Pid
  BY DEF Table
<1>2. F = {q \in Pid : \A S \in SUBSET Pid : Closed(S) => q \in S}
  BY DEF Family
<1> HIDE DEF F
<1>3. \A S \in SUBSET Pid : Closed(S) => F \subseteq S
  BY <1>2
<1>4. k \in F
  BY <1>1, <1>2
<1>5. F \subseteq Table \ {InitPid, Shell}
  <2>1. Closed(Table \ {InitPid, Shell})
    BY DEF FamilyInTable, Roots, Table
  <2>2. Table \ {InitPid, Shell} \in SUBSET Pid
    BY DEF Table
  <2>3. QED
    BY <1>3, <2>1, <2>2
<1>6. \A q \in F : \A i \in DOMAIN children[q] : children[q][i] \in F
  <2>1. ASSUME NEW q \in F, NEW i \in DOMAIN children[q]
        PROVE  children[q][i] \in F
    <3>1. children[q][i] \in Pid
      BY <1>5, <2>1 DEF FamilyInTable, Table
    <3>2. ASSUME NEW S \in SUBSET Pid, Closed(S)
          PROVE  children[q][i] \in S
      BY <1>3, <2>1, <3>2
    <3>3. QED
      BY <1>2, <3>1, <3>2
  <2>2. QED
    BY <2>1
<1>7. ASSUME NEW c \in F \ {k}
      PROVE  parent[c] \in F
  <2>1. SUFFICES ASSUME parent[c] \notin F PROVE FALSE
    OBVIOUS
  <2>2. Closed(F \ {c})
    <3>1. ASSUME NEW q \in F \ {c}, NEW i \in DOMAIN children[q]
          PROVE  children[q][i] \in F \ {c}
      <4>1. children[q][i] \in F /\ parent[children[q][i]] = q
        BY <1>5, <1>6, <3>1 DEF FamilyInTable
      <4>2. QED
        BY <2>1, <3>1, <4>1
    <3>2. QED
      BY <1>4, <3>1
  <2>3. F \ {c} \in SUBSET Pid
    BY <1>2
  <2>4. QED
    BY <1>3, <2>2, <2>3
<1>8. ASSUME EveryChildListed, pc # "stuck", NEW q \in Table \ F, q # InitPid
      PROVE  parent[q] \notin F
  BY <1>6, <1>8 DEF EveryChildListed
<1>9. QED
  BY <1>4, <1>5, <1>6, <1>7, <1>8 DEF F

\* What stays on the shell's list when its i-th child is unlinked.
LEMMA UnlinkedFacts ==
  ASSUME Kids \in Seq(Pid), NEW i \in DOMAIN Kids,
         \A j, m \in DOMAIN Kids : Kids[j] = Kids[m] => j = m
  PROVE  /\ Unlinked(i) \in Seq(Pid)
         /\ \A j \in DOMAIN Unlinked(i) : \E m \in DOMAIN Kids : Unlinked(i)[j] = Kids[m]
         /\ \A j, m \in DOMAIN Unlinked(i) : Unlinked(i)[j] = Unlinked(i)[m] => j = m
         /\ UnlinkEnds(i) =>
              /\ \A j \in DOMAIN Unlinked(i) : Unlinked(i)[j] # Kids[i]
              /\ \A m \in DOMAIN Kids \ {i} :
                    \E j \in DOMAIN Unlinked(i) : Unlinked(i)[j] = Kids[m]
<1> DEFINE s == Kids
           U == Unlinked(i)
           at(j) == IF j < i THEN j ELSE j + 1
<1> HIDE DEF s
<1>1. s \in Seq(Pid) /\ Len(s) \in Nat /\ DOMAIN s = 1 .. Len(s) /\ i \in 1 .. Len(s)
  BY DEF s
<1>2. \A j, m \in DOMAIN s : s[j] = s[m] => j = m
  BY DEF s
<1>3. U = CASE i = 1 -> Tail(s)
            [] i = 2 -> SubSeq(s, 1, 1) \o SubSeq(s, 3, Len(s))
            [] OTHER -> s
  BY DEF s, Unlinked
<1> HIDE DEF U
<1>4. CASE i \in {1, 2}
  <2>1. U \in Seq(Pid) /\ Len(U) = Len(s) - 1 /\ \A j \in 1 .. Len(U) : U[j] = s[at(j)]
    <3>1. CASE i = 1
      <4>1. U = Tail(s)
        <5>1. i # 2
          BY <3>1
        <5>2. QED
          BY <1>3, <3>1, <5>1, Zenon
      <4>2. QED
        BY <1>1, <3>1, <4>1
    <3>2. CASE i = 2
      <4>1. U = SubSeq(s, 1, 1) \o SubSeq(s, 3, Len(s))
        <5>1. i # 1
          BY <3>2
        <5>2. QED
          BY <1>3, <3>2, <5>1, Zenon
      <4>2. QED
        BY <1>1, <3>2, <4>1
    <3>3. QED
      BY <1>4, <3>1, <3>2
  <2>2. \A m \in DOMAIN s \ {i} : \E j \in DOMAIN U : at(j) = m
    <3>1. ASSUME NEW m \in DOMAIN s \ {i}
          PROVE  \E j \in DOMAIN U : at(j) = m
      <4>1. (IF m < i THEN m ELSE m - 1) \in 1 .. Len(s) - 1
        BY <1>1, <3>1
      <4>2. at(IF m < i THEN m ELSE m - 1) = m
        BY <1>1, <3>1
      <4>3. QED
        BY <2>1, <4>1, <4>2
    <3>2. QED
      BY <3>1
  <2>3. \A j \in DOMAIN U : j \in Nat /\ at(j) \in DOMAIN s \ {i} /\ U[j] = s[at(j)]
    BY <1>1, <2>1
  <2>4. \A j, m \in DOMAIN U : at(j) = at(m) => j = m
    BY <2>3
  <2> HIDE DEF at
  <2>5. QED
    BY <1>1, <1>2, <2>1, <2>2, <2>3, <2>4 DEF s, U
<1>5. CASE i \notin {1, 2}
  <2>1. U = s
    BY <1>3, <1>5, Zenon
  <2>2. ~UnlinkEnds(i)
    BY <1>1, <1>5 DEF UnlinkEnds, s
  <2>3. QED
    BY <1>1, <1>2, <2>1, <2>2 DEF s, U
<1>6. QED
  BY <1>4, <1>5

\* The i-th child of the shell, when it is dead, is a job; once reaped, it and
\* its family leave nothing behind, and the others have lost nobody.
LEMMA ReapKeeps ==
  ASSUME KernelInv, NEW i \in DOMAIN Kids, NEW r \in Live,
         Reap(i, "poll"), old' = OldAfterReap(i, r), Runs(Shell), pc # "stuck"
  PROVE  KernelInv'
<1> USE PidFacts DEF KernelInv
<1> DEFINE gone == Family(Kids[i])
           U == Unlinked(i)
<1>1. /\ Kids \in Seq(Pid) /\ Kids[i] \in Table \ {InitPid, Shell}
      /\ parent[Kids[i]] = Shell /\ Shell \in Table
      /\ \A j, m \in DOMAIN Kids : Kids[j] = Kids[m] => j = m
  <2>1. Shell \in Table
    BY DEF Roots, Table
  <2>2. QED
    BY <2>1 DEF FamilyInTable, Kids, Roots, TypeOK
<1>2. /\ Kids[i] \in gone
      /\ gone \subseteq Table \ {InitPid, Shell}
      /\ \A c \in gone \ {Kids[i]} : parent[c] \in gone
      /\ \A q \in Table \ gone : q # InitPid => parent[q] \notin gone
  BY <1>1, FamilyFacts
<1>3. /\ U \in Seq(Pid)
      /\ \A j \in DOMAIN U : U[j] # Kids[i] /\ \E m \in DOMAIN Kids : U[j] = Kids[m]
      /\ \A j, m \in DOMAIN U : U[j] = U[m] => j = m
      /\ \A m \in DOMAIN Kids \ {i} : \E j \in DOMAIN U : U[j] = Kids[m]
  <2>1. UnlinkEnds(i)
    BY DEF Reap
  <2>2. QED
    BY <1>1, <2>1, UnlinkedFacts
<1>4. /\ status' = [q \in Pid |-> IF q \in gone THEN "FREE"
                                  ELSE IF q = Shell THEN "READY" ELSE status[q]]
      /\ children' = [q \in Pid |-> IF q \in gone THEN <<>>
                                    ELSE IF q = Shell THEN U ELSE children[q]]
      /\ parent' = [q \in Pid |-> IF q \in gone THEN NoProc ELSE parent[q]]
      /\ prog' = [q \in Pid |-> IF q \in gone THEN "none" ELSE prog[q]]
      /\ old' = [q \in Pid |-> IF q \in gone THEN "READY"
                               ELSE IF q = Shell THEN r ELSE old[q]]
      /\ timer' = TRUE /\ pc' = "poll"
      /\ UNCHANGED <<fg_pid, current, deciding>>
  BY DEF Reap, OldAfterReap
<1> HIDE DEF gone, U
<1>5. TypeOK'
  <2>1. children' \in [Pid -> Seq(Pid)]
    <3>1. <<>> \in Seq(Pid)
      OBVIOUS
    <3>2. QED
      BY <1>3, <1>4, <3>1 DEF TypeOK
  <2>2. "READY" \in Live /\ "none" \in Doing
    BY DEF Live, Runnable, Doing
  <2>3. QED
    BY <1>4, <2>1, <2>2 DEF TypeOK
<1>6. Roots'
  BY <1>1, <1>2, <1>4 DEF Roots
<1>7. Rest'
  BY <1>4 DEF Rest, TypeOK
<1>8. Table' = Table \ gone
  <2>1. \A q \in Pid : status'[q] = "FREE" <=> q \in gone \/ status[q] = "FREE"
    BY <1>1, <1>4 DEF Table
  <2>2. QED
    BY <2>1 DEF Table
<1>9. FamilyInTable'
  <2>1. \A q \in Table' \ {InitPid} : parent'[q] \in Table'
    BY <1>2, <1>4, <1>8 DEF FamilyInTable, Table
  <2>2. ASSUME NEW q \in Table', NEW j \in DOMAIN children'[q]
        PROVE  /\ children'[q][j] \in Table' /\ parent'[children'[q][j]] = q
               /\ \A m \in DOMAIN children'[q] :
                     children'[q][j] = children'[q][m] => j = m
    <3>1. q \in Table /\ q \notin gone /\ q \in Pid
      BY <1>8 DEF Table
    <3>2. /\ children'[q][j] \in Table /\ parent[children'[q][j]] = q
          /\ children'[q][j] # Kids[i]
          /\ \A m \in DOMAIN children'[q] : children'[q][j] = children'[q][m] => j = m
      <4>1. CASE q = Shell
        <5>1. children'[q] = U
          BY <1>4, <3>1, <4>1
        <5>2. PICK m \in DOMAIN Kids : U[j] = Kids[m]
          BY <1>3, <2>2, <5>1
        <5>3. Kids[m] \in Table /\ parent[Kids[m]] = Shell
          BY <1>1 DEF FamilyInTable, Kids
        <5>4. QED
          BY <1>3, <2>2, <4>1, <5>1, <5>2, <5>3
      <4>2. CASE q # Shell
        <5>1. children'[q] = children[q]
          BY <1>4, <3>1, <4>2
        <5>2. QED
          BY <1>1, <2>2, <3>1, <4>2, <5>1 DEF FamilyInTable
      <4>3. QED
        BY <4>1, <4>2
    <3>3. children'[q][j] \notin gone
      <4>1. PICK c : c = children'[q][j]
        OBVIOUS
      <4>2. parent[c] \notin gone /\ c # Kids[i]
        BY <3>1, <3>2, <4>1
      <4>3. QED
        BY <1>2, <4>1, <4>2
    <3>4. QED
      BY <1>4, <1>8, <3>2, <3>3 DEF Table
  <2>3. QED
    BY <2>1, <2>2 DEF FamilyInTable
<1>10. EveryChildListed'
  <2>1. SUFFICES ASSUME NEW q \in Table' \ {InitPid}
                 PROVE  \E j \in DOMAIN children'[parent'[q]] : children'[parent'[q]][j] = q
    BY DEF EveryChildListed
  <2>2. /\ q \in Table \ {InitPid} /\ q \notin gone /\ q \in Pid
        /\ parent'[q] = parent[q] /\ parent[q] \notin gone /\ parent[q] \in Pid
    BY <1>2, <1>4, <1>8 DEF Table, FamilyInTable
  <2>3. PICK j \in DOMAIN children[parent[q]] : children[parent[q]][j] = q
    BY <2>2 DEF EveryChildListed
  <2>4. CASE parent[q] = Shell
    <3>1. q = Kids[j] /\ j \in DOMAIN Kids \ {i}
      BY <1>2, <2>2, <2>3, <2>4 DEF Kids
    <3>2. \E m \in DOMAIN U : U[m] = q
      BY <1>3, <3>1
    <3>3. children'[parent'[q]] = U
      BY <1>2, <1>4, <2>2, <2>4
    <3>4. QED
      BY <3>2, <3>3
  <2>5. CASE parent[q] # Shell
    BY <1>4, <2>2, <2>3, <2>5
  <2>6. QED
    BY <2>4, <2>5
<1>11. ZombieReportable'
  BY <1>4 DEF ZombieReportable, Changed, Zombie
<1>12. GoneStaysGone' /\ TimerPaused'
  BY <1>2, <1>4 DEF GoneStaysGone, TimerPaused, Runs
<1>13. QED
  BY <1>5, <1>6, <1>7, <1>9, <1>10, <1>11, <1>12

\* Caught in the unlink loop, the shell has lost at most a child from its list.
LEMMA ReapSticksKeeps ==
  ASSUME KernelInv, NEW i \in DOMAIN Kids, NEW r \in Live,
         ReapSticks(i), old' = [old EXCEPT ![Shell] = r], timer' \in BOOLEAN,
         Runs(Shell)
  PROVE  KernelInv'
<1> USE PidFacts DEF KernelInv
<1> DEFINE U == Unlinked(i)
<1>1. /\ Shell \in Table /\ Kids \in Seq(Pid)
      /\ \A j, m \in DOMAIN Kids : Kids[j] = Kids[m] => j = m
      /\ \A j \in DOMAIN Kids : Kids[j] \in Table /\ parent[Kids[j]] = Shell
  <2>1. Shell \in Table
    BY DEF Roots, Table
  <2>2. QED
    BY <2>1 DEF FamilyInTable, Kids, TypeOK
<1>2. /\ U \in Seq(Pid)
      /\ \A j \in DOMAIN U : \E m \in DOMAIN Kids : U[j] = Kids[m]
      /\ \A j, m \in DOMAIN U : U[j] = U[m] => j = m
  BY <1>1, UnlinkedFacts
<1>3. /\ children' = [children EXCEPT ![Shell] = U]
      /\ status' = [status EXCEPT ![Shell] = "WAITING"]
      /\ old' = [old EXCEPT ![Shell] = r]
      /\ pc' = "stuck"
      /\ UNCHANGED <<parent, prog, fg_pid, current, deciding>>
  BY DEF ReapSticks
<1> HIDE DEF U
<1>4. TypeOK'
  BY <1>2, <1>3 DEF TypeOK, Live, Runnable
<1>5. Roots' /\ Rest'
  BY <1>3 DEF Roots, Rest, TypeOK
<1>6. Table' = Table
  BY <1>3 DEF Table, TypeOK, Roots
<1>7. FamilyInTable'
  <2>1. ASSUME NEW q \in Table, NEW j \in DOMAIN children'[q]
        PROVE  /\ children'[q][j] \in Table /\ parent[children'[q][j]] = q
               /\ \A m \in DOMAIN children'[q] :
                     children'[q][j] = children'[q][m] => j = m
    <3>1. CASE q = Shell
      <4>1. children'[q] = U
        BY <1>3, <3>1 DEF TypeOK
      <4>2. QED
        BY <1>1, <1>2, <2>1, <3>1, <4>1
    <3>2. CASE q # Shell
      <4>1. children'[q] = children[q]
        BY <1>3, <3>2 DEF TypeOK
      <4>2. QED
        BY <2>1, <4>1 DEF FamilyInTable
    <3>3. QED
      BY <3>1, <3>2
  <2>2. QED
    BY <1>3, <1>6, <2>1 DEF FamilyInTable
<1>8. EveryChildListed' /\ ZombieReportable' /\ GoneStaysGone' /\ TimerPaused'
  BY <1>3 DEF EveryChildListed, ZombieReportable, Changed, Zombie, GoneStaysGone,
              TimerPaused, Runs, TypeOK
<1>9. QED
  BY <1>4, <1>5, <1>7, <1>8

-------------------------------------------------------------------------------
(* The other steps.                                                          *)

\* A wait that reaps nobody only moves old_status and the shell's own status.
LEMMA WaitKeeps ==
  ASSUME KernelInv, WaitNoHang \/ WaitHang
  PROVE  KernelInv'
<1> USE PidFacts DEF KernelInv
<1>1. /\ Runs(Shell) /\ pc \in {"poll", "launched", "spawned", "hang"}
      /\ Shell \in Table /\ status[Shell] \in Live /\ old[Shell] \in Live
      /\ "WAITING" \in Live /\ "READY" \in Live
      /\ \A i \in DOMAIN Kids : Kids[i] \in Pid \ {Shell} /\ status[Kids[i]] \in Live
  <2>1. Shell \in Table
    BY DEF Roots, Table
  <2>2. \A i \in DOMAIN Kids : Kids[i] \in Table /\ parent[Kids[i]] = Shell
    BY <2>1 DEF FamilyInTable, Kids
  <2>3. Runs(Shell) /\ pc \in {"poll", "launched", "spawned", "hang"}
    BY DEF WaitNoHang, WaitHang
  <2>4. \A p \in Table : p \in Pid /\ status[p] \in Live /\ old[p] \in Live
    BY DEF Table, TypeOK
  <2>5. parent[Shell] # Shell /\ "WAITING" \in Live /\ "READY" \in Live
    BY DEF Roots, Live, Runnable
  <2>6. QED
    BY <2>1, <2>2, <2>3, <2>4, <2>5
<1>2. ASSUME NEW i \in DOMAIN Kids, NEW r \in Live,
             \/ Reap(i, "poll") /\ old' = OldAfterReap(i, r)
             \/ /\ ReapSticks(i) /\ old' = [old EXCEPT ![Shell] = r]
                /\ timer' \in BOOLEAN
      PROVE  KernelInv'
  BY <1>1, <1>2, ReapKeeps, ReapSticksKeeps
<1>3. ASSUME NEW s \in {"READY", "WAITING"}, NEW o \in Live,
             status' = [status EXCEPT ![Shell] = s],
             \/ old' = [old EXCEPT ![Shell] = o]
             \/ \E i \in DOMAIN Kids :
                  /\ status[Kids[i]] \notin Zombie
                  /\ old' = [old EXCEPT ![Kids[i]] = status[Kids[i]], ![Shell] = o],
             timer' = TRUE, deciding' \in BOOLEAN,
             pc' \in {"poll", "prompt", "hang"},
             UNCHANGED <<parent, children, prog, fg_pid, current>>
      PROVE  KernelInv'
  <2>1. /\ old' \in [Pid -> Live] /\ status' \in [Pid -> Live \cup {"FREE"}]
        /\ \A p \in Pid : /\ p # Shell => status'[p] = status[p]
                          /\ \/ p = Shell \/ old'[p] = old[p]
                             \/ old'[p] = status[p] /\ status[p] \notin Zombie
    BY <1>1, <1>3 DEF TypeOK
  <2>2. status'[Shell] = s
    BY <1>3 DEF TypeOK
  <2>3. TypeOK'
    BY <1>3, <2>1 DEF TypeOK
  <2>4. Roots' /\ Rest'
    BY <1>1, <1>3, <2>1, <2>2 DEF Roots, Rest, Table
  <2>5. FamilyInTable' /\ EveryChildListed'
    <3>1. \A p \in Pid : status'[p] = "FREE" <=> status[p] = "FREE"
      BY <1>1, <1>3, <2>1, <2>2 DEF Table
    <3>2. QED
      BY <1>1, <1>3, <3>1, FamilyUntouched
  <2>6. ZombieReportable'
    BY <1>3, <2>1, <2>2 DEF ZombieReportable, Changed, Zombie
  <2>7. GoneStaysGone' /\ TimerPaused'
    BY <1>1, <1>3, <2>2 DEF GoneStaysGone, TimerPaused, Runs
  <2>8. QED
    BY <2>3, <2>4, <2>5, <2>6, <2>7
<1>4. CASE WaitNoHang
  <2>1. CASE /\ NoneChanged
             /\ old' = [old EXCEPT ![Shell] = "WAITING"]
             /\ status' = [status EXCEPT ![Shell] = "READY"]
             /\ timer' = TRUE
             /\ pc' = "prompt"
             /\ UNCHANGED <<parent, children, prog, fg_pid, current, deciding>>
    BY <1>1, <1>3, <2>1 DEF TypeOK
  <2>2. ASSUME NEW i \in DOMAIN Kids,
               status[Kids[i]] \notin Zombie,
               old' = [old EXCEPT ![Kids[i]] = status[Kids[i]], ![Shell] = status[Shell]],
               status' = [status EXCEPT ![Shell] = "WAITING"],
               timer' = TRUE, pc' = "poll",
               UNCHANGED <<parent, children, prog, fg_pid, current, deciding>>
        PROVE  KernelInv'
    BY <1>1, <1>3, <2>2 DEF TypeOK
  <2>3. QED
    BY <1>1, <1>2, <1>4, <2>1, <2>2 DEF WaitNoHang
<1>5. CASE WaitHang
  <2>1. PICK kept \in Live : kept = IF pc = "spawned" THEN status[Shell] ELSE old[Shell]
    BY <1>1
  <2>2. CASE /\ old' = [old EXCEPT ![Shell] = kept]
             /\ status' = [status EXCEPT ![Shell] = "WAITING"]
             /\ pc' = "hang"
             /\ GoToScheduler
             /\ UNCHANGED <<parent, children, prog, fg_pid, current>>
    BY <1>3, <2>2 DEF GoToScheduler
  <2>3. CASE /\ old' = [old EXCEPT ![Shell] = "WAITING"]
             /\ status' = [status EXCEPT ![Shell] = "READY"]
             /\ timer' = TRUE
             /\ pc' = "poll"
             /\ UNCHANGED <<parent, children, prog, fg_pid, current, deciding>>
    BY <1>1, <1>3, <2>3 DEF TypeOK
  <2>4. ASSUME NEW i \in DOMAIN Kids,
               \/ Reap(i, "poll") /\ old' = OldAfterReap(i, kept)
               \/ /\ ReapSticks(i) /\ old' = [old EXCEPT ![Shell] = kept]
                  /\ timer' = (timer /\ ~(pc = "spawned"))
        PROVE  KernelInv'
    BY <1>2, <2>4
  <2>5. QED
    BY <1>5, <2>1, <2>2, <2>3, <2>4 DEF WaitHang
<1>6. QED
  BY <1>4, <1>5

\* A process that exits was not dead; its parent, which gets the terminal, is
\* not init.
LEMMA ExitKeeps ==
  ASSUME KernelInv, NEW p \in Pid, KExit(p)
  PROVE  KernelInv'
<1> USE PidFacts DEF KernelInv
<1>1. /\ p \in Table \ {InitPid, Shell} /\ parent[p] \in Pid \ {InitPid}
      /\ status[p] \in Live \ {"ZOMBIED"}
  BY DEF KExit, Runs, Roots, Rest, GoneStaysGone, FamilyInTable, Table, TypeOK
<1>2. /\ old' = [old EXCEPT ![p] = status[p]]
      /\ status' = [status EXCEPT ![p] = "ZOMBIED"]
      /\ fg_pid' = IF p = fg_pid THEN parent[p] ELSE fg_pid
      /\ timer' = TRUE /\ deciding' = TRUE
      /\ UNCHANGED <<parent, children, prog, current, pc>>
  BY DEF KExit, GoToScheduler
<1>3. TypeOK'
  BY <1>1, <1>2 DEF TypeOK, Live, Zombie
<1>4. Roots' /\ Rest'
  BY <1>1, <1>2 DEF Roots, Rest, TypeOK
<1>5. FamilyInTable' /\ EveryChildListed'
  <2>1. \A q \in Pid : status'[q] = "FREE" <=> status[q] = "FREE"
    BY <1>1, <1>2 DEF TypeOK, Table
  <2>2. QED
    BY <1>2, <2>1, FamilyUntouched
<1>6. ZombieReportable' /\ GoneStaysGone' /\ TimerPaused'
  BY <1>1, <1>2 DEF ZombieReportable, Changed, GoneStaysGone, TimerPaused, TypeOK
<1>7. QED
  BY <1>3, <1>4, <1>5, <1>6

\* The steps that touch no PCB: the timer, the choice of who runs, the prompt,
\* the lines that spawn nothing and the file calls.
LEMMA QuietKeeps ==
  ASSUME KernelInv,
         \/ Alarm \/ Prompt \/ OtherLine \/ Redirect \/ UNCHANGED vars
         \/ \E p \in Pid : Dispatch(p) \/ SleepYields(p) \/ FileCall(p)
  PROVE  KernelInv'
<1> USE PidFacts DEF KernelInv
<1> DEFINE Quiet == /\ UNCHANGED <<pcbs, fg_pid>>
                     /\ current' \in Pid /\ timer' \in BOOLEAN /\ deciding' \in BOOLEAN
                     /\ \/ pc' = pc
                        \/ pc' \in {"poll", "reading"} /\ pc \in {"prompt", "reading"}
<1>1. Quiet
  <2>1. current \in Pid /\ timer \in BOOLEAN /\ deciding \in BOOLEAN
    BY DEF TypeOK
  <2>2. CASE Alarm \/ Prompt \/ OtherLine \/ Redirect
    BY <2>1, <2>2 DEF Alarm, Prompt, OtherLine, Reading, Redirect
  <2>3. CASE UNCHANGED vars
    BY <2>1, <2>3 DEF vars, pcbs
  <2>4. CASE \E p \in Pid : Dispatch(p) \/ SleepYields(p) \/ FileCall(p)
    BY <2>1, <2>4 DEF Dispatch, SleepYields, FileCall, GoToScheduler
  <2>5. QED
    BY <2>2, <2>3, <2>4
<1>2. TypeOK' /\ Roots' /\ Rest'
  BY <1>1 DEF TypeOK, Roots, Rest, pcbs
<1>3. FamilyInTable' /\ EveryChildListed'
  BY <1>1, FamilyUntouched DEF pcbs
<1>4. ZombieReportable'
  BY <1>1 DEF ZombieReportable, Changed, pcbs
<1>5. GoneStaysGone'
  BY <1>1 DEF GoneStaysGone, pcbs, Alarm, Prompt, OtherLine, Redirect, vars, Dispatch,
         Runnable, SleepYields, FileCall, GoToScheduler, Runs, Reading
<1>6. TimerPaused'
  BY <1>1 DEF TimerPaused, pcbs, Alarm, Prompt, OtherLine, Redirect, vars, Dispatch,
         SleepYields, FileCall, GoToScheduler, Runs, Reading
<1>7. QED
  BY <1>2, <1>3, <1>4, <1>5, <1>6

\* ps ends like the others, by p_exit.
LEMMA PsEndsKeeps ==
  ASSUME KernelInv, NEW p \in Pid, PsEnds(p)
  PROVE  KernelInv'
<1> USE PidFacts DEF KernelInv
<1>1. /\ p \notin {InitPid, Shell} /\ status[p] # "FREE"
      /\ timer' = TRUE
      /\ prog' = [prog EXCEPT ![p] = "exit"]
      /\ UNCHANGED <<status, old, parent, children, fg_pid, current, deciding, pc>>
  BY DEF PsEnds, Roots, Rest
<1>2. TypeOK' /\ Roots' /\ Rest'
  BY <1>1 DEF TypeOK, Doing, Roots, Rest
<1>3. FamilyInTable' /\ EveryChildListed'
  BY <1>1, FamilyUntouched
<1>4. ZombieReportable' /\ GoneStaysGone' /\ TimerPaused'
  BY <1>1 DEF ZombieReportable, Changed, GoneStaysGone, TimerPaused
<1>5. QED
  BY <1>2, <1>3, <1>4

-------------------------------------------------------------------------------
(* The invariant.                                                            *)

LEMMA InitKeeps == Init => KernelInv
<1> SUFFICES ASSUME Init PROVE KernelInv
  OBVIOUS
<1> USE PidFacts
<1>1. /\ status[InitPid] = "WAITING" /\ status[Shell] = "READY"
      /\ \A p \in Pid \ {InitPid, Shell} : status[p] = "FREE"
      /\ status = [p \in Pid |-> status[p]]
      /\ prog[InitPid] = "init" /\ prog[Shell] = "shell"
      /\ \A p \in Pid \ {InitPid, Shell} : prog[p] = "none"
      /\ prog = [p \in Pid |-> prog[p]]
  BY Zenon DEF Init
<1>2. /\ old = [p \in Pid |-> IF p = InitPid THEN "WAITING" ELSE "READY"]
      /\ parent = [p \in Pid |-> IF p = Shell THEN InitPid ELSE NoProc]
      /\ children = [p \in Pid |-> IF p = InitPid THEN <<Shell>> ELSE <<>>]
      /\ fg_pid = Shell /\ current = InitPid /\ timer = TRUE /\ deciding = FALSE
      /\ pc = "poll"
  BY DEF Init
<1>3. Table = {InitPid, Shell}
  BY <1>1 DEF Table
<1>4. /\ <<Shell>> \in Seq(Pid) /\ <<>> \in Seq(Pid)
      /\ DOMAIN <<Shell>> = {1} /\ <<Shell>>[1] = Shell
      /\ \A i \in DOMAIN <<>> : FALSE
  OBVIOUS
<1>5. TypeOK
  BY <1>1, <1>2, <1>4 DEF TypeOK, Live, Runnable, Doing
<1>6. Roots /\ Rest
  BY <1>1, <1>2 DEF Roots, Rest
<1>7. FamilyInTable
  BY <1>2, <1>3, <1>4 DEF FamilyInTable
<1>8. EveryChildListed
  BY <1>2, <1>3, <1>4 DEF EveryChildListed
<1>9. ZombieReportable /\ GoneStaysGone /\ TimerPaused
  BY <1>1, <1>2 DEF ZombieReportable, Changed, Zombie, GoneStaysGone, TimerPaused
<1>10. QED
  BY <1>5, <1>6, <1>7, <1>8, <1>9 DEF KernelInv

LEMMA StepKeeps == KernelInv /\ [Next]_vars => KernelInv'
<1> SUFFICES ASSUME KernelInv, [Next]_vars PROVE KernelInv'
  OBVIOUS
<1> USE PidFacts
<1>1. ASSUME NEW p \in Pid, TerminalFromBackground(p) PROVE KernelInv'
  <2>1. p \notin {InitPid, Shell}
    BY <1>1 DEF TerminalFromBackground, InitPid, Shell
  <2>2. QED
    BY <1>1, <2>1, KillKeeps DEF TerminalFromBackground, Runs
<1>2. ASSUME NEW sig \in {"S_SIGSTOP", "S_SIGTERM"}, Keyboard(sig) PROVE KernelInv'
  <2>1. CASE fg_pid = Shell
    BY <1>2, <2>1, QuietKeeps DEF Keyboard
  <2>2. CASE fg_pid # Shell
    <3>1. fg_pid \in Pid \ {InitPid, Shell}
      BY <2>2 DEF KernelInv, TypeOK, Roots
    <3>2. QED
      BY <1>2, <2>2, <3>1, KillKeeps DEF Keyboard
  <2>3. QED
    BY <2>1, <2>2
<1>3. ASSUME NEW p \in Pid, Bg(p) PROVE KernelInv'
  BY <1>3, KillKeeps DEF Bg, Reading
<1>4. ASSUME NEW p \in Pid, SpawnChild(p) PROVE KernelInv'
  <2>1. current \in Table \ {InitPid} /\ ~deciding /\ pc' = pc
    BY <1>4 DEF SpawnChild, Runs, KernelInv, Roots, Rest, Table
  <2>2. PICK f \in {"exit", "busy"} : KProcessCreate(f, "FOREGROUND")
    BY <1>4 DEF SpawnChild
  <2>3. f \in Program \cup {"exit"}
    BY DEF Program
  <2>4. QED
    BY <2>1, <2>2, <2>3, CreateKeeps
<1>5. ASSUME NEW f \in Programs, NEW mode, ShellSpawn(f, mode) PROVE KernelInv'
  <2>1. /\ current \in Table \ {InitPid} /\ ~deciding
        /\ pc = "reading" /\ pc' \in {"spawned", "launched"}
    BY <1>5 DEF ShellSpawn, Reading, Runs, KernelInv, Roots, Table
  <2>2. f \in Program \cup {"exit"} /\ KProcessCreate(f, mode)
    BY <1>5, ProgramsAssumption DEF ShellSpawn
  <2>3. QED
    BY <2>1, <2>2, CreateKeeps
<1>6. ASSUME NEW p \in Pid, PsEnds(p) PROVE KernelInv'
  BY <1>6, PsEndsKeeps
<1>7. ASSUME NEW p \in Pid, KExit(p) PROVE KernelInv'
  BY <1>7, ExitKeeps
<1>8. CASE WaitNoHang \/ WaitHang
  BY <1>8, WaitKeeps
<1>9. CASE \/ Alarm \/ Prompt \/ OtherLine \/ Redirect \/ UNCHANGED vars
           \/ \E p \in Pid : Dispatch(p) \/ SleepYields(p) \/ FileCall(p)
  BY <1>9, QuietKeeps
<1>10. QED
  BY <1>1, <1>2, <1>3, <1>4, <1>5, <1>6, <1>7, <1>8, <1>9
     DEF Next, JobStep, ShellStep, UserLine, Fg, CtrlC, CtrlZ

LEMMA KernelInvariant == Spec => []KernelInv
BY InitKeeps, StepKeeps, PTL DEF Spec

-------------------------------------------------------------------------------
(* What the runs check, for every bound on the pids and every program.       *)

\* Every variable of the kernel keeps to its values: no lookup by pid falls
\* off the table, and STOPPED and FINISHED are never reached.
THEOREM KernelTypes == Spec => []TypeOK
BY KernelInvariant, PTL DEF KernelInv

\* However many jobs there are, a process that is dead shows a change to the
\* next wait of its parent: k_exit and the signals save a status that differs,
\* and no wait acknowledges a death without reaping it.
THEOREM DeathsAreReportable == Spec => []ZombieReportable
BY KernelInvariant, PTL DEF KernelInv

\* The shell is never stopped nor killed and init never gets the terminal.
THEOREM TheShellSurvives == Spec => []ShellSurvives
<1>1. KernelInv => ShellSurvives
  BY DEF KernelInv, Roots, ShellSurvives
<1>2. QED
  BY <1>1, KernelInvariant, PTL

\* k_process_terminate leaves no process whose parent is gone and no list that
\* names a process that is gone or another's child, for any shape of family.
THEOREM FamiliesStayInTable == Spec => []FamilyInTable
BY KernelInvariant, PTL DEF KernelInv

\* Outside the endless unlink loop no process is lost from its parent's list.
THEOREM ChildrenStayListed == Spec => []EveryChildListed
BY KernelInvariant, PTL DEF KernelInv

\* The timer is never paused when the scheduler is entered.
THEOREM SchedulerRunsOnTimer == Spec => []TimerPaused
BY KernelInvariant, PTL DEF KernelInv

-------------------------------------------------------------------------------
(* The kernel implements ProcessLife.                                        *)

LEMMA LifeFacts ==
  /\ \A s \in Runnable : LifeOf(s) = "running"
  /\ LifeOf("SIGNALSTOPPED") = "stopped"
  /\ \A s \in Zombie : LifeOf(s) = "zombie"
  /\ LifeOf("FREE") = "free"
<1>1. /\ \A s \in Runnable : s \notin Zombie /\ s # "SIGNALSTOPPED" /\ s # "FREE"
      /\ \A s \in Zombie : s # "SIGNALSTOPPED" /\ s # "FREE"
      /\ "SIGNALSTOPPED" \notin Runnable \cup Zombie
      /\ "FREE" \notin Runnable \cup Zombie
      /\ "FREE" # "SIGNALSTOPPED"
  BY DEF Runnable, Zombie
<1>2. \A s \in Runnable : LifeOf(s) = "running"
  BY <1>1, Zenon DEF LifeOf
<1>3. LifeOf("SIGNALSTOPPED") = "stopped"
  BY <1>1, Zenon DEF LifeOf
<1>4. \A s \in Zombie : LifeOf(s) = "zombie"
  BY <1>1, Zenon DEF LifeOf
<1>5. LifeOf("FREE") = "free"
  BY <1>1, Zenon DEF LifeOf
<1>6. QED
  BY <1>2, <1>3, <1>4, <1>5

\* The child lists and the parents' names give a job the same descendants.
LEMMA FamilyIsDescendants ==
  ASSUME KernelInv, pc # "stuck", NEW k \in Table \ {InitPid, Shell}
  PROVE  Life!Descendants(k) = Family(k)
<1> USE PidFacts
<1> DEFINE ByList(S) == /\ k \in S
                        /\ \A q \in S : \A i \in DOMAIN children[q] : children[q][i] \in S
           ByParent(S) == k \in S /\ \A q \in Pid : parent[q] \in S => q \in S
           F == Family(k)
           D == Life!Descendants(k)
<1>1. F = {q \in Pid : \A S \in SUBSET Pid : ByList(S) => q \in S}
  BY DEF Family
<1>2. D = {q \in Pid : \A S \in SUBSET Pid : ByParent(S) => q \in S}
  BY DEF Life!Descendants
<1>3. /\ k \in F /\ F \subseteq Table \ {InitPid, Shell}
      /\ \A q \in Table \ F : q # InitPid => parent[q] \notin F
  BY FamilyFacts DEF KernelInv
<1> HIDE DEF F, D
<1>4. ByParent(F)
  <2>1. ASSUME NEW q \in Pid, parent[q] \in F PROVE q \in F
    <3>1. parent[q] # NoProc
      BY <1>1, <2>1
    <3>2. q \in Table /\ q # InitPid
      BY <3>1 DEF KernelInv, Rest, Roots, Table
    <3>3. QED
      BY <1>3, <2>1, <3>2
  <2>2. QED
    BY <1>3, <2>1
<1>5. D \subseteq F
  BY <1>1, <1>2, <1>4
<1>6. ASSUME NEW S \in SUBSET Pid, ByParent(S) PROVE F \subseteq S
  <2>1. S \cap Table \in SUBSET Pid /\ k \in S \cap Table
    BY <1>6
  <2>2. ASSUME NEW q \in S \cap Table, NEW i \in DOMAIN children[q]
        PROVE  children[q][i] \in S \cap Table
    BY <1>6, <2>2 DEF KernelInv, FamilyInTable, Table
  <2>3. QED
    BY <1>1, <2>1, <2>2
<1>7. F \subseteq D
  BY <1>1, <1>2, <1>6
<1>8. QED
  BY <1>5, <1>7 DEF F, D

\* A step that moves no status out of its class and frees nobody stutters.
LEMMA LifeStutters ==
  ASSUME \A p \in Pid : LifeOf(status'[p]) = LifeOf(status[p]), UNCHANGED parent
  PROVE  UNCHANGED Life!vars
BY DEF Life!vars

\* A signal stops, continues or kills a process, or finds it unreceptive.
LEMMA KillImplements ==
  ASSUME KernelInv, NEW p \in Pid, NEW sig \in {"S_SIGSTOP", "S_SIGCONT", "S_SIGTERM"},
         KProcessKill(p, sig), sig = "S_SIGCONT" \/ p \notin {InitPid, Shell}
  PROVE  Life!Next \/ UNCHANGED Life!vars
<1> DEFINE life == [q \in Pid |-> LifeOf(status[q])]
<1>1. CASE UNCHANGED status
  BY <1>1, LifeStutters DEF KProcessKill
<1>2. CASE status[p] \in Receptive(sig) /\ status' = [status EXCEPT ![p] = Outcome(sig)]
  <2>1. life' = [life EXCEPT ![p] = LifeOf(Outcome(sig))] /\ UNCHANGED parent
    BY <1>2 DEF KProcessKill, KernelInv, TypeOK
  <2>2. life[p] = LifeOf(status[p])
    OBVIOUS
  <2>3. CASE sig = "S_SIGSTOP"
    <3>1. LifeOf(status[p]) = "running" /\ LifeOf(Outcome(sig)) = "stopped"
      BY <1>2, <2>3, LifeFacts DEF Receptive, Outcome
    <3>2. Life!Stop(p)
      BY <2>1, <2>2, <2>3, <3>1 DEF Life!Stop, Life!System
    <3>3. QED
      BY <3>2 DEF Life!Next
  <2>4. CASE sig = "S_SIGCONT"
    <3>1. LifeOf(status[p]) = "stopped" /\ LifeOf(Outcome(sig)) = "running"
      BY <1>2, <2>4, LifeFacts DEF Receptive, Outcome, Runnable
    <3>2. Life!Continue(p)
      BY <2>1, <2>2, <3>1 DEF Life!Continue
    <3>3. QED
      BY <3>2 DEF Life!Next
  <2>5. CASE sig = "S_SIGTERM"
    <3>1. LifeOf(status[p]) \in {"running", "stopped"} /\ LifeOf(Outcome(sig)) = "zombie"
      BY <1>2, <2>5, LifeFacts DEF Receptive, Outcome, Live, Zombie
    <3>2. Life!Die(p)
      BY <2>1, <2>2, <2>5, <3>1 DEF Life!Die, Life!System
    <3>3. QED
      BY <3>2 DEF Life!Next
  <2>6. QED
    BY <2>3, <2>4, <2>5
<1>3. QED
  BY <1>1, <1>2 DEF KProcessKill

LEMMA CreateImplements ==
  ASSUME KernelInv, NEW f, NEW mode, KProcessCreate(f, mode), current \in Table
  PROVE  Life!Next
<1> DEFINE life == [q \in Pid |-> LifeOf(status[q])]
<1>1. PICK p \in Pid : /\ status[p] = "FREE"
                       /\ status' = [status EXCEPT ![p] = "READY"]
                       /\ parent' = [parent EXCEPT ![p] = current]
  BY DEF KProcessCreate, Table
<1>2. life' = [life EXCEPT ![p] = "running"] /\ life[p] = "free"
  BY <1>1, LifeFacts DEF KernelInv, TypeOK, Runnable
<1>3. current \in Pid /\ life[current] # "free"
  BY LifeFacts DEF Table, KernelInv, TypeOK, Live
<1>4. Life!Spawn(current, p)
  BY <1>1, <1>2, <1>3 DEF Life!Spawn
<1>5. QED
  BY <1>3, <1>4 DEF Life!Next

LEMMA ExitImplements ==
  ASSUME KernelInv, NEW p \in Pid, KExit(p)
  PROVE  Life!Next \/ UNCHANGED Life!vars
<1> USE PidFacts
<1> DEFINE life == [q \in Pid |-> LifeOf(status[q])]
<1>1. /\ p \notin {InitPid, Shell} /\ status[p] \in Live
      /\ status' = [status EXCEPT ![p] = "ZOMBIED"]
      /\ UNCHANGED parent
  BY DEF KExit, Runs, KernelInv, Roots, Rest, TypeOK
<1>2. life' = [life EXCEPT ![p] = "zombie"] /\ life[p] = LifeOf(status[p])
  BY <1>1, LifeFacts DEF KernelInv, TypeOK, Zombie
<1>3. CASE status[p] \in Zombie
  BY <1>1, <1>2, <1>3, LifeFacts DEF Life!vars
<1>4. CASE status[p] \notin Zombie
  <2>1. life[p] \in {"running", "stopped"}
    BY <1>1, <1>2, <1>4, LifeFacts DEF Live
  <2>2. Life!Die(p)
    BY <1>1, <1>2, <2>1 DEF Life!Die, Life!System
  <2>3. QED
    BY <2>2 DEF Life!Next
<1>5. QED
  BY <1>3, <1>4

\* The wait that finds a dead child frees it and its descendants.
LEMMA ReapImplements ==
  ASSUME KernelInv, pc # "stuck", NEW i \in DOMAIN Kids, NEW next,
         status[Kids[i]] \in Zombie, Reap(i, next)
  PROVE  Life!Next
<1> USE PidFacts
<1> DEFINE life == [q \in Pid |-> LifeOf(status[q])]
           k == Kids[i]
<1>1. k \in Table \ {InitPid, Shell} /\ parent[k] = Shell /\ k \in Pid
  <2>1. Shell \in Table
    BY DEF KernelInv, Roots, Table
  <2>2. QED
    BY <2>1 DEF KernelInv, FamilyInTable, Kids, Roots, Table
<1>2. Family(k) = Life!Descendants(k)
  BY <1>1, FamilyIsDescendants
<1>3. /\ status' = [q \in Pid |-> IF q \in Family(k) THEN "FREE"
                                  ELSE IF q = Shell THEN "READY" ELSE status[q]]
      /\ parent' = [q \in Pid |-> IF q \in Family(k) THEN NoProc ELSE parent[q]]
  BY DEF Reap
<1>4. LifeOf(status[Shell]) = "running" /\ LifeOf("READY") = "running"
  BY LifeFacts DEF KernelInv, Roots, Runnable
<1> HIDE DEF k
<1>5. life' = [q \in Pid |-> IF q \in Family(k) THEN "free" ELSE life[q]]
  BY <1>3, <1>4, LifeFacts
<1>6. life[k] = "zombie"
  BY <1>1, LifeFacts DEF k
<1>7. Life!Reap(k)
  BY <1>1, <1>2, <1>3, <1>5, <1>6 DEF Life!Reap
<1>8. QED
  BY <1>1, <1>7 DEF Life!Next

\* Whatever else a wait does, no process changes its life.
LEMMA WaitImplements ==
  ASSUME KernelInv, WaitNoHang \/ WaitHang
  PROVE  Life!Next \/ UNCHANGED Life!vars
<1> USE PidFacts
<1>1. pc # "stuck"
  BY DEF WaitNoHang, WaitHang
<1>2. ASSUME NEW s \in {"READY", "WAITING"}, status' = [status EXCEPT ![Shell] = s],
             UNCHANGED parent
      PROVE  UNCHANGED Life!vars
  <2>1. LifeOf(status[Shell]) = "running" /\ LifeOf(s) = "running"
    BY LifeFacts DEF KernelInv, Roots, Runnable
  <2>2. \A p \in Pid : LifeOf(status'[p]) = LifeOf(status[p])
    BY <1>2, <2>1 DEF KernelInv, TypeOK
  <2>3. QED
    BY <1>2, <2>2, LifeStutters
<1>3. \/ \E s \in {"READY", "WAITING"} : /\ status' = [status EXCEPT ![Shell] = s]
                                         /\ UNCHANGED parent
      \/ \E i \in DOMAIN Kids : status[Kids[i]] \in Zombie /\ Reap(i, "poll")
  BY DEF WaitNoHang, WaitHang, ReapSticks
<1>4. QED
  BY <1>1, <1>2, <1>3, ReapImplements

LEMMA InitImplements == Init => Life!Init
<1> SUFFICES ASSUME Init PROVE Life!Init
  OBVIOUS
<1>1. /\ status[InitPid] = "WAITING" /\ status[Shell] = "READY"
      /\ \A p \in Pid \ {InitPid, Shell} : status[p] = "FREE"
  BY PidFacts, Zenon DEF Init
<1>2. \A p \in Pid : LifeOf(status[p]) = IF p \in {InitPid, Shell} THEN "running" ELSE "free"
  BY <1>1, LifeFacts DEF Runnable
<1>3. parent = [p \in Pid |-> IF p = Shell THEN InitPid ELSE NoProc]
  BY DEF Init
<1>4. QED
  BY <1>2, <1>3 DEF Life!Init, Life!System

LEMMA StepImplements == KernelInv /\ [Next]_vars => [Life!Next]_Life!vars
<1> SUFFICES ASSUME KernelInv, [Next]_vars
             PROVE  Life!Next \/ UNCHANGED Life!vars
  OBVIOUS
<1>1. ASSUME NEW p \in Pid, TerminalFromBackground(p)
      PROVE  Life!Next \/ UNCHANGED Life!vars
  <2>1. p \notin {InitPid, Shell}
    BY <1>1 DEF TerminalFromBackground, InitPid, Shell
  <2>2. QED
    BY <1>1, <2>1, KillImplements DEF TerminalFromBackground
<1>2. ASSUME NEW sig \in {"S_SIGSTOP", "S_SIGTERM"}, Keyboard(sig)
      PROVE  Life!Next \/ UNCHANGED Life!vars
  <2>1. CASE fg_pid = Shell
    BY <1>2, <2>1, LifeStutters DEF Keyboard, vars
  <2>2. CASE fg_pid # Shell
    <3>1. fg_pid \in Pid /\ fg_pid \notin {InitPid, Shell}
      BY <2>2 DEF KernelInv, TypeOK, Roots
    <3>2. QED
      BY <1>2, <2>2, <3>1, KillImplements DEF Keyboard
  <2>3. QED
    BY <2>1, <2>2
<1>3. ASSUME NEW p \in Pid, Bg(p) PROVE Life!Next \/ UNCHANGED Life!vars
  BY <1>3, KillImplements DEF Bg
<1>4. ASSUME NEW p \in Pid, SpawnChild(p) PROVE Life!Next
  BY <1>4, CreateImplements DEF SpawnChild, Runs, KernelInv, Rest, Table
<1>5. ASSUME NEW f, NEW mode, ShellSpawn(f, mode) PROVE Life!Next
  BY <1>5, PidFacts, CreateImplements DEF ShellSpawn, Reading, Runs, KernelInv, Roots, Table
<1>6. ASSUME NEW p \in Pid, KExit(p) PROVE Life!Next \/ UNCHANGED Life!vars
  BY <1>6, ExitImplements
<1>7. CASE WaitNoHang \/ WaitHang
  BY <1>7, WaitImplements
<1>8. ASSUME UNCHANGED <<status, parent>> PROVE UNCHANGED Life!vars
  BY <1>8, LifeStutters
<1>9. CASE \/ Alarm \/ Prompt \/ OtherLine \/ Redirect \/ UNCHANGED vars
           \/ \E p \in Pid : Dispatch(p) \/ SleepYields(p) \/ FileCall(p) \/ PsEnds(p)
  BY <1>8, <1>9 DEF Alarm, Prompt, OtherLine, Redirect, vars, Dispatch, SleepYields,
                    FileCall, PsEnds, pcbs
<1>10. QED
  BY <1>1, <1>2, <1>3, <1>4, <1>5, <1>6, <1>7, <1>9
     DEF Next, JobStep, ShellStep, UserLine, Fg, CtrlC, CtrlZ

\* Every behaviour of the kernel is one of ProcessLife: a dead process revives
\* under no signal, and no pid is freed but when the shell reaps a dead child
\* of its own, with exactly that child's descendants.
THEOREM KernelImplementsLife == Spec => ImplementsLife
<1>1. Spec => []KernelInv
  BY KernelInvariant
<1>2. QED
  BY <1>1, InitImplements, StepImplements, PTL DEF Spec, ImplementsLife, Life!Spec
================================================================================
