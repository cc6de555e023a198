---------------------------- MODULE SchedulerProofs ----------------------------
(****************************************************************************)
(* Theorems about Scheduler, for any processes, niceness values, contents   *)
(* of fresh memory and bound on the reaps with the timer armed.             *)
(****************************************************************************)
EXTENDS Scheduler, TLAPS, SequenceTheorems

\* remove_by_pid makes a queue of a queue; one in which no process has two nodes
\* loses the node of p and nothing else.
LEMMA RemoveByPidProperties ==
  ASSUME NEW S, NEW s \in Seq(S), NEW p
  PROVE  /\ RemoveByPid(s, p) \in Seq(S)
         /\ NoDup(s) => /\ NoDup(RemoveByPid(s, p))
                        /\ In(RemoveByPid(s, p)) = In(s) \ {p}
<1>1. CASE p \notin In(s)
  BY <1>1 DEF RemoveByPid, In
<1>2. CASE p \in In(s)
  <2> DEFINE k == CHOOSE i \in 1 .. Len(s) : s[i] = p
             r == [i \in 1 .. Len(s) - 1 |-> IF i < k THEN s[i] ELSE s[i + 1]]
  <2>1. k \in 1 .. Len(s) /\ s[k] = p
    BY <1>2 DEF In
  <2>2. RemoveByPid(s, p) = r
    BY <1>2 DEF RemoveByPid
  <2> HIDE DEF k
  <2>3. Len(s) \in Nat /\ \A i \in 1 .. Len(s) : s[i] \in S
    OBVIOUS
  <2>4. r \in Seq(S)
    BY <2>1, <2>3
  <2>5. Len(r) = Len(s) - 1 /\ \A i \in 1 .. Len(r) : r[i] = IF i < k THEN s[i] ELSE s[i + 1]
    BY <2>1, <2>3
  <2> HIDE DEF r
  <2>6. ASSUME NoDup(s) PROVE NoDup(r)
    BY <2>1, <2>3, <2>5, <2>6 DEF NoDup
  <2>7. ASSUME NoDup(s) PROVE In(r) = In(s) \ {p}
    <3>1. ASSUME NEW x \in In(r) PROVE x \in In(s) \ {p}
      BY <2>1, <2>3, <2>5, <2>7, <3>1 DEF NoDup, In
    <3>2. ASSUME NEW x \in In(s) \ {p} PROVE x \in In(r)
      <4>1. PICK i \in 1 .. Len(s) : s[i] = x
        BY <3>2 DEF In
      <4>2. i # k
        BY <4>1, <2>1, <3>2
      <4>3. CASE i < k
        BY <4>1, <4>3, <2>1, <2>3, <2>5 DEF In
      <4>4. CASE i > k
        <5>1. i - 1 \in 1 .. Len(r) /\ r[i - 1] = x
          BY <4>1, <4>4, <2>1, <2>3, <2>5
        <5>2. QED
          BY <5>1 DEF In
      <4>5. QED
        BY <4>2, <4>3, <4>4, <2>1
    <3>3. QED
      BY <3>1, <3>2
  <2>8. QED
    BY <2>2, <2>4, <2>6, <2>7
<1>3. QED
  BY <1>1, <1>2

\* What dequeue leaves: the queue without its head.
LEMMA TailProperties ==
  ASSUME NEW S, NEW s \in Seq(S), s # <<>>
  PROVE  /\ Tail(s) \in Seq(S)
         /\ Head(s) \in S
         /\ Head(s) \in In(s)
         /\ In(s) \subseteq S
         /\ In(s) = In(Tail(s)) \cup {Head(s)}
         /\ NoDup(s) => NoDup(Tail(s)) /\ Head(s) \notin In(Tail(s))
<1> DEFINE t == Tail(s)
<1>1. /\ t \in Seq(S) /\ Len(t) = Len(s) - 1 /\ Len(s) \in Nat \ {0}
      /\ Head(s) = s[1] /\ \A i \in 1 .. Len(t) : t[i] = s[i + 1]
      /\ \A i \in 1 .. Len(s) : s[i] \in S
  BY HeadTailProperties, EmptySeq, ElementOfSeq
<1> HIDE DEF t
<1>2. In(s) = In(t) \cup {s[1]}
  <2>1. ASSUME NEW i \in 1 .. Len(s) PROVE i = 1 \/ s[i] \in In(t)
    <3>1. CASE i # 1
      <4>1. i - 1 \in 1 .. Len(t) /\ t[i - 1] = s[i]
        BY <1>1, <3>1
      <4>2. QED
        BY <4>1 DEF In
    <3>2. QED
      BY <3>1
  <2>2. \A i \in 1 .. Len(t) : t[i] \in In(s)
    BY <1>1 DEF In
  <2>3. s[1] \in In(s)
    BY <1>1 DEF In
  <2>4. QED
    BY <2>1, <2>2, <2>3 DEF In
<1>3. NoDup(s) => NoDup(t) /\ s[1] \notin In(t)
  BY <1>1 DEF NoDup, In
<1>4. QED
  BY <1>1, <1>2, <1>3 DEF t, In

\* What enqueue and enqueue_q make of a queue: the same nodes and one more.
LEMMA AppendProperties2 ==
  ASSUME NEW S, NEW s \in Seq(S), NEW x \in S
  PROVE  /\ Append(s, x) \in Seq(S)
         /\ In(Append(s, x)) = In(s) \cup {x}
         /\ NoDup(s) /\ x \notin In(s) => NoDup(Append(s, x))
<1>1. /\ Append(s, x) \in Seq(S) /\ Len(Append(s, x)) = Len(s) + 1
      /\ Append(s, x)[Len(s) + 1] = x /\ Len(s) \in Nat
      /\ \A i \in 1 .. Len(s) : Append(s, x)[i] = s[i]
  OBVIOUS
<1>2. In(Append(s, x)) = In(s) \cup {x}
  <2>1. ASSUME NEW i \in 1 .. Len(s) + 1
        PROVE  Append(s, x)[i] \in In(s) \cup {x}
    BY <1>1 DEF In
  <2>2. \A i \in 1 .. Len(s) : s[i] \in In(Append(s, x))
    BY <1>1 DEF In
  <2>3. x \in In(Append(s, x))
    BY <1>1 DEF In
  <2>4. QED
    BY <1>1, <2>1, <2>2, <2>3 DEF In
<1>3. NoDup(s) /\ x \notin In(s) => NoDup(Append(s, x))
  BY <1>1 DEF NoDup, In
<1>4. QED
  BY <1>1, <1>2, <1>3

-------------------------------------------------------------------------------
\* add_to_active and set_time keep queues of processes and counts of runs.
LEMMA SpillType ==
  ASSUME TypeOK
  PROVE  /\ \A l \in Level : Active(l) \in Seq(Pid) /\ Inactive(l) \in Seq(Pid)
         /\ \A p \in Pid : RunsLeft(p) \in Nat
BY DEF TypeOK, Active, Inactive, RunsLeft

\* A turn of the loop of next_to_schedule keeps the types of what it writes.
LEMMA RotateType ==
  ASSUME TypeOK, NEW l \in Level, NEW p \in Pid, Turn(l), p = Head(Active(l)),
         Rotate(l, p)
  PROVE  /\ active' \in [Level -> Seq(Pid)]
         /\ inactive' \in [Level -> Seq(Pid)]
         /\ runs_left' \in [Pid -> Nat]
         /\ curr_q' \in -1 .. NUM_QUEUES - 1
<1>1. /\ \A k \in Level : Active(k) \in Seq(Pid) /\ Inactive(k) \in Seq(Pid)
      /\ \A q \in Pid : RunsLeft(q) \in Nat
  BY SpillType
<1>2. Tail(Active(l)) \in Seq(Pid)
  BY <1>1, TailProperties DEF Turn
<1>3. Append(Tail(Active(l)), p) \in Seq(Pid)
  BY <1>2, AppendProperties2
<1>4. Append(Inactive(l), p) \in Seq(Pid)
  BY <1>1, AppendProperties2
<1>5. Decrement(RunsLeft(p)) \in Nat
  BY <1>1 DEF Decrement
<1>6. l \in -1 .. NUM_QUEUES - 1
  BY DEF Level, NUM_QUEUES
<1>7. QED
  BY <1>1, <1>2, <1>3, <1>4, <1>5, <1>6 DEF Rotate, Requeue

\* The state at boot has the types of TypeOK.
LEMMA InitType == Init => TypeOK
<1> SUFFICES ASSUME Init PROVE TypeOK
  OBVIOUS
<1>1. <<Shell>> \in Seq(Pid) /\ <<>> \in Seq(Pid)
  BY PidAssumption
<1>2. 0 \in 0 .. ArmedReaps
  BY ArmedReapsAssumption
<1>3. runs_left \in [Pid -> Nat]
  BY GarbageAssumption DEF Init
<1>4. active \in [Level -> Seq(Pid)] /\ inactive \in [Level -> Seq(Pid)]
  BY <1>1 DEF Init
<1>5. /\ curr_q \in -1 .. NUM_QUEUES - 1 /\ scanned \in 0 .. 2 * NUM_QUEUES
      /\ armedReaps \in 0 .. ArmedReaps
  BY <1>2 DEF Init, NUM_QUEUES
<1>6. nice \in [Pid -> -1 .. 2] /\ status \in [Pid -> Status]
  BY DEF Init, Status
<1>7. QED
  BY <1>3, <1>4, <1>5, <1>6 DEF Init, TypeOK, NoPid

\* Every step of the scheduler, the calls and the signals keeps the types.
LEMMA NextType == TypeOK /\ [Next]_vars => TypeOK'
<1> SUFFICES ASSUME TypeOK, [Next]_vars PROVE TypeOK'
  OBVIOUS
<1> USE DEF NoPid
<1>1. ASSUME NEW l \in Level, NEW p \in Pid, Skip(l, p) PROVE TypeOK'
  BY <1>1, RotateType DEF Skip, TypeOK, reap
<1>2. ASSUME NEW l \in Level, NEW p \in Pid, Dispatch(l, p) PROVE TypeOK'
  BY <1>2, RotateType DEF Dispatch, TypeOK, reap
<1>3. CASE KSchedule
  BY <1>3 DEF KSchedule, TypeOK, queues, reap
<1>4. CASE KExit
  BY <1>4 DEF KExit, TypeOK, queues, reap, Status
<1>5. CASE RemoveScan
  <2>1. scanned \div 2 \in Level /\ scanned + 1 \in 0 .. 2 * NUM_QUEUES
    BY <1>5 DEF RemoveScan, TypeOK, Level, NUM_QUEUES
  <2>2. \A k \in Level : /\ RemoveByPid(active[k], victim) \in Seq(Pid)
                         /\ RemoveByPid(inactive[k], victim) \in Seq(Pid)
    BY RemoveByPidProperties DEF TypeOK
  <2>3. active' \in [Level -> Seq(Pid)] /\ inactive' \in [Level -> Seq(Pid)]
    BY <1>5, <2>1, <2>2 DEF RemoveScan, TypeOK
  <2>4. QED
    BY <1>5, <2>1, <2>3 DEF RemoveScan, TypeOK
<1>6. CASE RemoveDone
  BY <1>6 DEF RemoveDone, TypeOK, queues, Status, NUM_QUEUES
<1>7. ASSUME NEW p \in Pid, NEW n \in SpawnNice, NEW g \in Garbage, Create(p, n, g)
      PROVE  TypeOK'
  <2>1. n + 1 \in Level /\ n \in -1 .. 2 /\ g \in Nat
    BY NiceAssumption, GarbageAssumption DEF Level, NUM_QUEUES
  <2>2. Append(inactive[n + 1], p) \in Seq(Pid)
    BY <2>1, AppendProperties2 DEF TypeOK
  <2>3. QED
    BY <1>7, <2>1, <2>2 DEF Create, TypeOK, reap, Status
<1>8. ASSUME NEW p \in Pid, SigStop(p) PROVE TypeOK'
  BY <1>8 DEF SigStop, TypeOK, queues, reap, Status
<1>9. ASSUME NEW p \in Pid, SigTerm(p) PROVE TypeOK'
  BY <1>9 DEF SigTerm, TypeOK, queues, reap, Status
<1>10. ASSUME NEW p \in Pid, SigCont(p) PROVE TypeOK'
  BY <1>10 DEF SigCont, TypeOK, queues, reap, Status
<1>11. ASSUME NEW p \in Pid, NEW n \in ReniceTo, KNice(p, n) PROVE TypeOK'
  <2>1. Clamp(n) + 1 \in -1 .. 2
    BY NiceAssumption DEF Clamp
  <2>2. QED
    BY <1>11, <2>1 DEF KNice, TypeOK, queues, reap
<1>12. ASSUME NEW p \in Pid, Terminate(p) PROVE TypeOK'
  <2>1. \A k \in Level : /\ RemoveByPid(active[k], p) \in Seq(Pid)
                         /\ RemoveByPid(inactive[k], p) \in Seq(Pid)
    BY RemoveByPidProperties DEF TypeOK
  <2>2. QED
    BY <1>12, <2>1 DEF Terminate, TypeOK, reap, Status
<1>13. ASSUME NEW p \in Pid, ArmedTerminate(p) PROVE TypeOK'
  BY <1>13, ArmedReapsAssumption DEF ArmedTerminate, TypeOK, queues, NUM_QUEUES
<1>14. CASE UNCHANGED vars
  BY <1>14 DEF vars, TypeOK
<1>15. QED
  BY <1>1, <1>2, <1>3, <1>4, <1>5, <1>6, <1>7, <1>8, <1>9, <1>10, <1>11, <1>12,
     <1>13, <1>14 DEF Next, NextToSchedule

\* Every variable of the scheduler stays in its range, for any number of
\* processes, priorities and values in fresh memory.
THEOREM TypeCorrect == Spec => []TypeOK
<1>1. QED
  BY InitType, NextType, PTL DEF Spec

-------------------------------------------------------------------------------
(* With the timer paused in every reap, the queues and the table agree.      *)

QueueInv ==
  /\ TypeOK
  /\ OneNode
  /\ NoneLost
  /\ QueuedHavePcb
  /\ status[Shell] = "RUNNABLE"
  /\ victim = NoPid

\* OneNode of the queues that add_to_active leaves, and what is on them.
LEMMA SpillOneNode ==
  ASSUME TypeOK, OneNode
  PROVE  /\ \A l \in Level : NoDup(Active(l)) /\ NoDup(Inactive(l))
         /\ \A l, m \in Level : In(Active(l)) \cap In(Inactive(m)) = {}
         /\ \A l, m \in Level : l # m =>
               /\ In(Active(l)) \cap In(Active(m)) = {}
               /\ In(Inactive(l)) \cap In(Inactive(m)) = {}
         /\ Queued = UNION {In(Active(l)) \cup In(Inactive(l)) : l \in Level}
<1>1. In(<<>>) = {} /\ NoDup(<<>>)
  BY DEF In, NoDup
<1>2. CASE NothingActive
  <2>1. \A l \in Level : /\ Active(l) = inactive[l] /\ Inactive(l) = <<>>
                         /\ active[l] = <<>>
    BY <1>2 DEF Active, Inactive, NothingActive
  <2>2. Queued = UNION {In(Active(l)) \cup In(Inactive(l)) : l \in Level}
    BY <1>1, <2>1 DEF Queued
  <2>3. QED
    BY <1>1, <2>1, <2>2 DEF OneNode
<1>3. CASE ~NothingActive
  <2>1. \A l \in Level : Active(l) = active[l] /\ Inactive(l) = inactive[l]
    BY <1>3 DEF Active, Inactive
  <2>2. Queued = UNION {In(Active(l)) \cup In(Inactive(l)) : l \in Level}
    BY <2>1 DEF Queued
  <2>3. QED
    BY <2>1, <2>2 DEF OneNode
<1>4. QED
  BY <1>2, <1>3

\* A turn of the loop loses no node but a zombie's, and makes none.
LEMMA RotateQueues ==
  ASSUME TypeOK, OneNode, NEW l \in Level, NEW p \in Pid, Turn(l),
         p = Head(Active(l)), Rotate(l, p)
  PROVE  /\ OneNode'
         /\ Queued' = IF status[p] = "ZOMBIED" THEN Queued \ {p} ELSE Queued
         /\ p \in Queued
<1> DEFINE rest == Tail(Active(l))
           runs == Decrement(RunsLeft(p))
<1>1. /\ \A k \in Level : NoDup(Active(k)) /\ NoDup(Inactive(k))
      /\ \A k, m \in Level : In(Active(k)) \cap In(Inactive(m)) = {}
      /\ \A k, m \in Level : k # m =>
               /\ In(Active(k)) \cap In(Active(m)) = {}
               /\ In(Inactive(k)) \cap In(Inactive(m)) = {}
      /\ Queued = UNION {In(Active(k)) \cup In(Inactive(k)) : k \in Level}
  BY SpillOneNode
<1>2. /\ \A k \in Level : Active(k) \in Seq(Pid) /\ Inactive(k) \in Seq(Pid)
      /\ runs \in Nat
  BY SpillType DEF Decrement
<1>3. /\ rest \in Seq(Pid) /\ NoDup(rest)
      /\ In(Active(l)) = In(rest) \cup {p} /\ p \notin In(rest)
  BY <1>1, <1>2, TailProperties DEF Turn
<1> HIDE DEF rest, runs
<1>4. /\ In(Append(rest, p)) = In(Active(l)) /\ NoDup(Append(rest, p))
  <2>1. In(Append(rest, p)) = In(rest) \cup {p} /\ NoDup(Append(rest, p))
    BY <1>3, AppendProperties2
  <2>2. QED
    BY <1>3, <2>1
<1>5. p \notin In(Inactive(l))
  BY <1>1, <1>3
<1>6. /\ In(Append(Inactive(l), p)) = In(Inactive(l)) \cup {p}
      /\ NoDup(Append(Inactive(l), p))
  BY <1>1, <1>2, <1>5, AppendProperties2
<1>7. p \in Queued
  BY <1>1, <1>3
<1>8. CASE status[p] = "ZOMBIED"
  <2>1. /\ \A k \in Level : active'[k] = IF k = l THEN rest ELSE Active(k)
        /\ \A k \in Level : inactive'[k] = Inactive(k)
    BY <1>8 DEF Rotate, Requeue, rest
  <2>2. OneNode'
    BY <1>1, <1>3, <2>1 DEF OneNode
  <2>3. \A k \in Level : /\ In(active'[k]) = In(Active(k)) \ {p}
                         /\ In(inactive'[k]) = In(Inactive(k)) \ {p}
    BY <1>1, <1>3, <2>1
  <2>4. Queued' = Queued \ {p}
    BY <1>1, <2>3 DEF Queued
  <2>5. QED
    BY <1>7, <1>8, <2>2, <2>4
<1>9. CASE status[p] # "ZOMBIED" /\ runs > 0
  <2>1. /\ \A k \in Level : active'[k] = IF k = l THEN Append(rest, p) ELSE Active(k)
        /\ \A k \in Level : inactive'[k] = Inactive(k)
    BY <1>9 DEF Rotate, Requeue, rest, runs
  <2>2. \A k \in Level : /\ In(active'[k]) = In(Active(k)) /\ NoDup(active'[k])
                         /\ In(inactive'[k]) = In(Inactive(k)) /\ NoDup(inactive'[k])
    BY <1>1, <1>4, <2>1
  <2>3. OneNode'
    BY <1>1, <2>2 DEF OneNode
  <2>4. Queued' = Queued
    BY <1>1, <2>2 DEF Queued
  <2>5. QED
    BY <1>7, <1>9, <2>3, <2>4
<1>10. CASE status[p] # "ZOMBIED" /\ runs = 0
  <2>1. /\ \A k \in Level : active'[k] = IF k = l THEN rest ELSE Active(k)
        /\ \A k \in Level : inactive'[k] = IF k = l THEN Append(Inactive(k), p)
                                                    ELSE Inactive(k)
    <3>1. ~(runs > 0)
      BY <1>10
    <3>2. QED
      BY <1>10, <3>1 DEF Rotate, Requeue, rest, runs
  <2>2. \A k \in Level :
          /\ In(active'[k]) = IF k = l THEN In(Active(k)) \ {p} ELSE In(Active(k))
          /\ NoDup(active'[k]) /\ NoDup(inactive'[k])
          /\ In(inactive'[k]) = IF k = l THEN In(Inactive(k)) \cup {p}
                                         ELSE In(Inactive(k))
    <3>1. In(rest) = In(Active(l)) \ {p}
      BY <1>3
    <3>2. TAKE k \in Level
    <3>3. CASE k = l
      BY <1>1, <1>3, <1>6, <2>1, <3>1, <3>3
    <3>4. CASE k # l
      BY <1>1, <2>1, <3>4
    <3>5. QED
      BY <3>3, <3>4
  <2>3. OneNode'
    <3>1. \A k \in Level : NoDup(active'[k]) /\ NoDup(inactive'[k])
      BY <2>2
    <3>2. \A k, m \in Level : In(active'[k]) \cap In(inactive'[m]) = {}
      BY <1>1, <1>3, <2>2
    <3>3. \A k, m \in Level : k # m =>
               /\ In(active'[k]) \cap In(active'[m]) = {}
               /\ In(inactive'[k]) \cap In(inactive'[m]) = {}
      BY <1>1, <1>3, <2>2
    <3>4. QED
      BY <3>1, <3>2, <3>3 DEF OneNode
  <2>4. \A k \in Level : In(active'[k]) \cup In(inactive'[k])
                           = In(Active(k)) \cup In(Inactive(k))
    BY <1>3, <2>2
  <2>5. Queued' = Queued
    BY <1>1, <2>4 DEF Queued
  <2>6. QED
    BY <1>7, <1>10, <2>3, <2>5
<1>11. QED
  BY <1>2, <1>8, <1>9, <1>10

\* At boot the shell alone is queued, which satisfies QueueInv.
LEMMA InitQueues == Init => QueueInv
<1> SUFFICES ASSUME Init PROVE QueueInv
  OBVIOUS
<1>1. TypeOK
  BY InitType
<1>2. In(<<>>) = {} /\ NoDup(<<>>)
  BY DEF In, NoDup
<1>3. In(<<Shell>>) = {Shell} /\ NoDup(<<Shell>>)
  BY DEF In, NoDup
<1>4. \A l \in Level : /\ active[l] = <<>>
                       /\ inactive[l] = IF l = 0 THEN <<Shell>> ELSE <<>>
  BY DEF Init
<1>5. OneNode
  BY <1>2, <1>3, <1>4 DEF OneNode
<1>6. 0 \in Level
  BY DEF Level, NUM_QUEUES
<1>7. Queued = {Shell}
  BY <1>2, <1>3, <1>4, <1>6 DEF Queued
<1>8. QED
  BY <1>1, <1>5, <1>7, PidAssumption DEF Init, QueueInv, NoneLost, QueuedHavePcb

\* A call that leaves the queues alone, and lets no process appear or exit.
LEMMA QueuesUntouched ==
  ASSUME QueueInv, TypeOK', UNCHANGED <<active, inactive, victim>>,
         status'[Shell] = "RUNNABLE",
         \A p \in Pid : /\ status[p] = "FREE" => status'[p] = "FREE"
                        /\ status[p] = "ZOMBIED" => status'[p] \in {"FREE", "ZOMBIED"}
                        /\ status'[p] = "FREE" => status[p] = "FREE"
  PROVE  QueueInv'
<1>1. OneNode' /\ Queued' = Queued
  BY DEF QueueInv, OneNode, Queued
<1>2. Queued \subseteq Pid
  BY TailProperties DEF QueueInv, TypeOK, Queued, In
<1>3. NoneLost' /\ QueuedHavePcb'
  BY <1>1, <1>2 DEF QueueInv, NoneLost, QueuedHavePcb
<1>4. QED
  BY <1>1, <1>3 DEF QueueInv

\* QueueInv is inductive: every step keeps it, given the types.
LEMMA NextQueues ==
  ASSUME ArmedReaps = 0, QueueInv, [Next]_vars
  PROVE  QueueInv'
<1> USE PidAssumption DEF NoPid
<1>1. TypeOK'
  BY NextType DEF QueueInv
<1>2. TypeOK /\ OneNode /\ NoneLost /\ QueuedHavePcb
      /\ status[Shell] = "RUNNABLE" /\ victim = NoPid
  BY DEF QueueInv
<1>3. ASSUME NEW l \in Level, NEW p \in Pid, Turn(l), p = Head(Active(l)),
             Rotate(l, p), UNCHANGED <<status, victim>>
      PROVE  QueueInv'
  <2>1. /\ OneNode'
        /\ Queued' = IF status[p] = "ZOMBIED" THEN Queued \ {p} ELSE Queued
    BY <1>2, <1>3, RotateQueues
  <2>2. NoneLost' /\ QueuedHavePcb'
    BY <1>2, <1>3, <2>1 DEF NoneLost, QueuedHavePcb
  <2>3. QED
    BY <1>1, <1>2, <1>3, <2>1, <2>2 DEF QueueInv
<1>4. ASSUME NEW l \in Level, NEW p \in Pid, Skip(l, p) PROVE QueueInv'
  BY <1>3, <1>4 DEF Skip, reap
<1>5. ASSUME NEW l \in Level, NEW p \in Pid, Dispatch(l, p) PROVE QueueInv'
  BY <1>3, <1>5 DEF Dispatch, reap
<1>6. CASE KSchedule
  BY <1>1, <1>2, <1>6, QueuesUntouched DEF KSchedule, queues, reap
<1>7. CASE KExit
  BY <1>1, <1>2, <1>7, QueuesUntouched DEF KExit, queues, reap, TypeOK
<1>8. ASSUME NEW p \in Pid, NEW n \in SpawnNice, NEW g \in Garbage, Create(p, n, g)
      PROVE  QueueInv'
  <2>1. n + 1 \in Level
    BY NiceAssumption DEF Level, NUM_QUEUES
  <2>2. p \notin Queued
    BY <1>2, <1>8 DEF Create, QueuedHavePcb
  <2>3. \A k \in Level : /\ inactive[k] \in Seq(Pid)
                         /\ p \notin In(inactive[k]) /\ p \notin In(active[k])
    BY <1>2, <2>2 DEF Queued, TypeOK
  <2>4. /\ active' = active
        /\ \A k \in Level : inactive'[k] = IF k = n + 1 THEN Append(inactive[k], p)
                                                        ELSE inactive[k]
    BY <1>2, <1>8 DEF Create, TypeOK
  <2>5. \A k \in Level : In(inactive'[k]) = IF k = n + 1 THEN In(inactive[k]) \cup {p}
                                                         ELSE In(inactive[k])
    <3>1. TAKE k \in Level
    <3>2. CASE k = n + 1
      BY <2>3, <2>4, <3>2, AppendProperties2
    <3>3. CASE k # n + 1
      BY <2>4, <3>3
    <3>4. QED
      BY <3>2, <3>3
  <2>6. \A k \in Level : NoDup(inactive'[k])
    BY <1>2, <2>3, <2>4, AppendProperties2 DEF OneNode
  <2>7. OneNode'
    <3>1. \A k \in Level : In(active'[k]) = In(active[k]) /\ NoDup(active'[k])
      BY <1>2, <2>4 DEF OneNode
    <3>2. \A k, m \in Level : In(active'[k]) \cap In(inactive'[m]) = {}
      BY <1>2, <2>3, <2>5, <3>1 DEF OneNode
    <3>3. \A k, m \in Level : k # m =>
               /\ In(active'[k]) \cap In(active'[m]) = {}
               /\ In(inactive'[k]) \cap In(inactive'[m]) = {}
      <4>1. TAKE k, m \in Level
      <4>2. HAVE k # m
      <4>3. /\ In(active[k]) \cap In(active[m]) = {}
            /\ In(inactive[k]) \cap In(inactive[m]) = {}
        BY <1>2, <4>2 DEF OneNode
      <4>4. In(active'[k]) \cap In(active'[m]) = {}
        BY <3>1, <4>3
      <4>5. In(inactive'[k]) \cap In(inactive'[m]) = {}
        BY <2>3, <2>5, <4>2, <4>3
      <4>6. QED
        BY <4>4, <4>5
    <3>4. QED
      BY <2>6, <3>1, <3>2, <3>3 DEF OneNode
  <2>8. Queued' = Queued \cup {p}
    <3>1. \A k \in Level : In(active'[k]) \cup In(inactive'[k])
                             = (In(active[k]) \cup In(inactive[k]))
                                 \cup (IF k = n + 1 THEN {p} ELSE {})
      BY <2>4, <2>5
    <3>2. QED
      BY <2>1, <3>1 DEF Queued
  <2>9. /\ status' = [status EXCEPT ![p] = "RUNNABLE"] /\ victim' = victim
        /\ status[p] = "FREE"
    BY <1>8 DEF Create, reap
  <2>10. NoneLost' /\ QueuedHavePcb'
    BY <1>2, <2>8, <2>9 DEF NoneLost, QueuedHavePcb, TypeOK
  <2>11. QED
    BY <1>1, <1>2, <2>7, <2>9, <2>10 DEF QueueInv, TypeOK
<1>9. ASSUME NEW p \in Pid, SigStop(p) PROVE QueueInv'
  BY <1>1, <1>2, <1>9, QueuesUntouched DEF SigStop, queues, reap, TypeOK
<1>10. ASSUME NEW p \in Pid, SigTerm(p) PROVE QueueInv'
  BY <1>1, <1>2, <1>10, QueuesUntouched DEF SigTerm, queues, reap, TypeOK
<1>11. ASSUME NEW p \in Pid, SigCont(p) PROVE QueueInv'
  BY <1>1, <1>2, <1>11, QueuesUntouched DEF SigCont, queues, reap, TypeOK
<1>12. ASSUME NEW p \in Pid, NEW n \in ReniceTo, KNice(p, n) PROVE QueueInv'
  BY <1>1, <1>2, <1>12, QueuesUntouched DEF KNice, queues, reap
<1>13. ASSUME NEW p \in Pid, Terminate(p) PROVE QueueInv'
  <2>1. \A k \in Level : /\ active'[k] = RemoveByPid(active[k], p)
                         /\ inactive'[k] = RemoveByPid(inactive[k], p)
    BY <1>13 DEF Terminate
  <2>2. \A k \in Level : active[k] \in Seq(Pid) /\ inactive[k] \in Seq(Pid)
    BY <1>2 DEF TypeOK
  <2>3. \A k \in Level : NoDup(active[k]) /\ NoDup(inactive[k])
    BY <1>2 DEF OneNode
  <2>4. \A k \in Level : /\ In(active'[k]) = In(active[k]) \ {p}
                         /\ In(inactive'[k]) = In(inactive[k]) \ {p}
                         /\ NoDup(active'[k]) /\ NoDup(inactive'[k])
    BY <2>1, <2>2, <2>3, RemoveByPidProperties
  <2>5. OneNode'
    BY <1>2, <2>4 DEF OneNode
  <2>6. Queued' = Queued \ {p}
    BY <2>4 DEF Queued
  <2>7. /\ status' = [status EXCEPT ![p] = "FREE"] /\ victim' = victim
        /\ p # Shell
    BY <1>13 DEF Terminate, reap
  <2>8. NoneLost' /\ QueuedHavePcb'
    BY <1>2, <2>6, <2>7 DEF NoneLost, QueuedHavePcb, TypeOK
  <2>9. QED
    BY <1>1, <1>2, <2>5, <2>7, <2>8 DEF QueueInv, TypeOK
<1>14. ASSUME NEW p \in Pid, ArmedTerminate(p) PROVE QueueInv'
  BY <1>2, <1>14 DEF ArmedTerminate, TypeOK
<1>15. CASE RemoveScan \/ RemoveDone
  BY <1>2, <1>15 DEF RemoveScan, RemoveDone
<1>16. CASE UNCHANGED vars
  BY <1>1, <1>2, <1>16, QueuesUntouched DEF vars
<1>17. QED
  BY <1>4, <1>5, <1>6, <1>7, <1>8, <1>9, <1>10, <1>11, <1>12, <1>13, <1>14,
     <1>15, <1>16 DEF Next, NextToSchedule

\* While reaping keeps the timer paused, the six queues hold exactly one node
\* for every process that has not exited, none for a PCB that was freed, and
\* always the shell's: next_to_schedule never reads a freed PCB and never
\* returns NULL.  Holds for any number of processes and signals.
THEOREM QueuesSound ==
  ASSUME ArmedReaps = 0
  PROVE  Spec => [](OneNode /\ NoneLost /\ QueuedHavePcb /\ SomethingToSchedule)
<1>1. Init => QueueInv
  BY InitQueues
<1>2. QueueInv /\ [Next]_vars => QueueInv'
  BY NextQueues
<1>3. QueueInv => OneNode /\ NoneLost /\ QueuedHavePcb /\ SomethingToSchedule
  BY PidAssumption DEF QueueInv, NoneLost, SomethingToSchedule, NoPid
<1>4. QED
  BY <1>1, <1>2, <1>3, PTL DEF Spec

\* With the timer paused in every reap, no process has two nodes.
THEOREM NodesAreUnique ==
  ASSUME ArmedReaps = 0
  PROVE  Spec => []OneNode
BY QueuesSound, PTL

\* With the timer paused in every reap, the PCB of a queued process exists.
THEOREM NoFreedPcbQueued ==
  ASSUME ArmedReaps = 0
  PROVE  Spec => []QueuedHavePcb
BY QueuesSound, PTL

-------------------------------------------------------------------------------
(* With the timer armed in a reap, a freed PCB may stay queued, but still no *)
(* process that may run is forgotten.                                        *)

LossInv ==
  /\ TypeOK
  /\ NoneLost
  /\ status[Shell] = "RUNNABLE"
  /\ victim # Shell

\* remove_by_pid takes no node but one of p's, whatever the queue holds.
LEMMA RemoveByPidKeeps ==
  ASSUME NEW S, NEW s \in Seq(S), NEW p
  PROVE  In(s) \ {p} \subseteq In(RemoveByPid(s, p))
<1>1. CASE p \notin In(s)
  BY <1>1 DEF RemoveByPid
<1>2. CASE p \in In(s)
  <2> DEFINE k == CHOOSE i \in 1 .. Len(s) : s[i] = p
             r == [i \in 1 .. Len(s) - 1 |-> IF i < k THEN s[i] ELSE s[i + 1]]
  <2>1. k \in 1 .. Len(s) /\ s[k] = p
    BY <1>2 DEF In
  <2>2. RemoveByPid(s, p) = r
    BY <1>2 DEF RemoveByPid
  <2> HIDE DEF k
  <2>3. Len(s) \in Nat /\ \A i \in 1 .. Len(s) : s[i] \in S
    OBVIOUS
  <2>4. Len(r) = Len(s) - 1 /\ \A i \in 1 .. Len(r) : r[i] = IF i < k THEN s[i] ELSE s[i + 1]
    BY <2>1, <2>3
  <2> HIDE DEF r
  <2>5. ASSUME NEW x \in In(s) \ {p} PROVE x \in In(r)
    <3>1. PICK i \in 1 .. Len(s) : s[i] = x
      BY <2>5 DEF In
    <3>2. CASE i < k
      BY <2>1, <2>3, <2>4, <3>1, <3>2 DEF In
    <3>3. CASE i > k
      <4>1. i - 1 \in 1 .. Len(r) /\ r[i - 1] = x
        BY <2>1, <2>3, <2>4, <3>1, <3>3
      <4>2. QED
        BY <4>1 DEF In
    <3>4. QED
      BY <2>1, <2>5, <3>1, <3>2, <3>3
  <2>6. QED
    BY <2>2, <2>5
<1>3. QED
  BY <1>1, <1>2

\* add_to_active moves whole queues.
LEMMA SpillQueued ==
  ASSUME TypeOK
  PROVE  Queued = UNION {In(Active(l)) \cup In(Inactive(l)) : l \in Level}
<1>1. In(<<>>) = {}
  BY DEF In
<1>2. CASE NothingActive
  BY <1>1, <1>2 DEF Active, Inactive, NothingActive, Queued
<1>3. CASE ~NothingActive
  BY <1>3 DEF Active, Inactive, Queued
<1>4. QED
  BY <1>2, <1>3

\* A turn of the loop takes nobody off the queues but an exited head.
LEMMA RotateKeepsOthers ==
  ASSUME TypeOK, NEW l \in Level, NEW p \in Pid, Turn(l), p = Head(Active(l)),
         Rotate(l, p)
  PROVE  \A q \in Queued : q \in Queued' \/ (q = p /\ status[p] = "ZOMBIED")
<1> DEFINE rest == Tail(Active(l))
           runs == Decrement(RunsLeft(p))
<1>1. /\ \A k \in Level : Active(k) \in Seq(Pid) /\ Inactive(k) \in Seq(Pid)
      /\ runs \in Nat
  BY SpillType DEF Decrement
<1>2. /\ rest \in Seq(Pid) /\ In(Active(l)) = In(rest) \cup {p}
  BY <1>1, TailProperties DEF Turn
<1>3. /\ In(Append(rest, p)) = In(rest) \cup {p}
      /\ In(Append(Inactive(l), p)) = In(Inactive(l)) \cup {p}
  <2>1. Inactive(l) \in Seq(Pid)
    BY <1>1
  <2> HIDE DEF rest
  <2>2. QED
    BY <1>2, <2>1, AppendProperties2
<1> HIDE DEF rest, runs
<1>4. /\ \A k \in Level \ {l} : active'[k] = Active(k) /\ inactive'[k] = Inactive(k)
      /\ active'[l] \in {rest, Append(rest, p)}
      /\ inactive'[l] \in {Inactive(l), Append(Inactive(l), p)}
      /\ \/ status[p] = "ZOMBIED"
         \/ active'[l] = Append(rest, p) \/ inactive'[l] = Append(Inactive(l), p)
  <2>1. runs > 0 \/ runs = 0
    BY <1>1
  <2>2. QED
    BY <2>1 DEF Rotate, Requeue, rest, runs
<1>5. \A k \in Level \ {l} : /\ In(Active(k)) \subseteq In(active'[k])
                             /\ In(Inactive(k)) \subseteq In(inactive'[k])
  BY <1>4
<1>6. In(rest) \subseteq In(active'[l]) /\ In(Inactive(l)) \subseteq In(inactive'[l])
  BY <1>3, <1>4
<1>7. status[p] = "ZOMBIED" \/ p \in In(active'[l]) \cup In(inactive'[l])
  BY <1>3, <1>4
<1>8. ASSUME NEW k \in Level, NEW q \in In(Active(k)) \cup In(Inactive(k)),
             ~(q = p /\ status[p] = "ZOMBIED")
      PROVE  q \in In(active'[k]) \cup In(inactive'[k])
  BY <1>2, <1>5, <1>6, <1>7, <1>8
<1>9. QED
  BY <1>8, SpillQueued DEF Queued

\* A step that takes nobody off the queues but the dead and the victim.
LEMMA LossStep ==
  ASSUME LossInv, TypeOK', status'[Shell] = "RUNNABLE", victim' # Shell,
         \A p \in Pid : p \in Queued => \/ p \in Queued'
                                        \/ status'[p] \in {"FREE", "ZOMBIED"}
                                        \/ p = victim',
         \A p \in Pid : status[p] = "FREE" => status'[p] = "FREE" \/ p \in Queued',
         \A p \in Pid : status[p] = "ZOMBIED" => status'[p] \in {"FREE", "ZOMBIED"},
         victim \in Pid /\ victim' # victim => status'[victim] = "FREE"
  PROVE  LossInv'
<1>1. NoneLost'
  BY DEF LossInv, NoneLost
<1>2. QED
  BY <1>1 DEF LossInv

LEMMA InitLoss == Init => LossInv
BY InitQueues, PidAssumption DEF QueueInv, LossInv, NoPid

LEMMA NextLoss == LossInv /\ [Next]_vars => LossInv'
<1> SUFFICES ASSUME LossInv, [Next]_vars PROVE LossInv'
  OBVIOUS
<1> USE PidAssumption DEF NoPid
<1>1. /\ TypeOK /\ TypeOK' /\ NoneLost
      /\ status[Shell] = "RUNNABLE" /\ victim # Shell
  BY NextType DEF LossInv
<1>2. ASSUME UNCHANGED <<active, inactive>> PROVE Queued' = Queued
  BY <1>2 DEF Queued
<1>3. ASSUME NEW l \in Level, NEW p \in Pid, Turn(l), p = Head(Active(l)),
             Rotate(l, p), UNCHANGED <<status, victim>>
      PROVE  LossInv'
  <2>1. \A q \in Queued : q \in Queued' \/ (q = p /\ status[p] = "ZOMBIED")
    BY <1>1, <1>3, RotateKeepsOthers
  <2>2. QED
    BY <1>1, <1>3, <2>1, LossStep
<1>4. ASSUME NEW l \in Level, NEW p \in Pid, Skip(l, p) \/ Dispatch(l, p)
      PROVE  LossInv'
  BY <1>3, <1>4 DEF Skip, Dispatch, reap
<1>5. CASE KSchedule \/ UNCHANGED vars
  BY <1>1, <1>2, <1>5, LossStep DEF KSchedule, queues, reap, vars
<1>6. CASE KExit
  BY <1>1, <1>2, <1>6, LossStep DEF KExit, queues, reap, TypeOK
<1>7. CASE RemoveScan
  <2>1. \A k \in Level : /\ active[k] \in Seq(Pid) /\ inactive[k] \in Seq(Pid)
                         /\ active'[k] \in {active[k], RemoveByPid(active[k], victim)}
                         /\ inactive'[k] \in {inactive[k], RemoveByPid(inactive[k], victim)}
    BY <1>1, <1>7 DEF RemoveScan, TypeOK
  <2>2. \A k \in Level : /\ In(active[k]) \ {victim} \subseteq In(active'[k])
                         /\ In(inactive[k]) \ {victim} \subseteq In(inactive'[k])
    BY <2>1, RemoveByPidKeeps
  <2>3. Queued \ {victim} \subseteq Queued'
    BY <2>2 DEF Queued
  <2>4. QED
    BY <1>1, <1>7, <2>3, LossStep DEF RemoveScan
<1>8. CASE RemoveDone
  BY <1>1, <1>2, <1>8, LossStep DEF RemoveDone, queues, TypeOK
<1>9. ASSUME NEW p \in Pid, NEW n \in SpawnNice, NEW g \in Garbage, Create(p, n, g)
      PROVE  LossInv'
  <2>1. n + 1 \in Level
    BY NiceAssumption DEF Level, NUM_QUEUES
  <2>2. /\ active' = active
        /\ \A k \in Level : /\ inactive[k] \in Seq(Pid)
                            /\ inactive'[k] = IF k = n + 1 THEN Append(inactive[k], p)
                                                           ELSE inactive[k]
    BY <1>1, <1>9 DEF Create, TypeOK
  <2>3. \A k \in Level : /\ In(inactive[k]) \subseteq In(inactive'[k])
                         /\ k = n + 1 => p \in In(inactive'[k])
    <3>1. TAKE k \in Level
    <3>2. In(Append(inactive[k], p)) = In(inactive[k]) \cup {p}
      BY <2>2, AppendProperties2
    <3>3. QED
      BY <2>2, <3>2
  <2>4. Queued \cup {p} \subseteq Queued'
    BY <2>1, <2>2, <2>3 DEF Queued
  <2>5. /\ status' = [status EXCEPT ![p] = "RUNNABLE"] /\ victim' = victim
        /\ status[p] = "FREE"
    BY <1>9 DEF Create, reap
  <2>6. \A q \in Pid \ {p} : status'[q] = status[q]
    BY <1>1, <2>5 DEF TypeOK
  <2>7. QED
    BY <1>1, <2>4, <2>5, <2>6, LossStep
<1>10. ASSUME NEW p \in Pid, SigStop(p) \/ SigTerm(p) \/ SigCont(p) PROVE LossInv'
  <2>1. /\ Queued' = Queued /\ victim' = victim
        /\ status[p] \notin {"FREE", "ZOMBIED"} /\ (p = Shell => status' = status)
        /\ \A q \in Pid \ {p} : status'[q] = status[q]
    BY <1>1, <1>2, <1>10 DEF SigStop, SigTerm, SigCont, queues, reap, TypeOK
  <2>2. QED
    BY <1>1, <2>1, LossStep
<1>11. ASSUME NEW p \in Pid, NEW n \in ReniceTo, KNice(p, n) PROVE LossInv'
  BY <1>1, <1>2, <1>11, LossStep DEF KNice, queues, reap
<1>12. ASSUME NEW p \in Pid, Terminate(p) PROVE LossInv'
  <2>1. \A k \in Level : /\ active[k] \in Seq(Pid) /\ inactive[k] \in Seq(Pid)
                         /\ active'[k] = RemoveByPid(active[k], p)
                         /\ inactive'[k] = RemoveByPid(inactive[k], p)
    BY <1>1, <1>12 DEF Terminate, TypeOK
  <2>2. \A k \in Level : /\ In(active[k]) \ {p} \subseteq In(active'[k])
                         /\ In(inactive[k]) \ {p} \subseteq In(inactive'[k])
    BY <2>1, RemoveByPidKeeps
  <2>3. Queued \ {p} \subseteq Queued'
    BY <2>2 DEF Queued
  <2>4. /\ status' = [status EXCEPT ![p] = "FREE"] /\ victim' = victim /\ p # Shell
    BY <1>12 DEF Terminate, reap
  <2>5. QED
    BY <1>1, <2>3, <2>4, LossStep DEF TypeOK
<1>13. ASSUME NEW p \in Pid, ArmedTerminate(p) PROVE LossInv'
  BY <1>1, <1>2, <1>13, LossStep DEF ArmedTerminate, queues, ShellRuns
<1>14. QED
  BY <1>4, <1>5, <1>6, <1>7, <1>8, <1>9, <1>10, <1>11, <1>12, <1>13
     DEF Next, NextToSchedule

LEMMA LossInvariant == Spec => []LossInv
BY InitLoss, NextLoss, PTL DEF Spec

\* Whatever reaps run with the timer armed, each process that has not exited
\* has a node on a queue: no turn, signal or removal forgets it.
THEOREM NothingLost == Spec => []NoneLost
BY LossInvariant, PTL DEF LossInv

\* next_to_schedule never returns NULL, armed reaps or not: the shell always
\* has a node and is always runnable.
THEOREM ShellIsSchedulable == Spec => []SomethingToSchedule
<1>1. LossInv => SomethingToSchedule
  BY PidAssumption DEF LossInv, NoneLost, SomethingToSchedule
<1>2. QED
  BY <1>1, LossInvariant, PTL

=============================================================================
