-------------------------- MODULE FileCommandsProofs --------------------------
(****************************************************************************)
(* Theorems about FileCommands, for any processes, commands, names, and     *)
(* sizes: the calls the commands make keep what FlatFatProofs proves of     *)
(* calls, what the timer is to keep apart is kept apart, and the files stay *)
(* whole until a redirected program replaces a link.                        *)
(****************************************************************************)
EXTENDS FileCommands, FlatFatProofs, FiniteSetTheorems

-------------------------------------------------------------------------------
(* The inductive invariant.                                                  *)

JobNames == {"none", "cat", "touch", "rm"}
Tools == {"-w", "-a", "-r"}
ShellNames == {"none", "shell", "cp", "mv"} \cup Tools
FileNames == {"cat", "touch", "rm", "cp", "mv"} \cup Tools
Stages == Outside \cup {"launched", "reading", "open", "create", "read", "write",
                        "close", "close too", "exit"}
Command ==
  [name : JobNames \cup ShellNames, stage : Stages,
   src : Name \cup {Terminal}, dst : Name \cup {Terminal},
   fd : (-1 .. MaxNumber) \ {0}, to : (-1 .. MaxNumber) \ {0},
   filled : 0 .. FAT_WIDTH + 1, job : Proc]

\* What each stage of a command has by then: the names it was given, and for cp
\* and mv the descriptor of the copy, which f_open always finds a number for.
Sane(p, c) ==
  /\ c.name \in (IF p = Shell THEN ShellNames ELSE JobNames)
  /\ c.name \in FileNames /\ c.stage # "exited" => c.src \in Name
  /\ c.name \in {"cp", "mv"} => c.dst \in Name
  /\ c.name \notin {"cp", "mv"} \/ c.stage \in {"open", "create"} => c.to = -1
  /\ c.name = "mv" /\ c.stage \in {"read", "write", "close"} => c.to # -1
  /\ c.name = "cat" /\ c.stage = "write" => c.filled # 0

\* The standard descriptors are 0 and 1; 0 always reads the terminal.
Standard ==
  \A p \in Proc : \A d \in fds[p] :
    /\ d.number = 0 => d.file = Terminal
    /\ d.file = Terminal => d.number \in {0, 1}

\* Whoever is inside a command has the CPU and a timer that is not armed.
HasCpu == ~cut => \A p \in Proc : Inside(p) => ~timer /\ running = p

\* What the host runs decides who may have a command at all.
HostRuns ==
  /\ host \in {"PennOS", "catFlatFat", "none"}
  /\ running \in Proc /\ timer \in BOOLEAN /\ cut \in BOOLEAN
  /\ closed \subseteq 0 .. MaxNumber
  /\ host = "none" => cmd[Shell] = Idle
  /\ host = "catFlatFat" => cmd[Shell].name \in Tools
  /\ host = "PennOS" => cmd[Shell].name \in {"shell", "cp", "mv"}
  /\ host # "PennOS" => ~timer /\ running = Shell /\ \A p \in Jobs : cmd[p] = Idle

\* When block 0 holds the directory as it is.
AtRest ==
  \/ host = "none"
  \/ ~cut /\ Memory \notin closed /\ cmd[Shell].stage = "reading"
  \/ /\ host = "catFlatFat"
     /\ cmd[Shell].name = "-r" \/ cmd[Shell].stage \in {"start", "close"}
\* A read of catFlatFat -r stays below the size of the file, so changes none.
Within ==
  \/ host = "PennOS"
  \/ host = "none" /\ fds[Shell] = NewTable
  \/ /\ host = "catFlatFat"
     /\ cmd[Shell].name = "-r" =>
          \A d \in FileDescriptors(Shell) : d.pos <= Entry(d.file).size
Rested == (AtRest => stored = files) /\ Within

\* The descriptors of a process are the standard two and those its command has
\* opened and not yet closed; the lowest numbers stay in use, or f_close would
\* take the command's for a standard one.
Held(c) ==
  IF c.name \in Tools
    THEN IF c.stage \in Outside THEN {} ELSE Nat
    ELSE CASE c.stage = "create" -> {c.fd}
           [] c.stage \in {"read", "write", "close"} -> {c.fd, c.to}
           [] c.stage = "close too" -> {c.to}
           [] OTHER -> {}
Uses(c) == c.stage \in {"create", "read", "write", "close", "close too"}
TableFits(p, c) ==
  /\ Numbers(p) \subseteq {0, 1} \cup Held(c)
  /\ c.stage \notin {"exit", "exited"} => 0 \in Numbers(p)
  /\ Uses(c) /\ (c.fd > 1 \/ c.to > 1) => 1 \in Numbers(p)
TablesFit == ~cut /\ closed = {} => \A p \in Proc : TableFits(p, cmd[p])

CommandInv ==
  /\ CallInv /\ Standard
  /\ cmd \in [Proc -> Command] /\ \A p \in Proc : Sane(p, cmd[p])
  /\ HasCpu /\ HostRuns /\ Rested /\ TablesFit

-------------------------------------------------------------------------------
(* What the calls do to the tables of descriptors.                           *)

\* A call of p gives the others no descriptor, and leaves them number 0.
KeepsTable(q) ==
  Numbers(q)' \subseteq Numbers(q) /\ (0 \in Numbers(q) => 0 \in Numbers(q)')
OthersKeep(p) == \A q \in Proc \ {p} : KeepsTable(q)
Keeps(p) == CallInv' /\ Standard' /\ OthersKeep(p)

LEMMA TableFacts ==
  ASSUME CallInv
  PROVE  /\ fds \in [Proc -> SUBSET DescriptorRecord]
         /\ \A p \in Proc : \A d \in fds[p] : d \in DescriptorRecord /\ d.number \in Nat
         /\ \A p \in Proc : Numbers(p) \subseteq 0 .. MaxNumber
<1>1. fds \in [Proc -> SUBSET DescriptorRecord]
  BY DEF CallInv
<1>2. \A d \in DescriptorRecord : d.number \in 0 .. MaxNumber
  BY DEF DescriptorRecord
<1>3. QED
  BY <1>1, <1>2, LengthsAssumption DEF Numbers

LEMMA NothingChanged ==
  ASSUME CallInv, Standard, UNCHANGED <<files, fat, data, fds, harm>>,
         stored' = files \/ stored' = stored, NEW p \in Proc
  PROVE  Keeps(p) /\ Numbers(p)' = Numbers(p)
<1>1. CallInv'
  BY KindKept DEF CallInv
<1>2. QED
  BY <1>1 DEF Keeps, Standard, OthersKeep, KeepsTable, Numbers

LEMMA MovedEffect ==
  ASSUME CallInv, Standard, NEW p \in Proc, NEW d \in fds[p], NEW pos,
         fds' = Moved(p, d, pos)
  PROVE  Standard' /\ OthersKeep(p) /\ Numbers(p)' = Numbers(p)
<1>1. fds \in [Proc -> SUBSET DescriptorRecord] /\ d \in DescriptorRecord
  BY TableFacts
<1>2. PICK e : /\ e.number = d.number /\ e.file = d.file
               /\ fds' = [fds EXCEPT ![p] = (@ \ {d}) \cup {e}]
  <2> DEFINE e == [d EXCEPT !.pos = pos]
  <2>1. e.number = d.number /\ e.file = d.file
    BY <1>1 DEF DescriptorRecord
  <2>2. fds' = [fds EXCEPT ![p] = (@ \ {d}) \cup {e}]
    BY DEF Moved
  <2> HIDE DEF e
  <2>3. QED
    BY <2>1, <2>2
<1>3. fds'[p] = (fds[p] \ {d}) \cup {e} /\ \A q \in Proc \ {p} : fds'[q] = fds[q]
  BY <1>1, <1>2
<1>4. Standard'
  BY <1>2, <1>3 DEF Standard
<1>5. OthersKeep(p)
  BY <1>3 DEF OthersKeep, KeepsTable, Numbers
<1>6. Numbers(p)' = Numbers(p)
  BY <1>2, <1>3 DEF Numbers
<1>7. QED
  BY <1>4, <1>5, <1>6

LEMMA WriteEffect ==
  ASSUME CallInv, Standard, NEW p \in Proc, NEW number, NEW n \in Nat \ {0},
         Writes(p, number, n)
  PROVE  Keeps(p) /\ Numbers(p)' = Numbers(p)
<1>1. CASE UNCHANGED image
  BY <1>1, NothingChanged DEF image
<1>2. CASE \E d \in Descriptor(p, number) : d.file # Terminal /\ FWrite(p, d, n)
  <2>1. PICK d \in FileDescriptors(p) : FWrite(p, d, n)
    BY <1>2 DEF Descriptor, FileDescriptors
  <2>2. CallInv'
    BY <2>1, FWriteKeeps
  <2>3. CASE fds' = fds
    BY <2>2, <2>3 DEF Keeps, Standard, OthersKeep, KeepsTable, Numbers
  <2>4. CASE \E pos : fds' = Moved(p, d, pos)
    BY <2>1, <2>2, <2>4, MovedEffect DEF Keeps, FileDescriptors
  <2>5. QED
    BY <2>1, <2>3, <2>4, FWriteCases DEF WritesAll
<1>3. QED
  BY <1>1, <1>2 DEF Writes

ReadsAny(p, number) ==
  \/ \E got : ReadsSome(p, number, got)
  \/ ReadsTerminal(number) \/ ReadsNothing(p, number) \/ ReadFails(p, number)

\* f_read finds the descriptor on a file: 0 is never asked for, and 1 is
\* read from the terminal.
LEMMA ReadsSomeFacts ==
  ASSUME Standard, NEW p \in Proc, NEW number \in (-1 .. MaxNumber) \ {0},
         NEW got, \E d \in Descriptor(p, number) : FRead(p, d, FAT_WIDTH, got)
  PROVE  /\ number # 1
         /\ \E d \in FileDescriptors(p) : d.number = number /\ FRead(p, d, FAT_WIDTH, got)
<1>1. PICK d \in fds[p] : d.number = number /\ FRead(p, d, FAT_WIDTH, got)
  BY DEF Descriptor
<1>2. number # 1
  BY <1>1 DEF FRead
<1>3. \A e \in Descriptor(p, number) : e \in fds[p] /\ e.file # Terminal
  BY <1>2 DEF Descriptor, Standard
<1>4. d \in FileDescriptors(p)
  BY <1>1, <1>3 DEF Descriptor, FileDescriptors
<1>5. QED
  BY <1>1, <1>2, <1>3, <1>4 DEF FileDescriptors

LEMMA ReadEffect ==
  ASSUME CallInv, Standard, NEW p \in Proc, NEW number \in (-1 .. MaxNumber) \ {0},
         ReadsAny(p, number)
  PROVE  Keeps(p) /\ Numbers(p)' = Numbers(p)
<1>1. CASE UNCHANGED image
  BY <1>1, NothingChanged DEF image
<1>2. CASE \E got : \E d \in Descriptor(p, number) : FRead(p, d, FAT_WIDTH, got)
  <2>1. PICK got : \E d \in Descriptor(p, number) : FRead(p, d, FAT_WIDTH, got)
    BY <1>2
  <2>2. PICK d \in FileDescriptors(p) : FRead(p, d, FAT_WIDTH, got)
    BY <2>1, ReadsSomeFacts
  <2>3. CallInv'
    BY <2>2, FReadKeeps, GeometryAssumption
  <2>4. d \in fds[p] /\ \E pos : fds' = Moved(p, d, pos)
    BY <2>2 DEF FRead, FileDescriptors
  <2>5. QED
    BY <2>3, <2>4, MovedEffect DEF Keeps
<1>3. QED
  BY <1>1, <1>2 DEF ReadsAny, ReadsSome, ReadsTerminal, ReadsNothing, ReadFails

\* f_open: the number is new, and every lower one is in use.
LEMMA OpenEffect ==
  ASSUME CallInv, Standard, NEW p \in Proc, NEW f \in Name, NEW mode,
         Open(p, f, mode)
  PROVE  /\ Keeps(p)
         /\ Opened(p, f, mode) \in (-1 .. MaxNumber) \ {0}
         /\ Opened(p, f, mode) = -1 => mode = "F_READ"
         /\ Numbers(p)' \subseteq Numbers(p) \cup {Opened(p, f, mode)}
         /\ Numbers(p) \subseteq Numbers(p)' /\ Numbers(p)' \subseteq Nat
         /\ Opened(p, f, mode) > 1 => 1 \in Numbers(p)
         /\ stored' = files' \/ (mode = "F_READ" /\ files' = files /\ stored' = stored)
<1>1. Numbers(p) \subseteq Nat
  <2>1. Numbers(p) \subseteq 0 .. MaxNumber
    BY TableFacts
  <2>2. QED
    BY <2>1, LengthsAssumption
<1>2. CASE NoFile(f, mode) /\ UNCHANGED image
  <2>1. Opened(p, f, mode) = -1 /\ mode = "F_READ"
    BY <1>2 DEF Opened, NoFile
  <2>2. Keeps(p) /\ Numbers(p)' = Numbers(p) /\ files' = files /\ stored' = stored
    BY <1>2, NothingChanged DEF image
  <2>3. QED
    BY <1>1, <2>1, <2>2, LengthsAssumption
<1>3. CASE OpenOld(p, f, mode) \/ OpenNew(p, f, mode)
  <2>1. CallInv'
    BY <1>3, OpenOldKeeps, OpenNewKeeps
  <2>2. ~NoFile(f, mode)
    BY <1>3 DEF OpenOld, OpenNew, NoFile
  <2>3. MayOpen(p, f, mode) /\ stored' = files'
    BY <1>3 DEF OpenOld, OpenNew, StoreDirectory
  <2>4. PICK pos : OpenDescriptor(p, f, mode, pos)
    BY <1>3 DEF OpenOld, OpenNew
  <2> DEFINE k == NextNumber(p)
  <2>5. k \in 1 .. MaxNumber /\ k \notin Numbers(p) /\ 1 .. k - 1 \subseteq Numbers(p)
    BY <2>3, NextNumberFacts DEF MayOpen
  <2>6. Opened(p, f, mode) = k
    BY <2>2 DEF Opened
  <2>7. PICK new : new.number = k /\ new.file = f /\ fds' = [fds EXCEPT ![p] = @ \cup {new}]
    BY <2>4 DEF OpenDescriptor
  <2> HIDE DEF k
  <2>8. fds'[p] = fds[p] \cup {new} /\ \A q \in Proc \ {p} : fds'[q] = fds[q]
    BY <2>7, TableFacts
  <2>9. Standard' /\ OthersKeep(p)
    BY <2>5, <2>7, <2>8, NameAssumption, LengthsAssumption
       DEF Standard, OthersKeep, KeepsTable, Numbers
  <2>10. Numbers(p)' = Numbers(p) \cup {k}
    BY <2>7, <2>8 DEF Numbers
  <2>11. k \in (-1 .. MaxNumber) \ {0} /\ k \in Nat /\ k # -1 /\ (k > 1 => 1 \in Numbers(p))
    BY <2>5, LengthsAssumption
  <2>12. QED
    BY <1>1, <2>1, <2>3, <2>6, <2>9, <2>10, <2>11 DEF Keeps
<1>4. QED
  BY <1>2, <1>3 DEF Open

\* The first and the second node of a table.
LEMMA NodeFacts ==
  ASSUME CallInv, NEW p \in Proc, NEW d \in fds[p]
  PROVE  /\ d.number = 0 => NodeIs(p, d, 0) /\ ~NodeIs(p, d, 1)
         /\ d.number = 1 /\ 0 \in Numbers(p) => NodeIs(p, d, 1)
         /\ d.number > 1 /\ {0, 1} \subseteq Numbers(p) =>
              ~NodeIs(p, d, 0) /\ ~NodeIs(p, d, 1)
<1> DEFINE S == {n \in Numbers(p) : n < d.number}
<1>1. \A k : NodeIs(p, d, k) <=> Cardinality(S) = k
  BY DEF NodeIs
<1>2. Numbers(p) \subseteq Nat /\ d.number \in Nat /\ IsFiniteSet(S)
  <2>1. Numbers(p) \subseteq 0 .. MaxNumber /\ d.number \in Nat
    BY TableFacts
  <2>2. IsFiniteSet(0 .. MaxNumber)
    BY FS_Interval, LengthsAssumption
  <2>3. S \subseteq 0 .. MaxNumber
    BY <2>1
  <2>4. IsFiniteSet(S)
    BY <2>2, <2>3, FS_Subset
  <2>5. QED
    BY <2>1, <2>4, LengthsAssumption
<1>3. ASSUME d.number = 0
      PROVE  Cardinality(S) = 0
  <2>1. S = {}
    BY <1>2, <1>3
  <2>2. QED
    BY <2>1, FS_EmptySet
<1>4. ASSUME d.number = 1, 0 \in Numbers(p)
      PROVE  Cardinality(S) = 1
  <2>1. S = {0}
    BY <1>2, <1>4
  <2>2. QED
    BY <2>1, FS_Singleton
<1>5. ASSUME d.number > 1, {0, 1} \subseteq Numbers(p)
      PROVE  Cardinality(S) > 1
  <2>1. {0, 1} \subseteq S
    BY <1>2, <1>5
  <2>2. Cardinality({0, 1}) = 2
    <3>1. Cardinality({0}) = 1 /\ IsFiniteSet({0})
      BY FS_Singleton
    <3>2. Cardinality({0} \cup {1}) = 2
      BY <3>1, FS_AddElement
    <3>3. {0, 1} = {0} \cup {1}
      OBVIOUS
    <3>4. QED
      BY <3>2, <3>3
  <2>3. Cardinality({0, 1}) <= Cardinality(S)
    BY <2>1, <1>2, FS_Subset
  <2>4. Cardinality(S) \in Nat
    BY <1>2, FS_CardinalityType
  <2>5. QED
    BY <2>2, <2>3, <2>4
<1> HIDE DEF S
<1>6. QED
  BY <1>1, <1>3, <1>4, <1>5

\* f_close finds the descriptor of a command if the two standard numbers are in
\* use, and never takes one of these.
LEMMA CloseEffect ==
  ASSUME CallInv, Standard, NEW p \in Proc, NEW n, FClose(p, n)
  PROVE  /\ Keeps(p) /\ files' = files
         /\ Numbers(p)' \subseteq Numbers(p)
         /\ 0 \in Numbers(p) => Numbers(p) \cap {0, 1} \subseteq Numbers(p)'
         /\ {0, 1} \subseteq Numbers(p) /\ n > 1 => n \notin Numbers(p)'
<1> DEFINE hit == {d \in fds[p] : d.number = n /\ ~NodeIs(p, d, 0) /\ ~NodeIs(p, d, 1)}
<1>1. fds' = [fds EXCEPT ![p] = @ \ hit] /\ files' = files
  BY DEF FClose
<1>2. \A d \in hit : d \in fds[p] /\ d.number = n /\ ~NodeIs(p, d, 0) /\ ~NodeIs(p, d, 1)
  OBVIOUS
<1>3. \A d \in fds[p] : d.number = n /\ ~NodeIs(p, d, 0) /\ ~NodeIs(p, d, 1) => d \in hit
  OBVIOUS
<1> HIDE DEF hit
<1>4. fds'[p] = fds[p] \ hit /\ \A q \in Proc \ {p} : fds'[q] = fds[q]
  BY <1>1, TableFacts
<1>5. CallInv' /\ Standard' /\ OthersKeep(p)
  BY <1>4, FCloseKeeps DEF Standard, OthersKeep, KeepsTable, Numbers
<1>6. Numbers(p)' \subseteq Numbers(p)
  BY <1>4 DEF Numbers
<1>7. ASSUME 0 \in Numbers(p), NEW k \in Numbers(p), k \in {0, 1}
      PROVE  k \in Numbers(p)'
  <2>1. PICK d \in fds[p] : d.number = k
    BY <1>7 DEF Numbers
  <2>2. d \notin hit
    BY <2>1, <1>2, <1>7, NodeFacts
  <2>3. QED
    BY <2>1, <2>2, <1>4 DEF Numbers
<1>8. ASSUME {0, 1} \subseteq Numbers(p), n > 1, n \in Numbers(p)'
      PROVE  FALSE
  <2>1. PICK d \in fds[p] : d.number = n /\ d \notin hit
    BY <1>4, <1>8 DEF Numbers
  <2>2. QED
    BY <2>1, <1>3, <1>8, NodeFacts
<1>9. QED
  BY <1>1, <1>5, <1>6, <1>7, <1>8 DEF Keeps

LEMMA UnlinkEffect ==
  ASSUME CallInv, Standard, NEW p \in Proc, NEW f \in Name, Unlinked(p, f),
         stored' = files' \/ stored' = stored
  PROVE  Keeps(p) /\ Numbers(p)' \subseteq Numbers(p)
<1>1. CallInv'
  BY UnlinkedKeeps
<1>2. CASE UNCHANGED fds
  BY <1>1, <1>2 DEF Keeps, Standard, OthersKeep, KeepsTable, Numbers
<1>3. CASE fds' = [Forget(f) EXCEPT ![p] = @ \ Dropped(p, f)]
  <2>1. \A q \in Proc : fds'[q] \subseteq {d \in fds[q] : d.file # f}
    BY <1>3 DEF Forget
  <2>2. \A q \in Proc \ {p} : fds'[q] = {d \in fds[q] : d.file # f}
    BY <1>3 DEF Forget
  <2>3. Standard'
    BY <2>1 DEF Standard
  <2>4. OthersKeep(p)
    BY <2>2, NameAssumption DEF OthersKeep, KeepsTable, Numbers, Standard
  <2>5. QED
    BY <1>1, <2>1, <2>3, <2>4 DEF Keeps, Numbers
<1>4. QED
  BY <1>2, <1>3 DEF Unlinked

\* f_dup of standard output to a new file.
LEMMA DupEffect ==
  ASSUME CallInv, Standard, NEW p \in Proc, NEW f \in Name, FDup(p, 1, f),
         Redirected(f) = {}
  PROVE  CallInv' /\ Standard' /\ \A q \in Proc : Numbers(q)' = Numbers(q)
<1> DEFINE old == {d \in fds[p] : NodeIs(p, d, 1) /\ d.file = Terminal}
           new == {[d EXCEPT !.file = f] : d \in old}
<1>1. fds' = [fds EXCEPT ![p] = (@ \ old) \cup new]
  <2>1. old = {d \in {d \in fds[p] : NodeIs(p, d, 1)} : d.file = Terminal}
    OBVIOUS
  <2>2. QED
    BY <2>1, Zenon DEF FDup
<1>2. \A d \in old : d \in fds[p] /\ d \in DescriptorRecord /\ d.number # 0
  BY TableFacts, NodeFacts
<1>3. \A e \in new : e.file = f /\ \E d \in old : e.number = d.number
  BY <1>2 DEF DescriptorRecord
<1>4. \A d \in old : \E e \in new : e.number = d.number
  <2>1. \A d \in DescriptorRecord : [d EXCEPT !.file = f].number = d.number
    BY DEF DescriptorRecord
  <2>2. \A d \in old : [d EXCEPT !.file = f] \in new
    OBVIOUS
  <2> HIDE DEF old, new
  <2>3. QED
    BY <1>2, <2>1, <2>2
<1> HIDE DEF old, new
<1>5. fds'[p] = (fds[p] \ old) \cup new /\ \A q \in Proc \ {p} : fds'[q] = fds[q]
  BY <1>1, TableFacts
<1>6. Standard'
  BY <1>2, <1>3, <1>5, NameAssumption DEF Standard
<1>7. Numbers(p)' = Numbers(p)
  BY <1>2, <1>3, <1>4, <1>5 DEF Numbers
<1>8. \A q \in Proc \ {p} : Numbers(q)' = Numbers(q)
  BY <1>5 DEF Numbers
<1>9. QED
  BY <1>6, <1>7, <1>8, FDupKeeps

\* A new process, and a restart.
LEMMA NewTableEffect ==
  ASSUME CallInv, Standard, NEW p \in Proc, fds' = [fds EXCEPT ![p] = NewTable],
         UNCHANGED <<files, fat, data, stored, harm>>
  PROVE  Keeps(p) /\ Numbers(p)' = {0, 1}
<1>1. fds'[p] = NewTable /\ \A q \in Proc \ {p} : fds'[q] = fds[q]
  BY TableFacts
<1>2. CallInv'
  BY NewTableFacts, KindKept DEF CallInv, Live
<1>3. Standard' /\ OthersKeep(p)
  <2>1. \A d \in NewTable : d.number \in {0, 1} /\ d.file = Terminal
    BY DEF NewTable
  <2>2. QED
    BY <1>1, <2>1 DEF Standard, OthersKeep, KeepsTable, Numbers
<1>4. Numbers(p)' = {0, 1}
  <2>1. /\ \A d \in NewTable : d.number \in {0, 1}
        /\ \E d \in NewTable : d.number = 0
        /\ \E d \in NewTable : d.number = 1
    BY DEF NewTable
  <2>2. QED
    BY <1>1, <2>1 DEF Numbers
<1>5. QED
  BY <1>2, <1>3, <1>4 DEF Keeps

LEMMA AllNewTables ==
  ASSUME fds' = [p \in Proc |-> NewTable]
  PROVE  Standard' /\ \A p \in Proc : Numbers(p)' = {0, 1}
<1>1. /\ \A d \in NewTable : d.number \in {0, 1} /\ d.file = Terminal
      /\ \E d \in NewTable : d.number = 0
      /\ \E d \in NewTable : d.number = 1
  BY DEF NewTable
<1>2. \A p \in Proc : fds'[p] = NewTable
  OBVIOUS
<1>3. QED
  BY <1>1, <1>2 DEF Standard, Numbers

-------------------------------------------------------------------------------
(* How a command gets ahead.                                                 *)

\* Of the commands, only that of p changes.
Others(p) ==
  cmd' \in [Proc -> Command] /\ \A q \in Proc \ {p} : cmd'[q] = cmd[q]
Advances(p, st) ==
  /\ Others(p)
  /\ cmd'[p].stage = st /\ cmd'[p].name = cmd[p].name
  /\ cmd'[p].src = cmd[p].src /\ cmd'[p].dst = cmd[p].dst

SameNames(c, r, st) ==
  c.stage = st /\ c.name = r.name /\ c.src = r.src /\ c.dst = r.dst

LEMMA StageField ==
  ASSUME NEW r \in Command, NEW st \in Stages
  PROVE  \E c \in Command : /\ c = [r EXCEPT !.stage = st] /\ SameNames(c, r, st)
                            /\ c.fd = r.fd /\ c.to = r.to
<1> DEFINE c == [r EXCEPT !.stage = st]
<1>1. c \in Command
  BY DEF Command
<1>2. SameNames(c, r, st) /\ c.fd = r.fd /\ c.to = r.to
  BY DEF Command, SameNames
<1>3. QED
  BY <1>1, <1>2, Zenon

FdSet(r, st, n) == [r EXCEPT !.stage = st, !.fd = n]
LEMMA FdField ==
  ASSUME NEW r \in Command, NEW st \in Stages, NEW n \in (-1 .. MaxNumber) \ {0}
  PROVE  \E c \in Command : /\ c = FdSet(r, st, n) /\ SameNames(c, r, st)
                            /\ c.fd = n /\ c.to = r.to
<1> DEFINE c == FdSet(r, st, n)
<1>1. c \in Command
  BY DEF Command, FdSet
<1>2. SameNames(c, r, st) /\ c.fd = n /\ c.to = r.to
  BY DEF Command, FdSet, SameNames
<1>3. QED
  BY <1>1, <1>2, Zenon

CopySet(r, st, n) == [r EXCEPT !.stage = st, !.to = n]
LEMMA ToField ==
  ASSUME NEW r \in Command, NEW st \in Stages, NEW n \in (-1 .. MaxNumber) \ {0}
  PROVE  \E c \in Command : /\ c = CopySet(r, st, n) /\ SameNames(c, r, st)
                            /\ c.fd = r.fd /\ c.to = n
<1> DEFINE c == CopySet(r, st, n)
<1>1. c \in Command
  BY DEF Command, CopySet
<1>2. SameNames(c, r, st) /\ c.fd = r.fd /\ c.to = n
  BY DEF Command, CopySet, SameNames
<1>3. QED
  BY <1>1, <1>2, Zenon

FilledSet(r, st, n) == [r EXCEPT !.stage = st, !.filled = n]
LEMMA FilledField ==
  ASSUME NEW r \in Command, NEW st \in Stages, NEW n \in 0 .. FAT_WIDTH + 1
  PROVE  \E c \in Command : /\ c = FilledSet(r, st, n) /\ SameNames(c, r, st)
                            /\ c.fd = r.fd /\ c.to = r.to /\ c.filled = n
<1> DEFINE c == FilledSet(r, st, n)
<1>1. c \in Command
  BY DEF Command, FilledSet
<1>2. SameNames(c, r, st) /\ c.fd = r.fd /\ c.to = r.to /\ c.filled = n
  BY DEF Command, FilledSet, SameNames
<1>3. QED
  BY <1>1, <1>2, Zenon

LEMMA SetFacts ==
  ASSUME cmd \in [Proc -> Command], NEW p \in Proc, NEW c \in Command,
         cmd' = [cmd EXCEPT ![p] = c]
  PROVE  Others(p) /\ cmd'[p] = c
BY DEF Others

LEMMA AtFacts ==
  ASSUME cmd \in [Proc -> Command], NEW p \in Proc, NEW st \in Stages, At(p, st)
  PROVE  Advances(p, st) /\ cmd'[p].fd = cmd[p].fd /\ cmd'[p].to = cmd[p].to
<1>1. cmd' = [cmd EXCEPT ![p] = [cmd[p] EXCEPT !.stage = st]]
  BY DEF At
<1>2. cmd[p] \in Command
  OBVIOUS
<1>3. PICK c \in Command : /\ c = [cmd[p] EXCEPT !.stage = st]
                            /\ SameNames(c, cmd[p], st)
                            /\ c.fd = cmd[p].fd /\ c.to = cmd[p].to
  BY <1>2, StageField, Zenon
<1>4. cmd' = [cmd EXCEPT ![p] = c]
  BY <1>1, <1>3
<1>5. Others(p) /\ cmd'[p] = c
  BY <1>4, SetFacts
<1>6. QED
  BY <1>3, <1>5 DEF Advances, SameNames

LEMMA WithFd ==
  ASSUME cmd \in [Proc -> Command], NEW p \in Proc, NEW st \in Stages,
         NEW n \in (-1 .. MaxNumber) \ {0}, With(p, st, "fd", n)
  PROVE  Advances(p, st) /\ cmd'[p].fd = n /\ cmd'[p].to = cmd[p].to
<1>1. cmd' = [cmd EXCEPT ![p] = [cmd[p] EXCEPT !.stage = st, !.fd = n]]
  BY DEF With
<1>2. cmd[p] \in Command
  OBVIOUS
<1>3. PICK c \in Command : /\ c = FdSet(cmd[p], st, n)
                            /\ SameNames(c, cmd[p], st)
                            /\ c.fd = n /\ c.to = cmd[p].to
  BY <1>2, FdField
<1>4. cmd' = [cmd EXCEPT ![p] = c]
  BY <1>1, <1>3 DEF FdSet
<1>5. Others(p) /\ cmd'[p] = c
  BY <1>4, SetFacts
<1>6. QED
  BY <1>3, <1>5 DEF Advances, SameNames

LEMMA WithTo ==
  ASSUME cmd \in [Proc -> Command], NEW p \in Proc, NEW st \in Stages,
         NEW n \in (-1 .. MaxNumber) \ {0}, With(p, st, "to", n)
  PROVE  Advances(p, st) /\ cmd'[p].fd = cmd[p].fd /\ cmd'[p].to = n
<1>1. cmd' = [cmd EXCEPT ![p] = [cmd[p] EXCEPT !.stage = st, !.to = n]]
  BY DEF With
<1>2. cmd[p] \in Command
  OBVIOUS
<1>3. PICK c \in Command : /\ c = CopySet(cmd[p], st, n)
                            /\ SameNames(c, cmd[p], st)
                            /\ c.fd = cmd[p].fd /\ c.to = n
  BY <1>2, ToField
<1>4. cmd' = [cmd EXCEPT ![p] = c]
  BY <1>1, <1>3 DEF CopySet
<1>5. Others(p) /\ cmd'[p] = c
  BY <1>4, SetFacts
<1>6. QED
  BY <1>3, <1>5 DEF Advances, SameNames

LEMMA WithFilled ==
  ASSUME cmd \in [Proc -> Command], NEW p \in Proc, NEW st \in Stages,
         NEW n \in 0 .. FAT_WIDTH + 1, With(p, st, "filled", n)
  PROVE  /\ Advances(p, st) /\ cmd'[p].fd = cmd[p].fd /\ cmd'[p].to = cmd[p].to
         /\ cmd'[p].filled = n
<1>1. cmd' = [cmd EXCEPT ![p] = [cmd[p] EXCEPT !.stage = st, !.filled = n]]
  BY DEF With
<1>2. cmd[p] \in Command
  OBVIOUS
<1>3. PICK c \in Command : /\ c = FilledSet(cmd[p], st, n)
                            /\ SameNames(c, cmd[p], st)
                            /\ c.fd = cmd[p].fd /\ c.to = cmd[p].to /\ c.filled = n
  BY <1>2, FilledField, Zenon
<1>4. cmd' = [cmd EXCEPT ![p] = c]
  BY <1>1, <1>3 DEF FilledSet
<1>5. Others(p) /\ cmd'[p] = c
  BY <1>4, SetFacts
<1>6. QED
  BY <1>3, <1>5 DEF Advances, SameNames

LEMMA IdleFacts ==
  /\ Idle \in Command /\ Polling \in Command
  /\ Idle.name = "none" /\ Idle.stage = "idle" /\ Idle.to = -1
  /\ Polling.name = "shell" /\ Polling.stage = "poll" /\ Polling.to = -1
<1>1. -1 \in (-1 .. MaxNumber) \ {0} /\ 0 \in 0 .. FAT_WIDTH + 1 /\ Shell \in Proc
  BY CommandsAssumption, LengthsAssumption, GeometryAssumption
<1>2. Idle \in Command
  BY <1>1 DEF Idle, Command, JobNames, ShellNames, Stages, Outside
<1>3. Polling \in Command
  BY <1>1 DEF Polling, Idle, Command, JobNames, ShellNames, Stages, Outside
<1>4. QED
  BY <1>2, <1>3 DEF Idle, Polling

LEMMA StartedFacts ==
  ASSUME NEW c \in {"cat", "touch", "rm"} \cup Tools, NEW f \in Name
  PROVE  \E r \in Command :
           /\ r = [Idle EXCEPT !.name = c, !.stage = "start", !.src = f]
           /\ r.name = c /\ r.stage = "start" /\ r.src = f /\ r.to = -1
<1> DEFINE r == [Idle EXCEPT !.name = c, !.stage = "start", !.src = f]
<1>1. Idle \in Command
  BY IdleFacts
<1>2. r \in Command
  BY <1>1 DEF Command, JobNames, ShellNames, Tools, Stages, Outside
<1>3. r.name = c /\ r.stage = "start" /\ r.src = f /\ r.to = -1
  BY DEF Idle
<1>4. QED
  BY <1>2, <1>3, Zenon

CopyBegun(c, f, g) == [Idle EXCEPT !.name = c, !.stage = "open", !.src = f, !.dst = g]
LEMMA CopyingFacts ==
  ASSUME NEW c \in {"cp", "mv"}, NEW f \in Name, NEW g \in Name
  PROVE  \E r \in Command :
           /\ r = CopyBegun(c, f, g)
           /\ r.name = c /\ r.stage = "open" /\ r.src = f /\ r.dst = g /\ r.to = -1
<1> DEFINE r == CopyBegun(c, f, g)
<1>1. Idle \in Command
  BY IdleFacts
<1>2. r \in Command
  BY <1>1 DEF CopyBegun, Command, JobNames, ShellNames, Tools, Stages, Outside
<1>3. r.name = c /\ r.stage = "open" /\ r.src = f /\ r.dst = g /\ r.to = -1
  BY DEF CopyBegun, Idle
<1>4. QED
  BY <1>2, <1>3, Zenon

LEMMA ExitedFacts ==
  ASSUME NEW c \in {"cat", "touch", "rm"}
  PROVE  \E r \in Command :
           /\ r = [Idle EXCEPT !.name = c, !.stage = "exited"]
           /\ r.name = c /\ r.stage = "exited" /\ r.to = -1
<1> DEFINE r == [Idle EXCEPT !.name = c, !.stage = "exited"]
<1>1. Idle \in Command
  BY IdleFacts
<1>2. r \in Command
  BY <1>1 DEF Command, JobNames, ShellNames, Tools, Stages, Outside
<1>3. r.name = c /\ r.stage = "exited" /\ r.to = -1
  BY DEF Idle
<1>4. QED
  BY <1>2, <1>3, Zenon

-------------------------------------------------------------------------------
(* Two kinds of steps: a call, after which the command goes on, and the end  *)
(* of a stretch without the timer.                                           *)

LEMMA HostFacts ==
  ASSUME HostRuns, NEW p \in Proc, cmd[p].name # "none"
  PROVE  /\ p \in Jobs \/ cmd[p].name \notin Tools => host = "PennOS"
         /\ p = Shell /\ cmd[p].name \in Tools => host = "catFlatFat" /\ ~timer
<1>1. host \in {"PennOS", "catFlatFat", "none"}
  BY DEF HostRuns
<1>2. host # "none"
  BY IdleFacts DEF HostRuns, Jobs
<1>3. ASSUME p \in Jobs, host # "PennOS"
      PROVE  FALSE
  BY <1>3, IdleFacts DEF HostRuns
<1>4. ASSUME p = Shell
      PROVE  (host = "PennOS" <=> cmd[p].name \notin Tools)
             /\ (host = "catFlatFat" => ~timer)
  BY <1>1, <1>2, <1>4 DEF HostRuns, Tools
<1>5. QED
  BY <1>1, <1>2, <1>3, <1>4 DEF Jobs

LEMMA OutsideFits ==
  ASSUME NEW q \in Proc, ~Inside(q), TableFits(q, cmd[q]), cmd'[q] = cmd[q],
         KeepsTable(q)
  PROVE  TableFits(q, cmd[q])'
<1>1. Numbers(q)' \subseteq Numbers(q)
  BY DEF KeepsTable
<1>2. 0 \in Numbers(q) => 0 \in Numbers(q)'
  BY DEF KeepsTable
<1>3. ~Uses(cmd[q])
  BY DEF Inside, Outside, Uses
<1>4. Held(cmd[q])' = Held(cmd[q]) /\ Uses(cmd[q])' = Uses(cmd[q])
  BY DEF Held, Uses
<1>5. QED
  BY <1>1, <1>2, <1>3, <1>4 DEF TableFits

LEMMA CallStep ==
  ASSUME CommandInv, NEW p \in Proc, running = p, cmd[p].name # "none",
         Others(p), Keeps(p), UNCHANGED <<cpu, cut>>, timer' = FALSE,
         \/ cmd'[p].name = cmd[p].name
         \/ p = Shell /\ cmd[p].name \notin Tools /\ cmd'[p].name \in {"shell", "cp", "mv"},
         Sane(p, cmd'[p]), Rested',
         ~cut /\ closed = {} => TableFits(p, cmd[p])'
  PROVE  CommandInv'
<1>1. /\ \A q \in Proc : Sane(q, cmd[q])
      /\ Standard /\ HasCpu /\ HostRuns /\ TablesFit
  BY DEF CommandInv
<1>2. host' = host /\ running' = running /\ closed' = closed /\ cut' = cut
  BY DEF cpu
<1>3. cmd' \in [Proc -> Command] /\ \A q \in Proc \ {p} : cmd'[q] = cmd[q]
  BY DEF Others
<1>4. \A q \in Proc : Sane(q, cmd[q])'
  BY <1>1, <1>3 DEF Sane
<1>5. HasCpu'
  BY <1>1, <1>2, <1>3 DEF HasCpu, Inside
<1>6. HostRuns'
  <2>1. p \in Jobs \/ cmd[p].name \notin Tools => host = "PennOS"
    BY <1>1, HostFacts
  <2>2. cmd[p].name \notin Tools => host = "PennOS"
    BY <2>1
  <2>3. CASE p \in Jobs
    <3>1. cmd'[Shell] = cmd[Shell] /\ host = "PennOS"
      BY <1>3, <2>1, <2>3, CommandsAssumption DEF Jobs
    <3>2. QED
      BY <3>1, <1>1, <1>2 DEF HostRuns
  <2>4. CASE p = Shell
    <3>1. \A q \in Jobs : cmd'[q] = cmd[q]
      BY <1>3, <2>4 DEF Jobs
    <3>2. host # "none"
      BY <1>1, <2>4, IdleFacts DEF HostRuns
    <3>3. host = "catFlatFat" => cmd'[Shell].name \in Tools
      BY <1>1, <2>4, <2>2 DEF HostRuns
    <3>4. host = "PennOS" => cmd'[Shell].name \in {"shell", "cp", "mv"}
      BY <1>1, <2>4 DEF HostRuns
    <3>5. QED
      BY <3>1, <3>2, <3>3, <3>4, <1>1, <1>2 DEF HostRuns
  <2>5. QED
    BY <2>3, <2>4 DEF Jobs
<1>7. TablesFit'
  <2>1. SUFFICES ASSUME ~cut, closed = {}, NEW q \in Proc, q # p
                 PROVE  TableFits(q, cmd[q])'
    BY <1>2 DEF TablesFit
  <2>2. ~Inside(q) /\ TableFits(q, cmd[q])
    BY <2>1, <1>1 DEF HasCpu, TablesFit
  <2>3. cmd'[q] = cmd[q] /\ KeepsTable(q)
    BY <2>1, <1>3 DEF Keeps, OthersKeep
  <2>4. QED
    BY <2>2, <2>3, <1>1, OutsideFits
<1>8. QED
  BY <1>3, <1>4, <1>5, <1>6, <1>7 DEF CommandInv, Keeps

\* What may happen to another process: nothing, or it is a job that is spawned
\* or reaped, outside a command before and after.
Renewed(q) ==
  /\ q \in Jobs /\ ~Inside(q)' /\ Sane(q, cmd[q])'
  /\ ~cut /\ closed' = {} => TableFits(q, cmd[q])'

LEMMA ArmStep ==
  ASSUME CommandInv, NEW p \in Proc, running = p, cmd[p].name \notin Tools \cup {"none"},
         cmd' \in [Proc -> Command],
         \A q \in Proc \ {p} : (cmd'[q] = cmd[q] /\ KeepsTable(q)) \/ Renewed(q),
         CallInv', Standard',
         ~Inside(p)', Sane(p, cmd[p])', p = Shell => cmd'[p].name = "shell",
         timer' = TRUE, running' \in Proc, host' = host, cut' = cut,
         closed' \subseteq 0 .. MaxNumber, closed' = {} => closed = {},
         ~cut /\ closed' = {} => TableFits(p, cmd[p])'
  PROVE  CommandInv'
<1>1. /\ \A q \in Proc : Sane(q, cmd[q])
      /\ Standard /\ HasCpu /\ HostRuns /\ TablesFit
  BY DEF CommandInv
<1>2. host = "PennOS"
  BY <1>1, HostFacts
<1>3. \A q \in Proc : Sane(q, cmd[q])'
  BY <1>1 DEF Sane, Renewed
<1>4. ~cut => \A q \in Proc : ~Inside(q)'
  BY <1>1 DEF HasCpu, Inside, Renewed
<1>5. HasCpu'
  BY <1>4 DEF HasCpu
<1>6. HostRuns'
  <2>1. cmd'[Shell].name \in {"shell", "cp", "mv"}
    BY <1>1, <1>2, CommandsAssumption DEF HostRuns, Renewed, Jobs
  <2>2. QED
    BY <2>1, <1>1, <1>2 DEF HostRuns
<1>7. Rested'
  BY <1>2, <1>4, CommandsAssumption DEF Rested, AtRest, Within, Inside, Outside
<1>8. TablesFit'
  <2>1. SUFFICES ASSUME ~cut, closed' = {}, NEW q \in Proc, q # p,
                        cmd'[q] = cmd[q], KeepsTable(q)
                 PROVE  TableFits(q, cmd[q])'
    BY DEF TablesFit, Renewed
  <2>2. ~Inside(q) /\ TableFits(q, cmd[q])
    BY <2>1, <1>1 DEF HasCpu, TablesFit
  <2>3. QED
    BY <2>1, <2>2, <1>1, OutsideFits
<1>9. QED
  BY <1>3, <1>5, <1>6, <1>7, <1>8 DEF CommandInv

\* After the call of a job, or of cp or mv, the shell is not reading a line.
LEMMA NotAtRest ==
  ASSUME HasCpu, NEW p \in Proc, running = p, host = "PennOS", UNCHANGED <<cpu, cut>>,
         \/ p \in Jobs /\ cmd'[Shell] = cmd[Shell]
         \/ cmd'[Shell].stage # "reading"
  PROVE  Rested'
BY CommandsAssumption DEF Rested, AtRest, Within, HasCpu, Inside, Outside, cpu, Jobs

LEMMA HeldFacts ==
  ASSUME NEW c
  PROVE  /\ c.stage \in Outside => Held(c) = {} /\ ~Uses(c)
         /\ c.name \in Tools /\ c.stage \notin Outside => Held(c) = Nat
         /\ c.name \notin Tools =>
              /\ c.stage = "create" => Held(c) = {c.fd}
              /\ c.stage \in {"read", "write", "close"} => Held(c) = {c.fd, c.to}
              /\ c.stage = "close too" => Held(c) = {c.to}
              /\ c.stage \in {"open", "reading", "launched", "exit"} => Held(c) = {} /\ ~Uses(c)
<1>1. CASE c.stage \in Outside
  <2>1. c.stage \notin {"create", "read", "write", "close", "close too", "open", "reading",
                       "launched", "exit"}
    BY <1>1 DEF Outside
  <2>2. Held(c) = {} /\ ~Uses(c)
    BY <1>1, <2>1 DEF Held, Uses
  <2>3. QED
    BY <1>1, <2>1, <2>2
<1>2. CASE c.name \in Tools /\ c.stage \notin Outside
  BY <1>2 DEF Held
<1>3. CASE c.name \notin Tools /\ c.stage = "create"
  BY <1>3 DEF Held, Outside
<1>4. CASE c.name \notin Tools /\ c.stage \in {"read", "write", "close"}
  BY <1>4 DEF Held, Outside
<1>5. CASE c.name \notin Tools /\ c.stage = "close too"
  BY <1>5 DEF Held, Outside
<1>6. CASE c.name \notin Tools /\ c.stage \in {"open", "reading", "launched", "exit"}
  BY <1>6 DEF Held, Uses, Outside
<1>7. QED
  BY <1>1, <1>2, <1>3, <1>4, <1>5, <1>6

-------------------------------------------------------------------------------
(* The calls of a job.                                                       *)

JobCommands == {"cat", "touch", "rm"}

LEMMA FileTurns ==
  ASSUME NEW p, NEW names, NEW st, FileTurn(p, names, st)
  PROVE  Turn(p, names, st)
BY DEF FileTurn

LEMMA JobTurn ==
  ASSUME CommandInv, NEW p \in Jobs, NEW names, names \subseteq JobCommands, NEW st,
         Turn(p, names, st)
  PROVE  /\ p \in Proc /\ p # Shell /\ running = p /\ cmd[p].stage = st
         /\ cmd[p].name \in names /\ cmd[p].name \in JobCommands
         /\ cmd[p].name # "none" /\ cmd[p].name \notin Tools
         /\ host = "PennOS" /\ cmd[p].to = -1 /\ (st # "exited" => cmd[p].src \in Name)
         /\ cmd \in [Proc -> Command] /\ cmd[p].fd \in (-1 .. MaxNumber) \ {0}
         /\ CallInv /\ Standard /\ Sane(p, cmd[p])
         /\ ~cut /\ closed = {} => TableFits(p, cmd[p])
<1>1. /\ p \in Proc /\ p # Shell /\ running = p /\ cmd[p].stage = st
      /\ cmd[p].name \in names
  BY DEF Turn, Jobs
<1>2. cmd[p].name \in JobCommands /\ cmd[p].name # "none" /\ cmd[p].name \notin Tools
  BY <1>1 DEF JobCommands, Tools
<1>3. /\ CallInv /\ Standard /\ Sane(p, cmd[p]) /\ HostRuns /\ TablesFit
      /\ cmd \in [Proc -> Command]
  BY <1>1 DEF CommandInv
<1>4. cmd[p].fd \in (-1 .. MaxNumber) \ {0}
  <2>1. cmd[p] \in Command
    BY <1>1, <1>3
  <2>2. QED
    BY <2>1 DEF Command
<1>5. host = "PennOS"
  BY <1>1, <1>2, <1>3, HostFacts
<1>6. cmd[p].to = -1 /\ (st # "exited" => cmd[p].src \in Name)
  BY <1>1, <1>2, <1>3 DEF Sane, JobCommands, FileNames
<1>7. QED
  BY <1>1, <1>2, <1>3, <1>4, <1>5, <1>6 DEF TablesFit

LEMMA JobStep ==
  ASSUME CommandInv, NEW p \in Jobs, NEW st, Turn(p, JobCommands, st),
         NEW st2 \in {"read", "write", "close", "exit"}, st # "exited",
         Advances(p, st2), cmd'[p].to = -1, Keeps(p), Pause,
         st2 = "write" => cmd'[p].filled # 0,
         ~cut /\ closed = {} => TableFits(p, cmd[p])'
  PROVE  CommandInv'
<1>1. /\ p \in Proc /\ p # Shell /\ running = p
      /\ cmd[p].name \in JobCommands /\ cmd[p].name # "none"
      /\ host = "PennOS" /\ cmd[p].src \in Name /\ Sane(p, cmd[p])
  BY JobTurn
<1>2. Others(p) /\ timer' = FALSE /\ UNCHANGED <<cpu, cut>>
  BY DEF Advances, Pause
<1>3. cmd'[p].stage = st2 /\ cmd'[p].name = cmd[p].name /\ cmd'[p].src = cmd[p].src
  BY DEF Advances
<1>4. Sane(p, cmd'[p])
  BY <1>1, <1>3 DEF Sane, JobCommands
<1>5. Rested'
  <2>1. cmd'[Shell] = cmd[Shell]
    BY <1>1, <1>2, CommandsAssumption DEF Others
  <2>2. HasCpu
    BY DEF CommandInv
  <2>3. QED
    BY <1>1, <1>2, <2>1, <2>2, NotAtRest
<1>6. QED
  BY <1>1, <1>2, <1>3, <1>4, <1>5, CallStep

\* f_open by a command that has nothing open.
LEMMA OpenFits ==
  ASSUME NEW p \in Proc, NEW st2 \in {"read", "close"}, NEW n \in (-1 .. MaxNumber) \ {0},
         TableFits(p, cmd[p]), cmd[p].stage = "start",
         cmd'[p].stage = st2, cmd'[p].name \notin Tools, cmd'[p].fd = n, cmd'[p].to = -1,
         Numbers(p)' \subseteq Numbers(p) \cup {n}, Numbers(p) \subseteq Numbers(p)',
         n > 1 => 1 \in Numbers(p)
  PROVE  TableFits(p, cmd[p])'
<1>1. Numbers(p) \subseteq {0, 1} /\ 0 \in Numbers(p)
  BY HeldFacts DEF TableFits, Outside
<1>2. Held(cmd'[p]) = {n, -1}
  BY HeldFacts
<1>3. Numbers(p)' \subseteq {0, 1} \cup Held(cmd'[p])
  BY <1>1, <1>2
<1>4. QED
  BY <1>1, <1>3 DEF TableFits

\* A call that leaves the numbers, and the command's descriptors, as they are.
LEMMA SameFits ==
  ASSUME NEW p \in Proc, TableFits(p, cmd[p]),
         cmd[p].name \notin Tools, cmd'[p].name = cmd[p].name,
         cmd[p].stage \in {"read", "write"}, cmd'[p].stage \in {"read", "write", "close"},
         cmd'[p].fd = cmd[p].fd, cmd'[p].to = cmd[p].to,
         Numbers(p)' = Numbers(p)
  PROVE  TableFits(p, cmd[p])'
<1>1. Held(cmd'[p]) = Held(cmd[p])
  BY HeldFacts
<1>2. Uses(cmd[p])
  BY DEF Uses
<1>3. QED
  BY <1>1, <1>2 DEF TableFits

LEMMA TouchKeeps ==
  ASSUME CommandInv, NEW p \in Jobs, Touch(p)
  PROVE  CommandInv'
<1> DEFINE f == cmd[p].src
           n == Opened(p, f, "F_WRITE")
<1>1. Turn(p, {"touch"}, "start") /\ Open(p, f, "F_WRITE") /\ With(p, "close", "fd", n) /\ Pause
  BY FileTurns DEF Touch
<1>2. Turn(p, JobCommands, "start")
  BY <1>1 DEF Turn, JobCommands
<1>3. /\ p \in Proc /\ cmd[p].stage = "start" /\ cmd[p].name \notin Tools /\ f \in Name
      /\ cmd[p].to = -1 /\ cmd \in [Proc -> Command] /\ CallInv /\ Standard
      /\ ~cut /\ closed = {} => TableFits(p, cmd[p])
  BY <1>2, JobTurn
<1>4. /\ Keeps(p) /\ n \in (-1 .. MaxNumber) \ {0} /\ (n > 1 => 1 \in Numbers(p))
      /\ Numbers(p)' \subseteq Numbers(p) \cup {n} /\ Numbers(p) \subseteq Numbers(p)'
  BY <1>1, <1>3, OpenEffect
<1> HIDE DEF n, f
<1>5. Advances(p, "close") /\ cmd'[p].fd = n /\ cmd'[p].to = -1
  BY <1>1, <1>3, <1>4, WithFd DEF Stages
<1>6. ~cut /\ closed = {} => TableFits(p, cmd[p])'
  BY <1>3, <1>4, <1>5, OpenFits DEF Advances
<1>7. QED
  BY <1>1, <1>2, <1>4, <1>5, <1>6, JobStep

LEMMA RmKeeps ==
  ASSUME CommandInv, NEW p \in Jobs, Rm(p)
  PROVE  CommandInv'
<1> DEFINE f == cmd[p].src
<1>1. Turn(p, {"rm"}, "start") /\ FUnlink(p, f) /\ At(p, "exit") /\ Pause
  BY FileTurns DEF Rm
<1>2. Turn(p, JobCommands, "start")
  BY <1>1 DEF Turn, JobCommands
<1>3. /\ p \in Proc /\ cmd[p].stage = "start" /\ cmd[p].name \notin Tools /\ f \in Name
      /\ cmd[p].to = -1 /\ cmd \in [Proc -> Command] /\ CallInv /\ Standard
      /\ ~cut /\ closed = {} => TableFits(p, cmd[p])
  BY <1>2, JobTurn
<1>4. Unlinked(p, f) /\ (stored' = files' \/ stored' = stored)
  BY <1>1 DEF FUnlink, StoreDirectory
<1>5. Keeps(p) /\ Numbers(p)' \subseteq Numbers(p)
  BY <1>3, <1>4, UnlinkEffect
<1> HIDE DEF f
<1>6. Advances(p, "exit") /\ cmd'[p].to = -1
  BY <1>1, <1>3, AtFacts DEF Stages
<1>7. ~cut /\ closed = {} => TableFits(p, cmd[p])'
  <2>1. cmd'[p].stage = "exit" /\ cmd'[p].name \notin Tools
    BY <1>3, <1>6 DEF Advances
  <2>2. Held(cmd[p]) = {} /\ Held(cmd'[p]) = {} /\ ~Uses(cmd'[p])
    BY <2>1, <1>3, HeldFacts DEF Outside
  <2>3. QED
    BY <2>1, <2>2, <1>3, <1>5 DEF TableFits
<1>8. QED
  BY <1>1, <1>2, <1>5, <1>6, <1>7, JobStep

\* strlen of the buffer stays within it, or goes one byte behind it.
LEMMA FilledType ==
  ASSUME NEW p \in Proc, cmd \in [Proc -> Command], NEW n \in Nat, NEW m \in Filled(p, n)
  PROVE  m \in 0 .. FAT_WIDTH + 1 /\ (n # 0 => m # 0)
<1>1. cmd[p] \in Command
  OBVIOUS
<1>2. cmd[p].filled \in 0 .. FAT_WIDTH + 1
  BY <1>1 DEF Command
<1>3. QED
  BY <1>2, GeometryAssumption DEF Filled

LEMMA CatReadsFacts ==
  ASSUME CommandInv, NEW p \in Jobs, CatReads(p)
  PROVE  /\ (Advances(p, "write") /\ cmd'[p].filled # 0) \/ Advances(p, "close")
         /\ cmd'[p].fd = cmd[p].fd /\ cmd'[p].to = cmd[p].to
         /\ Keeps(p) /\ Numbers(p)' = Numbers(p)
<1> DEFINE k == cmd[p].fd
<1>1. Turn(p, {"cat"}, "read") /\ Turn(p, JobCommands, "read")
  BY DEF CatReads, FileTurn, Turn, JobCommands
<1>2. /\ p \in Proc /\ cmd \in [Proc -> Command] /\ CallInv /\ Standard
      /\ k \in (-1 .. MaxNumber) \ {0}
  BY <1>1, JobTurn
<1>3. \/ \E got \in 1 .. FAT_WIDTH :
           /\ ReadsSome(p, k, got)
           /\ \E m \in Filled(p, got) : With(p, "write", "filled", m)
      \/ /\ ReadsTerminal(k)
         /\ \E m \in Filled(p, FAT_WIDTH) : With(p, "write", "filled", m)
      \/ ReadsNothing(p, k) /\ At(p, "close")
      \/ ReadFails(p, k) /\ At(p, "close")
  BY Zenon DEF CatReads
<1> HIDE DEF k
<1>4. Keeps(p) /\ Numbers(p)' = Numbers(p)
  <2>1. ReadsAny(p, k)
    BY <1>3 DEF ReadsAny
  <2>2. QED
    BY <1>2, <2>1, ReadEffect
<1>5. \/ \E got \in Nat \ {0} : \E m \in Filled(p, got) : With(p, "write", "filled", m)
      \/ At(p, "close")
  <2>1. FAT_WIDTH \in Nat \ {0} /\ 1 .. FAT_WIDTH \subseteq Nat \ {0}
    BY GeometryAssumption
  <2>2. QED
    BY <1>3, <2>1
<1>6. ASSUME NEW got \in Nat \ {0}, NEW m \in Filled(p, got), With(p, "write", "filled", m)
      PROVE  /\ Advances(p, "write") /\ cmd'[p].filled # 0
             /\ cmd'[p].fd = cmd[p].fd /\ cmd'[p].to = cmd[p].to
  <2>1. m \in 0 .. FAT_WIDTH + 1 /\ m # 0
    BY <1>2, FilledType
  <2>2. QED
    BY <1>2, <1>6, <2>1, WithFilled DEF Stages
<1>7. ASSUME At(p, "close")
      PROVE  Advances(p, "close") /\ cmd'[p].fd = cmd[p].fd /\ cmd'[p].to = cmd[p].to
  BY <1>2, <1>7, AtFacts DEF Stages
<1>8. QED
  BY <1>4, <1>5, <1>6, <1>7

\* f_write to standard output, whatever it is now.
LEMMA OutputEffect ==
  ASSUME CallInv, Standard, NEW p \in Proc, NEW n \in Nat \ {0},
         Writes(p, 1, n) \/ ToTerminal(p)
  PROVE  Keeps(p) /\ Numbers(p)' = Numbers(p)
<1>1. CASE Writes(p, 1, n)
  BY <1>1, WriteEffect
<1>2. CASE ToTerminal(p)
  <2>1. /\ UNCHANGED <<files, fat, data, fds, harm>>
        /\ stored' = files \/ stored' = stored
    BY <1>2 DEF ToTerminal, StoresOnly
  <2>2. QED
    BY <2>1, NothingChanged
<1>3. QED
  BY <1>1, <1>2

LEMMA CatKeeps ==
  ASSUME CommandInv, NEW p \in Jobs, Cat(p)
  PROVE  CommandInv'
<1>1. CASE /\ Turn(p, {"cat"}, "start")
           /\ Open(p, cmd[p].src, "F_READ")
           /\ With(p, "read", "fd", Opened(p, cmd[p].src, "F_READ"))
           /\ Pause
  <2> DEFINE f == cmd[p].src
             n == Opened(p, f, "F_READ")
  <2>1. Open(p, f, "F_READ") /\ With(p, "read", "fd", n) /\ Pause
    BY <1>1
  <2>2. Turn(p, JobCommands, "start")
    BY <1>1 DEF Turn, JobCommands
  <2>3. /\ p \in Proc /\ cmd[p].stage = "start" /\ cmd[p].name \notin Tools /\ f \in Name
        /\ cmd[p].to = -1 /\ cmd \in [Proc -> Command] /\ CallInv /\ Standard
        /\ ~cut /\ closed = {} => TableFits(p, cmd[p])
    BY <2>2, JobTurn
  <2>4. /\ Keeps(p) /\ n \in (-1 .. MaxNumber) \ {0} /\ (n > 1 => 1 \in Numbers(p))
        /\ Numbers(p)' \subseteq Numbers(p) \cup {n} /\ Numbers(p) \subseteq Numbers(p)'
    BY <2>1, <2>3, OpenEffect
  <2> HIDE DEF n, f
  <2>5. Advances(p, "read") /\ cmd'[p].fd = n /\ cmd'[p].to = -1
    BY <2>1, <2>3, <2>4, WithFd DEF Stages
  <2>6. ~cut /\ closed = {} => TableFits(p, cmd[p])'
    BY <2>3, <2>4, <2>5, OpenFits DEF Advances
  <2>7. QED
    BY <2>1, <2>2, <2>4, <2>5, <2>6, JobStep
<1>2. CASE CatReads(p)
  <2>1. Turn(p, JobCommands, "read") /\ Pause
    BY <1>2 DEF CatReads, FileTurn, Turn, JobCommands
  <2>2. /\ p \in Proc /\ cmd[p].stage = "read" /\ cmd[p].name \notin Tools
        /\ cmd[p].to = -1 /\ (~cut /\ closed = {} => TableFits(p, cmd[p]))
    BY <2>1, JobTurn
  <2>3. PICK st \in {"write", "close"} :
          Advances(p, st) /\ (st = "write" => cmd'[p].filled # 0)
    BY <1>2, CatReadsFacts
  <2>4. /\ cmd'[p].fd = cmd[p].fd /\ cmd'[p].to = cmd[p].to
        /\ Keeps(p) /\ Numbers(p)' = Numbers(p)
    BY <1>2, CatReadsFacts
  <2>5. ~cut /\ closed = {} => TableFits(p, cmd[p])'
    BY <2>2, <2>3, <2>4, SameFits DEF Advances
  <2>6. QED
    BY <2>1, <2>2, <2>3, <2>4, <2>5, JobStep
<1>3. CASE /\ Turn(p, {"cat"}, "write")
           /\ Writes(p, 1, cmd[p].filled) \/ ToTerminal(p)
           /\ At(p, "read")
           /\ Pause
  <2>1. Turn(p, JobCommands, "write")
    BY <1>3 DEF Turn, JobCommands
  <2>2. /\ p \in Proc /\ cmd[p].stage = "write" /\ cmd[p].name \notin Tools
        /\ cmd[p].to = -1 /\ cmd \in [Proc -> Command] /\ CallInv /\ Standard
        /\ Sane(p, cmd[p]) /\ (~cut /\ closed = {} => TableFits(p, cmd[p]))
    BY <2>1, JobTurn
  <2>3. cmd[p].filled \in Nat \ {0}
    <3>1. cmd[p] \in Command /\ cmd[p].name = "cat"
      BY <1>3, <2>2 DEF Turn
    <3>2. cmd[p].filled # 0
      BY <3>1, <2>2 DEF Sane
    <3>3. QED
      BY <3>1, <3>2, GeometryAssumption DEF Command
  <2>4. Keeps(p) /\ Numbers(p)' = Numbers(p)
    BY <1>3, <2>2, <2>3, OutputEffect
  <2>5. Advances(p, "read") /\ cmd'[p].fd = cmd[p].fd /\ cmd'[p].to = -1
    BY <1>3, <2>2, AtFacts DEF Stages
  <2>6. ~cut /\ closed = {} => TableFits(p, cmd[p])'
    BY <2>2, <2>4, <2>5, SameFits DEF Advances
  <2>7. QED
    BY <1>3, <2>1, <2>4, <2>5, <2>6, JobStep
<1>4. QED
  BY <1>1, <1>2, <1>3, FileTurns DEF Cat

\* f_close of a command's last descriptor.
LEMMA LastClosed ==
  ASSUME NEW p \in Proc, NEW n, TableFits(p, cmd[p]), Uses(cmd[p]),
         n = cmd[p].fd \/ n = cmd[p].to, n \in Int,
         Numbers(p) \subseteq {0, 1, n, -1}, 0 \in Numbers(p), Numbers(p) \subseteq Nat,
         Numbers(p)' \subseteq Numbers(p),
         Numbers(p) \cap {0, 1} \subseteq Numbers(p)',
         {0, 1} \subseteq Numbers(p) /\ n > 1 => n \notin Numbers(p)'
  PROVE  Numbers(p)' \subseteq {0, 1} /\ 0 \in Numbers(p)'
<1>1. n > 1 => {0, 1} \subseteq Numbers(p)
  BY DEF TableFits
<1>2. QED
  BY <1>1

LEMMA CloseKeeps ==
  ASSUME CommandInv, NEW p \in Jobs, Close(p)
  PROVE  CommandInv'
<1> DEFINE n == cmd[p].fd
<1>1. Turn(p, {"cat", "touch"}, "close") /\ FClose(p, n) /\ At(p, "exit") /\ Pause
  BY FileTurns DEF Close
<1>2. Turn(p, JobCommands, "close")
  BY <1>1 DEF Turn, JobCommands
<1>3. /\ p \in Proc /\ cmd[p].stage = "close" /\ cmd[p].name \notin Tools
      /\ cmd[p].to = -1 /\ cmd \in [Proc -> Command] /\ CallInv /\ Standard
      /\ n \in (-1 .. MaxNumber) \ {0}
      /\ ~cut /\ closed = {} => TableFits(p, cmd[p])
  BY <1>2, JobTurn
<1>4. /\ Keeps(p) /\ Numbers(p)' \subseteq Numbers(p)
      /\ 0 \in Numbers(p) => Numbers(p) \cap {0, 1} \subseteq Numbers(p)'
      /\ {0, 1} \subseteq Numbers(p) /\ n > 1 => n \notin Numbers(p)'
  BY <1>1, <1>3, CloseEffect
<1>5. Advances(p, "exit") /\ cmd'[p].to = -1
  BY <1>1, <1>3, AtFacts DEF Stages
<1>6. ASSUME ~cut, closed = {}
      PROVE  TableFits(p, cmd[p])'
  <2>1. TableFits(p, cmd[p]) /\ Uses(cmd[p]) /\ Held(cmd[p]) = {n, -1}
    BY <1>3, <1>6, HeldFacts DEF Uses
  <2>2. Numbers(p) \subseteq {0, 1, n, -1} /\ 0 \in Numbers(p)
    BY <2>1, <1>3 DEF TableFits
  <2>3. Numbers(p) \subseteq Nat /\ n \in Int
    BY <1>3, TableFacts, LengthsAssumption
  <2>4. Numbers(p)' \subseteq {0, 1}
    BY <2>1, <2>2, <2>3, <1>3, <1>4, LastClosed
  <2>5. cmd'[p].stage = "exit" /\ cmd'[p].name \notin Tools
    BY <1>3, <1>5 DEF Advances
  <2>6. Held(cmd'[p]) = {} /\ ~Uses(cmd'[p])
    BY <2>5, HeldFacts
  <2>7. QED
    BY <2>4, <2>5, <2>6 DEF TableFits
<1>7. QED
  BY <1>1, <1>2, <1>4, <1>5, <1>6, JobStep

\* p_exit: the timer is armed again, by a process with nothing open.
LEMMA ExitKeeps ==
  ASSUME CommandInv, NEW p \in Jobs, Exit(p)
  PROVE  CommandInv'
<1>1. /\ Turn(p, JobCommands, "exit") /\ timer' = TRUE
      /\ cmd' = [cmd EXCEPT ![p] = [Idle EXCEPT !.name = cmd[p].name, !.stage = "exited"]]
      /\ \E q \in Proc \ {p} : running' = q
      /\ UNCHANGED <<image, host, closed, cut>>
  BY DEF Exit, JobCommands
<1>2. /\ p \in Proc /\ p # Shell /\ running = p /\ cmd[p].stage = "exit"
      /\ cmd[p].name \in {"cat", "touch", "rm"} /\ cmd[p].name \notin Tools \cup {"none"}
      /\ cmd \in [Proc -> Command] /\ CallInv /\ Standard /\ Sane(p, cmd[p])
      /\ ~cut /\ closed = {} => TableFits(p, cmd[p])
  BY <1>1, JobTurn DEF JobCommands
<1>3. PICK c \in Command : /\ c = [Idle EXCEPT !.name = cmd[p].name, !.stage = "exited"]
                           /\ c.name = cmd[p].name /\ c.stage = "exited" /\ c.to = -1
  BY <1>2, ExitedFacts, Zenon
<1>4. cmd' = [cmd EXCEPT ![p] = c]
  BY <1>1, <1>3
<1>5. Others(p) /\ cmd'[p] = c
  BY <1>2, <1>4, SetFacts
<1>6. Keeps(p) /\ Numbers(p)' = Numbers(p)
  BY <1>1, <1>2, NothingChanged DEF image
<1>7. ~Inside(p)' /\ Sane(p, cmd[p])'
  BY <1>2, <1>3, <1>5 DEF Inside, Outside, Sane, JobNames
<1>8. ASSUME ~cut, closed = {}
      PROVE  TableFits(p, cmd[p])'
  <2>1. Held(cmd[p]) = {} /\ Held(cmd'[p]) = {} /\ ~Uses(cmd'[p])
    BY <1>2, <1>3, <1>5, HeldFacts DEF Outside
  <2>2. QED
    BY <2>1, <1>2, <1>3, <1>5, <1>6, <1>8 DEF TableFits
<1>9. host' = host /\ cut' = cut /\ closed' = closed /\ closed' \subseteq 0 .. MaxNumber
  BY <1>1 DEF CommandInv, HostRuns
<1>10. QED
  BY <1>1, <1>2, <1>5, <1>6, <1>7, <1>8, <1>9, ArmStep DEF Keeps, OthersKeep, Others

-------------------------------------------------------------------------------
(* cp and mv.                                                                *)

LEMMA ShellTurn ==
  ASSUME CommandInv, NEW names, names \subseteq {"shell", "cp", "mv"}, NEW st,
         Turn(Shell, names, st)
  PROVE  /\ Shell \in Proc /\ running = Shell /\ cmd[Shell].stage = st
         /\ cmd[Shell].name \in names /\ cmd[Shell].name \in {"shell", "cp", "mv"}
         /\ cmd[Shell].name \notin Tools \cup {"none"} /\ host = "PennOS"
         /\ (cmd[Shell].name # "shell" /\ st # "exited" => cmd[Shell].src \in Name)
         /\ (cmd[Shell].name # "shell" => cmd[Shell].dst \in Name)
         /\ cmd \in [Proc -> Command] /\ cmd[Shell] \in Command
         /\ cmd[Shell].fd \in (-1 .. MaxNumber) \ {0}
         /\ cmd[Shell].to \in (-1 .. MaxNumber) \ {0}
         /\ CallInv /\ Standard /\ Sane(Shell, cmd[Shell])
         /\ closed \subseteq 0 .. MaxNumber
         /\ ~cut /\ closed = {} => TableFits(Shell, cmd[Shell])
<1>1. /\ Shell \in Proc /\ running = Shell /\ cmd[Shell].stage = st
      /\ cmd[Shell].name \in names
  BY CommandsAssumption DEF Turn
<1>2. cmd[Shell].name \in {"shell", "cp", "mv"} /\ cmd[Shell].name \notin Tools \cup {"none"}
  BY <1>1 DEF Tools
<1>3. /\ CallInv /\ Standard /\ Sane(Shell, cmd[Shell]) /\ HostRuns /\ TablesFit
      /\ cmd \in [Proc -> Command]
  BY <1>1 DEF CommandInv
<1>4. cmd[Shell] \in Command
  BY <1>1, <1>3
<1>5. cmd[Shell].fd \in (-1 .. MaxNumber) \ {0} /\ cmd[Shell].to \in (-1 .. MaxNumber) \ {0}
  BY <1>4 DEF Command
<1>6. host = "PennOS" /\ closed \subseteq 0 .. MaxNumber
  <2>1. host = "PennOS"
    BY <1>1, <1>2, <1>3, HostFacts
  <2>2. QED
    BY <2>1, <1>3 DEF HostRuns
<1>7. /\ (cmd[Shell].name # "shell" /\ st # "exited" => cmd[Shell].src \in Name)
      /\ (cmd[Shell].name # "shell" => cmd[Shell].dst \in Name)
  BY <1>1, <1>2, <1>3 DEF Sane, FileNames
<1>8. QED
  BY <1>1, <1>2, <1>3, <1>4, <1>5, <1>6, <1>7 DEF TablesFit

LEMMA CopyStep ==
  ASSUME CommandInv, NEW st \in {"open", "create", "read", "write", "close"},
         Turn(Shell, {"cp", "mv"}, st),
         NEW st2 \in {"create", "read", "write", "close", "close too"},
         Advances(Shell, st2), Keeps(Shell), Pause, Sane(Shell, cmd'[Shell]),
         ~cut /\ closed = {} => TableFits(Shell, cmd[Shell])'
  PROVE  CommandInv'
<1>1. /\ Shell \in Proc /\ running = Shell /\ cmd[Shell].name \notin Tools \cup {"none"}
      /\ host = "PennOS"
  BY ShellTurn
<1>2. Others(Shell) /\ timer' = FALSE /\ UNCHANGED <<cpu, cut>>
  BY DEF Advances, Pause
<1>3. cmd'[Shell].stage # "reading" /\ cmd'[Shell].name = cmd[Shell].name
  BY DEF Advances
<1>4. Rested'
  BY <1>1, <1>2, <1>3, NotAtRest DEF CommandInv
<1>5. QED
  BY <1>1, <1>2, <1>3, <1>4, CallStep

LEMMA OpensKeeps ==
  ASSUME CommandInv, Opens(Shell)
  PROVE  CommandInv'
<1> DEFINE c == cmd[Shell]
<1>1. CASE /\ Turn(Shell, {"cp", "mv"}, "open")
           /\ Open(Shell, c.src, "F_READ")
           /\ With(Shell, "create", "fd", Opened(Shell, c.src, "F_READ"))
           /\ Pause
  <2> DEFINE n == Opened(Shell, c.src, "F_READ")
  <2>1. /\ Shell \in Proc /\ c.stage = "open" /\ c.name \in {"cp", "mv"} /\ c.name \notin Tools
        /\ c.src \in Name /\ cmd \in [Proc -> Command] /\ CallInv /\ Standard
        /\ Sane(Shell, c) /\ (~cut /\ closed = {} => TableFits(Shell, c))
    BY <1>1, ShellTurn
  <2>2. With(Shell, "create", "fd", n)
    BY <1>1
  <2>3. /\ Keeps(Shell) /\ n \in (-1 .. MaxNumber) \ {0} /\ (n > 1 => 1 \in Numbers(Shell))
        /\ Numbers(Shell)' \subseteq Numbers(Shell) \cup {n}
        /\ Numbers(Shell) \subseteq Numbers(Shell)'
    BY <1>1, <2>1, OpenEffect
  <2> HIDE DEF n
  <2>4. Advances(Shell, "create") /\ cmd'[Shell].fd = n /\ cmd'[Shell].to = c.to
    BY <2>1, <2>2, <2>3, WithFd DEF Stages
  <2>5. c.to = -1 /\ Sane(Shell, cmd'[Shell])
    BY <2>1, <2>4 DEF Sane, Advances
  <2>6. ASSUME ~cut, closed = {}
        PROVE  TableFits(Shell, c)'
    <3>1. Held(c) = {} /\ Held(cmd'[Shell]) = {n}
      BY <2>1, <2>4, HeldFacts DEF Advances
    <3>2. Numbers(Shell) \subseteq {0, 1} /\ 0 \in Numbers(Shell)
      BY <3>1, <2>1, <2>6 DEF TableFits
    <3>3. QED
      BY <3>1, <3>2, <2>3, <2>4, <2>5 DEF TableFits, Advances
  <2>7. QED
    BY <1>1, <2>3, <2>4, <2>5, <2>6, CopyStep
<1>2. CASE /\ Turn(Shell, {"cp", "mv"}, "create")
           /\ Open(Shell, c.dst, "F_WRITE")
           /\ With(Shell, "read", "to", Opened(Shell, c.dst, "F_WRITE"))
           /\ Pause
  <2> DEFINE n == Opened(Shell, c.dst, "F_WRITE")
  <2>1. /\ Shell \in Proc /\ c.stage = "create" /\ c.name \in {"cp", "mv"} /\ c.name \notin Tools
        /\ c.dst \in Name /\ cmd \in [Proc -> Command] /\ CallInv /\ Standard
        /\ Sane(Shell, c) /\ (~cut /\ closed = {} => TableFits(Shell, c))
    <3>1. PICK names : names = {"cp", "mv"}
      OBVIOUS
    <3>2. names \subseteq {"shell", "cp", "mv"} /\ Turn(Shell, names, "create")
      BY <1>2, <3>1
    <3>3. /\ Shell \in Proc /\ c.stage = "create" /\ c.name \in names
          /\ c.name \notin Tools \cup {"none"} /\ c.dst \in Name
          /\ cmd \in [Proc -> Command] /\ CallInv /\ Standard /\ Sane(Shell, c)
          /\ (~cut /\ closed = {} => TableFits(Shell, c))
      BY <1>2, <3>1, <3>2, ShellTurn
    <3>4. QED
      BY <3>1, <3>3
  <2>2. With(Shell, "read", "to", n)
    BY <1>2
  <2>3. /\ Keeps(Shell) /\ n \in (-1 .. MaxNumber) \ {0} /\ (n > 1 => 1 \in Numbers(Shell))
        /\ n # -1
        /\ Numbers(Shell)' \subseteq Numbers(Shell) \cup {n}
        /\ Numbers(Shell) \subseteq Numbers(Shell)'
    BY <1>2, <2>1, OpenEffect
  <2> HIDE DEF n
  <2>4. Advances(Shell, "read") /\ cmd'[Shell].to = n /\ cmd'[Shell].fd = c.fd
    BY <2>1, <2>2, <2>3, WithTo DEF Stages
  <2>5. Sane(Shell, cmd'[Shell])
    BY <2>1, <2>3, <2>4 DEF Sane, Advances
  <2>6. ASSUME ~cut, closed = {}
        PROVE  TableFits(Shell, c)'
    <3>1. Held(c) = {c.fd} /\ Held(cmd'[Shell]) = {c.fd, n} /\ Uses(c)
      BY <2>1, <2>4, HeldFacts DEF Advances, Uses
    <3>2. /\ Numbers(Shell) \subseteq {0, 1, c.fd} /\ 0 \in Numbers(Shell)
          /\ c.fd > 1 => 1 \in Numbers(Shell)
      BY <3>1, <2>1, <2>6 DEF TableFits
    <3>3. QED
      BY <3>1, <3>2, <2>3, <2>4 DEF TableFits, Advances
  <2>7. QED
    BY <1>2, <2>3, <2>4, <2>5, <2>6, CopyStep
<1>3. QED
  BY <1>1, <1>2, FileTurns DEF Opens

LEMMA CopiesKeeps ==
  ASSUME CommandInv, Copies(Shell)
  PROVE  CommandInv'
<1> DEFINE c == cmd[Shell]
<1>1. PICK st \in {"read", "write"}, st2 \in {"read", "write", "close"} :
        /\ Turn(Shell, {"cp", "mv"}, st) /\ At(Shell, st2) /\ Pause
        /\ ReadsAny(Shell, c.fd) \/ Writes(Shell, c.to, FAT_WIDTH)
  <2>1. \/ /\ FileTurn(Shell, {"cp", "mv"}, "read") /\ ReadsAny(Shell, c.fd) /\ Pause
           /\ At(Shell, "write") \/ At(Shell, "close")
        \/ /\ FileTurn(Shell, {"cp", "mv"}, "write") /\ Writes(Shell, c.to, FAT_WIDTH)
           /\ At(Shell, "read") /\ Pause
    BY Zenon DEF Copies, ReadsAny
  <2>2. QED
    BY <2>1, FileTurns
<1>2. /\ Shell \in Proc /\ c.stage = st /\ c.name \in {"cp", "mv"} /\ c.name \notin Tools
      /\ c.fd \in (-1 .. MaxNumber) \ {0} /\ cmd \in [Proc -> Command]
      /\ CallInv /\ Standard /\ Sane(Shell, c)
      /\ ~cut /\ closed = {} => TableFits(Shell, c)
  BY <1>1, ShellTurn
<1>3. Keeps(Shell) /\ Numbers(Shell)' = Numbers(Shell)
  BY <1>1, <1>2, ReadEffect, WriteEffect, GeometryAssumption
<1>4. Advances(Shell, st2) /\ cmd'[Shell].fd = c.fd /\ cmd'[Shell].to = c.to
  BY <1>1, <1>2, AtFacts DEF Stages
<1>5. Sane(Shell, cmd'[Shell])
  BY <1>2, <1>4 DEF Sane, Advances
<1>6. ~cut /\ closed = {} => TableFits(Shell, c)'
  BY <1>2, <1>3, <1>4, SameFits DEF Advances
<1>7. QED
  BY <1>1, <1>3, <1>4, <1>5, <1>6, CopyStep

\* The shell is back in its loop, and arms the timer.
LEMMA BackToPolling ==
  ASSUME CommandInv, NEW names, names \subseteq {"shell", "cp", "mv"}, NEW st,
         Turn(Shell, names, st), cmd' = [cmd EXCEPT ![Shell] = Polling],
         Keeps(Shell), timer' = TRUE, host' = host, running' = running, cut' = cut,
         closed' \subseteq 0 .. MaxNumber, closed' = {} => closed = {},
         ~cut /\ closed' = {} => Numbers(Shell)' \subseteq {0, 1} /\ 0 \in Numbers(Shell)'
  PROVE  CommandInv'
<1>1. /\ Shell \in Proc /\ running = Shell /\ cmd[Shell].name \notin Tools \cup {"none"}
      /\ cmd \in [Proc -> Command]
  BY ShellTurn
<1>2. Others(Shell) /\ cmd'[Shell] = Polling
  BY <1>1, IdleFacts, SetFacts
<1>3. ~Inside(Shell)' /\ Sane(Shell, cmd[Shell])' /\ cmd'[Shell].name = "shell"
  BY <1>2, IdleFacts DEF Inside, Outside, Sane, ShellNames, FileNames, Tools
<1>4. ~cut /\ closed' = {} => TableFits(Shell, cmd[Shell])'
  <2>1. cmd'[Shell].stage = "poll"
    BY <1>2, IdleFacts
  <2>2. ~Uses(cmd'[Shell])
    BY <2>1 DEF Uses
  <2>3. QED
    BY <2>1, <2>2 DEF TableFits
<1>5. QED
  BY <1>1, <1>2, <1>3, <1>4, ArmStep DEF Keeps, OthersKeep, Others

LEMMA CpEndsKeeps ==
  ASSUME CommandInv, CpEnds(Shell)
  PROVE  CommandInv'
<1> DEFINE c == cmd[Shell]
<1>1. CASE /\ Turn(Shell, {"cp"}, "close") /\ FClose(Shell, c.fd)
           /\ At(Shell, "close too") /\ Pause
  <2>1. Turn(Shell, {"cp", "mv"}, "close") /\ c.name = "cp"
    BY <1>1 DEF Turn
  <2>2. /\ Shell \in Proc /\ c.stage = "close" /\ c.name \notin Tools
        /\ c.fd \in (-1 .. MaxNumber) \ {0} /\ cmd \in [Proc -> Command]
        /\ CallInv /\ Standard /\ Sane(Shell, c)
        /\ ~cut /\ closed = {} => TableFits(Shell, c)
    BY <2>1, ShellTurn
  <2>3. /\ Keeps(Shell) /\ Numbers(Shell)' \subseteq Numbers(Shell)
        /\ 0 \in Numbers(Shell) => Numbers(Shell) \cap {0, 1} \subseteq Numbers(Shell)'
        /\ {0, 1} \subseteq Numbers(Shell) /\ c.fd > 1 => c.fd \notin Numbers(Shell)'
    BY <1>1, <2>2, CloseEffect
  <2>4. Advances(Shell, "close too") /\ cmd'[Shell].fd = c.fd /\ cmd'[Shell].to = c.to
    BY <1>1, <2>2, AtFacts DEF Stages
  <2>5. Sane(Shell, cmd'[Shell])
    BY <2>1, <2>2, <2>4 DEF Sane, Advances
  <2>6. ASSUME ~cut, closed = {}
        PROVE  TableFits(Shell, c)'
    <3>1. Held(c) = {c.fd, c.to} /\ Uses(c) /\ Held(cmd'[Shell]) = {c.to}
      BY <2>2, <2>4, HeldFacts DEF Advances, Uses
    <3>2. /\ Numbers(Shell) \subseteq {0, 1, c.fd, c.to} /\ 0 \in Numbers(Shell)
          /\ (c.fd > 1 \/ c.to > 1) => 1 \in Numbers(Shell)
      BY <3>1, <2>2, <2>6 DEF TableFits
    <3>3. Numbers(Shell) \subseteq Nat /\ c.fd \in Int
      BY <2>2, TableFacts, LengthsAssumption
    <3>4. Numbers(Shell)' \subseteq {0, 1} \cup {c.to}
      BY <3>2, <3>3, <2>3
    <3>5. 0 \in Numbers(Shell)' /\ ((c.fd > 1 \/ c.to > 1) => 1 \in Numbers(Shell)')
      BY <3>2, <2>3
    <3>6. QED
      BY <3>1, <3>4, <3>5, <2>4 DEF TableFits, Advances
  <2>7. QED
    BY <1>1, <2>1, <2>3, <2>4, <2>5, <2>6, CopyStep
<1>2. CASE /\ Turn(Shell, {"cp"}, "close too") /\ FClose(Shell, c.to)
           /\ cmd' = [cmd EXCEPT ![Shell] = Polling] /\ Arm
  <2>1. /\ Shell \in Proc /\ c.stage = "close too" /\ c.name \notin Tools
        /\ c.to \in (-1 .. MaxNumber) \ {0} /\ cmd \in [Proc -> Command]
        /\ CallInv /\ Standard /\ closed \subseteq 0 .. MaxNumber
        /\ ~cut /\ closed = {} => TableFits(Shell, c)
    BY <1>2, ShellTurn
  <2>2. /\ Keeps(Shell) /\ Numbers(Shell)' \subseteq Numbers(Shell)
        /\ 0 \in Numbers(Shell) => Numbers(Shell) \cap {0, 1} \subseteq Numbers(Shell)'
        /\ {0, 1} \subseteq Numbers(Shell) /\ c.to > 1 => c.to \notin Numbers(Shell)'
    BY <1>2, <2>1, CloseEffect
  <2>3. ASSUME ~cut, closed = {}
        PROVE  Numbers(Shell)' \subseteq {0, 1} /\ 0 \in Numbers(Shell)'
    <3>1. Held(c) = {c.to} /\ Uses(c) /\ TableFits(Shell, c)
      BY <2>1, <2>3, HeldFacts DEF Uses
    <3>2. Numbers(Shell) \subseteq {0, 1, c.to} /\ 0 \in Numbers(Shell)
      BY <3>1, <2>1 DEF TableFits
    <3>3. Numbers(Shell) \subseteq Nat /\ c.to \in Int
      <4>1. Numbers(Shell) \subseteq 0 .. MaxNumber
        BY <2>1, TableFacts
      <4>2. Numbers(Shell) \subseteq Nat
        BY <4>1, LengthsAssumption
      <4>3. \A n \in (-1 .. MaxNumber) \ {0} : n \in Int
        BY LengthsAssumption
      <4>4. c.to \in Int
        BY <2>1, <4>3, Zenon
      <4>5. QED
        BY <4>2, <4>4
    <3>4. QED
      BY <3>1, <3>2, <3>3, <2>1, <2>2, LastClosed
  <2>4. timer' = TRUE /\ host' = host /\ running' = running /\ closed' = closed /\ cut' = cut
    BY <1>2 DEF Arm, cpu
  <2>5. QED
    BY <1>2, <2>1, <2>2, <2>3, <2>4, BackToPolling
<1>3. QED
  BY <1>1, <1>2, FileTurns DEF CpEnds

\* After mv a descriptor of the host is closed for good.
LEMMA MvEndsKeeps ==
  ASSUME CommandInv, MvEnds(Shell)
  PROVE  CommandInv'
<1> DEFINE c == cmd[Shell]
<1>1. /\ Turn(Shell, {"mv"}, "close")
      /\ closed' = closed \cup ({c.fd, c.to} \ {-1})
      /\ Unlinked(Shell, c.src) /\ (stored' = files' \/ stored' = stored)
      /\ cmd' = [cmd EXCEPT ![Shell] = Polling] /\ timer' = TRUE
      /\ host' = host /\ running' = running /\ cut' = cut
  BY FileTurns DEF MvEnds, FUnlink, StoreDirectory
<1>2. c.name = "mv" /\ c.name # "shell"
  BY <1>1 DEF Turn
<1>3. /\ Shell \in Proc /\ c.stage = "close" /\ c.src \in Name
      /\ c.fd \in (-1 .. MaxNumber) \ {0} /\ c.to \in (-1 .. MaxNumber) \ {0}
      /\ CallInv /\ Standard /\ Sane(Shell, c) /\ closed \subseteq 0 .. MaxNumber
  BY <1>1, <1>2, ShellTurn
<1>4. Keeps(Shell)
  BY <1>1, <1>3, UnlinkEffect
<1>5. closed' \subseteq 0 .. MaxNumber
  <2>1. {c.fd, c.to} \ {-1} \subseteq 0 .. MaxNumber
    BY <1>3, LengthsAssumption
  <2>2. QED
    BY <2>1, <1>1, <1>3
<1>6. closed' # {}
  <2>1. c.to # -1
    BY <1>2, <1>3 DEF Sane
  <2>2. QED
    BY <2>1, <1>1
<1>7. QED
  BY <1>1, <1>4, <1>5, <1>6, BackToPolling

-------------------------------------------------------------------------------
(* The shell's loop.                                                         *)

\* Outside a command, and while it reads a line, the shell has the standard
\* descriptors alone.
LEMMA LoopTable ==
  ASSUME NEW p \in Proc, TableFits(p, cmd[p]),
         \/ cmd[p].stage \in Outside \ {"exited"}
         \/ cmd[p].name \notin Tools /\ cmd[p].stage \in {"reading", "launched", "open"}
  PROVE  Numbers(p) \subseteq {0, 1} /\ 0 \in Numbers(p)
<1>1. Held(cmd[p]) = {}
  BY HeldFacts
<1>2. cmd[p].stage \notin {"exit", "exited"}
  BY DEF Outside
<1>3. QED
  BY <1>1, <1>2 DEF TableFits

LEMMA LoopFits ==
  ASSUME NEW p \in Proc, Numbers(p)' \subseteq {0, 1}, 0 \in Numbers(p)',
         \/ cmd'[p].stage \in Outside
         \/ cmd'[p].name \notin Tools /\ cmd'[p].stage \in {"reading", "launched", "open"}
  PROVE  TableFits(p, cmd[p])'
<1>1. ~Uses(cmd'[p])
  BY HeldFacts
<1>2. QED
  BY <1>1 DEF TableFits

LEMMA WaitKeeps ==
  ASSUME CommandInv, Wait
  PROVE  CommandInv'
<1>1. PICK st \in {"spawned", "launched", "poll"} : Turn(Shell, {"shell"}, st)
  BY DEF Wait
<1>2. timer' = TRUE /\ host' = host /\ running' = running /\ closed' = closed /\ cut' = cut
  BY DEF Wait
<1>3. /\ Shell \in Proc /\ running = Shell /\ cmd[Shell].stage = st
      /\ cmd[Shell].name \notin Tools \cup {"none"} /\ cmd \in [Proc -> Command]
      /\ CallInv /\ Standard /\ closed \subseteq 0 .. MaxNumber
      /\ ~cut /\ closed = {} => TableFits(Shell, cmd[Shell])
  BY <1>1, ShellTurn
<1>4. ~cut /\ closed = {} => Numbers(Shell) \subseteq {0, 1} /\ 0 \in Numbers(Shell)
  BY <1>3, LoopTable DEF Outside
<1>5. CASE cmd' = [cmd EXCEPT ![Shell] = Polling] /\ UNCHANGED image
  <2>1. Keeps(Shell) /\ Numbers(Shell)' = Numbers(Shell)
    BY <1>3, <1>5, NothingChanged DEF image
  <2>2. QED
    BY <1>1, <1>2, <1>3, <1>4, <1>5, <2>1, BackToPolling
<1>6. CASE \E p \in Jobs :
             /\ cmd' = [cmd EXCEPT ![Shell] = Polling, ![p] = Idle]
             /\ fds' = [fds EXCEPT ![p] = NewTable]
             /\ UNCHANGED <<files, fat, data, stored, harm>>
  <2>1. PICK p \in Jobs :
          /\ cmd' = [cmd EXCEPT ![Shell] = Polling, ![p] = Idle]
          /\ fds' = [fds EXCEPT ![p] = NewTable]
          /\ UNCHANGED <<files, fat, data, stored, harm>>
    BY <1>6
  <2>2. p \in Proc /\ p # Shell
    BY DEF Jobs
  <2>3. /\ cmd' \in [Proc -> Command] /\ cmd'[Shell] = Polling /\ cmd'[p] = Idle
        /\ \A q \in Proc \ {Shell, p} : cmd'[q] = cmd[q]
    BY <2>1, <2>2, <1>3, IdleFacts
  <2>4. Keeps(p) /\ Numbers(p)' = {0, 1}
    BY <2>1, <2>2, <1>3, NewTableEffect
  <2>5. Renewed(p)
    <3>1. cmd'[p].name = "none" /\ cmd'[p].stage = "idle" /\ cmd'[p].to = -1
      BY <2>3, IdleFacts
    <3>2. ~Inside(p)' /\ Sane(p, cmd[p])'
      BY <3>1, <2>2 DEF Inside, Outside, Sane, JobNames, FileNames, Tools
    <3>3. TableFits(p, cmd[p])'
      BY <3>1, <2>2, <2>4, LoopFits DEF Outside
    <3>4. QED
      BY <3>2, <3>3 DEF Renewed
  <2>6. ~Inside(Shell)' /\ Sane(Shell, cmd[Shell])' /\ cmd'[Shell].name = "shell"
    BY <2>3, IdleFacts DEF Inside, Outside, Sane, ShellNames, FileNames, Tools
  <2>7. ASSUME ~cut, closed = {}
        PROVE  TableFits(Shell, cmd[Shell])'
    <3>1. cmd'[Shell].stage = "poll"
      BY <2>3, IdleFacts
    <3>2. Numbers(Shell)' = Numbers(Shell)
      BY <2>1, <2>2, <1>3, TableFacts DEF Numbers
    <3>3. QED
      BY <3>1, <3>2, <2>7, <1>3, <1>4, LoopFits DEF Outside
  <2>8. \A q \in Proc \ {Shell} : (cmd'[q] = cmd[q] /\ KeepsTable(q)) \/ Renewed(q)
    BY <2>3, <2>4, <2>5 DEF Keeps, OthersKeep
  <2>9. running' \in Proc /\ closed' \subseteq 0 .. MaxNumber
    BY <1>2, <1>3
  <2>10. CallInv' /\ Standard'
    BY <2>4 DEF Keeps
  <2>11. QED
    BY <1>2, <1>3, <2>3, <2>6, <2>7, <2>8, <2>9, <2>10, ArmStep
<1>7. QED
  BY <1>5, <1>6 DEF Wait

LEMMA PromptKeeps ==
  ASSUME CommandInv, Prompt
  PROVE  CommandInv'
<1>1. /\ Turn(Shell, {"shell"}, "poll") /\ At(Shell, "reading") /\ timer' = FALSE
      /\ UNCHANGED <<cpu, cut>>
      /\ stored' = IF Memory \in closed THEN stored ELSE files
      /\ UNCHANGED <<files, fat, data, fds, harm>>
  BY DEF Prompt, ToTerminal, StoresOnly, Pause
<1>2. /\ Shell \in Proc /\ running = Shell /\ cmd[Shell].stage = "poll"
      /\ cmd[Shell].name = "shell" /\ cmd[Shell].name # "none" /\ cmd \in [Proc -> Command]
      /\ CallInv /\ Standard /\ Sane(Shell, cmd[Shell]) /\ host = "PennOS"
      /\ ~cut /\ closed = {} => TableFits(Shell, cmd[Shell])
  BY <1>1, ShellTurn
<1>3. Keeps(Shell) /\ Numbers(Shell)' = Numbers(Shell)
  BY <1>1, <1>2, NothingChanged
<1>4. Advances(Shell, "reading") /\ cmd'[Shell].to = cmd[Shell].to
  BY <1>1, <1>2, AtFacts DEF Stages
<1>5. Sane(Shell, cmd'[Shell]) /\ Others(Shell) /\ cmd'[Shell].name = cmd[Shell].name
  BY <1>2, <1>4 DEF Sane, Advances
<1>6. Rested'
  BY <1>1, <1>2 DEF Rested, AtRest, Within, cpu
<1>7. ASSUME ~cut, closed = {}
      PROVE  TableFits(Shell, cmd[Shell])'
  <2>1. Numbers(Shell) \subseteq {0, 1} /\ 0 \in Numbers(Shell)
    BY <1>2, <1>7, LoopTable DEF Outside
  <2>2. cmd'[Shell].stage = "reading" /\ cmd'[Shell].name \notin Tools
    BY <1>2, <1>4 DEF Advances, Tools
  <2>3. QED
    BY <1>2, <1>3, <2>1, <2>2, LoopFits
<1>8. QED
  BY <1>1, <1>2, <1>3, <1>5, <1>6, <1>7, CallStep

SpawnedBy(r, p) == [r EXCEPT !.stage = "spawned", !.job = p]
LEMMA SpawnedField ==
  ASSUME NEW r \in Command, NEW p \in Proc
  PROVE  \E c \in Command : /\ c = SpawnedBy(r, p) /\ SameNames(c, r, "spawned")
                            /\ c.fd = r.fd /\ c.to = r.to
<1> DEFINE c == SpawnedBy(r, p)
<1>1. c \in Command
  BY DEF Command, SpawnedBy, Stages, Outside
<1>2. SameNames(c, r, "spawned") /\ c.fd = r.fd /\ c.to = r.to
  BY DEF Command, SpawnedBy, SameNames
<1>3. QED
  BY <1>1, <1>2, Zenon

LEMMA SpawnKeeps ==
  ASSUME CommandInv, NEW p \in Jobs, NEW c, NEW f \in Name, Spawn(p, c, f)
  PROVE  CommandInv'
<1>1. /\ Turn(Shell, {"shell"}, "reading") /\ c \in {"cat", "touch", "rm"}
      /\ cmd[p] = Idle
      /\ UNCHANGED image /\ timer' = TRUE /\ UNCHANGED <<cpu, cut>>
  BY DEF Spawn, Reading, Arm
<1>2. /\ Shell \in Proc /\ running = Shell /\ cmd[Shell].stage = "reading"
      /\ cmd[Shell].name = "shell" /\ cmd[Shell].name \notin Tools \cup {"none"}
      /\ cmd \in [Proc -> Command] /\ cmd[Shell] \in Command
      /\ CallInv /\ Standard /\ Sane(Shell, cmd[Shell]) /\ closed \subseteq 0 .. MaxNumber
      /\ ~cut /\ closed = {} => TableFits(Shell, cmd[Shell])
  BY <1>1, ShellTurn
<1>3. p \in Proc /\ p # Shell
  BY DEF Jobs
<1>4. PICK r \in Command :
        /\ r = [Idle EXCEPT !.name = c, !.stage = "start", !.src = f]
        /\ r.name = c /\ r.stage = "start" /\ r.src = f /\ r.to = -1
  BY <1>1, StartedFacts, Zenon
<1>5. PICK s \in Command : /\ s = SpawnedBy(cmd[Shell], p) /\ SameNames(s, cmd[Shell], "spawned")
                           /\ s.fd = cmd[Shell].fd /\ s.to = cmd[Shell].to
  BY <1>2, <1>3, SpawnedField, Zenon
<1>6. cmd' = [cmd EXCEPT ![p] = r, ![Shell] = s]
  BY <1>3, <1>4, <1>5 DEF Spawn, SpawnedBy
<1>7. /\ cmd' \in [Proc -> Command] /\ cmd'[Shell] = s /\ cmd'[p] = r
      /\ \A q \in Proc \ {Shell, p} : cmd'[q] = cmd[q]
  BY <1>2, <1>3, <1>6
<1>8. Keeps(Shell) /\ \A q \in Proc : Numbers(q)' = Numbers(q)
  BY <1>1, <1>2, NothingChanged DEF image
<1>9. Renewed(p)
  <2>1. cmd'[p].name = c /\ cmd'[p].stage = "start" /\ cmd'[p].to = -1 /\ cmd'[p].src = f
    BY <1>4, <1>7
  <2>2. ~Inside(p)' /\ Sane(p, cmd[p])'
    BY <2>1, <1>1, <1>3 DEF Inside, Outside, Sane, JobNames, FileNames
  <2>3. ASSUME ~cut, closed' = {}
        PROVE  TableFits(p, cmd[p])'
    <3>1. closed = {} /\ TableFits(p, cmd[p])
      BY <2>3, <1>1, <1>3 DEF CommandInv, TablesFit, cpu
    <3>2. Numbers(p) \subseteq {0, 1} /\ 0 \in Numbers(p)
      BY <3>1, <1>1, <1>3, IdleFacts, LoopTable DEF Outside
    <3>3. QED
      BY <3>2, <2>1, <1>3, <1>8, LoopFits DEF Outside
  <2>4. QED
    BY <2>2, <2>3 DEF Renewed
<1>10. cmd'[Shell].stage = "spawned" /\ cmd'[Shell].name = "shell" /\ cmd'[Shell].to = cmd[Shell].to
  BY <1>2, <1>5, <1>7 DEF SameNames
<1>11. ~Inside(Shell)' /\ Sane(Shell, cmd[Shell])'
  BY <1>2, <1>10 DEF Inside, Outside, Sane, FileNames, Tools
<1>12. ASSUME ~cut, closed = {}
      PROVE  TableFits(Shell, cmd[Shell])'
  <2>1. Numbers(Shell) \subseteq {0, 1} /\ 0 \in Numbers(Shell)
    BY <1>2, <1>12, LoopTable
  <2>2. QED
    BY <2>1, <1>2, <1>8, <1>10, LoopFits DEF Outside
<1>13. \A q \in Proc \ {Shell} : (cmd'[q] = cmd[q] /\ KeepsTable(q)) \/ Renewed(q)
  BY <1>7, <1>8, <1>9 DEF Keeps, OthersKeep
<1>14. /\ running' \in Proc /\ closed' \subseteq 0 .. MaxNumber /\ closed' = closed
       /\ host' = host /\ cut' = cut
  BY <1>1, <1>2 DEF cpu
<1>15. CallInv' /\ Standard'
  BY <1>8 DEF Keeps
<1>16. QED
  BY <1>1, <1>2, <1>7, <1>10, <1>11, <1>12, <1>13, <1>14, <1>15, ArmStep

LEMMA RedirectsKeeps ==
  ASSUME CommandInv, NEW f \in Name, Redirects(f)
  PROVE  CommandInv'
<1> DEFINE p == cmd[Shell].job
<1>1. /\ Turn(Shell, {"shell"}, "spawned") /\ cmd[p].name \in Redirect
      /\ Redirected(f) = {} /\ FDup(p, 1, f) /\ At(Shell, "launched") /\ Pause
  BY FileTurns DEF Redirects
<1>2. /\ Shell \in Proc /\ running = Shell /\ cmd[Shell].stage = "spawned"
      /\ cmd[Shell].name = "shell" /\ cmd[Shell].name # "none" /\ cmd \in [Proc -> Command]
      /\ cmd[Shell] \in Command /\ host = "PennOS"
      /\ CallInv /\ Standard /\ Sane(Shell, cmd[Shell])
      /\ ~cut /\ closed = {} => TableFits(Shell, cmd[Shell])
  BY <1>1, ShellTurn
<1>3. p \in Proc
  BY <1>2 DEF Command
<1>4. CallInv' /\ Standard' /\ \A q \in Proc : Numbers(q)' = Numbers(q)
  BY <1>1, <1>2, <1>3, DupEffect
<1>5. Keeps(Shell)
  BY <1>4 DEF Keeps, OthersKeep, KeepsTable
<1>6. Advances(Shell, "launched") /\ cmd'[Shell].to = cmd[Shell].to
  BY <1>1, <1>2, AtFacts DEF Stages
<1>7. Sane(Shell, cmd'[Shell]) /\ Others(Shell) /\ cmd'[Shell].name = cmd[Shell].name
  BY <1>2, <1>6 DEF Sane, Advances
<1>8. timer' = FALSE /\ UNCHANGED <<cpu, cut>>
  BY <1>1 DEF Pause
<1>9. cmd'[Shell].stage = "launched" /\ cmd'[Shell].name \notin Tools
  BY <1>2, <1>6 DEF Advances, Tools
<1>10. Rested'
  BY <1>2, <1>8, <1>9, NotAtRest DEF CommandInv
<1>11. ASSUME ~cut, closed = {}
      PROVE  TableFits(Shell, cmd[Shell])'
  <2>1. Numbers(Shell) \subseteq {0, 1} /\ 0 \in Numbers(Shell)
    BY <1>2, <1>11, LoopTable DEF Outside
  <2>2. QED
    BY <1>2, <1>4, <1>9, <2>1, LoopFits
<1>12. QED
  BY <1>2, <1>5, <1>7, <1>8, <1>10, <1>11, CallStep

\* The shell reads a line with cp or mv, and begins.
LEMMA BeginsCopy ==
  ASSUME CommandInv, NEW c \in {"cp", "mv"}, NEW f \in Name, NEW g \in Name,
         Turn(Shell, {"shell"}, "reading"),
         cmd' = [cmd EXCEPT ![Shell] = CopyBegun(c, f, g)], UNCHANGED image,
         Pause
  PROVE  CommandInv'
<1>1. /\ Shell \in Proc /\ running = Shell /\ cmd[Shell].stage = "reading"
      /\ cmd[Shell].name \notin Tools \cup {"none"} /\ cmd \in [Proc -> Command]
      /\ host = "PennOS" /\ CallInv /\ Standard
      /\ ~cut /\ closed = {} => TableFits(Shell, cmd[Shell])
  BY ShellTurn
<1>2. PICK r \in Command :
        /\ r = CopyBegun(c, f, g)
        /\ r.name = c /\ r.stage = "open" /\ r.src = f /\ r.dst = g /\ r.to = -1
  BY CopyingFacts
<1>3. cmd' = [cmd EXCEPT ![Shell] = r]
  BY <1>2
<1>4. Others(Shell) /\ cmd'[Shell] = r
  BY <1>1, <1>3, SetFacts
<1>5. Keeps(Shell) /\ Numbers(Shell)' = Numbers(Shell)
  BY <1>1, NothingChanged DEF image
<1>6. Sane(Shell, cmd'[Shell]) /\ cmd'[Shell].name \in {"shell", "cp", "mv"}
  BY <1>2, <1>4 DEF Sane, ShellNames
<1>7. timer' = FALSE /\ UNCHANGED <<cpu, cut>>
  BY DEF Pause
<1>8. cmd'[Shell].stage = "open" /\ cmd'[Shell].name \notin Tools
  BY <1>2, <1>4 DEF Tools
<1>9. Rested'
  BY <1>1, <1>7, <1>8, NotAtRest DEF CommandInv
<1>10. ASSUME ~cut, closed = {}
      PROVE  TableFits(Shell, cmd[Shell])'
  <2>1. Numbers(Shell) \subseteq {0, 1} /\ 0 \in Numbers(Shell)
    BY <1>1, <1>10, LoopTable
  <2>2. QED
    BY <1>1, <1>5, <1>8, <2>1, LoopFits
<1>11. QED
  BY <1>1, <1>4, <1>5, <1>6, <1>7, <1>9, <1>10, CallStep

LEMMA CopyKeeps ==
  ASSUME CommandInv, NEW f \in Name, Copy(f)
  PROVE  CommandInv'
<1> DEFINE g == CopyName[f]
<1>1. /\ Turn(Shell, {"shell"}, "reading") /\ g \in Name /\ UNCHANGED image /\ Pause
      /\ cmd' = [cmd EXCEPT ![Shell] = CopyBegun("cp", f, g)]
  BY CommandsAssumption DEF Copy, Reading, CopyBegun
<1> HIDE DEF g
<1>2. QED
  BY <1>1, BeginsCopy

LEMMA MoveKeeps ==
  ASSUME CommandInv, NEW f \in Name, NEW g \in Name, Move(f, g)
  PROVE  CommandInv'
<1>1. Turn(Shell, {"shell"}, "reading") /\ UNCHANGED image
  BY DEF Move, Reading
<1>2. CASE cmd' = [cmd EXCEPT ![Shell] = CopyBegun("mv", f, g)] /\ Pause
  BY <1>1, <1>2, BeginsCopy
<1>3. CASE cmd' = [cmd EXCEPT ![Shell] = Polling] /\ Arm
  <2>1. /\ Shell \in Proc /\ cmd[Shell].stage = "reading"
        /\ cmd[Shell].name \notin Tools \cup {"none"}
        /\ CallInv /\ Standard /\ closed \subseteq 0 .. MaxNumber
        /\ ~cut /\ closed = {} => TableFits(Shell, cmd[Shell])
    BY <1>1, ShellTurn
  <2>2. Keeps(Shell) /\ Numbers(Shell)' = Numbers(Shell)
    BY <1>1, <2>1, NothingChanged DEF image
  <2>3. ~cut /\ closed = {} => Numbers(Shell) \subseteq {0, 1} /\ 0 \in Numbers(Shell)
    BY <2>1, LoopTable
  <2>4. timer' = TRUE /\ host' = host /\ running' = running /\ closed' = closed /\ cut' = cut
    BY <1>3 DEF Arm, cpu
  <2>5. QED
    BY <1>1, <1>3, <2>1, <2>2, <2>3, <2>4, BackToPolling
<1>4. QED
  BY <1>2, <1>3 DEF Move, CopyBegun

-------------------------------------------------------------------------------
(* The timer, signals, and the host.                                         *)

LEMMA Unchanged ==
  ASSUME CommandInv, UNCHANGED <<image, host, closed, cmd>>
  PROVE  /\ CallInv' /\ Standard' /\ cmd' \in [Proc -> Command]
         /\ \A p \in Proc : Sane(p, cmd[p])'
         /\ cut' = cut => TablesFit'
<1>1. /\ files' = files /\ fat' = fat /\ data' = data /\ fds' = fds /\ stored' = stored
      /\ harm' = harm /\ host' = host /\ closed' = closed /\ cmd' = cmd
  BY DEF image
<1>2. CallInv'
  BY <1>1, KindKept DEF CommandInv, CallInv
<1>3. Standard'
  BY <1>1 DEF CommandInv, Standard
<1>4. cmd' \in [Proc -> Command] /\ \A p \in Proc : Sane(p, cmd[p])'
  BY <1>1 DEF CommandInv, Sane
<1>5. cut' = cut => TablesFit'
  <2>1. \A p \in Proc : /\ Numbers(p)' = Numbers(p)
                        /\ Held(cmd[p])' = Held(cmd[p]) /\ Uses(cmd[p])' = Uses(cmd[p])
    BY <1>1 DEF Numbers, Held, Uses
  <2>2. \A p \in Proc : TableFits(p, cmd[p]) => TableFits(p, cmd[p])'
    BY <1>1, <2>1 DEF TableFits
  <2>3. QED
    BY <1>1, <2>2 DEF CommandInv, TablesFit
<1>6. QED
  BY <1>2, <1>3, <1>4, <1>5

LEMMA SwitchKeeps ==
  ASSUME CommandInv, NEW p \in Proc, Switch(p)
  PROVE  CommandInv'
<1>1. /\ host = "PennOS" /\ timer /\ running' = p
      /\ UNCHANGED <<image, host, closed, cmd, timer, cut>>
  BY DEF Switch
<1>2. /\ host' = "PennOS" /\ timer' = timer /\ cut' = cut /\ cmd' = cmd /\ closed' = closed
      /\ files' = files /\ stored' = stored
  BY <1>1 DEF image
<1>3. HasCpu' /\ HostRuns' /\ Rested'
  BY <1>1, <1>2 DEF CommandInv, HasCpu, HostRuns, Rested, AtRest, Within, Inside
<1>4. QED
  BY <1>1, <1>2, <1>3, Unchanged DEF CommandInv

LEMMA InterruptKeeps ==
  ASSUME CommandInv, Interrupt
  PROVE  CommandInv'
<1>1. /\ host = "PennOS" /\ timer' = TRUE /\ cut' = TRUE /\ host' = host
      /\ closed' = closed /\ running' = running
      /\ UNCHANGED <<image, host, closed, cmd>> /\ cmd' = cmd
  BY DEF Interrupt, cpu
<1>2. HasCpu' /\ HostRuns' /\ Rested' /\ TablesFit'
  BY <1>1 DEF CommandInv, HasCpu, HostRuns, Rested, AtRest, Within, TablesFit
<1>3. QED
  BY <1>1, <1>2, Unchanged DEF CommandInv

\* Whoever has nothing to do.
LEMMA IdleSane ==
  ASSUME NEW p \in Proc, NEW c, c = Idle
  PROVE  Sane(p, c) /\ c.stage \in Outside
<1>1. c.name = "none" /\ c.stage = "idle" /\ c.to = -1
  BY IdleFacts
<1>2. QED
  BY <1>1 DEF Sane, JobNames, ShellNames, FileNames, Tools, Outside

\* The host ends, or starts with nothing running.
LEMMA AllIdle ==
  ASSUME cmd' = [p \in Proc |-> Idle], fds' = [p \in Proc |-> NewTable], CallInv',
         host' = "none", running' = Shell, timer' = FALSE, closed' = {},
         cut' \in BOOLEAN, stored' = files'
  PROVE  CommandInv'
<1>1. Standard' /\ \A p \in Proc : Numbers(p)' = {0, 1}
  BY AllNewTables
<1>2. cmd' \in [Proc -> Command] /\ \A p \in Proc : cmd'[p] = Idle
  BY IdleFacts
<1>3. \A p \in Proc : Sane(p, cmd[p])' /\ cmd'[p].stage \in Outside
  BY <1>2, IdleSane
<1>4. HasCpu' /\ Rested'
  <2>1. fds'[Shell] = NewTable
    BY CommandsAssumption
  <2>2. QED
    BY <1>3, <2>1 DEF HasCpu, Inside, Rested, Within
<1>5. HostRuns'
  BY <1>2, CommandsAssumption DEF HostRuns, Jobs
<1>6. TablesFit'
  BY <1>1, <1>3, LoopFits DEF TablesFit
<1>7. QED
  BY <1>1, <1>2, <1>3, <1>4, <1>5, <1>6 DEF CommandInv

LEMMA InitKeeps ==
  ASSUME InitCommands
  PROVE  CommandInv
<1>1. CallInv
  BY InitCallInv DEF InitCommands
<1>2. fds = [p \in Proc |-> NewTable] /\ cmd = [p \in Proc |-> Idle]
  BY DEF InitCommands, Init
<1>3. Standard /\ \A p \in Proc : Numbers(p) = {0, 1}
  <2>1. /\ \A d \in NewTable : d.number \in {0, 1} /\ d.file = Terminal
        /\ \E d \in NewTable : d.number = 0
        /\ \E d \in NewTable : d.number = 1
    BY DEF NewTable
  <2>2. \A p \in Proc : fds[p] = NewTable
    BY <1>2
  <2>3. QED
    BY <2>1, <2>2 DEF Standard, Numbers
<1>4. cmd \in [Proc -> Command] /\ \A p \in Proc : cmd[p] = Idle
  BY <1>2, IdleFacts
<1>5. \A p \in Proc : Sane(p, cmd[p]) /\ cmd[p].stage \in Outside
  BY <1>4, IdleSane
<1>6. HasCpu /\ Rested
  <2>1. fds[Shell] = NewTable
    BY <1>2, CommandsAssumption
  <2>2. QED
    BY <1>5, <2>1 DEF HasCpu, Inside, Rested, Within, InitCommands, Init
<1>7. HostRuns
  BY <1>4, CommandsAssumption DEF HostRuns, Jobs, InitCommands
<1>8. TablesFit
  <2>1. SUFFICES ASSUME NEW p \in Proc
                 PROVE  TableFits(p, cmd[p])
    BY DEF TablesFit
  <2>2. ~Uses(cmd[p])
    BY <1>5, HeldFacts
  <2>3. QED
    BY <1>3, <2>2 DEF TableFits
<1>9. QED
  BY <1>1, <1>3, <1>4, <1>5, <1>6, <1>7, <1>8 DEF CommandInv

LEMMA HostEndsKeeps ==
  ASSUME CommandInv, HostEnds
  PROVE  CommandInv'
<1>1. Boot /\ UNCHANGED cut
  BY DEF HostEnds
<1>2. CallInv'
  BY <1>1, BootKeeps DEF CommandInv
<1>3. fds' = [p \in Proc |-> NewTable] /\ stored' = files'
  BY <1>1 DEF Boot
<1>4. cut' \in BOOLEAN
  BY <1>1 DEF CommandInv, HostRuns
<1>5. QED
  BY <1>2, <1>3, <1>4, AllIdle DEF HostEnds

LEMMA NoneFacts ==
  ASSUME CommandInv, host = "none"
  PROVE  /\ \A p \in Proc : cmd[p] = Idle /\ cmd[p].stage \in Outside
         /\ ~timer /\ running = Shell /\ Shell \in Proc /\ stored = files
         /\ fds[Shell] = NewTable
         /\ ~cut /\ closed = {} =>
              \A p \in Proc : Numbers(p) \subseteq {0, 1} /\ 0 \in Numbers(p)
<1>1. \A p \in Proc : cmd[p] = Idle /\ cmd[p].stage \in Outside /\ cmd[p].stage # "exited"
  BY IdleFacts DEF CommandInv, HostRuns, Jobs, Outside
<1>2. /\ ~timer /\ running = Shell /\ Shell \in Proc /\ stored = files
      /\ fds[Shell] = NewTable
  BY CommandsAssumption DEF CommandInv, HostRuns, Rested, AtRest, Within
<1>3. ~cut /\ closed = {} =>
        \A p \in Proc : Numbers(p) \subseteq {0, 1} /\ 0 \in Numbers(p)
  BY <1>1, LoopTable DEF CommandInv, TablesFit
<1>4. QED
  BY <1>1, <1>2, <1>3

\* PennOS or a tool starts: the shell, or what stands for the tool, is about to
\* make its first call.
LEMMA HostStarts ==
  ASSUME CommandInv, host = "none", NEW c \in Command, cmd' = [cmd EXCEPT ![Shell] = c],
         UNCHANGED <<image, running, closed, cut>>,
         c.stage \in {"poll", "start"}, Sane(Shell, c),
         \/ host' = "PennOS" /\ c.name = "shell" /\ timer' \in BOOLEAN
         \/ host' = "catFlatFat" /\ c.name \in Tools /\ timer' = timer
  PROVE  CommandInv'
<1>1. /\ files' = files /\ stored' = stored /\ fds' = fds
      /\ running' = running /\ closed' = closed /\ cut' = cut
  BY DEF image
<1>2. /\ \A p \in Proc : cmd[p] = Idle /\ cmd[p].stage \in Outside
      /\ ~timer /\ running = Shell /\ Shell \in Proc /\ stored = files
      /\ fds[Shell] = NewTable
      /\ ~cut /\ closed = {} =>
           \A p \in Proc : Numbers(p) \subseteq {0, 1} /\ 0 \in Numbers(p)
  BY NoneFacts
<1>3. CallInv /\ Standard /\ cmd \in [Proc -> Command] /\ HostRuns
  BY DEF CommandInv
<1>4. CallInv' /\ Standard' /\ \A p \in Proc : Numbers(p)' = Numbers(p)
  BY <1>2, <1>3, NothingChanged DEF image, Keeps, Numbers
<1>5. Others(Shell) /\ cmd'[Shell] = c
  BY <1>2, <1>3, SetFacts
<1>6. /\ cmd' \in [Proc -> Command] /\ \A p \in Proc : Sane(p, cmd[p])'
      /\ \A p \in Proc : cmd'[p].stage \in Outside
      /\ \A p \in Jobs : cmd'[p] = Idle
  BY <1>2, <1>5, IdleSane DEF Others, Jobs, Outside
<1>7. HasCpu'
  BY <1>6 DEF HasCpu, Inside
<1>8. HostRuns'
  BY <1>1, <1>2, <1>3, <1>5, <1>6 DEF HostRuns
<1>9. Rested'
  <2>1. FileDescriptors(Shell)' = {}
    BY <1>1, <1>2 DEF FileDescriptors, NewTable
  <2>2. Within'
    BY <2>1 DEF Within
  <2>3. QED
    BY <1>1, <1>2, <2>2 DEF Rested
<1>10. TablesFit'
  BY <1>1, <1>2, <1>4, <1>6, LoopFits DEF TablesFit
<1>11. QED
  BY <1>4, <1>6, <1>7, <1>8, <1>9, <1>10 DEF CommandInv

LEMMA StartPennOSKeeps ==
  ASSUME CommandInv, StartPennOS
  PROVE  CommandInv'
<1>1. /\ Polling \in Command /\ Polling.stage = "poll" /\ Polling.name = "shell"
      /\ Polling.to = -1
  BY IdleFacts
<1>2. Sane(Shell, Polling)
  BY <1>1 DEF Sane, ShellNames, FileNames, Tools
<1>3. QED
  BY <1>1, <1>2, HostStarts DEF StartPennOS

LEMMA StartToolKeeps ==
  ASSUME CommandInv, NEW c, NEW f \in Name, StartTool(c, f)
  PROVE  CommandInv'
<1>1. c \in Tools /\ c \in {"cat", "touch", "rm"} \cup Tools
  BY DEF StartTool, Tools
<1>2. PICK r \in Command :
        /\ r = [Idle EXCEPT !.name = c, !.stage = "start", !.src = f]
        /\ r.name = c /\ r.stage = "start" /\ r.src = f /\ r.to = -1
  BY <1>1, StartedFacts, Zenon
<1>3. cmd' = [cmd EXCEPT ![Shell] = r]
  BY <1>2 DEF StartTool
<1>4. Sane(Shell, r)
  BY <1>1, <1>2 DEF Sane, ShellNames, FileNames, Tools
<1>5. /\ host = "none" /\ host' = "catFlatFat" /\ timer' = timer
      /\ UNCHANGED <<image, running, closed, cut>>
  BY DEF StartTool
<1>6. QED
  BY <1>1, <1>2, <1>3, <1>4, <1>5, HostStarts

-------------------------------------------------------------------------------
(* catFlatFat.                                                               *)

LEMMA ToolTurn ==
  ASSUME CommandInv, NEW names, names \subseteq Tools, NEW st, st # "exited",
         Turn(Shell, names, st)
  PROVE  /\ Shell \in Proc /\ running = Shell /\ cmd[Shell].stage = st
         /\ cmd[Shell].name \in names /\ cmd[Shell].name \in Tools
         /\ cmd[Shell].name # "none" /\ host = "catFlatFat" /\ ~timer
         /\ cmd[Shell].src \in Name /\ cmd[Shell].to = -1
         /\ cmd \in [Proc -> Command]
         /\ cmd[Shell].fd \in (-1 .. MaxNumber) \ {0}
         /\ CallInv /\ Standard /\ Sane(Shell, cmd[Shell]) /\ Rested
         /\ ~cut /\ closed = {} => TableFits(Shell, cmd[Shell])
<1>1. /\ Shell \in Proc /\ running = Shell /\ cmd[Shell].stage = st
      /\ cmd[Shell].name \in names /\ cmd[Shell].name \in Tools
  BY CommandsAssumption DEF Turn
<1>2. cmd[Shell].name \notin {"none", "cp", "mv"}
  BY <1>1 DEF Tools
<1>3. /\ CallInv /\ Standard /\ Sane(Shell, cmd[Shell]) /\ HostRuns /\ TablesFit /\ Rested
      /\ cmd \in [Proc -> Command]
  BY <1>1 DEF CommandInv
<1>4. cmd[Shell].fd \in (-1 .. MaxNumber) \ {0}
  <2>1. cmd[Shell] \in Command
    BY <1>1, <1>3
  <2>2. QED
    BY <2>1 DEF Command
<1>5. host = "catFlatFat" /\ ~timer
  BY <1>1, <1>2, <1>3, HostFacts
<1>6. cmd[Shell].src \in Name /\ cmd[Shell].to = -1
  BY <1>1, <1>2, <1>3 DEF Sane, FileNames
<1>7. QED
  BY <1>1, <1>2, <1>3, <1>4, <1>5, <1>6 DEF TablesFit

LEMMA ToolStep ==
  ASSUME CommandInv, NEW st, st # "exited", Turn(Shell, Tools, st),
         NEW st2 \in {"read", "write", "close"}, Advances(Shell, st2),
         cmd'[Shell].to = cmd[Shell].to, Keeps(Shell), UNCHANGED <<cpu, timer, cut>>,
         Rested',
         ~cut /\ closed = {} =>
           /\ Numbers(Shell)' \subseteq Nat /\ 0 \in Numbers(Shell)'
           /\ cmd'[Shell].fd > 1 => 1 \in Numbers(Shell)'
  PROVE  CommandInv'
<1>1. /\ Shell \in Proc /\ running = Shell /\ cmd[Shell].name \in Tools
      /\ cmd[Shell].name # "none" /\ ~timer /\ timer \in BOOLEAN
      /\ cmd[Shell].src \in Name /\ cmd[Shell].to = -1 /\ Sane(Shell, cmd[Shell])
  BY ToolTurn DEF CommandInv, HostRuns
<1>2. /\ Others(Shell) /\ cmd'[Shell].stage = st2 /\ cmd'[Shell].name = cmd[Shell].name
      /\ cmd'[Shell].src = cmd[Shell].src
  BY DEF Advances
<1>3. timer' = FALSE /\ UNCHANGED <<cpu, cut>>
  BY <1>1
<1>4. Sane(Shell, cmd'[Shell])
  BY <1>1, <1>2 DEF Sane, Tools
<1>5. ASSUME ~cut, closed = {}
      PROVE  TableFits(Shell, cmd[Shell])'
  <2>1. Held(cmd'[Shell]) = Nat
    BY <1>1, <1>2, HeldFacts DEF Outside
  <2>2. QED
    BY <2>1, <1>1, <1>2, <1>5 DEF TableFits
<1>6. QED
  BY <1>1, <1>2, <1>3, <1>4, <1>5, CallStep

\* A call of a tool that leaves the numbers as they are.
LEMMA ToolUses ==
  ASSUME CommandInv, NEW st \in {"read", "write"}, Turn(Shell, Tools, st),
         Numbers(Shell)' = Numbers(Shell), cmd'[Shell].fd = cmd[Shell].fd,
         ~cut, closed = {}
  PROVE  /\ Numbers(Shell)' \subseteq Nat /\ 0 \in Numbers(Shell)'
         /\ cmd'[Shell].fd > 1 => 1 \in Numbers(Shell)'
<1>1. /\ Shell \in Proc /\ cmd[Shell].stage = st /\ TableFits(Shell, cmd[Shell]) /\ CallInv
  BY ToolTurn
<1>2. Uses(cmd[Shell])
  BY <1>1 DEF Uses
<1>3. Numbers(Shell) \subseteq Nat
  <2>1. Numbers(Shell) \subseteq 0 .. MaxNumber
    BY <1>1, TableFacts
  <2>2. QED
    BY <2>1, LengthsAssumption
<1>4. QED
  BY <1>1, <1>2, <1>3 DEF TableFits

\* What -r opens and reads stays below the size of its file.
LEMMA ReaderOpens ==
  ASSUME CallInv, Standard, NEW p \in Proc, NEW f \in Name, Open(p, f, "F_READ"),
         \A d \in FileDescriptors(p) : d.pos <= Entry(d.file).size
  PROVE  /\ files' = files
         /\ \A d \in FileDescriptors(p)' : d.pos <= Entry(d.file)'.size
<1>1. CASE UNCHANGED image
  BY <1>1 DEF image, FileDescriptors, Entry, First, Named
<1>2. CASE OpenOld(p, f, "F_READ")
  <2>1. files' = files /\ OpenDescriptor(p, f, "F_READ", 0) /\ Named(files, f) # {}
    BY <1>2 DEF OpenOld
  <2>2. PICK new : /\ new.file = f /\ new.pos = 0
                   /\ fds' = [fds EXCEPT ![p] = @ \cup {new}]
    BY <2>1 DEF OpenDescriptor
  <2>3. fds'[p] = fds[p] \cup {new}
    BY <2>2, TableFacts
  <2>4. Entry(f).size \in 0 .. MaxSize
    <3>1. f \in NamesOf(files) /\ files \in Directory
      BY <2>1 DEF Named, NamesOf, CallInv, GoodDirectory
    <3>2. QED
      BY <3>1, EntryFacts
  <2>5. \A g : Entry(g)' = Entry(g)
    BY <2>1 DEF Entry, First, Named
  <2>6. QED
    BY <2>1, <2>2, <2>3, <2>4, <2>5 DEF FileDescriptors
<1>3. QED
  BY <1>1, <1>2 DEF Open, OpenNew

LEMMA ReaderReads ==
  ASSUME CallInv, Standard, NEW p \in Proc, NEW number \in (-1 .. MaxNumber) \ {0},
         (\E got : ReadsSome(p, number, got)) \/ ReadsNothing(p, number),
         \A d \in FileDescriptors(p) : d.pos <= Entry(d.file).size
  PROVE  /\ files' = files /\ stored' = stored
         /\ \A d \in FileDescriptors(p)' : d.pos <= Entry(d.file)'.size
<1>1. CASE UNCHANGED image
  BY <1>1 DEF image, FileDescriptors, Entry, First, Named
<1>2. CASE \E got : \E d \in Descriptor(p, number) : FRead(p, d, FAT_WIDTH, got)
  <2>1. PICK got : \E d \in Descriptor(p, number) : FRead(p, d, FAT_WIDTH, got)
    BY <1>2
  <2>2. PICK d \in FileDescriptors(p) : FRead(p, d, FAT_WIDTH, got)
    BY <2>1, ReadsSomeFacts
  <2>3. d.pos \in Nat /\ Entry(d.file).size \in Nat /\ d.pos <= Entry(d.file).size
    BY <2>2, FileDescriptorFacts, LengthsAssumption
  <2>4. got \in Nat /\ d.pos + got <= Entry(d.file).size
    <3>1. ReadLength(d.file, d.pos, FAT_WIDTH) \in Nat
          /\ d.pos + ReadLength(d.file, d.pos, FAT_WIDTH) <= Entry(d.file).size
      BY <2>3, GeometryAssumption DEF ReadLength
    <3>2. got \in 0 .. ReadLength(d.file, d.pos, FAT_WIDTH)
      BY <2>2 DEF FRead, Reads
    <3>3. QED
      BY <2>3, <3>1, <3>2
  <2>5. files' = files /\ stored' = stored /\ fds' = Moved(p, d, d.pos + got)
    <3>1. ~(Entry(d.file).size < d.pos + got)
      BY <2>3, <2>4
    <3>2. QED
      BY <2>2, <3>1 DEF FRead
  <2>6. PICK e : /\ e.file = d.file /\ e.pos = d.pos + got
                 /\ fds'[p] = (fds[p] \ {d}) \cup {e}
    <3>1. d \in DescriptorRecord /\ d \in fds[p]
      BY <2>2, TableFacts DEF FileDescriptors
    <3>2. PICK e : e = [d EXCEPT !.pos = d.pos + got]
      OBVIOUS
    <3>3. e.file = d.file /\ e.pos = d.pos + got
      BY <3>1, <3>2 DEF DescriptorRecord
    <3>4. fds' = [fds EXCEPT ![p] = (@ \ {d}) \cup {e}]
      BY <2>5, <3>2 DEF Moved
    <3>5. QED
      BY <3>3, <3>4, TableFacts
  <2>7. \A g : Entry(g)' = Entry(g)
    BY <2>5 DEF Entry, First, Named
  <2>8. QED
    BY <2>2, <2>4, <2>5, <2>6, <2>7 DEF FileDescriptors
<1>3. QED
  BY <1>1, <1>2 DEF ReadsSome, ReadsNothing

LEMMA ToolOpens ==
  ASSUME CommandInv, NEW c \in Tools, NEW mode, c = "-r" => mode = "F_READ",
         Turn(Shell, {c}, "start"), Open(Shell, cmd[Shell].src, mode),
         With(Shell, "read", "fd", Opened(Shell, cmd[Shell].src, mode)),
         UNCHANGED <<cpu, timer, cut>>
  PROVE  CommandInv'
<1> DEFINE n == Opened(Shell, cmd[Shell].src, mode)
<1>1. Turn(Shell, Tools, "start") /\ cmd[Shell].name = c
  BY DEF Turn
<1>2. /\ Shell \in Proc /\ cmd[Shell].stage = "start" /\ host = "catFlatFat"
      /\ cmd[Shell].src \in Name /\ cmd \in [Proc -> Command]
      /\ CallInv /\ Standard /\ Rested
      /\ ~cut /\ closed = {} => TableFits(Shell, cmd[Shell])
  BY <1>1, ToolTurn
<1>3. /\ Keeps(Shell) /\ n \in (-1 .. MaxNumber) \ {0} /\ (n > 1 => 1 \in Numbers(Shell))
      /\ Numbers(Shell)' \subseteq Numbers(Shell) \cup {n}
      /\ Numbers(Shell) \subseteq Numbers(Shell)' /\ Numbers(Shell)' \subseteq Nat
      /\ stored' = files' \/ (mode = "F_READ" /\ files' = files /\ stored' = stored)
  BY <1>2, OpenEffect
<1>4. With(Shell, "read", "fd", n)
  OBVIOUS
<1> HIDE DEF n
<1>5. Advances(Shell, "read") /\ cmd'[Shell].fd = n /\ cmd'[Shell].to = cmd[Shell].to
  BY <1>2, <1>3, <1>4, WithFd DEF Stages
<1>6. Rested'
  <2>1. stored = files
    BY <1>2 DEF Rested, AtRest
  <2>2. host' = "catFlatFat" /\ cmd'[Shell].name = c
    BY <1>1, <1>2, <1>5 DEF Advances, cpu
  <2>3. ASSUME c = "-r"
        PROVE  \A d \in FileDescriptors(Shell)' : d.pos <= Entry(d.file)'.size
    <3>1. \A d \in FileDescriptors(Shell) : d.pos <= Entry(d.file).size
      BY <1>1, <1>2, <2>3 DEF Rested, Within
    <3>2. Open(Shell, cmd[Shell].src, "F_READ")
      BY <2>3
    <3>3. QED
      BY <1>2, <3>1, <3>2, ReaderOpens
  <2>4. Within'
    BY <2>2, <2>3 DEF Within
  <2>5. QED
    BY <2>1, <2>4, <1>3 DEF Rested
<1>7. ASSUME ~cut, closed = {}
      PROVE  /\ Numbers(Shell)' \subseteq Nat /\ 0 \in Numbers(Shell)'
             /\ cmd'[Shell].fd > 1 => 1 \in Numbers(Shell)'
  <2>1. Numbers(Shell) \subseteq {0, 1} /\ 0 \in Numbers(Shell)
    BY <1>2, <1>7, LoopTable DEF Outside
  <2>2. QED
    BY <2>1, <1>3, <1>5
<1>8. QED
  BY <1>1, <1>3, <1>5, <1>6, <1>7, ToolStep


LEMMA ToolKeeps ==
  ASSUME CommandInv, Tool
  PROVE  CommandInv'
<1> DEFINE k == cmd[Shell].fd
<1>1. CASE \E c \in DOMAIN ToolMode :
             /\ Turn(Shell, {c}, "start")
             /\ Open(Shell, cmd[Shell].src, ToolMode[c])
             /\ With(Shell, "read", "fd", Opened(Shell, cmd[Shell].src, ToolMode[c]))
             /\ UNCHANGED <<cpu, timer, cut>>
  <2>1. PICK c \in DOMAIN ToolMode :
          /\ Turn(Shell, {c}, "start")
          /\ Open(Shell, cmd[Shell].src, ToolMode[c])
          /\ With(Shell, "read", "fd", Opened(Shell, cmd[Shell].src, ToolMode[c]))
          /\ UNCHANGED <<cpu, timer, cut>>
    BY <1>1
  <2>2. c \in Tools
    BY DEF ToolMode, Tools
  <2>3. PICK mode : mode = ToolMode[c]
    OBVIOUS
  <2>4. /\ Open(Shell, cmd[Shell].src, mode)
        /\ With(Shell, "read", "fd", Opened(Shell, cmd[Shell].src, mode))
    BY <2>1, <2>3
  <2>5. c = "-r" => mode = "F_READ"
    BY <2>3 DEF ToolMode
  <2>6. QED
    BY <2>1, <2>2, <2>4, <2>5, ToolOpens
<1>2. CASE Typed
  <2>1. PICK st2 \in {"write", "close"} : At(Shell, st2)
    BY <1>2 DEF Typed
  <2>2. /\ Turn(Shell, Tools, "read") /\ UNCHANGED <<cpu, timer, cut>>
        /\ cmd[Shell].name # "-r"
        /\ stored' = files /\ UNCHANGED <<files, fat, data, fds, harm>>
    BY <1>2 DEF Typed, FileTurn, Turn, Tools, StoresOnly
  <2>3. /\ Shell \in Proc /\ cmd \in [Proc -> Command] /\ CallInv /\ Standard
        /\ host = "catFlatFat"
    BY <2>2, ToolTurn
  <2>4. Keeps(Shell) /\ Numbers(Shell)' = Numbers(Shell)
    BY <2>2, <2>3, NothingChanged
  <2>5. Advances(Shell, st2) /\ cmd'[Shell].fd = k /\ cmd'[Shell].to = cmd[Shell].to
    BY <2>1, <2>3, AtFacts DEF Stages
  <2>6. Rested'
    <3>1. host' = "catFlatFat" /\ cmd'[Shell].name # "-r"
      BY <2>2, <2>3, <2>5 DEF Advances, cpu
    <3>2. QED
      BY <2>2, <3>1 DEF Rested, Within
  <2>7. ~cut /\ closed = {} =>
          /\ Numbers(Shell)' \subseteq Nat /\ 0 \in Numbers(Shell)'
          /\ cmd'[Shell].fd > 1 => 1 \in Numbers(Shell)'
    BY <2>2, <2>4, <2>5, ToolUses
  <2>8. QED
    BY <2>2, <2>4, <2>5, <2>6, <2>7, ToolStep
<1>3. CASE /\ Turn(Shell, {"-w", "-a"}, "write")
           /\ Writes(Shell, k, 1)
           /\ At(Shell, "read")
           /\ UNCHANGED <<cpu, timer, cut>>
  <2>1. Turn(Shell, Tools, "write") /\ cmd[Shell].name # "-r"
    BY <1>3 DEF Turn, Tools
  <2>2. /\ Shell \in Proc /\ cmd \in [Proc -> Command] /\ CallInv /\ Standard
        /\ host = "catFlatFat"
    BY <2>1, ToolTurn
  <2>3. Keeps(Shell) /\ Numbers(Shell)' = Numbers(Shell)
    <3>1. 1 \in Nat \ {0}
      OBVIOUS
    <3>2. QED
      BY <1>3, <2>2, <3>1, WriteEffect
  <2>4. Advances(Shell, "read") /\ cmd'[Shell].fd = k /\ cmd'[Shell].to = cmd[Shell].to
    BY <1>3, <2>2, AtFacts DEF Stages
  <2>5. Rested'
    <3>1. cmd'[Shell].stage = "read" /\ cmd'[Shell].name # "-r" /\ host' = "catFlatFat"
      BY <1>3, <2>1, <2>2, <2>4 DEF Advances, cpu
    <3>2. QED
      BY <3>1 DEF Rested, AtRest, Within
  <2>6. ~cut /\ closed = {} =>
          /\ Numbers(Shell)' \subseteq Nat /\ 0 \in Numbers(Shell)'
          /\ cmd'[Shell].fd > 1 => 1 \in Numbers(Shell)'
    BY <2>1, <2>3, <2>4, ToolUses
  <2>7. QED
    BY <1>3, <2>1, <2>3, <2>4, <2>5, <2>6, ToolStep
<1>4. CASE /\ Turn(Shell, {"-r"}, "read")
           /\ \/ /\ \E got \in 1 .. FAT_WIDTH : ReadsSome(Shell, k, got)
                 /\ At(Shell, "read")
              \/ ReadsNothing(Shell, k) /\ At(Shell, "close")
           /\ UNCHANGED <<cpu, timer, cut>>
  <2>1. PICK st2 \in {"read", "close"} : At(Shell, st2)
    BY <1>4
  <2>2. Turn(Shell, Tools, "read") /\ cmd[Shell].name = "-r"
    BY <1>4 DEF Turn, Tools
  <2>3. /\ Shell \in Proc /\ cmd \in [Proc -> Command] /\ CallInv /\ Standard /\ Rested
        /\ host = "catFlatFat" /\ k \in (-1 .. MaxNumber) \ {0}
    BY <2>2, ToolTurn
  <2>4. Keeps(Shell) /\ Numbers(Shell)' = Numbers(Shell)
    <3>1. ReadsAny(Shell, k)
      BY <1>4 DEF ReadsAny
    <3>2. QED
      BY <2>3, <3>1, ReadEffect
  <2>5. Advances(Shell, st2) /\ cmd'[Shell].fd = k /\ cmd'[Shell].to = cmd[Shell].to
    BY <2>1, <2>3, AtFacts DEF Stages
  <2>6. Rested'
    <3>1. stored = files /\ \A d \in FileDescriptors(Shell) : d.pos <= Entry(d.file).size
      BY <2>2, <2>3 DEF Rested, AtRest, Within
    <3>2. (\E got : ReadsSome(Shell, k, got)) \/ ReadsNothing(Shell, k)
      BY <1>4
    <3>3. /\ files' = files /\ stored' = stored
          /\ \A d \in FileDescriptors(Shell)' : d.pos <= Entry(d.file)'.size
      BY <2>3, <3>1, <3>2, ReaderReads
    <3>4. host' = "catFlatFat"
      BY <1>4, <2>3 DEF cpu
    <3>5. QED
      BY <3>1, <3>3, <3>4 DEF Rested, Within
  <2>7. ~cut /\ closed = {} =>
          /\ Numbers(Shell)' \subseteq Nat /\ 0 \in Numbers(Shell)'
          /\ cmd'[Shell].fd > 1 => 1 \in Numbers(Shell)'
    BY <2>2, <2>4, <2>5, ToolUses
  <2>8. QED
    BY <1>4, <2>2, <2>4, <2>5, <2>6, <2>7, ToolStep
<1>5. QED
  BY <1>1, <1>2, <1>3, <1>4, FileTurns DEF Tool

-------------------------------------------------------------------------------
(* The theorems.                                                             *)

LEMMA CommandInvHolds == CommandsSpec => []CommandInv
<1>1. InitCommands => CommandInv
  BY InitKeeps
<1>2. ASSUME CommandInv, [NextCommands]_commandVars
      PROVE  CommandInv'
  <2>1. CASE \E p \in Jobs : Touch(p) \/ Rm(p) \/ Cat(p) \/ Close(p) \/ Exit(p)
    BY <1>2, <2>1, TouchKeeps, RmKeeps, CatKeeps, CloseKeeps, ExitKeeps
  <2>2. CASE Opens(Shell) \/ Copies(Shell) \/ CpEnds(Shell) \/ MvEnds(Shell)
    BY <1>2, <2>2, OpensKeeps, CopiesKeeps, CpEndsKeeps, MvEndsKeeps
  <2>3. CASE Wait \/ Prompt
    BY <1>2, <2>3, WaitKeeps, PromptKeeps
  <2>4. CASE \E p \in Jobs, c \in Commands, f \in Name : Spawn(p, c, f)
    BY <1>2, <2>4, SpawnKeeps
  <2>5. CASE \E f \in Name : Redirects(f) \/ Copy(f) \/ \E g \in Name : Move(f, g)
    BY <1>2, <2>5, RedirectsKeeps, CopyKeeps, MoveKeeps
  <2>6. CASE (\E p \in Proc : Switch(p)) \/ Interrupt
    BY <1>2, <2>6, SwitchKeeps, InterruptKeeps
  <2>7. CASE HostEnds \/ StartPennOS \/ Tool
    BY <1>2, <2>7, HostEndsKeeps, StartPennOSKeeps, ToolKeeps
  <2>8. CASE \E c \in Commands, f \in Name : StartTool(c, f)
    BY <1>2, <2>8, StartToolKeeps
  <2>9. CASE UNCHANGED commandVars
    <3>1. /\ UNCHANGED <<image, host, closed, cmd>>
          /\ host' = host /\ timer' = timer /\ cut' = cut /\ cmd' = cmd /\ closed' = closed
          /\ running' = running /\ files' = files /\ stored' = stored /\ fds' = fds
      BY <2>9 DEF commandVars, cpu, image
    <3>2. HasCpu' /\ HostRuns' /\ AtRest' = AtRest
      BY <1>2, <3>1 DEF CommandInv, HasCpu, HostRuns, AtRest, Inside
    <3>3. Within' = Within
      BY <3>1 DEF Within, FileDescriptors, Entry, First, Named
    <3>4. Rested'
      BY <1>2, <3>1, <3>2, <3>3 DEF CommandInv, Rested
    <3>5. QED
      BY <1>2, <3>1, <3>2, <3>4, Unchanged DEF CommandInv
  <2>10. QED
    BY <1>2, <2>1, <2>2, <2>3, <2>4, <2>5, <2>6, <2>7, <2>8, <2>9
       DEF NextCommands, CommandStep
<1>3. QED
  BY <1>1, <1>2, PTL DEF CommandsSpec

\* The commands make the calls as f_open, f_write and the others expect them to
\* be made, so what FlatFat promises of calls holds of them as well: no command
\* gets two files one name, a file into block 0, or leaves a descriptor on a file
\* that is gone; and until one has written over the table, no link goes to block
\* 0 or anywhere but to a block.
THEOREM CommandsMakeGoodCalls ==
  CommandsSpec => [](TypeOK /\ RootBlockPrivate /\ NamesDistinct /\ DescriptorsLive)
BY CommandInvHolds, CallInvSays, PTL DEF CommandInv

\* No command, however it is cut off, asks for a descriptor number beyond the
\* table, and strlen of cat's buffer goes one byte behind it at most.
THEOREM CommandTypes == CommandsSpec => []CommandsTypeOK
<1>1. CommandInv => CommandsTypeOK
  <2>1. SUFFICES ASSUME CommandInv
                 PROVE  CommandsTypeOK
    OBVIOUS
  <2>2. ASSUME NEW p \in Proc
        PROVE  /\ cmd[p].src \in Name \cup {Terminal}
               /\ cmd[p].fd \in -1 .. MaxNumber /\ cmd[p].to \in -1 .. MaxNumber
               /\ cmd[p].filled \in 0 .. FAT_WIDTH + 1
    <3>1. cmd[p] \in Command
      BY <2>1 DEF CommandInv
    <3>2. QED
      BY <3>1 DEF Command
  <2>3. QED
    BY <2>1, <2>2 DEF CommandInv, HostRuns, CommandsTypeOK
<1>2. QED
  BY <1>1, CommandInvHolds, PTL

\* Two processes are never both inside a command unless the timer was armed
\* there: the calls that pause it are lock enough.
THEOREM CommandsNeverOverlap == CommandsSpec => []CommandsSerial
<1>1. CommandInv => CommandsSerial
  BY DEF CommandInv, HasCpu, CommandsSerial
<1>2. QED
  BY <1>1, CommandInvHolds, PTL

\* At its prompt, until mv has closed the image, and after the input of
\* catFlatFat, what is on disk is the directory: a kill there loses nothing.
THEOREM NothingLostAtRest == CommandsSpec => []RestStored
<1>1. CommandInv => RestStored
  BY DEF CommandInv, Rested, AtRest, RestStored
<1>2. QED
  BY <1>1, CommandInvHolds, PTL

\* No command but mv leaves a descriptor behind.
THEOREM CommandsCloseFiles == CommandsSpec => []CommandsClose
<1>1. CommandInv => CommandsClose
  <2>1. SUFFICES ASSUME CommandInv, ~cut, closed = {}, NEW p \in Proc, ~Inside(p)
                 PROVE  Numbers(p) \subseteq {0, 1}
    BY DEF CommandsClose
  <2>2. TableFits(p, cmd[p])
    BY <2>1 DEF CommandInv, TablesFit
  <2>3. Held(cmd[p]) = {}
    BY <2>1, HeldFacts DEF Inside
  <2>4. QED
    BY <2>2, <2>3 DEF TableFits
<1>2. QED
  BY <1>1, CommandInvHolds, PTL


-------------------------------------------------------------------------------
(* What writes leave of the table.                                           *)

\* u has the links of t, and maybe more.
KeepsLinks(t, u) == \A b \in Block : t[b] # END => u[b] = t[b]

\* Then every walk comes by the same blocks.
LEMMA LinksKeptWalk ==
  ASSUME NEW t, NEW u, KeepsLinks(t, u), NEW s
  PROVE  \A k \in Nat : Walk(t, s, k) \in Block => Walk(u, s, k) = Walk(t, s, k)
<1> DEFINE S == {k \in Nat : Walk(t, s, k) \in Block => Walk(u, s, k) = Walk(t, s, k)}
<1>1. 0 \in S
  BY WalkZero
<1>2. ASSUME NEW k \in Nat, k \in S
      PROVE  k + 1 \in S
  <2>1. SUFFICES ASSUME Walk(t, s, k + 1) \in Block
                 PROVE  Walk(u, s, k + 1) = Walk(t, s, k + 1)
    OBVIOUS
  <2>2. PICK b : b = Walk(t, s, k)
    OBVIOUS
  <2>3. b \in Block /\ t[b] = Walk(t, s, k + 1) /\ t[b] # END
    BY <2>1, <2>2, WalkNext, BlockFacts
  <2>4. Walk(u, s, k) = b
    BY <1>2, <2>2, <2>3
  <2>5. Walk(u, s, k + 1) = u[b]
    BY <2>3, <2>4, WalkNext
  <2>6. QED
    BY <2>3, <2>5 DEF KeepsLinks
<1>3. Nat \subseteq S
  <2> HIDE DEF S
  <2>1. QED
    BY <1>1, <1>2, SetInduction
<1>4. QED
  BY <1>3

\* w: a write to file number i that began in the last block of its chain, or
\* behind it.
Extends(i, w) ==
  /\ Apart(files, w.fat) /\ FreeUnlinked(files, w.fat) /\ KeepsLinks(fat, w.fat)
  /\ LastAt(w.fat, files[i].start, w.pos)
  /\ IF w.done THEN w.pos <= w.size
               ELSE w.at = Walk(w.fat, files[i].start, w.pos \div FAT_WIDTH)

\* A pass that ends the call leaves the position at the size, or before it.
LEMMA EndsCallSize ==
  ASSUME NEW f, NEW w \in WriteRecord, NEW v, EndsCall(f, w, v)
  PROVE  v.pos <= v.size
<1>1. w.pos \in Nat /\ w.left \in Nat /\ w.size \in Nat /\ v.pos = w.pos + Portion(w)
      /\ v.size = IF v.pos > w.size THEN v.pos ELSE w.size
  BY DEF WriteRecord, EndsCall
<1>2. PICK pos \in Nat : pos = w.pos
  BY <1>1
<1>3. pos % FAT_WIDTH \in 0 .. FAT_WIDTH - 1
  BY GeometryAssumption
<1>4. Portion(w) \in Nat
  BY <1>1, <1>2, <1>3, GeometryAssumption DEF Portion
<1>5. PICK n \in Nat, a \in {v.size}, b \in {w.size} : n = v.pos
  BY <1>1, <1>4
<1>6. b \in Nat /\ a = IF n > b THEN n ELSE b
  BY <1>1, <1>5
<1>7. QED
  BY <1>5, <1>6

LEMMA EndsCallExtends ==
  ASSUME NEW i, NEW w \in WriteRecord, Extends(i, w), NEW v, EndsCall(files[i].name, w, v)
  PROVE  Extends(i, v)
<1> DEFINE s == files[i].start
<1>1. PICK pos \in Nat, n \in Nat : pos = w.pos /\ n = Portion(w) /\ v.pos = pos + n
                                    /\ (pos % FAT_WIDTH) + n <= FAT_WIDTH
                                    /\ (Fits(w) => (pos % FAT_WIDTH) + n < FAT_WIDTH)
  <2>1. w.pos \in Nat /\ w.left \in Nat /\ w.left > 0 /\ v.pos = w.pos + Portion(w)
    BY DEF WriteRecord, EndsCall
  <2>2. PICK pos \in Nat, left \in Nat : pos = w.pos /\ left = w.left
    BY <2>1
  <2>3. pos % FAT_WIDTH \in 0 .. FAT_WIDTH - 1
    BY GeometryAssumption
  <2>4. Portion(w) \in Nat /\ (pos % FAT_WIDTH) + Portion(w) <= FAT_WIDTH
        /\ (Fits(w) => (pos % FAT_WIDTH) + Portion(w) < FAT_WIDTH)
    BY <2>1, <2>2, <2>3, GeometryAssumption DEF Portion, Fits
  <2>5. QED
    BY <2>1, <2>2, <2>4
<1>2. PICK a : a = w.at
  OBVIOUS
<1>3. v.fat = w.fat /\ v.done = TRUE /\ a \in Block /\ ~w.done
  BY <1>2 DEF EndsCall
<1>4. PICK q \in Nat : q = pos \div FAT_WIDTH
  BY DivMod
<1>5. a = Walk(w.fat, s, q) /\ w.fat[a] = END
  BY <1>1, <1>2, <1>3, <1>4 DEF Extends, LastAt
<1>6. (pos + n) \div FAT_WIDTH = q \/ (pos + n) \div FAT_WIDTH = q + 1
  <2>1. PICK off \in Nat : off = pos % FAT_WIDTH
    BY GeometryAssumption
  <2>2. off + n < FAT_WIDTH \/ off + n = FAT_WIDTH
    BY <1>1, <2>1, GeometryAssumption
  <2>3. QED
    BY <1>4, <2>1, <2>2, PositionFacts
<1>7. LastAt(w.fat, s, v.pos)
  <2>1. CASE (pos + n) \div FAT_WIDTH = q
    BY <1>1, <1>5, <2>1 DEF LastAt
  <2>2. CASE (pos + n) \div FAT_WIDTH = q + 1
    <3>1. Walk(w.fat, s, q + 1) = END
      BY <1>3, <1>5, WalkNext
    <3>2. QED
      BY <1>1, <2>2, <3>1, BlockFacts DEF LastAt
  <2>3. QED
    BY <1>6, <2>1, <2>2
<1>8. v.pos <= v.size
  BY EndsCallSize
<1>9. QED
  BY <1>3, <1>7, <1>8 DEF Extends

LEMMA LinksNextExtends ==
  ASSUME files \in Directory, NEW i \in DOMAIN files, NEW w \in WriteRecord, Extends(i, w),
         w.fat \in Table, NEW v, LinksNext(files[i].name, w, v)
  PROVE  Extends(i, v)
<1> DEFINE s == files[i].start
<1>1. PICK pos \in Nat, n \in Nat : pos = w.pos /\ n = Portion(w) /\ v.pos = pos + n
                                    /\ (pos % FAT_WIDTH) + n = FAT_WIDTH
  <2>1. w.pos \in Nat /\ w.left \in Nat /\ v.pos = w.pos + Portion(w) /\ ~Fits(w)
    BY DEF WriteRecord, LinksNext
  <2>2. PICK pos \in Nat : pos = w.pos
    BY <2>1
  <2>3. pos % FAT_WIDTH \in 0 .. FAT_WIDTH - 1
    BY GeometryAssumption
  <2>4. Portion(w) \in Nat /\ (pos % FAT_WIDTH) + Portion(w) = FAT_WIDTH
    BY <2>1, <2>2, <2>3, GeometryAssumption DEF Portion
  <2>5. QED
    BY <2>1, <2>2, <2>4
<1>2. PICK a, b, t, u : a = w.at /\ b = DetermineBlock(files, w.fat) /\ t = w.fat /\ u = v.fat
  OBVIOUS
<1>3. /\ u = [t EXCEPT ![a] = b] /\ v.at = b /\ b # MEMFULL /\ a \in Block /\ ~w.done
      /\ t \in Table /\ ~v.done
  BY <1>2 DEF LinksNext
<1>4. b \in Block /\ b \notin InUse(files, t)
  BY <1>2, <1>3, DirectoryFacts, DetermineBlockFacts
<1>5. u \in Table /\ u[a] = b /\ \A c \in Block : c # a => u[c] = t[c]
  BY <1>3, <1>4 DEF Table
<1>6. PICK q \in Nat : q = pos \div FAT_WIDTH
  BY DivMod
<1>7. a = Walk(t, s, q) /\ t[a] = END
  BY <1>1, <1>2, <1>3, <1>6 DEF Extends, LastAt
<1>8. Apart(files, t) /\ FreeUnlinked(files, t) /\ KeepsLinks(fat, t)
  BY <1>2 DEF Extends
<1>9. /\ Apart(files, u) /\ FreeUnlinked(files, u)
      /\ Walk(u, s, q + 1) = b /\ u[b] = END
  <2>1. /\ a = Walk(t, files[i].start, q) /\ a \in Block /\ t \in Table
        /\ files \in Directory /\ i \in DOMAIN files
    BY <1>3, <1>7
  <2> HIDE DEF s
  <2>2. /\ Apart(files, u) /\ FreeUnlinked(files, u)
        /\ Walk(u, files[i].start, q + 1) = b /\ u[b] = END
    BY ONLY <2>1, <1>4, <1>5, <1>6, <1>7, <1>8, LinkKeeps
  <2>3. QED
    BY <2>2 DEF s
<1>10. v.pos \div FAT_WIDTH = q + 1
  BY <1>1, <1>6, PositionFacts
<1>11. LastAt(u, s, v.pos) /\ v.at = Walk(u, s, v.pos \div FAT_WIDTH)
  BY <1>3, <1>9, <1>10 DEF LastAt
<1>12. KeepsLinks(fat, u)
  <2>1. ASSUME NEW c \in Block, fat[c] # END
        PROVE  u[c] = fat[c]
    BY <2>1, <1>5, <1>7, <1>8 DEF KeepsLinks
  <2>2. QED
    BY <2>1 DEF KeepsLinks
<1>13. QED
  BY <1>2, <1>3, <1>9, <1>11, <1>12 DEF Extends

\* What a write in the blocks of file number i makes of the table up to total.
WriteOf(i, total) == Passes(GoodTables, files[i].size, data[END], total)

LEMMA WriteOfFacts ==
  ASSUME CallInv, ~Spilled, NEW i \in DOMAIN files, NEW pos \in Nat, NEW numb \in Nat,
         pos + numb <= MaxSize, WalkEnd(files[i].name, pos) \in Block
  PROVE  /\ files[i].name \in NamesOf(files) /\ Entry(files[i].name) = files[i]
         /\ files \in Directory
         /\ FirstPass(files[i].name, pos, numb) \in WriteOf(i, pos + numb)
         /\ \A w \in WriteOf(i, pos + numb) :
              /\ w \in WriteRecord /\ w.fat \in Table
              /\ WritePass(files[i].name, w) \in WriteOf(i, pos + numb)
<1>1. /\ files \in Directory /\ GoodDirectory(files) /\ fat \in GoodTables /\ fat \in Links
      /\ data \in Bytes
  BY KindFacts DEF CallInv, GoodDirectory, TableKind
<1>2. PICK f : f = files[i].name
  OBVIOUS
<1>3. f \in NamesOf(files) /\ Entry(f) = files[i]
  <2>1. f \in NamesOf(files)
    BY <1>2 DEF NamesOf
  <2>2. QED
    BY <1>1, <1>2, <2>1, EntryFacts DEF GoodDirectory
<1>4. files[i].size \in Nat /\ pos + numb \in Nat
  BY <1>1, DirectoryFacts, LengthsAssumption
<1>5. FirstPass(f, pos, numb) \in WriteOf(i, pos + numb)
  BY <1>1, <1>2, <1>3, FirstPassType DEF WriteOf
<1>6. ASSUME NEW w \in WriteOf(i, pos + numb)
      PROVE  /\ w \in WriteRecord /\ w.fat \in Table
             /\ WritePass(f, w) \in WriteOf(i, pos + numb)
  <2>1. w \in WriteRecord /\ w.fat \in Table
    BY <1>6 DEF WriteOf, Passes, GoodTables
  <2>2. WritePass(f, w) \in WriteOf(i, pos + numb)
    BY <1>1, <1>3, <1>4, PassType DEF WriteOf
  <2>3. QED
    BY <2>1, <2>2
<1>7. QED
  BY <1>1, <1>2, <1>3, <1>5, <1>6

LEMMA KWriteExtends ==
  ASSUME CallInv, ~Spilled, Apart(files, fat), FreeUnlinked(files, fat),
         NEW i \in DOMAIN files,
         NEW pos \in Nat, NEW numb \in Nat, pos + numb <= MaxSize,
         WalkEnd(files[i].name, pos) \in Block, LastAt(fat, files[i].start, pos)
  PROVE  LET w == KWrite(files[i].name, pos, numb)
         IN  w \in WriteRecord /\ Extends(i, w)
<1> DEFINE f == files[i].name
           I == {w \in WriteOf(i, pos + numb) : Extends(i, w)}
<1>1. files \in Directory /\ Entry(f) = files[i]
  BY WriteOfFacts
<1>2. FirstPass(f, pos, numb) \in WriteOf(i, pos + numb)
  BY WriteOfFacts
<1>3. FirstPass(f, pos, numb) \in I
  <2>1. PICK w : w = FirstPass(f, pos, numb)
    OBVIOUS
  <2>2. /\ w.fat = fat /\ w.pos = pos /\ ~w.done
        /\ w.at = Walk(fat, files[i].start, pos \div FAT_WIDTH)
    BY <2>1, <1>1 DEF FirstPass, WalkEnd
  <2>3. Extends(i, w)
    BY <2>2 DEF Extends, KeepsLinks
  <2>4. QED
    BY <1>2, <2>1, <2>3
<1>4. ASSUME NEW w \in I
      PROVE  WritePass(f, w) \in I
  <2>1. w \in WriteOf(i, pos + numb) /\ w \in WriteRecord /\ w.fat \in Table /\ Extends(i, w)
    BY WriteOfFacts
  <2>2. PICK v : v = WritePass(f, w)
    OBVIOUS
  <2> HIDE DEF I
  <2>3. v \in WriteOf(i, pos + numb)
    BY <2>1, <2>2, WriteOfFacts
  <2>4. v = w \/ EndsCall(f, w, v) \/ LinksNext(f, w, v)
    BY <2>1, <2>2, PassCases, Zenon
  <2>5. Extends(i, v)
    <3>1. CASE v = w
      BY <3>1, <2>1
    <3>2. CASE EndsCall(f, w, v)
      BY <3>2, <2>1, EndsCallExtends
    <3>3. CASE LinksNext(f, w, v)
      BY <3>3, <1>1, <2>1, LinksNextExtends
    <3>4. QED
      BY <2>4, <3>1, <3>2, <3>3
  <2>6. QED
    BY <2>2, <2>3, <2>5 DEF I
<1>5. KWrite(f, pos, numb) \in I
  <2> HIDE DEF I, f
  <2>1. QED
    BY <1>3, <1>4, KWriteInduction
<1>6. QED
  BY <1>5, WriteOfFacts

\* A walk up to k goes over the same blocks if no link of an earlier one changes.
ButFor(a, t, u) == \A c \in Block : c # a => u[c] = t[c]
Before(t, s, k, a) == \A i \in 0 .. k : i < k => Walk(t, s, i) # a
SamePrefix(t, u, s, k) == \A i \in 0 .. k : Walk(u, s, i) = Walk(t, s, i)

LEMMA PrefixKept ==
  ASSUME NEW t, NEW u, NEW s, NEW k \in Nat, NEW a,
         ButFor(a, t, u), Before(t, s, k, a)
  PROVE  SamePrefix(t, u, s, k)
<1> DEFINE S == {i \in Nat : i <= k => Walk(u, s, i) = Walk(t, s, i)}
<1>1. 0 \in S
  BY WalkZero
<1>2. ASSUME NEW i \in Nat, i \in S
      PROVE  i + 1 \in S
  <2>1. SUFFICES ASSUME i + 1 <= k
                 PROVE  Walk(u, s, i + 1) = Walk(t, s, i + 1)
    OBVIOUS
  <2>2. Walk(u, s, i) = Walk(t, s, i) /\ i \in 0 .. k /\ i < k
    BY <1>2, <2>1
  <2>3. QED
    BY <2>2, WalkNext DEF ButFor, Before
<1>3. Nat \subseteq S
  <2> HIDE DEF S
  <2>1. QED
    BY <1>1, <1>2, SetInduction
<1>4. QED
  BY <1>3 DEF SamePrefix

\* w: a write to a file that began at pos, k links behind block s, short of the
\* end of the chain: nothing is linked yet, or a link of the chain is replaced.
Cuts(s, k, pos, w) ==
  \/ /\ w.fat = fat /\ w.at = Walk(fat, s, k)
     /\ IF w.done THEN w.pos <= w.size ELSE w.pos = pos
  \/ /\ w.fat[Walk(fat, s, k)] \notin {END, fat[Walk(fat, s, k)]}
     /\ SamePrefix(fat, w.fat, s, k)
     /\ \A i \in 0 .. k : Walk(fat, s, i) # w.at

LEMMA LinksNextCuts ==
  ASSUME CallInv, ~Spilled, Apart(files, fat), NEW i \in DOMAIN files,
         NEW k \in 0 .. NUM_BLOCKS - 1, NEW pos,
         Walk(fat, files[i].start, k) \in Block, fat[Walk(fat, files[i].start, k)] # END,
         NEW w \in WriteRecord, w.fat \in Table, Cuts(files[i].start, k, pos, w),
         NEW v, LinksNext(files[i].name, w, v)
  PROVE  Cuts(files[i].start, k, pos, v)
<1> DEFINE s == files[i].start
<1>1. PICK c, b, t, u : /\ c = Walk(fat, s, k) /\ t = w.fat /\ u = v.fat
                        /\ b = DetermineBlock(files, t)
  OBVIOUS
<1>2. PICK a : a = w.at
  OBVIOUS
<1>3. u = [t EXCEPT ![a] = b] /\ v.at = b /\ b # MEMFULL /\ a \in Block /\ t \in Table
  BY <1>1, <1>2 DEF LinksNext
<1>4. files \in Directory /\ files \in Seq(FileRecord) /\ fat \in Table
  BY DirectoryFacts DEF CallInv, GoodDirectory, TableKind, GoodTables
<1>5. b \in Block /\ b \notin InUse(files, t)
  BY <1>1, <1>3, <1>4, DetermineBlockFacts
<1>6. u[a] = b /\ \A d \in Block : d # a => u[d] = t[d]
  BY <1>3, <1>5 DEF Table
<1>7. k \in Nat /\ \A j \in 0 .. k : j \in 0 .. NUM_BLOCKS - 1 /\ j \in Nat
  BY BlockFacts
<1>8. \A j \in 0 .. k : Walk(t, s, j) # b
  <2>1. SUFFICES ASSUME NEW j \in 0 .. k, Walk(t, s, j) = b
                 PROVE  FALSE
    OBVIOUS
  <2>2. b \in Chain(t, s)
    BY <2>1, <1>5, <1>7 DEF Chain
  <2>3. QED
    BY <2>2, <1>4, <1>5, InUseFacts
<1>9. CASE t = fat /\ a = c
  <2>1. \A j \in 0 .. k : j < k => Walk(t, s, j) # a
    <3>1. ~Cyclic(fat, s)
      BY DEF Apart
    <3>2. \A j \in 0 .. k : j < k => Walk(fat, s, j) # c
      BY <3>1, <1>1, <1>7, ChainInjective
    <3>3. QED
      BY <3>2, <1>9
  <2>2. \A j \in 0 .. k : Walk(u, s, j) = Walk(t, s, j)
    <3>1. SamePrefix(t, u, s, k)
      <4>1. k \in Nat /\ ButFor(a, t, u) /\ Before(t, s, k, a)
        BY <2>1, <1>6, <1>7 DEF ButFor, Before
      <4>2. QED
        BY <4>1, PrefixKept
    <3>2. QED
      BY <3>1 DEF SamePrefix
  <2>3. fat[c] \in InUse(files, fat)
    <3>1. Walk(fat, s, k + 1) = fat[c] /\ fat[c] \in Block
      BY <1>1, <1>4, <1>7, WalkNext DEF Table
    <3>2. ~Cyclic(fat, s)
      BY DEF Apart
    <3>3. fat[c] \in Chain(fat, s)
      BY <3>1, <3>2, <1>7, ChainIsWalk
    <3>4. QED
      BY <3>3, <1>4, InUseFacts
  <2>4. u[c] # END /\ u[c] # fat[c]
    BY <2>3, <1>5, <1>6, <1>9, BlockFacts
  <2>5. QED
    BY <2>2, <2>4, <1>1, <1>3, <1>8, <1>9 DEF Cuts, SamePrefix
<1>10. CASE /\ t[c] \notin {END, fat[c]}
            /\ \A j \in 0 .. k : Walk(t, s, j) = Walk(fat, s, j) /\ Walk(fat, s, j) # a
  <2>1. \A j \in 0 .. k : Walk(u, s, j) = Walk(t, s, j)
    <3>1. SamePrefix(t, u, s, k)
      <4>1. k \in Nat /\ ButFor(a, t, u) /\ Before(t, s, k, a)
        BY <1>6, <1>7, <1>10 DEF ButFor, Before
      <4>2. QED
        BY <4>1, PrefixKept
    <3>2. QED
      BY <3>1 DEF SamePrefix
  <2>2. u[c] = t[c]
    BY <1>1, <1>6, <1>7, <1>10
  <2>3. QED
    BY <2>1, <2>2, <1>1, <1>3, <1>8, <1>10 DEF Cuts, SamePrefix
<1>11. QED
  BY <1>1, <1>2, <1>9, <1>10 DEF Cuts, SamePrefix

\* A write that begins short of the end of its chain leaves the table, and ends
\* in a block or at the size; or it replaces the link there.
LEMMA KWriteCuts ==
  ASSUME CallInv, ~Spilled, Apart(files, fat), NEW i \in DOMAIN files,
         NEW pos \in Nat, NEW numb \in Nat, pos + numb <= MaxSize,
         WalkEnd(files[i].name, pos) \in Block, ~LastAt(fat, files[i].start, pos)
  PROVE  LET w == KWrite(files[i].name, pos, numb)
         IN  \/ /\ w.fat = fat
                /\ \/ w.pos <= w.size
                   \/ Walk(fat, files[i].start, w.pos \div FAT_WIDTH) \in Block
             \/ \E b \in Block : fat[b] # END /\ w.fat[b] \notin {END, fat[b]}
<1> DEFINE f == files[i].name
           s == files[i].start
<1>1. files \in Directory /\ Entry(f) = files[i]
  BY WriteOfFacts
<1>2. Walk(fat, s, pos \div FAT_WIDTH) \in Block /\ fat[Walk(fat, s, pos \div FAT_WIDTH)] # END
  BY DEF LastAt
<1>3. PICK k \in 0 .. NUM_BLOCKS - 1 : Walk(fat, s, pos \div FAT_WIDTH) = Walk(fat, s, k)
  <2>1. ~Cyclic(fat, s) /\ pos \div FAT_WIDTH \in Nat
    BY DivMod DEF Apart
  <2>2. Walk(fat, s, pos \div FAT_WIDTH) \in Chain(fat, s)
    BY <1>2, <2>1, ChainIsWalk
  <2>3. QED
    BY <2>2 DEF Chain
<1> DEFINE I == {w \in WriteOf(i, pos + numb) : Cuts(s, k, pos, w)}
<1>4. FirstPass(f, pos, numb) \in WriteOf(i, pos + numb)
  BY WriteOfFacts
<1>5. FirstPass(f, pos, numb) \in I
  <2>1. PICK w : w = FirstPass(f, pos, numb)
    OBVIOUS
  <2>2. /\ w.fat = fat /\ w.at = Walk(fat, files[i].start, pos \div FAT_WIDTH)
        /\ w.pos = pos /\ ~w.done
    BY <2>1, <1>1 DEF FirstPass, WalkEnd
  <2>3. Cuts(s, k, pos, w)
    BY <2>2, <1>3 DEF Cuts
  <2>4. QED
    BY <1>4, <2>1, <2>3
<1>6. ASSUME NEW w \in I
      PROVE  WritePass(f, w) \in I
  <2>1. /\ w \in WriteOf(i, pos + numb) /\ w \in WriteRecord /\ w.fat \in Table
        /\ Cuts(s, k, pos, w)
    BY WriteOfFacts
  <2>2. PICK v : v = WritePass(f, w)
    OBVIOUS
  <2> HIDE DEF I
  <2>3. v \in WriteOf(i, pos + numb)
    BY <2>1, <2>2, WriteOfFacts
  <2>4. v = w \/ EndsCall(f, w, v) \/ LinksNext(f, w, v)
    BY <2>1, <2>2, PassCases, Zenon
  <2>5. Cuts(s, k, pos, v)
    <3>1. CASE v = w
      BY <3>1, <2>1
    <3>2. CASE EndsCall(f, w, v)
      <4>1. v.fat = w.fat /\ v.at = w.at /\ v.done
        BY <3>2 DEF EndsCall
      <4>2. v.pos <= v.size
        BY <3>2, <2>1, EndsCallSize
      <4>3. QED
        BY <4>1, <4>2, <2>1 DEF Cuts
    <3>3. CASE LinksNext(f, w, v)
      BY <3>3, <1>2, <1>3, <2>1, LinksNextCuts
    <3>4. QED
      BY <2>4, <3>1, <3>2, <3>3
  <2>6. QED
    BY <2>2, <2>3, <2>5 DEF I
<1>7. KWrite(f, pos, numb) \in I
  <2> HIDE DEF I, f
  <2>1. QED
    BY <1>5, <1>6, KWriteInduction
<1>8. PICK w : w = KWrite(f, pos, numb)
  OBVIOUS
<1>9. Cuts(s, k, pos, w)
  BY <1>7, <1>8
<1>10. \/ /\ w.fat = fat
          /\ w.pos <= w.size \/ Walk(fat, s, w.pos \div FAT_WIDTH) \in Block
       \/ \E b \in Block : fat[b] # END /\ w.fat[b] \notin {END, fat[b]}
  BY <1>2, <1>3, <1>9 DEF Cuts
<1>11. QED
  BY <1>8, <1>10

-------------------------------------------------------------------------------
(* What a call leaves of the files, if every write begins at an end.         *)

\* A file that is not on disk has one block.  A file that is on disk is in the
\* list, but for one that f_move has removed when the image was closed; its
\* first block is free then, and it comes back as one block.
Remembered ==
  /\ \A j \in DOMAIN files :
       files[j].name \notin NamesOf(stored) /\ files[j].start \in Block =>
         fat[files[j].start] = END
  /\ \E g \in Name \cup {Terminal} : \A i \in DOMAIN stored :
       IF stored[i].name = g
         THEN /\ Memory \in closed
              /\ g \notin NamesOf(files) /\ stored[i].start \notin InUse(files, fat)
         ELSE \E j \in DOMAIN files : /\ files[j].name = stored[i].name
                                      /\ files[j].start = stored[i].start

Sound == ~Spilled /\ Apart(files, fat) /\ FreeUnlinked(files, fat) /\ Remembered
Kept == Sound' /\ BlocksKept /\ ~LinkReplaced

LEMMA SoundFacts ==
  ASSUME CallInv, Sound
  PROVE  /\ files \in Directory /\ files \in Seq(FileRecord) /\ fat \in Table
         /\ stored \in Directory /\ stored \in Seq(FileRecord)
         /\ GoodDirectory(files) /\ GoodDirectory(stored)
         /\ DOMAIN files = 1 .. Len(files) /\ Len(files) \in Nat
         /\ Apart(files, fat) /\ FreeUnlinked(files, fat)
         /\ \A i \in DOMAIN files : files[i].name \in Name /\ files[i].name # Terminal
         /\ \A i \in DOMAIN stored : stored[i].name \in Name /\ stored[i].name # Terminal
<1>1. files \in Directory /\ stored \in Directory /\ fat \in Table
  BY DEF CallInv, GoodDirectory, TableKind, GoodTables, Sound
<1>2. /\ \A i \in DOMAIN files : files[i].name \in Name
      /\ \A i \in DOMAIN stored : stored[i].name \in Name
      /\ files \in Seq(FileRecord) /\ stored \in Seq(FileRecord)
      /\ DOMAIN files = 1 .. Len(files) /\ Len(files) \in Nat
  BY <1>1, DirectoryFacts
<1>3. QED
  BY <1>1, <1>2, NameAssumption DEF CallInv, Sound

\* While the image is open, the files on disk are in the list.
LEMMA OnDiskInList ==
  ASSUME CallInv, Sound, Memory \notin closed, NEW i \in DOMAIN stored
  PROVE  \E j \in DOMAIN files : files[j].name = stored[i].name /\ files[j].start = stored[i].start
BY DEF Sound, Remembered

\* After a call that stores the directory as it leaves it, all is on disk.
LEMMA StoredIsRemembered ==
  ASSUME CallInv', stored' = files'
  PROVE  Remembered'
<1>1. \A j \in DOMAIN files' : files'[j].name \in NamesOf(stored')
  BY DEF NamesOf
<1>2. \A i \in DOMAIN stored' : stored'[i].name # Terminal
  <2>1. files' \in Directory
    BY DEF CallInv, GoodDirectory
  <2>2. \A i \in DOMAIN files' : files'[i].name \in Name
    BY <2>1, DirectoryFacts
  <2>3. QED
    BY <2>2, NameAssumption
<1>3. QED
  BY <1>1, <1>2 DEF Remembered

\* A call that changes sizes only; a read may raise one.
SameEntries ==
  /\ DOMAIN files' = DOMAIN files
  /\ \A i \in DOMAIN files : /\ files'[i].name = files[i].name
                             /\ files'[i].start = files[i].start
Grown == SameEntries /\ \A i \in DOMAIN files : files[i].size <= files'[i].size

\* So it is after one that stored it as it was, if it changes sizes only.
LEMMA ResizedIsRemembered ==
  ASSUME CallInv, stored' = files, SameEntries
  PROVE  Remembered'
<1>1. \A j \in DOMAIN files' : files'[j].name \in NamesOf(stored')
  BY DEF NamesOf, SameEntries
<1>2. \A i \in DOMAIN stored' : stored'[i].name # Terminal
  <2>1. files \in Directory
    BY DEF CallInv, GoodDirectory
  <2>2. \A i \in DOMAIN files : files[i].name \in Name
    BY <2>1, DirectoryFacts
  <2>3. QED
    BY <2>2, NameAssumption
<1>3. QED
  BY <1>1, <1>2 DEF Remembered, SameEntries

\* The bytes stay if the chains do, or the file becomes shorter.
LEMMA LinksKeepBlocks ==
  ASSUME CallInv, KeepsLinks(fat, fat'), SameEntries
  PROVE  BlocksKept /\ ~LinkReplaced
<1>1. \A i, j \in DOMAIN files : files[i].name = files[j].name => i = j
  BY DEF CallInv, GoodDirectory
<1>2. ASSUME NEW i \in DOMAIN files, NEW j \in DOMAIN files', files[i].name = files'[j].name,
             NEW o \in 0 .. files[i].size - 1,
             Walk(fat, files[i].start, o \div FAT_WIDTH) \in Block
      PROVE  Walk(fat', files'[j].start, o \div FAT_WIDTH) =
               Walk(fat, files[i].start, o \div FAT_WIDTH)
  <2>1. i = j /\ files'[j].start = files[i].start
    BY <1>1, <1>2 DEF SameEntries
  <2>2. o \in Nat
    <3>1. files \in Directory
      BY DEF CallInv, GoodDirectory
    <3>2. files[i].size \in Nat
      BY <3>1, DirectoryFacts, LengthsAssumption
    <3>3. QED
      BY <3>2
  <2>3. o \div FAT_WIDTH \in Nat
    BY <2>2, DivMod
  <2>4. QED
    BY <1>2, <2>1, <2>3, LinksKeptWalk
<1>3. BlocksKept
  BY <1>2 DEF BlocksKept
<1>4. ~LinkReplaced
  BY DEF LinkReplaced, KeepsLinks
<1>5. QED
  BY <1>3, <1>4

LEMMA ImageKept ==
  ASSUME CallInv, Sound, SameEntries, fat' = fat, data' = data,
         stored' = files \/ stored' = stored, closed \subseteq closed'
  PROVE  Kept
<1>1. BlocksKept /\ ~LinkReplaced
  BY LinksKeepBlocks DEF KeepsLinks
<1>2. Starts(files') = Starts(files)
  BY DEF Starts, SameEntries
<1>3. InUse(files', fat') = InUse(files, fat) /\ NamesOf(files') = NamesOf(files)
  BY <1>2 DEF InUse, NamesOf, SameEntries
<1>4. Apart(files, fat)'
  BY DEF Sound, Apart, SameEntries
<1>5. FreeUnlinked(files, fat)'
  BY <1>3 DEF Sound, FreeUnlinked
<1>6. Remembered'
  <2>1. CASE stored' = files
    BY <2>1, ResizedIsRemembered
  <2>2. CASE stored' = stored
    <3>1. PICK g \in Name \cup {Terminal} : \A i \in DOMAIN stored :
             IF stored[i].name = g
               THEN /\ Memory \in closed
                    /\ g \notin NamesOf(files) /\ stored[i].start \notin InUse(files, fat)
               ELSE \E j \in DOMAIN files : /\ files[j].name = stored[i].name
                                            /\ files[j].start = stored[i].start
      BY DEF Sound, Remembered
    <3>2. ASSUME NEW i \in DOMAIN stored'
          PROVE  IF stored'[i].name = g
                   THEN /\ Memory \in closed'
                        /\ g \notin NamesOf(files')
                        /\ stored'[i].start \notin InUse(files', fat')
                   ELSE \E j \in DOMAIN files' : /\ files'[j].name = stored'[i].name
                                                 /\ files'[j].start = stored'[i].start
      <4>1. CASE stored[i].name = g
        BY <4>1, <3>1, <2>2, <1>3
      <4>2. CASE stored[i].name # g
        <5>1. PICK j \in DOMAIN files : /\ files[j].name = stored[i].name
                                        /\ files[j].start = stored[i].start
          BY <4>2, <3>1, <2>2
        <5>2. QED
          BY <5>1, <4>2, <2>2 DEF SameEntries
      <4>3. QED
        BY <4>1, <4>2
    <3>3. \A j \in DOMAIN files' :
            files'[j].name \notin NamesOf(stored') /\ files'[j].start \in Block =>
              fat'[files'[j].start] = END
      BY <2>2 DEF Sound, Remembered, SameEntries
    <3>4. QED
      BY <3>2, <3>3 DEF Remembered
  <2>3. QED
    BY <2>1, <2>2
<1>7. ~Spilled'
  BY KindKept DEF Sound
<1>8. QED
  BY <1>1, <1>4, <1>5, <1>6, <1>7 DEF Kept, Sound

\* u has the links of t along the chain of b.
SameLinks(t, u, b) == \A c \in Chain(t, b) : u[c] = t[c]

LEMMA SameWalks ==
  ASSUME NEW t, NEW u, NEW b, ~Cyclic(t, b), SameLinks(t, u, b)
  PROVE  \A k \in Nat : Walk(u, b, k) = Walk(t, b, k)
<1>1. \A c \in Chain(t, b) : u[c] = t[c]
  BY DEF SameLinks
<1>2. QED
  BY <1>1, SameLinksSameChain

LEMMA BlocksStay ==
  ASSUME CallInv, Sound,
         \A j \in DOMAIN files, k \in DOMAIN files' :
           files[j].name = files'[k].name =>
             \/ files'[k].size = 0
             \/ files'[k].start = files[j].start /\ SameLinks(fat, fat', files[j].start)
  PROVE  BlocksKept
<1>1. SUFFICES ASSUME NEW j \in DOMAIN files, NEW k \in DOMAIN files',
                      files[j].name = files'[k].name, files[j].size <= files'[k].size,
                      NEW o \in 0 .. files[j].size - 1,
                      Walk(fat, files[j].start, o \div FAT_WIDTH) \in Block
               PROVE  Walk(fat', files'[k].start, o \div FAT_WIDTH) =
                        Walk(fat, files[j].start, o \div FAT_WIDTH)
  BY DEF BlocksKept
<1>2. files[j].size \in Nat
  BY SoundFacts, DirectoryFacts, LengthsAssumption
<1>3. o \in Nat /\ files'[k].size # 0
  BY <1>1, <1>2
<1>4. o \div FAT_WIDTH \in Nat
  BY <1>3, DivMod
<1>5. files'[k].start = files[j].start /\ SameLinks(fat, fat', files[j].start)
  BY <1>1, <1>3
<1>6. ~Cyclic(fat, files[j].start)
  BY DEF Sound, Apart
<1>7. \A m \in Nat : Walk(fat', files[j].start, m) = Walk(fat, files[j].start, m)
  BY <1>5, <1>6, SameWalks
<1>8. QED
  BY <1>4, <1>5, <1>7

LEMMA CleanReplacesNone ==
  ASSUME fat \in Table, NEW b, fat' = CleanFat(fat, b)
  PROVE  ~LinkReplaced
<1>1. \A c \in Block : fat'[c] \in {END, fat[c]}
  BY CleanFatFacts
<1>2. QED
  BY <1>1 DEF LinkReplaced

LEMMA DivMonotone ==
  ASSUME NEW a \in Nat, NEW b \in Nat, a <= b
  PROVE  a \div FAT_WIDTH <= b \div FAT_WIDTH
<1>1. PICK w \in Nat \ {0} : w = FAT_WIDTH
  BY GeometryAssumption
<1>2. PICK q \in Nat, m \in Nat, k \in Nat, l \in Nat :
        /\ q = a \div w /\ m = b \div w /\ k = a % w /\ l = b % w
  BY <1>1
<1>3. a = w * q + k /\ b = w * m + l /\ k < w /\ l < w
  BY <1>1, <1>2
<1>4. SUFFICES ASSUME q > m PROVE FALSE
  BY <1>1, <1>2
<1>5. q >= m + 1
  BY <1>4
<1>6. w * q >= w * (m + 1)
  BY <1>1, <1>5
<1>7. w * (m + 1) = w * m + w
  BY <1>1
<1>8. QED
  BY <1>1, <1>3, <1>6, <1>7

\* A walk that has left the blocks does not come back.
LEMMA NoBlockStays ==
  ASSUME NEW t, NEW s, NEW k \in Nat, NEW m \in Nat, k <= m, Walk(t, s, k) \notin Block
  PROVE  Walk(t, s, m) \notin Block
<1> DEFINE S == {j \in Nat : k <= j => Walk(t, s, j) \notin Block}
<1>1. 0 \in S
  BY WalkZero
<1>2. ASSUME NEW j \in Nat, j \in S
      PROVE  j + 1 \in S
  <2>1. SUFFICES ASSUME k <= j + 1
                 PROVE  Walk(t, s, j + 1) \notin Block
    OBVIOUS
  <2>2. CASE k = j + 1
    BY <2>2
  <2>3. CASE k <= j
    BY <2>3, <1>2, WalkNext, BlockFacts
  <2>4. QED
    BY <2>1, <2>2, <2>3
<1>3. Nat \subseteq S
  <2> HIDE DEF S
  <2>1. QED
    BY <1>1, <1>2, SetInduction
<1>4. QED
  BY <1>3

\* A write that misses the blocks ends at the size, or before it.
LEMMA MissedSize ==
  ASSUME NEW f, f \in NamesOf(files), files \in Directory, NEW pos \in Nat,
         NEW numb \in Nat, NEW t, NEW dt
  PROVE  Missed(f, pos, numb, t, dt).pos <= Missed(f, pos, numb, t, dt).size
<1>1. PICK n : n = pos + Part(pos, numb)
  OBVIOUS
<1>2. n \in Nat /\ Entry(f).size \in Nat
  <2>1. Part(pos, numb) \in Nat
    BY DivMod, GeometryAssumption DEF Part
  <2>2. QED
    BY <2>1, <1>1, EntryFacts, LengthsAssumption
<1>3. /\ Missed(f, pos, numb, t, dt).pos = n
      /\ Missed(f, pos, numb, t, dt).size = IF n > Entry(f).size THEN n ELSE Entry(f).size
  BY <1>1 DEF Missed
<1>4. QED
  BY <1>2, <1>3

\* What a descriptor that is written to has to be: at the size of its file, or
\* before it, or in a block.
BackedAt(t, e, pos) == pos <= e.size \/ Walk(t, e.start, pos \div FAT_WIDTH) \in Block

\* Then a write goes over the table only if the file has no room for a byte more.
LEMMA NoRoom ==
  ASSUME CallInv, NEW i \in DOMAIN files, NEW pos \in Nat, BackedAt(fat, files[i], pos),
         Walk(fat, files[i].start, pos \div FAT_WIDTH) = END
  PROVE  Roomless(files, fat) # {}
<1>1. PICK s, n : s = files[i].start /\ n = files[i].size
  OBVIOUS
<1>2. n \in Nat
  BY <1>1, DirectoryFacts, LengthsAssumption DEF CallInv, GoodDirectory
<1>3. pos <= n
  BY <1>1, BlockFacts DEF BackedAt
<1>4. PICK k \in Nat, m \in Nat : k = pos \div FAT_WIDTH /\ m = n \div FAT_WIDTH
  BY <1>2, DivMod
<1>5. k <= m
  BY <1>2, <1>3, <1>4, DivMonotone
<1>6. Walk(fat, s, m) \notin Block
  BY <1>1, <1>4, <1>5, NoBlockStays, BlockFacts
<1>7. QED
  BY <1>1, <1>4, <1>6 DEF Roomless

\* What a write leaves: bytes over the table, because a file had no room; a link
\* replaced; or all as it was, and the descriptor such again.
Overflows == Spilled' /\ Roomless(files, fat) # {}
Overtakes == ~Spilled' /\ LinkReplaced
MovesOn(p, d, i) ==
  /\ SameEntries
  /\ \E pos : /\ fds' = Moved(p, d, pos)
              /\ BackedAt(fat', files'[i], pos)
              /\ LastAt(fat, files[i].start, d.pos) => LastAt(fat', files[i].start, pos)

LEMMA MovedNowhere ==
  ASSUME CallInv, NEW p \in Proc, NEW d \in fds[p]
  PROVE  Moved(p, d, d.pos) = fds
<1>1. fds \in [Proc -> SUBSET DescriptorRecord] /\ d \in DescriptorRecord
  BY TableFacts
<1>2. [d EXCEPT !.pos = d.pos] = d
  BY <1>1 DEF DescriptorRecord
<1>3. (fds[p] \ {d}) \cup {d} = fds[p]
  OBVIOUS
<1>4. QED
  BY <1>1, <1>2, <1>3 DEF Moved

LEMMA FWriteKept ==
  ASSUME CallInv, Sound, NEW p \in Proc, NEW d \in FileDescriptors(p),
         NEW numb \in Nat \ {0}, FWrite(p, d, numb),
         NEW i \in DOMAIN files, files[i].name = d.file,
         d.mode # "F_APPEND", BackedAt(fat, files[i], d.pos)
  PROVE  \/ Overflows
         \/ Overtakes /\ ~LastAt(fat, files[i].start, d.pos)
         \/ Kept /\ MovesOn(p, d, i)
<1>1. PICK f, pos, s : f = d.file /\ pos = d.pos /\ s = files[i].start
  OBVIOUS
<1>2. /\ d \in fds[p] /\ f \in NamesOf(files) /\ pos \in Nat /\ numb \in Nat
      /\ WritePosition(d) = pos /\ d.mode # "F_APPEND"
  BY <1>1, FileDescriptorFacts, LengthsAssumption DEF WritePosition
<1>3. /\ files \in Directory /\ GoodDirectory(files) /\ fat \in Table /\ data \in Bytes
      /\ Apart(files, fat) /\ FreeUnlinked(files, fat) /\ ~Spilled /\ CallInv
  BY SoundFacts DEF CallInv, Sound
<1>4. Entry(f) = files[i]
  BY <1>1, <1>2, <1>3, EntryFacts DEF GoodDirectory
<1>5. pos + numb <= MaxSize /\ stored' = files
  BY <1>2, FWriteCases
<1>6. WalkEnd(f, pos) = Walk(fat, s, pos \div FAT_WIDTH)
  BY <1>1, <1>4 DEF WalkEnd
<1>7. ASSUME NEW n \in 0 .. MaxSize, files' = Resized(f, n)
      PROVE  SameEntries /\ Remembered' /\ files'[i].size = n /\ files' \in Directory
  <2>1. /\ DOMAIN files' = DOMAIN files /\ files' \in Directory
        /\ \A j \in DOMAIN files : /\ files'[j].name = files[j].name
                                   /\ files'[j].start = files[j].start
                                   /\ files[j].name = f => files'[j].size = n
    BY <1>3, <1>7, ResizedFacts
  <2>2. SameEntries /\ files'[i].size = n
    BY <2>1, <1>1 DEF SameEntries
  <2>3. QED
    BY <2>1, <2>2, <1>3, <1>5, ResizedIsRemembered
<1>8. ASSUME NEW n \in 0 .. MaxSize, files' = Resized(f, n), ~Spilled',
             Apart(files, fat'), FreeUnlinked(files, fat'), KeepsLinks(fat, fat')
      PROVE  Kept
  <2>1. SameEntries /\ Remembered' /\ files' \in Directory
    BY <1>7, <1>8
  <2>2. Apart(files, fat)' /\ FreeUnlinked(files, fat)'
    <3>1. PICK new, u : new = files' /\ u = fat'
      OBVIOUS
    <3>2. /\ DOMAIN new = DOMAIN files /\ new \in Directory
          /\ \A j \in DOMAIN files : new[j].start = files[j].start
      BY <2>1, <3>1 DEF SameEntries
    <3>3. Apart(new, u) /\ FreeUnlinked(new, u)
      BY <1>3, <1>8, <3>1, <3>2, SameStarts
    <3>4. QED
      BY <3>1, <3>3
  <2>3. BlocksKept /\ ~LinkReplaced
    BY <1>3, <1>8, <2>1, LinksKeepBlocks
  <2>4. QED
    BY <2>1, <2>2, <2>3, <1>8 DEF Kept, Sound
<1>9. CASE StaysIn(f, pos) /\ WalkEnd(f, pos) \in Block
  <2>1. PICK w : w = KWrite(f, pos, numb)
    OBVIOUS
  <2>2. WritesAll(p, d, w)
    BY <1>1, <1>2, <1>9, <2>1, FWriteCases, BlockFacts, Zenon
  <2>3. /\ fat' = w.fat /\ data' = w.data /\ files' = Resized(f, w.size)
        /\ fds' = Moved(p, d, w.pos)
    BY <2>2, <1>1 DEF WritesAll
  <2>4. w.size \in 0 .. MaxSize /\ w.data[END] = data[END]
    BY <1>2, <1>3, <1>5, <1>9, <2>1, KWriteTypes DEF CallInv
  <2>5. ~Spilled'
    BY <2>3, <2>4, <1>3, KindKept
  <2>6. SameEntries /\ files'[i].size = w.size /\ files'[i].start = s
    BY <2>3, <2>4, <1>1, <1>7 DEF SameEntries
  <2>7. CASE LastAt(fat, s, pos)
    <3>1. w \in WriteRecord /\ Extends(i, w)
      BY <1>1, <1>2, <1>3, <1>5, <1>9, <2>1, <2>7, KWriteExtends
    <3>2. Kept
      BY <3>1, <2>3, <2>4, <2>5, <1>8 DEF Extends
    <3>3. LastAt(fat', s, w.pos)
      BY <3>1, <2>3, <1>1 DEF Extends
    <3>4. w.pos <= w.size \/ Walk(fat', s, w.pos \div FAT_WIDTH) \in Block
      <4>1. w.at \in Block
        BY <3>1 DEF WriteRecord
      <4>2. QED
        BY <4>1, <3>1, <2>3, <1>1 DEF Extends
    <3>5. BackedAt(fat', files'[i], w.pos)
      BY <3>4, <2>6 DEF BackedAt
    <3>6. QED
      BY <3>2, <3>3, <3>5, <2>3, <2>6, <1>1 DEF MovesOn
  <2>8. CASE ~LastAt(fat, s, pos)
    <3>1. \/ /\ w.fat = fat
             /\ w.pos <= w.size \/ Walk(fat, s, w.pos \div FAT_WIDTH) \in Block
          \/ \E b \in Block : fat[b] # END /\ w.fat[b] \notin {END, fat[b]}
      BY <1>1, <1>2, <1>3, <1>5, <1>9, <2>1, <2>8, KWriteCuts
    <3>2. CASE \E b \in Block : fat[b] # END /\ w.fat[b] \notin {END, fat[b]}
      BY <3>2, <2>3, <2>5, <2>8, <1>1 DEF Overtakes, LinkReplaced
    <3>3. CASE /\ w.fat = fat
               /\ w.pos <= w.size \/ Walk(fat, s, w.pos \div FAT_WIDTH) \in Block
      <4>1. Kept
        BY <3>3, <2>3, <2>4, <2>5, <1>3, <1>8 DEF KeepsLinks
      <4>2. BackedAt(fat', files'[i], w.pos)
        BY <3>3, <2>3, <2>6 DEF BackedAt
      <4>3. QED
        BY <4>1, <4>2, <2>3, <2>6, <2>8, <1>1 DEF MovesOn
    <3>4. QED
      BY <3>1, <3>2, <3>3
  <2>9. QED
    BY <2>7, <2>8
<1>10. CASE StaysIn(f, pos) /\ WalkEnd(f, pos) = END
  <2>1. Spilled'
    BY <1>1, <1>2, <1>10, FWriteKeeps
  <2>2. Roomless(files, fat) # {}
    BY <1>1, <1>2, <1>6, <1>10, NoRoom
  <2>3. QED
    BY <2>1, <2>2 DEF Overflows
<1>11. CASE StaysIn(f, pos) /\ WalkEnd(f, pos) \notin Block \cup {END}
  <2>1. PICK tail \in 1 .. 2 * FAT_WIDTH : WritesAll(p, d, Behind(f, pos, numb, tail))
    BY <1>1, <1>2, <1>11, FWriteCases, Zenon
  <2>2. PICK w : w = Behind(f, pos, numb, tail)
    OBVIOUS
  <2>3. tail \in Nat
    BY GeometryAssumption
  <2>4. w.fat = fat /\ w.data[END] = data[END] /\ w.size \in 0 .. MaxSize
    BY <1>2, <1>3, <1>5, <2>2, <2>3, BehindFacts
  <2>5. /\ fat' = fat /\ data' = w.data /\ files' = Resized(f, w.size)
        /\ fds' = Moved(p, d, w.pos)
    BY <2>1, <2>2, <2>4, <1>1 DEF WritesAll
  <2>6. ~Spilled'
    BY <2>4, <2>5, <1>3, KindKept
  <2>7. Kept
    BY <2>4, <2>5, <2>6, <1>3, <1>8 DEF KeepsLinks
  <2>8. SameEntries /\ files'[i].size = w.size /\ files'[i].start = s
    BY <2>4, <2>5, <1>1, <1>7 DEF SameEntries
  <2>9. w.pos <= w.size
    BY <1>2, <1>3, <2>2, MissedSize DEF Behind
  <2>10. LastAt(fat', s, w.pos)
    <3>1. Walk(fat, s, w.pos \div FAT_WIDTH) \notin Block
      <4>1. w.pos = pos + Part(pos, numb)
        BY <2>2, Zenon DEF Behind, Missed
      <4>2. Part(pos, numb) \in Nat
        BY <1>2, DivMod, GeometryAssumption DEF Part
      <4>3. PICK n \in Nat : n = Part(pos, numb)
        BY <4>2
      <4>4. PICK k \in Nat, m \in Nat : k = pos \div FAT_WIDTH /\ m = (pos + n) \div FAT_WIDTH
        BY <1>2, DivMod
      <4>5. k <= m
        BY <1>2, <4>4, DivMonotone
      <4>6. Walk(fat, s, k) \notin Block
        BY <1>6, <1>11, <4>4
      <4>7. Walk(fat, s, m) \notin Block
        BY <4>5, <4>6, NoBlockStays
      <4>8. QED
        BY <4>1, <4>3, <4>4, <4>7
    <3>2. QED
      BY <3>1, <2>5 DEF LastAt
  <2>11. QED
    BY <2>5, <2>7, <2>8, <2>9, <2>10, <1>1 DEF MovesOn, BackedAt
<1>12. CASE ~StaysIn(f, pos)
  <2>1. UNCHANGED <<files, fat, data, fds>>
    BY <1>1, <1>2, <1>12, FWriteCases, Zenon
  <2>2. SameEntries
    BY <2>1 DEF SameEntries
  <2>3. Kept
    <3>1. ~Spilled'
      BY <2>1, <1>3, KindKept
    <3>2. Apart(files, fat)' /\ FreeUnlinked(files, fat)'
      BY <2>1, <1>3
    <3>3. BlocksKept /\ ~LinkReplaced
      BY <2>1, <2>2, LinksKeepBlocks DEF KeepsLinks
    <3>4. Remembered'
      BY <2>2, <1>5, ResizedIsRemembered
    <3>5. QED
      BY <3>1, <3>2, <3>3, <3>4 DEF Kept, Sound
  <2>4. fds' = Moved(p, d, d.pos)
    BY <2>1, <1>2, MovedNowhere
  <2>5. QED
    BY <2>1, <2>2, <2>3, <2>4 DEF MovesOn
<1>13. QED
  BY <1>9, <1>10, <1>11, <1>12

\* f_open: F_WRITE cuts the links behind the first block.
LEMMA OpenKept ==
  ASSUME CallInv, Sound, NEW p \in Proc, NEW f \in Name, NEW mode, Open(p, f, mode),
         CallInv', closed' = closed
  PROVE  Kept
<1>1. /\ files \in Directory /\ fat \in Table /\ GoodDirectory(files)
      /\ Apart(files, fat) /\ FreeUnlinked(files, fat)
      /\ DOMAIN files = 1 .. Len(files) /\ Len(files) \in Nat
  BY SoundFacts
<1>2. data' = data /\ ~Spilled'
  <2>1. data' = data
    BY DEF Open, OpenOld, OpenNew, image
  <2>2. QED
    BY <2>1, KindKept DEF Sound
<1>3. CASE files' = files /\ fat' = fat /\ (stored' = files' \/ stored' = stored)
  BY <1>2, <1>3, ImageKept DEF SameEntries
<1>4. CASE OpenOld(p, f, mode) /\ mode = "F_WRITE"
  <2>1. PICK i \in DOMAIN files : files[i].name = f /\ Entry(f) = files[i]
    BY <1>4, NamedFacts, DescriptorEntry DEF OpenOld
  <2>2. /\ fat' = CleanFat(fat, files[i].start) /\ files' = Resized(f, 0)
        /\ stored' = files'
    BY <1>4, <2>1 DEF OpenOld, StoreDirectory
  <2>3. 0 \in 0 .. MaxSize
    BY LengthsAssumption
  <2>4. /\ DOMAIN files' = DOMAIN files /\ files' \in Directory
        /\ \A j \in DOMAIN files :
             /\ files'[j].name = files[j].name
             /\ files'[j].start = files[j].start
             /\ files[j].name = f => files'[j].size = 0
    BY <2>2, <2>3, <1>1, ResizedFacts
  <2>5. PICK new, u : new = files' /\ u = fat'
    OBVIOUS
  <2>6. /\ Apart(files, u) /\ FreeUnlinked(files, u) /\ OthersSame(i, u, data)
    BY <2>2, <2>5, <1>1, CleanKeeps
  <2>7. Apart(new, u) /\ FreeUnlinked(new, u)
    BY <2>4, <2>5, <2>6, <1>1, SameStarts
  <2>8. BlocksKept
    <3>1. ASSUME NEW j \in DOMAIN files, NEW k \in DOMAIN files',
                 files[j].name = files'[k].name
          PROVE  \/ files'[k].size = 0
                 \/ files'[k].start = files[j].start /\ SameLinks(fat, fat', files[j].start)
      <4>1. j = k
        BY <3>1, <2>4, <1>1 DEF GoodDirectory
      <4>2. j # i => SameLinks(fat, fat', files[j].start)
        BY <2>5, <2>6 DEF OthersSame, SameChain, SameLinks
      <4>3. QED
        BY <4>1, <4>2, <2>1, <2>4
    <3>2. QED
      BY <3>1, BlocksStay
  <2>9. ~LinkReplaced
    BY <2>2, <1>1, CleanReplacesNone
  <2>10. QED
    BY <1>2, <2>2, <2>5, <2>7, <2>8, <2>9, StoredIsRemembered DEF Kept, Sound
<1>5. CASE OpenNew(p, f, mode)
  <2> DEFINE b == DetermineBlock(files, fat)
  <2>1. /\ stored' = files' /\ files' = AddFile(f) /\ f \notin NamesOf(files)
        /\ fat' = fat \/ fat' = CleanFat(fat, b)
    BY <1>5, NamedFacts DEF OpenNew, StoreDirectory
  <2>2. /\ Apart(AddFile(f), fat) /\ FreeUnlinked(AddFile(f), fat)
        /\ b \in Block => fat[b] = END /\ \A c \in Chain(fat, b) : fat[c] = END
    BY <1>1, AddedApart
  <2>3. /\ DOMAIN files' = 1 .. Len(files) + 1
        /\ \A i \in DOMAIN files : files'[i] = files[i]
        /\ files'[Len(files) + 1].name = f
    <3>1. /\ DOMAIN files' = 1 .. Len(files) + 1
          /\ \A i \in DOMAIN files : files'[i] = files[i]
          /\ files'[Len(files) + 1] = [name |-> f, start |-> b, size |-> 0]
      BY <2>1, <1>1, AddFileFacts
    <3>2. QED
      BY <3>1
  <2> HIDE DEF b
  <2>4. fat' = fat
    <3>1. CASE fat' = CleanFat(fat, b)
      <4>1. \A c \in Chain(fat, b) : fat[c] = END
        BY <2>2, NoChain
      <4>2. CleanFat(fat, b) \in Table /\ \A c \in Block : CleanFat(fat, b)[c] = fat[c]
        BY <4>1, <1>1, CleanFatFacts
      <4>3. QED
        BY <3>1, <4>2, <1>1 DEF Table
    <3>2. QED
      BY <3>1, <2>1
  <2>5. Apart(files, fat)' /\ FreeUnlinked(files, fat)'
    <3>1. PICK new, u : new = files' /\ u = fat'
      OBVIOUS
    <3>2. Apart(new, u) /\ FreeUnlinked(new, u)
      BY <3>1, <2>1, <2>2, <2>4
    <3>3. QED
      BY <3>1, <3>2
  <2>6. BlocksKept
    <3>1. ASSUME NEW j \in DOMAIN files, NEW k \in DOMAIN files',
                 files[j].name = files'[k].name
          PROVE  files'[k].start = files[j].start /\ SameLinks(fat, fat', files[j].start)
      <4>1. k # Len(files) + 1
        BY <3>1, <2>1, <2>3 DEF NamesOf
      <4>2. k \in DOMAIN files /\ files'[k] = files[k]
        BY <4>1, <2>3, <1>1
      <4>3. k = j
        BY <4>2, <3>1, <1>1 DEF GoodDirectory
      <4>4. QED
        BY <4>2, <4>3, <2>4 DEF SameLinks
    <3>2. QED
      BY <3>1, BlocksStay
  <2>7. ~LinkReplaced
    BY <2>4 DEF LinkReplaced
  <2>8. QED
    BY <1>2, <2>1, <2>5, <2>6, <2>7, StoredIsRemembered DEF Kept, Sound
<1>6. CASE OpenOld(p, f, mode) /\ mode # "F_WRITE"
  BY <1>3, <1>6 DEF OpenOld, StoreDirectory
<1>7. CASE NoFile(f, mode) /\ UNCHANGED image
  BY <1>3, <1>7 DEF image
<1>8. QED
  BY <1>4, <1>5, <1>6, <1>7 DEF Open

\* f_unlink, which stores the directory unless the image is closed by now.
LEMMA UnlinkedKept ==
  ASSUME CallInv, Sound, NEW p \in Proc, NEW f \in Name, Unlinked(p, f), CallInv',
         Memory \notin closed, closed \subseteq closed',
         \/ stored' = files'
         \/ stored' = stored /\ (files' = files \/ Memory \in closed')
  PROVE  Kept
<1>1. /\ files \in Directory /\ fat \in Table /\ GoodDirectory(files)
      /\ Apart(files, fat) /\ FreeUnlinked(files, fat) /\ files \in Seq(FileRecord)
  BY SoundFacts
<1>2. data' = data /\ ~Spilled'
  <2>1. data' = data
    BY DEF Unlinked
  <2>2. QED
    BY <2>1, KindKept DEF Sound
<1>3. CASE files' = files /\ fat' = fat
  BY <1>2, <1>3, ImageKept DEF SameEntries
<1>4. CASE ~(files' = files /\ fat' = fat)
  <2>1. PICK k \in DOMAIN files : /\ files[k].name = f
                                  /\ files' = RemoveAt(files, k)
                                  /\ fat' = CleanFat(fat, files[k].start)
    <3>1. /\ f \in NamesOf(files) /\ files' = RemoveAt(files, First(f))
          /\ fat' = CleanFat(fat, Entry(f).start)
      BY <1>4, NamedFacts DEF Unlinked
    <3>2. PICK k \in DOMAIN files : files[k].name = f /\ First(f) = k /\ Entry(f) = files[k]
      BY <3>1, DescriptorEntry
    <3>3. QED
      BY <3>1, <3>2
  <2>2. PICK new, u : new = files' /\ u = fat'
    OBVIOUS
  <2>3. Apart(new, u) /\ FreeUnlinked(new, u)
    BY <2>1, <2>2, <1>1, RemovedApart
  <2>4. Apart(files, u) /\ OthersSame(k, u, data)
    BY <2>1, <2>2, <1>1, CleanKeeps
  <2>5. /\ \A i \in DOMAIN new : \E j \in DOMAIN files : j # k /\ new[i] = files[j]
        /\ \A j \in DOMAIN files : j # k => \E i \in DOMAIN new : new[i] = files[j]
    BY <2>1, <2>2, <1>1, RemovedEntries
  <2>6. \A j \in DOMAIN files : files[j].name = f => j = k
    BY <2>1, <1>1 DEF GoodDirectory
  <2>7. BlocksKept
    <3>1. ASSUME NEW j \in DOMAIN files, NEW i \in DOMAIN files',
                 files[j].name = files'[i].name
          PROVE  files'[i].start = files[j].start /\ SameLinks(fat, fat', files[j].start)
      <4>1. PICK l \in DOMAIN files : l # k /\ files'[i] = files[l]
        BY <2>2, <2>5
      <4>2. l = j
        BY <4>1, <3>1, <1>1 DEF GoodDirectory
      <4>3. QED
        BY <4>1, <4>2, <2>2, <2>4 DEF OthersSame, SameChain, SameLinks
    <3>2. QED
      BY <3>1, BlocksStay
  <2>8. ~LinkReplaced
    BY <2>1, <1>1, CleanReplacesNone
  <2>9. Remembered'
    <3>1. CASE stored' = files'
      BY <3>1, StoredIsRemembered
    <3>2. CASE stored' = stored /\ Memory \in closed'
      <4>1. ASSUME NEW i \in DOMAIN files', files'[i].name \notin NamesOf(stored'),
                   files'[i].start \in Block
            PROVE  fat'[files'[i].start] = END
        <5>1. PICK j \in DOMAIN files : files'[i] = files[j]
          BY <2>2, <2>5
        <5>2. fat[files[j].start] = END
          BY <3>2, <4>1, <5>1 DEF Sound, Remembered
        <5>3. CleanFat(fat, files[k].start)[files[j].start] \in {END, fat[files[j].start]}
          BY <4>1, <5>1, <1>1, CleanFatFacts
        <5>4. QED
          BY <5>1, <5>2, <5>3, <2>1
      <4>2. ASSUME NEW i \in DOMAIN stored', stored'[i].name # f
            PROVE  \E j \in DOMAIN files' : /\ files'[j].name = stored'[i].name
                                            /\ files'[j].start = stored'[i].start
        <5>1. PICK j \in DOMAIN files : /\ files[j].name = stored[i].name
                                        /\ files[j].start = stored[i].start
          BY <3>2, <4>2, OnDiskInList
        <5>2. j # k
          BY <5>1, <4>2, <3>2, <2>1
        <5>3. QED
          BY <5>1, <5>2, <3>2, <2>2, <2>5
      <4>3. f \notin NamesOf(files')
        <5>1. \A i \in DOMAIN files' : files'[i].name # f
          BY <2>2, <2>5, <2>6
        <5>2. QED
          BY <5>1 DEF NamesOf
      <4>4. ASSUME NEW i \in DOMAIN stored', stored'[i].name = f
            PROVE  stored'[i].start \notin InUse(files', fat')
        <5>1. PICK j \in DOMAIN files : /\ files[j].name = stored[i].name
                                        /\ files[j].start = stored[i].start
          BY <3>2, <4>4, OnDiskInList
        <5>2. stored'[i].start = files[k].start
          BY <5>1, <4>4, <3>2, <2>6
        <5>3. PICK s : s = files[k].start
          OBVIOUS
        <5>4. CASE s \in Block
          <6>1. s \in Chain(u, s)
            BY <5>4, ChainHead
          <6>2. /\ Chain(u, s) \cap Chain(u, 0) = {}
                /\ \A j2 \in DOMAIN files : j2 # k =>
                     Chain(u, s) \cap Chain(u, files[j2].start) = {}
            BY <5>3, <2>4 DEF Apart
          <6>3. new \in Seq(FileRecord)
            BY <2>2, DirectoryFacts DEF CallInv, GoodDirectory
          <6>4. s \notin InUse(new, u)
            BY <6>1, <6>2, <6>3, <2>5, InUseFacts
          <6>5. QED
            BY <6>4, <5>2, <5>3, <2>2
        <5>5. CASE s \notin Block
          <6>1. new \in Seq(FileRecord)
            BY <2>2, DirectoryFacts DEF CallInv, GoodDirectory
          <6>2. \A b : Chain(u, b) \subseteq Block
            BY DEF Chain
          <6>3. s \notin InUse(new, u)
            BY <5>5, <6>1, <6>2, InUseFacts
          <6>4. QED
            BY <6>3, <5>2, <5>3, <2>2
        <5>6. QED
          BY <5>4, <5>5
      <4>5. QED
        BY <3>2, <4>1, <4>2, <4>3, <4>4 DEF Remembered
    <3>3. QED
      <4>1. CASE files' = files
        <5>1. new = files
          BY <4>1, <2>2
        <5>2. PICK l \in DOMAIN files : l # k /\ new[k] = files[l]
          BY <5>1, <2>5
        <5>3. files[l].name = f
          BY <5>1, <5>2, <2>1
        <5>4. QED
          BY <5>2, <5>3, <2>6
      <4>2. QED
        BY <3>1, <3>2, <4>1
  <2>10. QED
    BY <1>2, <2>2, <2>3, <2>7, <2>8, <2>9 DEF Kept, Sound
<1>5. QED
  BY <1>3, <1>4

\* f_dup to a new file, which is not stored.
LEMMA FDupKept ==
  ASSUME CallInv, Sound, NEW p \in Proc, NEW f \in Name, FDup(p, 1, f), Redirected(f) = {},
         CallInv', Memory \notin closed, closed' = closed
  PROVE  Kept
<1> DEFINE b == DetermineBlock(files, fat)
           n == Len(files) + 1
<1>1. /\ files \in Directory /\ fat \in Table /\ GoodDirectory(files)
      /\ Apart(files, fat) /\ FreeUnlinked(files, fat)
      /\ DOMAIN files = 1 .. Len(files) /\ Len(files) \in Nat
      /\ \A i \in DOMAIN stored : stored[i].name # Terminal
  BY SoundFacts
<1>2. /\ files' = AddFile(f) /\ fat' = fat /\ stored' = stored
      /\ \A i \in DOMAIN files : files[i].name # f
  BY Zenon DEF FDup, Redirected
<1>3. /\ Apart(AddFile(f), fat) /\ FreeUnlinked(AddFile(f), fat)
      /\ b \in Block => fat[b] = END
  BY <1>1, AddedApart
<1>4. /\ DOMAIN files' = 1 .. n
      /\ \A i \in DOMAIN files : i \in DOMAIN files' /\ files'[i] = files[i]
      /\ files'[n].name = f /\ files'[n].start = b
  <2>1. /\ DOMAIN files' = 1 .. n
        /\ \A i \in DOMAIN files : i \in DOMAIN files' /\ files'[i] = files[i]
        /\ files'[n] = [name |-> f, start |-> b, size |-> 0]
    BY <1>1, <1>2, AddFileFacts
  <2>2. QED
    BY <2>1
<1> HIDE DEF b
<1>5. \A k \in DOMAIN files' : k = n \/ (k \in DOMAIN files /\ files'[k] = files[k])
  BY <1>1, <1>4
<1>6. Apart(files, fat)' /\ FreeUnlinked(files, fat)'
  <2>1. PICK new, u : new = files' /\ u = fat'
    OBVIOUS
  <2>2. Apart(new, u) /\ FreeUnlinked(new, u)
    BY <2>1, <1>2, <1>3
  <2>3. QED
    BY <2>1, <2>2
<1>7. BlocksKept
  <2>1. ASSUME NEW j \in DOMAIN files, NEW k \in DOMAIN files',
               files[j].name = files'[k].name
        PROVE  files'[k].start = files[j].start /\ SameLinks(fat, fat', files[j].start)
    <3>1. k \in DOMAIN files /\ files'[k] = files[k]
      BY <2>1, <1>2, <1>4, <1>5
    <3>2. k = j
      BY <3>1, <2>1, <1>1 DEF GoodDirectory
    <3>3. QED
      BY <3>1, <3>2, <1>2 DEF SameLinks
  <2>2. QED
    BY <2>1, BlocksStay
<1>8. ~LinkReplaced
  BY <1>2 DEF LinkReplaced
<1>9. Remembered'
  <2>1. ASSUME NEW k \in DOMAIN files', files'[k].name \notin NamesOf(stored'),
               files'[k].start \in Block
        PROVE  fat'[files'[k].start] = END
    <3>1. CASE k = n
      BY <3>1, <2>1, <1>2, <1>3, <1>4
    <3>2. CASE k \in DOMAIN files /\ files'[k] = files[k]
      BY <3>2, <2>1, <1>2 DEF Sound, Remembered
    <3>3. QED
      BY <3>1, <3>2, <1>5
  <2>2. ASSUME NEW i \in DOMAIN stored'
        PROVE  /\ stored'[i].name # Terminal
               /\ \E j \in DOMAIN files' : /\ files'[j].name = stored'[i].name
                                           /\ files'[j].start = stored'[i].start
    <3>1. PICK j \in DOMAIN files : /\ files[j].name = stored[i].name
                                    /\ files[j].start = stored[i].start
      BY <1>2, OnDiskInList
    <3>2. QED
      BY <3>1, <1>1, <1>2, <1>4
  <2>3. QED
    BY <2>1, <2>2 DEF Remembered
<1>10. ~Spilled'
  <2>1. data' = data
    BY DEF FDup
  <2>2. QED
    BY <2>1, KindKept DEF Sound
<1>11. QED
  BY <1>6, <1>7, <1>8, <1>9, <1>10 DEF Kept, Sound

\* A restart: the list is what was stored.
LEMMA BootKept ==
  ASSUME CallInv, Sound, Boot, CallInv'
  PROVE  Kept
<1>1. /\ files \in Directory /\ fat \in Table /\ GoodDirectory(files) /\ GoodDirectory(stored)
      /\ Apart(files, fat) /\ FreeUnlinked(files, fat)
      /\ files \in Seq(FileRecord) /\ stored \in Seq(FileRecord)
  BY SoundFacts
<1>2. files' = stored /\ fat' = fat /\ stored' = stored
  BY DEF Boot
<1>3. PICK g : \A i \in DOMAIN stored :
         IF stored[i].name = g
           THEN g \notin NamesOf(files) /\ stored[i].start \notin InUse(files, fat)
           ELSE \E j \in DOMAIN files : /\ files[j].name = stored[i].name
                                        /\ files[j].start = stored[i].start
  BY DEF Sound, Remembered
<1>4. \A i, j \in DOMAIN stored : stored[i].name = stored[j].name => i = j
  BY <1>1 DEF GoodDirectory
<1>5. ASSUME NEW i \in DOMAIN stored, stored[i].name = g
      PROVE  /\ ~Cyclic(fat, stored[i].start)
             /\ Chain(fat, stored[i].start) \subseteq {stored[i].start}
             /\ Chain(fat, stored[i].start) \cap Chain(fat, 0) = {}
             /\ \A j \in DOMAIN files :
                  Chain(fat, stored[i].start) \cap Chain(fat, files[j].start) = {}
  <2>1. PICK s : s = stored[i].start
    OBVIOUS
  <2>2. s \notin InUse(files, fat)
    BY <1>3, <1>5, <2>1
  <2>3. s \in Block => fat[s] = END
    BY <2>2, <1>1 DEF FreeUnlinked
  <2>4. ~Cyclic(fat, s) /\ Chain(fat, s) \subseteq {s}
    BY <2>3, AloneChain, NoChain
  <2>5. /\ Chain(fat, s) \cap Chain(fat, 0) = {}
        /\ \A j \in DOMAIN files : Chain(fat, s) \cap Chain(fat, files[j].start) = {}
    BY <2>2, <2>4, <1>1, InUseFacts
  <2>6. QED
    BY <2>1, <2>4, <2>5
<1>6. Apart(stored, fat)
  <2>1. ~Cyclic(fat, 0)
    BY <1>1 DEF Apart
  <2>2. ASSUME NEW i \in DOMAIN stored
        PROVE  /\ ~Cyclic(fat, stored[i].start)
               /\ Chain(fat, stored[i].start) \cap Chain(fat, 0) = {}
    BY <1>1, <1>3, <1>5 DEF Apart
  <2>3. ASSUME NEW i \in DOMAIN stored, NEW j \in DOMAIN stored, i # j
        PROVE  Chain(fat, stored[i].start) \cap Chain(fat, stored[j].start) = {}
    <3>1. CASE stored[i].name = g /\ stored[j].name # g
      BY <3>1, <1>3, <1>5
    <3>2. CASE stored[j].name = g /\ stored[i].name # g
      BY <3>2, <1>3, <1>5
    <3>3. CASE stored[i].name # g /\ stored[j].name # g
      <4>1. PICK k \in DOMAIN files : files[k].name = stored[i].name
                                      /\ files[k].start = stored[i].start
        BY <3>3, <1>3
      <4>2. PICK l \in DOMAIN files : files[l].name = stored[j].name
                                      /\ files[l].start = stored[j].start
        BY <3>3, <1>3
      <4>3. k # l
        BY <4>1, <4>2, <2>3, <1>4
      <4>4. QED
        BY <4>1, <4>2, <4>3, <1>1 DEF Apart
    <3>4. QED
      BY <2>3, <3>1, <3>2, <3>3, <1>4
  <2>4. QED
    BY <2>1, <2>2, <2>3 DEF Apart
<1>7. FreeUnlinked(stored, fat)
  <2>1. SUFFICES ASSUME NEW c \in Block, c \notin InUse(stored, fat)
                 PROVE  fat[c] = END
    BY DEF FreeUnlinked
  <2>2. CASE c \notin InUse(files, fat)
    BY <2>2, <1>1 DEF FreeUnlinked
  <2>3. CASE c \in InUse(files, fat)
    <3>1. PICK j \in DOMAIN files : c \in Chain(fat, files[j].start)
      BY <2>1, <2>3, <1>1, InUseFacts
    <3>2. files[j].name \notin NamesOf(stored)
      <4>1. SUFFICES ASSUME NEW i \in DOMAIN stored, stored[i].name = files[j].name
                     PROVE  FALSE
        BY DEF NamesOf
      <4>2. stored[i].name # g
        BY <4>1, <1>3 DEF NamesOf
      <4>3. PICK l \in DOMAIN files : files[l].name = stored[i].name
                                      /\ files[l].start = stored[i].start
        BY <4>2, <1>3
      <4>4. l = j
        BY <4>1, <4>3, <1>1 DEF GoodDirectory
      <4>5. c \in Chain(fat, stored[i].start)
        BY <3>1, <4>3, <4>4
      <4>6. QED
        BY <4>5, <2>1, <1>1, InUseFacts
    <3>3. PICK s : s = files[j].start
      OBVIOUS
    <3>4. CASE s \in Block
      <4>1. fat[s] = END
        BY <3>2, <3>3, <3>4 DEF Sound, Remembered
      <4>2. c = s
        BY <3>1, <3>3, <3>4, <4>1, AloneChain
      <4>3. QED
        BY <4>1, <4>2
    <3>5. CASE s \notin Block
      BY <3>1, <3>3, <3>5, NoChain
    <3>6. QED
      BY <3>4, <3>5
  <2>4. QED
    BY <2>2, <2>3
<1>8. BlocksKept
  <2>1. ASSUME NEW j \in DOMAIN files, NEW k \in DOMAIN files',
               files[j].name = files'[k].name
        PROVE  files'[k].start = files[j].start /\ SameLinks(fat, fat', files[j].start)
    <3>1. k \in DOMAIN stored /\ stored[k].name = files[j].name
      BY <2>1, <1>2
    <3>2. stored[k].name # g
      BY <3>1, <1>3 DEF NamesOf
    <3>3. PICK l \in DOMAIN files : files[l].name = stored[k].name
                                    /\ files[l].start = stored[k].start
      BY <3>1, <3>2, <1>3
    <3>4. l = j
      BY <3>1, <3>3, <1>1 DEF GoodDirectory
    <3>5. QED
      BY <3>3, <3>4, <1>2 DEF SameLinks
  <2>2. QED
    BY <2>1, BlocksStay
<1>9. Remembered'
  BY <1>2, StoredIsRemembered
<1>10. ~LinkReplaced
  BY <1>2 DEF LinkReplaced
<1>11. Apart(files, fat)' /\ FreeUnlinked(files, fat)'
  <2>1. PICK new, u : new = files' /\ u = fat'
    OBVIOUS
  <2>2. Apart(new, u) /\ FreeUnlinked(new, u)
    BY <2>1, <1>2, <1>6, <1>7
  <2>3. QED
    BY <2>1, <2>2
<1>12. ~Spilled'
  <2>1. data' = data
    BY DEF Boot
  <2>2. QED
    BY <2>1, KindKept DEF Sound
<1>13. QED
  BY <1>8, <1>9, <1>10, <1>11, <1>12 DEF Kept, Sound

-------------------------------------------------------------------------------
(* The descriptors that commands write to.                                   *)

\* The shell and catFlatFat write at the end of a file they have emptied; cat
\* writes from the start of its output on, whatever it finds there.
EndsAt(d) ==
  d.file # Terminal =>
    \A i \in DOMAIN files : files[i].name = d.file => LastAt(fat, files[i].start, d.pos)
Backed(d) ==
  d.file # Terminal /\ d.mode # "F_READ" =>
    /\ d.mode # "F_APPEND"
    /\ \A i \in DOMAIN files : files[i].name = d.file => BackedAt(fat, files[i], d.pos)
Writer(p, n) ==
  /\ \A d, e \in Descriptor(p, n) : d = e
  /\ \A d \in Descriptor(p, n) : Backed(d)
Ends(p, n) == \A d \in Descriptor(p, n) : EndsAt(d)
AtEndWriter(n) == Writer(Shell, n) /\ Ends(Shell, n)

\* A descriptor of the shell that cp, mv or catFlatFat -w writes to is the only
\* one of its number, and not the one that cp and mv read.
WritesAtEnd ==
  /\ cmd[Shell].name # "-a"
  /\ cmd[Shell].stage = "create" => cmd[Shell].fd \in {-1} \cup Numbers(Shell)
  /\ cmd[Shell].stage \in {"read", "write"} =>
       /\ cmd[Shell].name \in {"cp", "mv"} =>
            cmd[Shell].fd # cmd[Shell].to /\ AtEndWriter(cmd[Shell].to)
       /\ cmd[Shell].name = "-w" => AtEndWriter(cmd[Shell].fd)

\* Standard output of a job, before it has written anything and after.
Fresh(p) ==
  /\ \A d, e \in Descriptor(p, 1) : d = e
  /\ \A d \in Descriptor(p, 1) : d.pos = 0 /\ d.mode # "F_APPEND"
OutputBacked(p) ==
  /\ cmd[p].stage \in {"idle", "start"} => Fresh(p)
  /\ cmd[p].stage \in {"read", "write"} => Writer(p, 1)
OutputsBacked == \A p \in Jobs : OutputBacked(p)

Whole == Sound /\ WritesAtEnd /\ OutputsBacked

LEMMA WritesNot ==
  ASSUME cmd'[Shell].stage \notin {"create", "read", "write"}, cmd'[Shell].name # "-a"
  PROVE  WritesAtEnd'
BY DEF WritesAtEnd

\* While another process runs, the shell is not writing.
LEMMA JobLeavesShell ==
  ASSUME HasCpu, ~cut, WritesAtEnd, NEW p \in Jobs, running = p, cmd'[Shell] = cmd[Shell]
  PROVE  WritesAtEnd'
<1>1. ~Inside(Shell)
  BY CommandsAssumption DEF HasCpu, Jobs
<1>2. cmd'[Shell].stage \notin {"create", "read", "write"} /\ cmd'[Shell].name # "-a"
  BY <1>1 DEF Inside, Outside, WritesAtEnd
<1>3. QED
  BY <1>2, WritesNot

\* And a job that does not run is not writing either.
LEMMA OtherBacked ==
  ASSUME HasCpu, ~cut, OutputsBacked, NEW p \in Jobs, running # p, cmd'[p] = cmd[p],
         Descriptor(p, 1)' \subseteq Descriptor(p, 1)
  PROVE  OutputBacked(p)'
<1>1. OutputBacked(p) /\ p \in Proc
  BY DEF OutputsBacked, Jobs
<1>2. ~Inside(p)
  BY <1>1 DEF HasCpu
<1>3. cmd'[p].stage \notin {"read", "write"}
  BY <1>2 DEF Inside, Outside
<1>4. cmd'[p].stage \in {"idle", "start"} => Fresh(p)'
  BY <1>1 DEF OutputBacked, Fresh
<1>5. QED
  BY <1>3, <1>4 DEF OutputBacked

TablesShrink(S) == \A p \in S : fds'[p] \subseteq fds[p]

LEMMA OthersBacked ==
  ASSUME HasCpu, ~cut, OutputsBacked, NEW q \in Proc, running = q, Others(q),
         TablesShrink(Proc \ {q})
  PROVE  \A p \in Jobs \ {q} : OutputBacked(p)'
<1>1. ASSUME NEW p \in Jobs \ {q}
      PROVE  OutputBacked(p)'
  <2>1. p \in Jobs /\ p \in Proc \ {q}
    BY DEF Jobs
  <2>2. cmd'[p] = cmd[p] /\ fds'[p] \subseteq fds[p]
    BY <2>1 DEF Others, TablesShrink
  <2>3. QED
    BY <2>1, <2>2, OtherBacked DEF Descriptor
<1>2. QED
  BY <1>1

LEMMA ShellBacked ==
  ASSUME HasCpu, ~cut, OutputsBacked, running = Shell, Others(Shell),
         TablesShrink(Jobs)
  PROVE  OutputsBacked'
<1>1. Shell \in Proc /\ Jobs = Proc \ {Shell} /\ \A p \in Jobs : p \in Jobs \ {Shell}
  BY CommandsAssumption DEF Jobs
<1>2. QED
  BY <1>1, OthersBacked DEF OutputsBacked

\* A call of p gives the others no descriptor.
LEMMA OpenShrinks ==
  ASSUME CallInv, NEW p \in Proc, NEW f, NEW mode, Open(p, f, mode)
  PROVE  TablesShrink(Proc \ {p})
<1>1. CASE UNCHANGED image
  BY <1>1 DEF image, TablesShrink
<1>2. CASE OpenOld(p, f, mode) \/ OpenNew(p, f, mode)
  <2>1. PICK pos : OpenDescriptor(p, f, mode, pos)
    BY <1>2 DEF OpenOld, OpenNew
  <2>2. PICK new : fds' = [fds EXCEPT ![p] = @ \cup {new}]
    BY <2>1 DEF OpenDescriptor
  <2>3. QED
    BY <2>2, TableFacts DEF TablesShrink
<1>3. QED
  BY <1>1, <1>2 DEF Open

LEMMA MovedShrinks ==
  ASSUME CallInv, NEW p \in Proc, NEW d, NEW pos, fds' = Moved(p, d, pos)
  PROVE  TablesShrink(Proc \ {p})
<1>1. PICK e : fds' = [fds EXCEPT ![p] = (@ \ {d}) \cup {e}]
  BY DEF Moved
<1>2. QED
  BY <1>1, TableFacts DEF TablesShrink

LEMMA WriteShrinks ==
  ASSUME CallInv, NEW p \in Proc, NEW n, NEW numb, Writes(p, n, numb)
  PROVE  TablesShrink(Proc \ {p})
<1>1. CASE UNCHANGED image
  BY <1>1 DEF image, TablesShrink
<1>2. CASE \E d \in Descriptor(p, n) : d.file # Terminal /\ FWrite(p, d, numb)
  <2>1. PICK d : FWrite(p, d, numb)
    BY <1>2
  <2>2. CASE fds' = fds
    BY <2>2 DEF TablesShrink
  <2>3. CASE \E pos : fds' = Moved(p, d, pos)
    BY <2>3, MovedShrinks
  <2>4. QED
    BY <2>1, <2>2, <2>3, FWriteCases DEF WritesAll
<1>3. QED
  BY <1>1, <1>2 DEF Writes

LEMMA CloseShrinks ==
  ASSUME CallInv, NEW p \in Proc, NEW n, FClose(p, n)
  PROVE  TablesShrink(Proc)
<1>1. PICK hit : fds' = [fds EXCEPT ![p] = @ \ hit]
  BY DEF FClose
<1>2. QED
  BY <1>1, TableFacts DEF TablesShrink

LEMMA UnlinkShrinks ==
  ASSUME CallInv, NEW p \in Proc, NEW f, Unlinked(p, f)
  PROVE  TablesShrink(Proc \ {p})
<1>1. CASE fds' = fds
  BY <1>1 DEF TablesShrink
<1>2. CASE fds' = [Forget(f) EXCEPT ![p] = @ \ Dropped(p, f)]
  <2>1. \A q \in Proc \ {p} : fds'[q] = {d \in fds[q] : d.file # f}
    BY <1>2 DEF Forget
  <2>2. QED
    BY <2>1 DEF TablesShrink
<1>3. QED
  BY <1>1, <1>2 DEF Unlinked

LEMMA StaysBacked ==
  ASSUME CallInv, CallInv', Grown, fat' = fat, NEW p \in Proc, NEW n, Writer(p, n),
         Descriptor(p, n)' \subseteq Descriptor(p, n)
  PROVE  Writer(p, n)' /\ (Ends(p, n) => Ends(p, n)')
<1>1. /\ \A i \in DOMAIN files : files[i].size \in Int
      /\ \A i \in DOMAIN files' : files'[i].size \in Int
  <2>1. files \in Directory /\ files' \in Directory
    BY DEF CallInv, GoodDirectory
  <2>2. \A k \in 0 .. MaxSize : k \in Int
    BY LengthsAssumption
  <2>3. QED
    BY <2>1, <2>2, DirectoryFacts
<1>2. \A d \in Descriptor(p, n) : d.pos \in Int
  <2>1. \A d \in fds[p] : d \in DescriptorRecord
    BY TableFacts
  <2>2. QED
    BY <2>1, LengthsAssumption DEF Descriptor, DescriptorRecord
<1>3. ASSUME NEW d \in Descriptor(p, n)
      PROVE  Backed(d)'
  <2>1. Backed(d)
    BY DEF Writer
  <2>2. ASSUME d.file # Terminal, d.mode # "F_READ"
        PROVE  /\ d.mode # "F_APPEND"
               /\ \A i \in DOMAIN files' : files'[i].name = d.file => BackedAt(fat', files'[i], d.pos)
    <3>1. ASSUME NEW i \in DOMAIN files', files'[i].name = d.file
          PROVE  BackedAt(fat', files'[i], d.pos)
      <4>1. /\ i \in DOMAIN files /\ files[i].name = d.file
            /\ files'[i].start = files[i].start /\ files[i].size <= files'[i].size
        BY <3>1 DEF Grown, SameEntries
      <4>2. BackedAt(fat, files[i], d.pos)
        BY <4>1, <2>1, <2>2 DEF Backed
      <4>3. CASE d.pos <= files[i].size
        BY <4>1, <4>3, <1>1, <1>2, <3>1 DEF BackedAt
      <4>4. QED
        BY <4>1, <4>2, <4>3 DEF BackedAt
    <3>2. QED
      BY <3>1, <2>1, <2>2 DEF Backed
  <2>3. QED
    BY <2>2 DEF Backed, BackedAt
<1>4. Writer(p, n)'
  BY <1>3 DEF Writer
<1>5. ASSUME Ends(p, n)
      PROVE  Ends(p, n)'
  <2>1. \A d \in Descriptor(p, n) : EndsAt(d)'
    BY <1>5 DEF Ends, EndsAt, Grown, SameEntries
  <2>2. QED
    BY <2>1 DEF Ends
<1>6. QED
  BY <1>4, <1>5

LEMMA StaysAtEnd ==
  ASSUME CallInv, CallInv', Grown, fat' = fat, NEW n, AtEndWriter(n),
         Descriptor(Shell, n)' \subseteq Descriptor(Shell, n)
  PROVE  AtEndWriter(n)'
BY StaysBacked, CommandsAssumption DEF AtEndWriter

LEMMA NotGrown ==
  ASSUME CallInv, files' = files
  PROVE  Grown
<1>1. \A i \in DOMAIN files : files[i].size \in Int
  <2>1. files \in Directory
    BY DEF CallInv, GoodDirectory
  <2>2. \A k \in 0 .. MaxSize : k \in Int
    BY LengthsAssumption
  <2>3. QED
    BY <2>1, <2>2, DirectoryFacts
<1>2. \A k \in Int : k <= k
  OBVIOUS
<1>3. QED
  BY <1>1, <1>2 DEF Grown, SameEntries


\* The reads of a command move no descriptor of another number, nor number 1,
\* and raise a size at most.
LEMMA ReadMovesNone ==
  ASSUME CallInv, Standard, NEW p \in Proc, NEW k \in (-1 .. MaxNumber) \ {0}, ReadsAny(p, k)
  PROVE  /\ Grown /\ fat' = fat /\ data' = data /\ stored' = stored /\ CallInv'
         /\ \A n : n # k \/ n = 1 => Descriptor(p, n)' = Descriptor(p, n)
         /\ TablesShrink(Proc \ {p})
<1>1. CASE UNCHANGED image
  <2>1. Grown /\ fat' = fat /\ data' = data /\ stored' = stored /\ fds' = fds
    BY <1>1, NotGrown DEF image
  <2>2. CallInv'
    BY <1>1, NothingChanged DEF image, Keeps
  <2>3. QED
    BY <2>1, <2>2 DEF Descriptor, TablesShrink
<1>2. CASE \E got : \E d \in Descriptor(p, k) : FRead(p, d, FAT_WIDTH, got)
  <2>1. PICK got : \E d \in Descriptor(p, k) : FRead(p, d, FAT_WIDTH, got)
    BY <1>2
  <2>2. PICK d \in FileDescriptors(p) : d.number = k /\ FRead(p, d, FAT_WIDTH, got)
    BY <2>1, ReadsSomeFacts
  <2>3. k # 1 /\ d \in fds[p]
    BY <2>1, <2>2, ReadsSomeFacts DEF FileDescriptors
  <2>4. /\ CallInv' /\ data' = data
        /\ \/ files' = files
           \/ \E m \in 0 .. MaxSize : files' = Resized(d.file, m) /\ Entry(d.file).size <= m
    BY <2>2, FReadKeeps, GeometryAssumption
  <2>5. fat' = fat /\ stored' = stored /\ \E pos : fds' = Moved(p, d, pos)
    BY <2>2 DEF FRead
  <2>6. Grown
    <3>1. CASE files' = files
      BY <3>1, NotGrown
    <3>2. CASE \E m \in 0 .. MaxSize : files' = Resized(d.file, m) /\ Entry(d.file).size <= m
      <4>1. PICK m \in 0 .. MaxSize : files' = Resized(d.file, m) /\ Entry(d.file).size <= m
        BY <3>2
      <4>2. /\ DOMAIN files' = DOMAIN files
            /\ \A i \in DOMAIN files :
                 /\ files'[i].name = files[i].name /\ files'[i].start = files[i].start
                 /\ files'[i].size = IF files[i].name = d.file THEN m ELSE files[i].size
        BY <4>1, ResizedFacts DEF CallInv, GoodDirectory
      <4>3. \A i \in DOMAIN files : files[i].name = d.file => Entry(d.file) = files[i]
        <5>1. d.file \in NamesOf(files)
          BY <2>2, FileDescriptorFacts
        <5>2. QED
          BY <5>1, DescriptorEntry DEF CallInv, GoodDirectory
      <4>4. \A i \in DOMAIN files : files[i].size \in Int
        <5>1. files \in Directory
          BY DEF CallInv, GoodDirectory
        <5>2. \A j \in 0 .. MaxSize : j \in Int
          BY LengthsAssumption
        <5>3. QED
          BY <5>1, <5>2, DirectoryFacts
      <4>5. \A i \in DOMAIN files : files[i].size <= files'[i].size
        <5>1. ASSUME NEW i \in DOMAIN files
              PROVE  files[i].size <= files'[i].size
          <6>1. CASE files[i].name = d.file
            BY <6>1, <4>1, <4>2, <4>3
          <6>2. CASE files[i].name # d.file
            BY <6>2, <4>2, <4>4
          <6>3. QED
            BY <6>1, <6>2
        <5>2. QED
          BY <5>1
      <4>6. QED
        BY <4>2, <4>5 DEF Grown, SameEntries
    <3>3. QED
      BY <2>4, <3>1, <3>2
  <2>7. PICK pos : fds' = Moved(p, d, pos)
    BY <2>5
  <2>8. fds \in [Proc -> SUBSET DescriptorRecord] /\ d \in DescriptorRecord
    BY <2>3, TableFacts
  <2>9. PICK e : e.number = k /\ fds' = [fds EXCEPT ![p] = (@ \ {d}) \cup {e}]
    <3> DEFINE e == [d EXCEPT !.pos = pos]
    <3>1. e.number = k
      BY <2>2, <2>8 DEF DescriptorRecord
    <3>2. fds' = [fds EXCEPT ![p] = (@ \ {d}) \cup {e}]
      BY <2>7 DEF Moved
    <3> HIDE DEF e
    <3>3. QED
      BY <3>1, <3>2
  <2>10. fds'[p] = (fds[p] \ {d}) \cup {e}
    BY <2>8, <2>9
  <2>11. \A n : n # k \/ n = 1 => Descriptor(p, n)' = Descriptor(p, n)
    BY <2>2, <2>3, <2>9, <2>10 DEF Descriptor
  <2>12. TablesShrink(Proc \ {p})
    BY <2>7, MovedShrinks
  <2>13. QED
    BY <2>4, <2>5, <2>6, <2>11, <2>12
<1>3. QED
  BY <1>1, <1>2 DEF ReadsAny, ReadsSome, ReadsTerminal, ReadsNothing, ReadFails

LEMMA ReadKept ==
  ASSUME CallInv, Standard, Sound, NEW p \in Proc, NEW k \in (-1 .. MaxNumber) \ {0},
         ReadsAny(p, k), closed' = closed
  PROVE  Kept
BY ReadMovesNone, ImageKept DEF Grown

\* f_write through a descriptor with number n, if there is one.
LEMMA WriteKept ==
  ASSUME CallInv, Sound, NEW p \in Proc, NEW n, NEW numb \in Nat \ {0},
         Writes(p, n, numb), CallInv', closed' = closed, Writer(p, n)
  PROVE  \/ Overflows
         \/ Overtakes /\ ~Ends(p, n)
         \/ Kept /\ Writer(p, n)' /\ (Ends(p, n) => Ends(p, n)')
<1>1. CASE UNCHANGED image
  <2>1. SameEntries /\ Grown
    BY <1>1, NotGrown DEF image, Grown
  <2>2. Kept
    BY <1>1, <2>1, ImageKept DEF image
  <2>3. Descriptor(p, n)' = Descriptor(p, n) /\ fat' = fat
    BY <1>1 DEF image, Descriptor
  <2>4. QED
    BY <2>1, <2>2, <2>3, StaysBacked
<1>2. CASE \E d \in Descriptor(p, n) : d.file # Terminal /\ FWrite(p, d, numb)
  <2>1. PICK d \in Descriptor(p, n) : d.file # Terminal /\ FWrite(p, d, numb)
    BY <1>2
  <2>2. d \in FileDescriptors(p) /\ d \in fds[p] /\ d.number = n
    BY <2>1 DEF Descriptor, FileDescriptors
  <2>3. d.file \in NamesOf(files) /\ d.mode # "F_READ"
    BY <2>1, <2>2, FileDescriptorFacts, FWriteCases
  <2>4. PICK i \in DOMAIN files : files[i].name = d.file
    BY <2>3 DEF NamesOf
  <2>5. d.mode # "F_APPEND" /\ BackedAt(fat, files[i], d.pos)
    BY <2>1, <2>3, <2>4 DEF Writer, Backed
  <2>6. \/ Overflows
        \/ Overtakes /\ ~LastAt(fat, files[i].start, d.pos)
        \/ Kept /\ MovesOn(p, d, i)
    BY <2>1, <2>2, <2>4, <2>5, FWriteKept
  <2>7. Ends(p, n) => LastAt(fat, files[i].start, d.pos)
    BY <2>1, <2>4 DEF Ends, EndsAt
  <2>8. ASSUME Kept, MovesOn(p, d, i)
        PROVE  Writer(p, n)' /\ (Ends(p, n) => Ends(p, n)')
    <3>1. PICK pos : /\ SameEntries /\ fds' = Moved(p, d, pos)
                     /\ BackedAt(fat', files'[i], pos)
                     /\ (LastAt(fat, files[i].start, d.pos) => LastAt(fat', files[i].start, pos))
      BY <2>8 DEF MovesOn
    <3>2. fds \in [Proc -> SUBSET DescriptorRecord] /\ d \in DescriptorRecord
      BY <2>2, TableFacts
    <3>3. PICK e : /\ e.number = n /\ e.file = d.file /\ e.mode = d.mode /\ e.pos = pos
                   /\ fds' = [fds EXCEPT ![p] = (@ \ {d}) \cup {e}]
      <4> DEFINE e == [d EXCEPT !.pos = pos]
      <4>1. e.number = n /\ e.file = d.file /\ e.mode = d.mode /\ e.pos = pos
        BY <2>2, <3>2 DEF DescriptorRecord
      <4>2. fds' = [fds EXCEPT ![p] = (@ \ {d}) \cup {e}]
        BY <3>1 DEF Moved
      <4> HIDE DEF e
      <4>3. QED
        BY <4>1, <4>2
    <3>4. fds'[p] = (fds[p] \ {d}) \cup {e}
      BY <3>2, <3>3
    <3>5. \A c \in fds[p] : c.number = n => c = d
      BY <2>1 DEF Writer, Descriptor
    <3>6. Descriptor(p, n)' \subseteq {e}
      BY <3>4, <3>5 DEF Descriptor
    <3>7. \A j \in DOMAIN files' : files'[j].name = e.file => j = i
      BY <2>4, <3>1, <3>3 DEF CallInv, GoodDirectory, SameEntries
    <3>8. files'[i].start = files[i].start
      BY <3>1 DEF SameEntries
    <3>9. Backed(e)'
      <4>1. \A j \in DOMAIN files' : files'[j].name = e.file => BackedAt(fat', files'[j], e.pos)
        BY <3>1, <3>3, <3>7
      <4>2. QED
        BY <4>1, <2>5, <3>3 DEF Backed, BackedAt
    <3>10. Ends(p, n) => EndsAt(e)'
      <4>1. ASSUME Ends(p, n)
            PROVE  \A j \in DOMAIN files' : files'[j].name = e.file =>
                     LastAt(fat', files'[j].start, e.pos)
        BY <4>1, <2>7, <3>1, <3>3, <3>7, <3>8
      <4>2. QED
        BY <4>1 DEF EndsAt, LastAt
    <3>11. QED
      BY <3>6, <3>9, <3>10 DEF Writer, Ends
  <2>9. QED
    BY <2>6, <2>7, <2>8
<1>3. QED
  BY <1>1, <1>2 DEF Writes

LEMMA WriteStaysAtEnd ==
  ASSUME CallInv, Sound, NEW n, NEW numb \in Nat \ {0}, Writes(Shell, n, numb),
         CallInv', closed' = closed, AtEndWriter(n)
  PROVE  Overflows \/ (Kept /\ AtEndWriter(n)')
BY WriteKept, CommandsAssumption DEF AtEndWriter

LEMMA BackedAtZero ==
  ASSUME CallInv'
  PROVE  \A j \in DOMAIN files' : BackedAt(fat', files'[j], 0)
<1>1. files' \in Directory
  BY DEF CallInv, GoodDirectory
<1>2. \A k \in 0 .. MaxSize : 0 <= k
  BY LengthsAssumption
<1>3. \A j \in DOMAIN files' : 0 <= files'[j].size
  BY <1>1, <1>2, DirectoryFacts
<1>4. QED
  BY <1>3 DEF BackedAt

\* f_open with F_WRITE: a new number, and an end, for the chain is cut.
LEMMA OpenedAtEnd ==
  ASSUME CallInv, Sound, CallInv', Shell \in Proc, NEW f \in Name, Open(Shell, f, "F_WRITE"),
         NEW n, n = Opened(Shell, f, "F_WRITE")
  PROVE  n # -1 /\ n \notin Numbers(Shell) /\ AtEndWriter(n)'
<1>1. /\ files \in Directory /\ fat \in Table /\ GoodDirectory(files)
      /\ Apart(files, fat) /\ FreeUnlinked(files, fat)
      /\ DOMAIN files = 1 .. Len(files) /\ Len(files) \in Nat
  BY SoundFacts
<1>2. OpenOld(Shell, f, "F_WRITE") \/ OpenNew(Shell, f, "F_WRITE")
  BY DEF Open, NoFile
<1>3. n = NextNumber(Shell)
  BY DEF Opened, NoFile
<1>4. n \in 1 .. MaxNumber /\ n \notin Numbers(Shell)
  BY <1>2, <1>3, NextNumberFacts DEF OpenOld, OpenNew, MayOpen
<1>5. OpenDescriptor(Shell, f, "F_WRITE", 0)
  BY <1>2 DEF OpenOld, OpenNew
<1>6. PICK new : /\ new.number = n /\ new.file = f /\ new.mode = "F_WRITE" /\ new.pos = 0
                 /\ fds' = [fds EXCEPT ![Shell] = @ \cup {new}]
  BY <1>3, <1>5 DEF OpenDescriptor
<1>7. Descriptor(Shell, n)' \subseteq {new}
  <2>1. fds'[Shell] = fds[Shell] \cup {new}
    BY <1>6, TableFacts
  <2>2. QED
    BY <2>1, <1>4 DEF Descriptor, Numbers
<1>8. ASSUME NEW j \in DOMAIN files', files'[j].name = f, files'[j].start \in Block
      PROVE  fat'[files'[j].start] = END
  <2>1. CASE OpenOld(Shell, f, "F_WRITE")
    <3>1. PICK i \in DOMAIN files : files[i].name = f /\ Entry(f) = files[i]
      BY <2>1, NamedFacts, DescriptorEntry DEF OpenOld
    <3>2. fat' = CleanFat(fat, files[i].start) /\ files' = Resized(f, 0)
      BY <2>1, <3>1 DEF OpenOld
    <3>3. 0 \in 0 .. MaxSize
      BY LengthsAssumption
    <3>4. /\ DOMAIN files' = DOMAIN files
          /\ \A l \in DOMAIN files : /\ files'[l].name = files[l].name
                                     /\ files'[l].start = files[l].start
      BY <3>2, <3>3, <1>1, ResizedFacts
    <3>5. j = i /\ files'[j].start = files[i].start
      BY <3>1, <3>4, <1>1, <1>8 DEF GoodDirectory
    <3>6. QED
      BY <3>2, <3>5, <1>1, <1>8, CleanFatFacts
  <2>2. CASE OpenNew(Shell, f, "F_WRITE")
    <3> DEFINE b == DetermineBlock(files, fat)
    <3>1. /\ files' = AddFile(f) /\ f \notin NamesOf(files)
          /\ fat' = fat \/ fat' = CleanFat(fat, b)
      BY <2>2, NamedFacts DEF OpenNew
    <3>2. b \in Block => fat[b] = END
      BY <1>1, AddedApart
    <3>3. /\ DOMAIN files' = 1 .. Len(files) + 1
          /\ \A i \in DOMAIN files : files'[i] = files[i]
          /\ files'[Len(files) + 1].start = b
      <4>1. /\ DOMAIN files' = 1 .. Len(files) + 1
            /\ \A i \in DOMAIN files : files'[i] = files[i]
            /\ files'[Len(files) + 1] = [name |-> f, start |-> b, size |-> 0]
        BY <3>1, <1>1, AddFileFacts
      <4>2. QED
        BY <4>1
    <3> HIDE DEF b
    <3>4. j = Len(files) + 1
      BY <3>1, <3>3, <1>1, <1>8 DEF NamesOf
    <3>5. files'[j].start = b /\ b \in Block
      BY <3>3, <3>4, <1>8
    <3>6. fat'[b] = END
      BY <3>1, <3>2, <3>5, <1>1, CleanFatFacts
    <3>7. QED
      BY <3>5, <3>6
  <2>3. QED
    BY <1>2, <2>1, <2>2
<1>9. EndsAt(new)'
  <2>1. 0 \div FAT_WIDTH = 0
    BY GeometryAssumption
  <2>2. \A s : Walk(fat', s, 0) = s
    BY WalkZero
  <2>3. \A j \in DOMAIN files' : files'[j].name = f => LastAt(fat', files'[j].start, 0)
    BY <2>1, <2>2, <1>8 DEF LastAt
  <2>4. QED
    BY <2>3, <1>6 DEF EndsAt, LastAt
<1>10. Backed(new)'
  <2>1. \A j \in DOMAIN files' : BackedAt(fat', files'[j], new.pos)
    BY <1>6, BackedAtZero
  <2>2. QED
    BY <2>1, <1>6 DEF Backed, BackedAt
<1>11. n # -1
  BY <1>4
<1>12. QED
  BY <1>4, <1>7, <1>9, <1>10, <1>11 DEF AtEndWriter, Writer, Ends

\* f_open with F_READ: standard output stays fresh, and if it is gone, what takes
\* its number is not written to.
LEMMA OpenedFresh ==
  ASSUME CallInv, CallInv', NEW p \in Proc, NEW f, Open(p, f, "F_READ"), Fresh(p)
  PROVE  Writer(p, 1)'
<1>1. /\ \A d, e \in Descriptor(p, 1)' : d = e
      /\ \A d \in Descriptor(p, 1)' : d.mode = "F_READ" \/ (d.pos = 0 /\ d.mode # "F_APPEND")
  <2>1. CASE UNCHANGED image
    BY <2>1 DEF image, Descriptor, Fresh
  <2>2. CASE OpenOld(p, f, "F_READ")
    <3>1. PICK pos : OpenDescriptor(p, f, "F_READ", pos)
      BY <2>2 DEF OpenOld
    <3>2. NextNumber(p) \notin Numbers(p)
      BY <2>2, NextNumberFacts DEF OpenOld, MayOpen
    <3>3. PICK new : /\ new.number = NextNumber(p) /\ new.mode = "F_READ"
                     /\ fds' = [fds EXCEPT ![p] = @ \cup {new}]
      BY <3>1 DEF OpenDescriptor
    <3>4. fds'[p] = fds[p] \cup {new}
      BY <3>3, TableFacts
    <3>5. QED
      BY <3>2, <3>3, <3>4 DEF Descriptor, Fresh, Numbers
  <2>3. QED
    BY <2>1, <2>2 DEF Open, OpenNew
<1>2. \A d \in Descriptor(p, 1)' : Backed(d)'
  <2>1. \A j \in DOMAIN files' : BackedAt(fat', files'[j], 0)
    BY BackedAtZero
  <2>2. ASSUME NEW d \in Descriptor(p, 1)'
        PROVE  Backed(d)'
    <3>1. d.mode # "F_READ" => d.pos = 0 /\ d.mode # "F_APPEND"
      BY <1>1
    <3>2. d.mode # "F_READ" => \A j \in DOMAIN files' : BackedAt(fat', files'[j], d.pos)
      BY <2>1, <3>1
    <3>3. QED
      BY <3>1, <3>2 DEF Backed, BackedAt
  <2>3. QED
    BY <2>2
<1>3. QED
  BY <1>1, <1>2 DEF Writer

-------------------------------------------------------------------------------
(* Every step of the commands leaves the files whole, or finds no room.      *)

\* What a step leaves: bytes over the table; all whole; or a link replaced by the
\* output of a redirected program.
Outcome ==
  \/ Overflows
  \/ Kept /\ WritesAtEnd' /\ OutputsBacked'
  \/ Overtakes /\ \E p \in Jobs : FileTurn(p, {"cat"}, "write")

LEMMA UnlinkKept ==
  ASSUME CallInv, Sound, NEW p \in Proc, NEW f \in Name, FUnlink(p, f), CallInv',
         Memory \notin closed, closed \subseteq closed'
  PROVE  Kept
<1>1. Unlinked(p, f)
  BY DEF FUnlink
<1>2. stored' = files' \/ (stored' = stored /\ files' = files)
  <2>1. CASE Named(files, f) # {} /\ RunsOff(p, f)
    BY <2>1 DEF FUnlink, Unlinked
  <2>2. CASE ~(Named(files, f) # {} /\ RunsOff(p, f))
    BY <2>2 DEF FUnlink, StoreDirectory
  <2>3. QED
    BY <2>1, <2>2
<1>3. QED
  BY <1>1, <1>2, UnlinkedKept

LEMMA SameKept ==
  ASSUME CallInv, Sound, files' = files, fat' = fat, data' = data,
         stored' = files \/ stored' = stored, closed' = closed
  PROVE  Kept
BY ImageKept DEF SameEntries

LEMMA CloseKept ==
  ASSUME CallInv, Sound, NEW p \in Proc, NEW n, FClose(p, n), closed' = closed
  PROVE  Kept
<1>1. files' = files /\ fat' = fat /\ data' = data /\ (stored' = files \/ stored' = stored)
  BY DEF FClose
<1>2. QED
  BY <1>1, SameKept

LEMMA TerminalKept ==
  ASSUME CallInv, Sound, NEW p \in Proc, ToTerminal(p), closed' = closed
  PROVE  /\ Kept /\ fds' = fds /\ files' = files /\ fat' = fat
<1>1. /\ files' = files /\ fat' = fat /\ data' = data /\ fds' = fds
      /\ stored' = files \/ stored' = stored
  BY DEF ToTerminal, StoresOnly
<1>2. QED
  BY <1>1, SameKept

\* A job that is done with a call, if it is not about to write.
LEMMA JobOutcome ==
  ASSUME CommandInv, ~cut, Whole, NEW p \in Jobs, running = p, Kept, Others(p),
         TablesShrink(Proc \ {p}), OutputBacked(p)'
  PROVE  Outcome
<1>1. p \in Proc /\ p # Shell /\ Shell \in Proc \ {p} /\ HasCpu /\ WritesAtEnd /\ OutputsBacked
  BY CommandsAssumption DEF CommandInv, Whole, Jobs
<1>2. WritesAtEnd'
  BY <1>1, JobLeavesShell DEF Others
<1>3. \A q \in Jobs \ {p} : OutputBacked(q)'
  BY <1>1, OthersBacked
<1>4. OutputsBacked'
  BY <1>3 DEF OutputsBacked
<1>5. QED
  BY <1>2, <1>4 DEF Outcome

LEMMA JobDone ==
  ASSUME CommandInv, ~cut, Whole, NEW p \in Jobs, running = p, Kept, Others(p),
         TablesShrink(Proc \ {p}), cmd'[p].stage \in {"close", "exit", "exited"}
  PROVE  Outcome
<1>1. OutputBacked(p)'
  BY DEF OutputBacked
<1>2. QED
  BY <1>1, JobOutcome

LEMMA CatKept ==
  ASSUME CommandInv, ~cut, Whole, NEW p \in Jobs, Cat(p), CommandInv'
  PROVE  Outcome
<1>1. /\ p \in Proc /\ cmd \in [Proc -> Command] /\ CallInv /\ CallInv' /\ Sound
      /\ OutputBacked(p) /\ Standard /\ Sane(p, cmd[p])
  BY DEF CommandInv, Whole, OutputsBacked, Jobs
<1>2. CASE /\ FileTurn(p, {"cat"}, "start")
           /\ Open(p, cmd[p].src, "F_READ")
           /\ With(p, "read", "fd", Opened(p, cmd[p].src, "F_READ"))
           /\ Pause
  <2>1. Turn(p, JobCommands, "start") /\ closed' = closed
    BY <1>2 DEF FileTurn, Turn, JobCommands, Pause, cpu
  <2>2. cmd[p].src \in Name /\ running = p /\ cmd[p].stage = "start"
    BY <2>1, JobTurn
  <2>3. PICK n : n = Opened(p, cmd[p].src, "F_READ")
    OBVIOUS
  <2>4. n \in (-1 .. MaxNumber) \ {0} /\ With(p, "read", "fd", n)
    BY <1>1, <1>2, <2>2, <2>3, OpenEffect
  <2>5. Advances(p, "read")
    <3>1. "read" \in Stages
      BY DEF Stages
    <3>2. QED
      BY <1>1, <2>4, <3>1, WithFd
  <2>6. Kept /\ TablesShrink(Proc \ {p})
    BY <1>1, <1>2, <2>1, <2>2, OpenKept, OpenShrinks
  <2>7. Writer(p, 1)'
    BY <1>1, <1>2, <2>2, OpenedFresh DEF OutputBacked
  <2>8. OutputBacked(p)'
    BY <2>5, <2>7 DEF OutputBacked, Advances
  <2>9. QED
    BY <2>2, <2>5, <2>6, <2>8, JobOutcome DEF Advances
<1>3. CASE CatReads(p)
  <2>1. /\ Turn(p, {"cat"}, "read") /\ Turn(p, JobCommands, "read") /\ closed' = closed
        /\ ReadsAny(p, cmd[p].fd)
    BY <1>3, Zenon DEF CatReads, FileTurn, Turn, JobCommands, Pause, cpu, ReadsAny
  <2>2. /\ running = p /\ cmd[p].fd \in (-1 .. MaxNumber) \ {0} /\ cmd[p].stage = "read"
    BY <2>1, JobTurn
  <2>3. /\ Kept /\ Grown /\ fat' = fat /\ TablesShrink(Proc \ {p})
        /\ Descriptor(p, 1)' = Descriptor(p, 1)
    BY <1>1, <2>1, <2>2, ReadKept, ReadMovesNone
  <2>4. Writer(p, 1)
    BY <1>1, <2>2 DEF OutputBacked
  <2>5. Writer(p, 1)'
    BY <1>1, <2>3, <2>4, StaysBacked
  <2>6. Advances(p, "write") \/ Advances(p, "close")
    BY <1>3, CatReadsFacts
  <2>7. OutputBacked(p)' /\ Others(p)
    BY <2>5, <2>6 DEF OutputBacked, Advances
  <2>8. QED
    BY <2>2, <2>3, <2>7, JobOutcome
<1>4. CASE /\ FileTurn(p, {"cat"}, "write")
           /\ Writes(p, 1, cmd[p].filled) \/ ToTerminal(p)
           /\ At(p, "read")
           /\ Pause
  <2>1. Turn(p, JobCommands, "write") /\ closed' = closed /\ cmd[p].name = "cat"
    BY <1>4 DEF FileTurn, Turn, JobCommands, Pause, cpu
  <2>2. running = p /\ cmd[p].stage = "write"
    BY <2>1, JobTurn
  <2>3. Advances(p, "read")
    <3>1. "read" \in Stages
      BY DEF Stages
    <3>2. QED
      BY <1>1, <1>4, <3>1, AtFacts
  <2>4. Writer(p, 1)
    BY <1>1, <2>2 DEF OutputBacked
  <2>5. ASSUME Kept, TablesShrink(Proc \ {p}), Writer(p, 1)'
        PROVE  Outcome
    <3>1. OutputBacked(p)'
      BY <2>3, <2>5 DEF OutputBacked, Advances
    <3>2. QED
      BY <3>1, <2>2, <2>3, <2>5, JobOutcome DEF Advances
  <2>6. CASE Writes(p, 1, cmd[p].filled)
    <3>1. PICK numb : numb = cmd[p].filled
      OBVIOUS
    <3>2. numb \in Nat \ {0} /\ Writes(p, 1, numb)
      <4>1. cmd[p].filled \in 0 .. FAT_WIDTH + 1
        BY <1>1 DEF Command
      <4>2. cmd[p].filled # 0
        BY <1>1, <2>1, <2>2 DEF Sane
      <4>3. QED
        BY <2>6, <3>1, <4>1, <4>2, GeometryAssumption
    <3>3. TablesShrink(Proc \ {p})
      BY <1>1, <3>2, WriteShrinks
    <3>4. Overflows \/ Overtakes \/ (Kept /\ Writer(p, 1)')
      BY <1>1, <2>1, <2>4, <3>2, WriteKept
    <3>5. ASSUME Overtakes
          PROVE  Outcome
      BY <1>4, <3>5 DEF Outcome
    <3>6. QED
      BY <2>5, <3>3, <3>4, <3>5 DEF Outcome
  <2>7. CASE ToTerminal(p)
    <3>1. Kept /\ fds' = fds /\ files' = files /\ fat' = fat
      BY <1>1, <2>1, <2>7, TerminalKept
    <3>2. TablesShrink(Proc \ {p}) /\ Descriptor(p, 1)' = Descriptor(p, 1)
      BY <3>1 DEF TablesShrink, Descriptor
    <3>3. Writer(p, 1)'
      BY <1>1, <2>4, <3>1, <3>2, NotGrown, StaysBacked
    <3>4. QED
      BY <2>5, <3>1, <3>2, <3>3
  <2>8. QED
    BY <1>4, <2>6, <2>7
<1>5. QED
  BY <1>2, <1>3, <1>4 DEF Cat

LEMMA JobKept ==
  ASSUME CommandInv, ~cut, Whole, NEW p \in Jobs,
         Touch(p) \/ Rm(p) \/ Cat(p) \/ Close(p) \/ Exit(p), CommandInv'
  PROVE  Outcome
<1>1. p \in Proc /\ cmd \in [Proc -> Command] /\ CallInv /\ CallInv' /\ Sound /\ Standard
  BY DEF CommandInv, Whole, Jobs
<1>2. CASE Touch(p)
  <2>1. /\ Turn(p, JobCommands, "start") /\ Open(p, cmd[p].src, "F_WRITE") /\ closed' = closed
        /\ With(p, "close", "fd", Opened(p, cmd[p].src, "F_WRITE"))
    BY <1>2 DEF Touch, FileTurn, Turn, JobCommands, Pause, cpu
  <2>2. cmd[p].src \in Name /\ running = p
    BY <2>1, JobTurn
  <2>3. PICK n : n = Opened(p, cmd[p].src, "F_WRITE")
    OBVIOUS
  <2>4. n \in (-1 .. MaxNumber) \ {0} /\ With(p, "close", "fd", n)
    BY <1>1, <2>1, <2>2, <2>3, OpenEffect
  <2>5. Advances(p, "close")
    <3>1. "close" \in Stages
      BY DEF Stages
    <3>2. QED
      BY <1>1, <2>4, <3>1, WithFd
  <2>6. Kept /\ TablesShrink(Proc \ {p})
    BY <1>1, <2>1, <2>2, OpenKept, OpenShrinks
  <2>7. QED
    BY <2>2, <2>5, <2>6, JobDone DEF Advances
<1>3. CASE Rm(p)
  <2>1. /\ Turn(p, JobCommands, "start") /\ FUnlink(p, cmd[p].src) /\ closed' = closed
        /\ At(p, "exit") /\ Memory \notin closed
    BY <1>3 DEF Rm, FileTurn, Turn, JobCommands, Pause, cpu
  <2>2. cmd[p].src \in Name /\ running = p
    BY <2>1, JobTurn
  <2>3. Advances(p, "exit")
    <3>1. "exit" \in Stages
      BY DEF Stages
    <3>2. QED
      BY <1>1, <2>1, <3>1, AtFacts
  <2>4. Kept /\ TablesShrink(Proc \ {p})
    BY <1>1, <2>1, <2>2, UnlinkKept, UnlinkShrinks DEF FUnlink
  <2>5. QED
    BY <2>2, <2>3, <2>4, JobDone DEF Advances
<1>4. CASE Cat(p)
  BY <1>4, CatKept
<1>5. CASE Close(p)
  <2>1. /\ running = p /\ FClose(p, cmd[p].fd) /\ At(p, "exit") /\ closed' = closed
    BY <1>5 DEF Close, FileTurn, Turn, Pause, cpu
  <2>2. Advances(p, "exit")
    <3>1. "exit" \in Stages
      BY DEF Stages
    <3>2. QED
      BY <1>1, <2>1, <3>1, AtFacts
  <2>3. Kept /\ TablesShrink(Proc \ {p})
    BY <1>1, <2>1, CloseKept, CloseShrinks DEF TablesShrink
  <2>4. QED
    BY <2>1, <2>2, <2>3, JobDone DEF Advances
<1>6. CASE Exit(p)
  <2>1. /\ running = p /\ UNCHANGED image /\ closed' = closed /\ cmd[p].name \in JobCommands
        /\ cmd' = [cmd EXCEPT ![p] = [Idle EXCEPT !.name = cmd[p].name, !.stage = "exited"]]
    BY <1>6 DEF Exit, Turn, JobCommands
  <2>2. PICK r \in Command : /\ r = [Idle EXCEPT !.name = cmd[p].name, !.stage = "exited"]
                             /\ r.stage = "exited"
    BY <2>1, ExitedFacts, Zenon DEF JobCommands
  <2>3. cmd' = [cmd EXCEPT ![p] = r]
    BY <2>1, <2>2
  <2>4. Others(p) /\ cmd'[p].stage = "exited"
    BY <1>1, <2>2, <2>3, SetFacts
  <2>5. Kept /\ TablesShrink(Proc \ {p})
    BY <1>1, <2>1, SameKept DEF image, TablesShrink
  <2>6. QED
    BY <2>1, <2>4, <2>5, JobDone
<1>7. QED
  BY <1>2, <1>3, <1>4, <1>5, <1>6


\* The shell, or catFlatFat, after a call.
LEMMA ShellOutcome ==
  ASSUME CommandInv, ~cut, Whole, running = Shell, Kept, Others(Shell),
         TablesShrink(Proc \ {Shell}), WritesAtEnd'
  PROVE  Outcome
<1>1. HasCpu /\ OutputsBacked /\ TablesShrink(Jobs)
  BY DEF CommandInv, Whole, Jobs
<1>2. OutputsBacked'
  BY <1>1, ShellBacked
<1>3. QED
  BY <1>2 DEF Outcome

LEMMA OpenedNumber ==
  ASSUME CallInv, NEW p \in Proc, NEW f, NEW mode, Open(p, f, mode),
         NEW n, n = Opened(p, f, mode)
  PROVE  n \in {-1} \cup Numbers(p)'
<1>1. CASE NoFile(f, mode)
  BY <1>1 DEF Opened
<1>2. CASE ~NoFile(f, mode)
  <2>1. n = NextNumber(p) /\ (OpenOld(p, f, mode) \/ OpenNew(p, f, mode))
    BY <1>2 DEF Opened, Open
  <2>2. PICK pos : OpenDescriptor(p, f, mode, pos)
    BY <2>1 DEF OpenOld, OpenNew
  <2>3. PICK new : new.number = n /\ fds' = [fds EXCEPT ![p] = @ \cup {new}]
    BY <2>1, <2>2 DEF OpenDescriptor
  <2>4. new \in fds'[p]
    BY <2>3, TableFacts
  <2>5. QED
    BY <2>3, <2>4 DEF Numbers
<1>3. QED
  BY <1>1, <1>2

LEMMA OpensKept ==
  ASSUME CommandInv, ~cut, Whole, Opens(Shell), CommandInv'
  PROVE  Outcome
<1> DEFINE c == cmd[Shell]
<1>1. /\ cmd \in [Proc -> Command] /\ CallInv /\ CallInv' /\ Sound /\ WritesAtEnd
  BY DEF CommandInv, Whole
<1>2. CASE /\ FileTurn(Shell, {"cp", "mv"}, "open")
           /\ Open(Shell, c.src, "F_READ")
           /\ With(Shell, "create", "fd", Opened(Shell, c.src, "F_READ"))
           /\ Pause
  <2>1. PICK n : n = Opened(Shell, c.src, "F_READ")
    OBVIOUS
  <2>2. /\ Shell \in Proc /\ c.name \in {"cp", "mv"} /\ c.src \in Name
        /\ Open(Shell, c.src, "F_READ") /\ With(Shell, "create", "fd", n) /\ closed' = closed
        /\ Standard /\ running = Shell
    <3>1. /\ Shell \in Proc /\ c.name \in {"cp", "mv"} /\ c.src \in Name /\ Standard
          /\ running = Shell
      BY <1>2, FileTurns, ShellTurn
    <3>2. closed' = closed
      BY <1>2 DEF Pause, cpu
    <3>3. QED
      BY <1>2, <2>1, <3>1, <3>2
  <2>3. n \in (-1 .. MaxNumber) \ {0} /\ n \in {-1} \cup Numbers(Shell)'
    BY <2>1, <2>2, <1>1, OpenEffect, OpenedNumber
  <2>4. Kept /\ TablesShrink(Proc \ {Shell})
    BY <2>2, <1>1, OpenKept, OpenShrinks
  <2>5. Advances(Shell, "create") /\ cmd'[Shell].fd = n
    <3>1. "create" \in Stages /\ cmd \in [Proc -> Command]
      BY <1>1 DEF Stages
    <3>2. QED
      BY <2>2, <2>3, <3>1, WithFd
  <2>6. WritesAtEnd'
    BY <2>2, <2>3, <2>5 DEF WritesAtEnd, Advances
  <2>7. QED
    BY <2>2, <2>4, <2>5, <2>6, ShellOutcome DEF Advances
<1>3. CASE /\ FileTurn(Shell, {"cp", "mv"}, "create")
           /\ Open(Shell, c.dst, "F_WRITE")
           /\ With(Shell, "read", "to", Opened(Shell, c.dst, "F_WRITE"))
           /\ Pause
  <2>1. PICK n : n = Opened(Shell, c.dst, "F_WRITE")
    OBVIOUS
  <2>2. /\ Shell \in Proc /\ c.name \in {"cp", "mv"} /\ c.dst \in Name
        /\ Open(Shell, c.dst, "F_WRITE") /\ With(Shell, "read", "to", n) /\ closed' = closed
        /\ Standard /\ c.stage = "create" /\ running = Shell
    <3>1. /\ Shell \in Proc /\ c.stage = "create" /\ c.name \in {"cp", "mv"}
          /\ running = Shell
      BY <1>3, FileTurns, CommandsAssumption DEF Turn
    <3>2. c.dst \in Name /\ Standard
      <4>1. Sane(Shell, cmd[Shell]) /\ Standard
        BY <1>3, <3>1 DEF CommandInv
      <4>2. QED
        BY <3>1, <4>1 DEF Sane
    <3>3. closed' = closed
      BY <1>3 DEF Pause, cpu
    <3>4. QED
      BY <1>3, <2>1, <3>1, <3>2, <3>3
  <2>3. n \in (-1 .. MaxNumber) \ {0}
    BY <2>1, <2>2, <1>1, OpenEffect
  <2>4. n # -1 /\ n \notin Numbers(Shell) /\ AtEndWriter(n)'
    BY <2>1, <2>2, <1>1, OpenedAtEnd
  <2>5. Kept /\ TablesShrink(Proc \ {Shell})
    BY <2>2, <1>1, OpenKept, OpenShrinks
  <2>6. Advances(Shell, "read") /\ cmd'[Shell].fd = c.fd /\ cmd'[Shell].to = n
    <3>1. "read" \in Stages /\ cmd \in [Proc -> Command]
      BY <1>1 DEF Stages
    <3>2. QED
      BY <2>2, <2>3, <3>1, WithTo
  <2>7. c.fd # n
    BY <2>2, <2>4, <1>1 DEF WritesAtEnd
  <2>8. AtEndWriter(cmd[Shell].to)'
    BY <2>4, <2>6
  <2>9. WritesAtEnd'
    BY <2>2, <2>6, <2>7, <2>8 DEF WritesAtEnd, Advances
  <2>10. QED
    BY <2>2, <2>5, <2>6, <2>9, ShellOutcome DEF Advances
<1>4. QED
  BY <1>2, <1>3 DEF Opens

LEMMA CopiesKept ==
  ASSUME CommandInv, ~cut, Whole, Copies(Shell), CommandInv'
  PROVE  Outcome
<1> DEFINE c == cmd[Shell]
<1>1. /\ cmd \in [Proc -> Command] /\ CallInv /\ CallInv' /\ Sound /\ WritesAtEnd /\ Standard
  BY DEF CommandInv, Whole
<1>2. PICK st \in {"read", "write"}, st2 \in {"read", "write", "close"} :
        /\ Turn(Shell, {"cp", "mv"}, st) /\ At(Shell, st2) /\ Pause
        /\ ReadsAny(Shell, c.fd) \/ Writes(Shell, c.to, FAT_WIDTH)
  <2>1. \/ /\ FileTurn(Shell, {"cp", "mv"}, "read") /\ ReadsAny(Shell, c.fd) /\ Pause
           /\ At(Shell, "write") \/ At(Shell, "close")
        \/ /\ FileTurn(Shell, {"cp", "mv"}, "write")
           /\ Writes(Shell, c.to, FAT_WIDTH) /\ At(Shell, "read") /\ Pause
    BY Zenon DEF Copies, ReadsAny
  <2>2. QED
    BY <2>1 DEF FileTurn
<1>3. PICK n : n = c.to
  OBVIOUS
<1>4. /\ Shell \in Proc /\ c.name \in {"cp", "mv"} /\ c.stage = st /\ closed' = closed
      /\ c.fd # n /\ AtEndWriter(n) /\ running = Shell /\ c.fd \in (-1 .. MaxNumber) \ {0}
  <2>1. /\ Shell \in Proc /\ c.name \in {"cp", "mv"} /\ c.stage = st /\ running = Shell
        /\ c.fd \in (-1 .. MaxNumber) \ {0}
    BY <1>2, ShellTurn
  <2>2. closed' = closed
    BY <1>2 DEF Pause, cpu
  <2>3. QED
    BY <2>1, <2>2, <1>1, <1>3 DEF WritesAtEnd
<1>5. Advances(Shell, st2) /\ cmd'[Shell].fd = c.fd /\ cmd'[Shell].to = n
  <2>1. st2 \in Stages /\ cmd \in [Proc -> Command]
    BY <1>1, <1>2 DEF Stages
  <2>2. QED
    BY <1>2, <1>3, <1>4, <2>1, AtFacts
<1>6. ASSUME AtEndWriter(n)'
      PROVE  WritesAtEnd'
  <2>1. AtEndWriter(cmd[Shell].to)'
    BY <1>5, <1>6
  <2>2. QED
    BY <1>4, <1>5, <2>1 DEF WritesAtEnd, Advances
<1>7. CASE Writes(Shell, c.to, FAT_WIDTH)
  <2>1. Overflows \/ (Kept /\ AtEndWriter(n)')
    BY <1>1, <1>3, <1>4, <1>7, WriteStaysAtEnd, GeometryAssumption
  <2>2. TablesShrink(Proc \ {Shell})
    BY <1>1, <1>4, <1>7, WriteShrinks
  <2>3. QED
    BY <2>1, <2>2, <1>4, <1>5, <1>6, ShellOutcome DEF Outcome, Advances
<1>8. CASE ReadsAny(Shell, c.fd)
  <2>1. /\ Kept /\ Grown /\ fat' = fat /\ TablesShrink(Proc \ {Shell})
        /\ Descriptor(Shell, n)' = Descriptor(Shell, n)
    BY <1>1, <1>4, <1>8, ReadKept, ReadMovesNone
  <2>2. AtEndWriter(n)'
    BY <1>1, <1>4, <2>1, StaysAtEnd
  <2>3. QED
    BY <2>1, <2>2, <1>4, <1>5, <1>6, ShellOutcome DEF Advances
<1>9. QED
  BY <1>2, <1>7, <1>8

LEMMA CpEndsKept ==
  ASSUME CommandInv, ~cut, Whole, CpEnds(Shell), CommandInv'
  PROVE  Outcome
<1>1. /\ cmd \in [Proc -> Command] /\ CallInv /\ Sound /\ Shell \in Proc
  BY CommandsAssumption DEF CommandInv, Whole
<1>2. closed' = closed /\ running = Shell /\ \E n : FClose(Shell, n)
  <2>1. closed' = closed
    BY DEF CpEnds, Pause, Arm, cpu
  <2>2. FClose(Shell, cmd[Shell].fd) \/ FClose(Shell, cmd[Shell].to)
    BY DEF CpEnds
  <2>3. running = Shell
    BY DEF CpEnds, FileTurn, Turn
  <2>4. QED
    BY <2>1, <2>2, <2>3
<1>3. Kept /\ TablesShrink(Proc \ {Shell})
  <2>1. PICK n : FClose(Shell, n)
    BY <1>2
  <2>2. Kept /\ TablesShrink(Proc)
    BY <2>1, <1>1, <1>2, CloseKept, CloseShrinks
  <2>3. QED
    BY <2>2 DEF TablesShrink
<1>4. CASE FileTurn(Shell, {"cp"}, "close") /\ At(Shell, "close too")
  <2>1. Advances(Shell, "close too")
    <3>1. "close too" \in Stages
      BY DEF Stages
    <3>2. QED
      BY <1>1, <1>4, <3>1, AtFacts
  <2>2. cmd[Shell].name = "cp"
    BY <1>4 DEF FileTurn, Turn
  <2>3. WritesAtEnd'
    BY <2>1, <2>2, WritesNot DEF Advances
  <2>4. QED
    BY <2>1, <2>3, <1>2, <1>3, ShellOutcome DEF Advances
<1>5. CASE cmd' = [cmd EXCEPT ![Shell] = Polling]
  <2>1. cmd'[Shell] = Polling /\ Others(Shell)
    BY <1>1, <1>5, SetFacts, IdleFacts
  <2>2. WritesAtEnd'
    BY <2>1, WritesNot, IdleFacts
  <2>3. QED
    BY <2>1, <2>2, <1>2, <1>3, ShellOutcome
<1>6. QED
  BY <1>4, <1>5 DEF CpEnds

LEMMA MvEndsKept ==
  ASSUME CommandInv, ~cut, Whole, MvEnds(Shell), CommandInv'
  PROVE  Outcome
<1> DEFINE c == cmd[Shell]
<1>1. /\ cmd \in [Proc -> Command] /\ CallInv /\ CallInv' /\ Sound /\ Shell \in Proc
  BY CommandsAssumption DEF CommandInv, Whole
<1>2. /\ Turn(Shell, {"mv"}, "close") /\ Memory \notin closed /\ closed \subseteq closed'
      /\ cmd' = [cmd EXCEPT ![Shell] = Polling]
  BY DEF MvEnds, FileTurn
<1>3. c.src \in Name /\ running = Shell
  <2>1. Sane(Shell, cmd[Shell]) /\ c.name = "mv" /\ c.stage = "close" /\ running = Shell
    BY <1>1, <1>2 DEF CommandInv, Turn
  <2>2. QED
    BY <2>1 DEF Sane, FileNames
<1>4. Kept /\ TablesShrink(Proc \ {Shell})
  <2>1. CASE Memory \in closed'
    <3>1. Unlinked(Shell, c.src) /\ stored' = stored
      BY <2>1 DEF MvEnds
    <3>2. QED
      BY <2>1, <3>1, <1>1, <1>2, <1>3, UnlinkedKept, UnlinkShrinks
  <2>2. CASE Memory \notin closed'
    <3>1. FUnlink(Shell, c.src)
      BY <2>2 DEF MvEnds
    <3>2. QED
      BY <3>1, <1>1, <1>2, <1>3, UnlinkKept, UnlinkShrinks DEF FUnlink
  <2>3. QED
    BY <2>1, <2>2
<1>5. cmd'[Shell] = Polling /\ Others(Shell)
  BY <1>1, <1>2, SetFacts, IdleFacts
<1>6. WritesAtEnd'
  BY <1>5, WritesNot, IdleFacts
<1>7. QED
  BY <1>3, <1>4, <1>5, <1>6, ShellOutcome


\* A step of the shell that also gives a job a new command, or output.
LEMMA ShellAndJob ==
  ASSUME CommandInv, ~cut, Whole, running = Shell, Kept, WritesAtEnd',
         NEW p \in Jobs, OutputBacked(p)',
         \A q \in Jobs \ {p} : cmd'[q] = cmd[q] /\ fds'[q] \subseteq fds[q]
  PROVE  Outcome
<1>1. HasCpu /\ OutputsBacked /\ \A q \in Jobs : q # Shell
  BY DEF CommandInv, Whole, Jobs
<1>2. ASSUME NEW q \in Jobs \ {p}
      PROVE  OutputBacked(q)'
  <2>1. cmd'[q] = cmd[q] /\ Descriptor(q, 1)' \subseteq Descriptor(q, 1) /\ q \in Jobs
    BY DEF Descriptor
  <2>2. QED
    BY <1>1, <2>1, OtherBacked
<1>3. OutputsBacked'
  BY <1>2 DEF OutputsBacked
<1>4. QED
  BY <1>3 DEF Outcome

LEMMA NewTableFresh ==
  /\ \A d, e \in {c \in NewTable : c.number = 1} : d = e
  /\ \A d \in {c \in NewTable : c.number = 1} : d.pos = 0 /\ d.mode # "F_APPEND"
<1>1. PICK a, b : /\ a.number = 0 /\ b.number = 1 /\ b.pos = 0 /\ b.mode = "F_WRITE"
                  /\ NewTable = {a, b}
  <2> DEFINE a == [number |-> 0, file |-> Terminal, mode |-> "F_READ", pos |-> 0]
             b == [number |-> 1, file |-> Terminal, mode |-> "F_WRITE", pos |-> 0]
  <2>1. a.number = 0 /\ b.number = 1 /\ b.pos = 0 /\ b.mode = "F_WRITE" /\ NewTable = {a, b}
    BY DEF NewTable
  <2> HIDE DEF a, b
  <2>2. QED
    BY <2>1
<1>2. QED
  BY <1>1

LEMMA DupFresh ==
  ASSUME CallInv, NEW p \in Proc, NEW f, FDup(p, 1, f), Redirected(f) = {}, Fresh(p)
  PROVE  Fresh(p)'
<1> DEFINE old == {d \in fds[p] : NodeIs(p, d, 1) /\ d.file = Terminal}
           To(d) == [d EXCEPT !.file = f]
<1>1. fds' = [fds EXCEPT ![p] = (@ \ old) \cup {To(d) : d \in old}]
  <2>1. old = {d \in {d \in fds[p] : NodeIs(p, d, 1)} : d.file = Terminal}
    OBVIOUS
  <2>2. QED
    BY <2>1, Zenon DEF FDup
<1>2. \A d \in old : /\ d \in fds[p] /\ To(d).number = d.number
                     /\ To(d).pos = d.pos /\ To(d).mode = d.mode
  <2>1. \A d \in old : d \in fds[p] /\ d \in DescriptorRecord
    BY TableFacts
  <2>2. QED
    BY <2>1 DEF DescriptorRecord
<1> HIDE DEF To
<1>3. fds'[p] = (fds[p] \ old) \cup {To(d) : d \in old}
  BY <1>1, TableFacts
<1>4. \A e \in Descriptor(p, 1)' :
        \/ e \in Descriptor(p, 1) /\ e \notin old
        \/ \E d \in Descriptor(p, 1) : d \in old /\ e = To(d)
  BY <1>2, <1>3 DEF Descriptor
<1> HIDE DEF old
<1>5. \A d, e \in Descriptor(p, 1)' : d = e
  BY <1>4 DEF Fresh
<1>6. \A e \in Descriptor(p, 1)' : e.pos = 0 /\ e.mode # "F_APPEND"
  BY <1>2, <1>4 DEF Fresh
<1>7. QED
  BY <1>5, <1>6 DEF Fresh

LEMMA LoopKept ==
  ASSUME CommandInv, ~cut, Whole, CommandInv',
         Wait \/ Prompt \/ \E p \in Jobs, c \in Commands, f \in Name : Spawn(p, c, f)
  PROVE  Outcome
<1>1. /\ cmd \in [Proc -> Command] /\ Shell \in Proc /\ \A p \in Jobs : p \in Proc /\ p # Shell
      /\ CallInv /\ Sound /\ Polling \in Command /\ OutputsBacked
      /\ fds \in [Proc -> SUBSET DescriptorRecord]
  BY CommandsAssumption, IdleFacts, TableFacts DEF CommandInv, Jobs, Whole
<1>2. CASE Wait
  <2>1. /\ files' = files /\ fat' = fat /\ data' = data /\ stored' = stored
        /\ closed' = closed /\ running = Shell
    BY <1>2 DEF Wait, Turn, image
  <2>2. Kept
    BY <2>1, <1>1, SameKept
  <2>3. ASSUME cmd'[Shell] = Polling
        PROVE  WritesAtEnd'
    BY <2>3, WritesNot, IdleFacts
  <2>4. CASE cmd' = [cmd EXCEPT ![Shell] = Polling] /\ UNCHANGED image
    <3>1. Others(Shell) /\ cmd'[Shell] = Polling
      BY <2>4, <1>1, SetFacts
    <3>2. TablesShrink(Proc \ {Shell})
      BY <2>4 DEF image, TablesShrink
    <3>3. QED
      BY <2>1, <2>2, <2>3, <3>1, <3>2, ShellOutcome
  <2>5. CASE \E p \in Jobs : /\ cmd' = [cmd EXCEPT ![Shell] = Polling, ![p] = Idle]
                             /\ fds' = [fds EXCEPT ![p] = NewTable]
    <3>1. PICK p \in Jobs : /\ cmd' = [cmd EXCEPT ![Shell] = Polling, ![p] = Idle]
                            /\ fds' = [fds EXCEPT ![p] = NewTable]
      BY <2>5
    <3>2. /\ cmd'[Shell] = Polling /\ cmd'[p] = Idle /\ fds'[p] = NewTable
          /\ \A q \in Jobs \ {p} : cmd'[q] = cmd[q] /\ fds'[q] \subseteq fds[q]
      BY <1>1, <3>1
    <3>3. Fresh(p)'
      BY <3>2, NewTableFresh DEF Fresh, Descriptor
    <3>4. OutputBacked(p)'
      BY <3>2, <3>3, IdleFacts DEF OutputBacked
    <3>5. QED
      BY <2>1, <2>2, <2>3, <3>2, <3>4, ShellAndJob
  <2>6. QED
    BY <1>2, <2>4, <2>5 DEF Wait
<1>3. CASE Prompt
  <2>1. /\ ToTerminal(Shell) /\ closed' = closed /\ running = Shell
        /\ cmd[Shell].name = "shell" /\ At(Shell, "reading")
    BY <1>3 DEF Prompt, Turn, Pause, cpu
  <2>2. Kept /\ fds' = fds
    BY <2>1, <1>1, TerminalKept
  <2>3. Advances(Shell, "reading")
    <3>1. "reading" \in Stages
      BY DEF Stages
    <3>2. QED
      BY <1>1, <2>1, <3>1, AtFacts
  <2>4. WritesAtEnd' /\ TablesShrink(Proc \ {Shell})
    BY <2>1, <2>2, <2>3, WritesNot DEF Advances, TablesShrink
  <2>5. QED
    BY <2>1, <2>2, <2>3, <2>4, ShellOutcome DEF Advances
<1>4. CASE \E p \in Jobs, c \in Commands, f \in Name : Spawn(p, c, f)
  <2>1. PICK p \in Jobs, c \in Commands, f \in Name : Spawn(p, c, f)
    BY <1>4
  <2>2. /\ files' = files /\ fat' = fat /\ data' = data /\ stored' = stored /\ fds' = fds
        /\ closed' = closed /\ running = Shell /\ cmd[Shell].name = "shell"
        /\ cmd[p] = Idle /\ c \in {"cat", "touch", "rm"}
    BY <2>1 DEF Spawn, Reading, Turn, Arm, image, cpu
  <2>3. Kept
    BY <2>2, <1>1, SameKept
  <2>4. PICK r \in Command :
          /\ r = [Idle EXCEPT !.name = c, !.stage = "start", !.src = f]
          /\ r.name = c /\ r.stage = "start" /\ r.src = f /\ r.to = -1
    BY <2>2, StartedFacts, Zenon
  <2>5. PICK u \in Command : u = SpawnedBy(cmd[Shell], p) /\ SameNames(u, cmd[Shell], "spawned")
    <3>1. cmd[Shell] \in Command /\ p \in Proc
      BY <1>1
    <3>2. QED
      BY <3>1, SpawnedField, Zenon
  <2>6. cmd' = [cmd EXCEPT ![p] = r, ![Shell] = u]
    BY <1>1, <2>1, <2>4, <2>5 DEF Spawn, SpawnedBy
  <2>7. /\ cmd'[Shell] = u /\ cmd'[p] = r
        /\ \A q \in Jobs \ {p} : cmd'[q] = cmd[q] /\ fds'[q] \subseteq fds[q]
    BY <1>1, <2>2, <2>6
  <2>8. cmd'[Shell].stage = "spawned" /\ cmd'[Shell].name = "shell"
    BY <2>2, <2>5, <2>7 DEF SameNames
  <2>9. WritesAtEnd'
    BY <2>8, WritesNot
  <2>10. Fresh(p)
    BY <1>1, <2>2, IdleFacts DEF OutputsBacked, OutputBacked
  <2>11. Fresh(p)'
    BY <2>2, <2>10 DEF Fresh, Descriptor
  <2>12. OutputBacked(p)'
    BY <2>4, <2>7, <2>11 DEF OutputBacked
  <2>13. QED
    BY <2>2, <2>3, <2>7, <2>9, <2>12, ShellAndJob
<1>5. QED
  BY <1>2, <1>3, <1>4

LEMMA LineKept ==
  ASSUME CommandInv, ~cut, Whole, CommandInv', NEW f \in Name,
         Redirects(f) \/ Copy(f) \/ \E g \in Name : Move(f, g)
  PROVE  Outcome
<1>1. /\ cmd \in [Proc -> Command] /\ Shell \in Proc /\ CallInv /\ CallInv' /\ Sound
      /\ OutputsBacked /\ HasCpu /\ \A p \in Proc : Sane(p, cmd[p])
  BY CommandsAssumption DEF CommandInv, Whole
<1>2. CASE Redirects(f)
  <2>1. PICK p : p = cmd[Shell].job
    OBVIOUS
  <2>2. /\ Redirected(f) = {} /\ FDup(p, 1, f) /\ At(Shell, "launched") /\ closed' = closed
        /\ Memory \notin closed /\ cmd[Shell].name = "shell" /\ running = Shell
        /\ cmd[p].name \in Redirect
    BY <1>2, <2>1 DEF Redirects, FileTurn, Turn, Pause, cpu
  <2>3. p \in Proc
    <3>1. cmd[Shell] \in Command
      BY <1>1
    <3>2. QED
      BY <3>1, <2>1 DEF Command
  <2>4. p \in Jobs
    BY <2>2, <2>3, CommandsAssumption DEF Jobs
  <2>5. Kept
    BY <1>1, <2>2, <2>3, FDupKept
  <2>6. Advances(Shell, "launched")
    <3>1. "launched" \in Stages
      BY DEF Stages
    <3>2. QED
      BY <1>1, <2>2, <3>1, AtFacts
  <2>7. WritesAtEnd'
    BY <2>2, <2>6, WritesNot DEF Advances
  <2>8. /\ \A q \in Jobs : q \in Proc /\ q # Shell /\ cmd'[q] = cmd[q]
        /\ \A q \in Proc \ {p} : fds'[q] = fds[q]
    <3>1. \A q \in Proc \ {p} : fds'[q] = fds[q]
      BY <2>2, TableFacts, <1>1 DEF FDup
    <3>2. QED
      BY <3>1, <2>6 DEF Advances, Others, Jobs
  <2>9. OutputBacked(p)'
    <3>1. ~Inside(p) /\ cmd'[p] = cmd[p] /\ OutputBacked(p)
      BY <1>1, <2>2, <2>4, <2>8 DEF HasCpu, OutputsBacked
    <3>2. cmd'[p].stage \notin {"read", "write"}
      BY <3>1 DEF Inside, Outside
    <3>3. Fresh(p) => Fresh(p)'
      BY <1>1, <2>2, <2>3, DupFresh
    <3>4. QED
      BY <3>1, <3>2, <3>3 DEF OutputBacked
  <2>10. QED
    BY <2>2, <2>4, <2>5, <2>7, <2>8, <2>9, ShellAndJob
<1>3. ASSUME UNCHANGED image, closed' = closed, running = Shell,
             NEW c \in Command, cmd' = [cmd EXCEPT ![Shell] = c],
             c.stage \in {"open", "poll"}, c.name # "-a"
      PROVE  Outcome
  <2>1. Kept /\ TablesShrink(Proc \ {Shell})
    BY <1>1, <1>3, SameKept DEF image, TablesShrink
  <2>2. Others(Shell) /\ cmd'[Shell] = c
    BY <1>1, <1>3, SetFacts
  <2>3. WritesAtEnd'
    BY <2>2, <1>3, WritesNot
  <2>4. QED
    BY <2>1, <2>2, <2>3, <1>3, ShellOutcome
<1>4. CASE Copy(f)
  <2>1. /\ UNCHANGED image /\ closed' = closed /\ running = Shell /\ CopyName[f] \in Name
        /\ cmd' = [cmd EXCEPT ![Shell] = CopyBegun("cp", f, CopyName[f])]
    BY <1>4, CommandsAssumption DEF Copy, CopyBegun, Reading, Turn, Pause, cpu
  <2>2. PICK c \in Command : c = CopyBegun("cp", f, CopyName[f]) /\ c.stage = "open" /\ c.name = "cp"
    BY <2>1, CopyingFacts
  <2>3. QED
    BY <2>1, <2>2, <1>3
<1>5. CASE \E g \in Name : Move(f, g)
  <2>1. PICK g \in Name : Move(f, g)
    BY <1>5
  <2>2. UNCHANGED image /\ closed' = closed /\ running = Shell
    BY <2>1 DEF Move, Reading, Turn, Pause, Arm, cpu
  <2>3. CASE cmd' = [cmd EXCEPT ![Shell] = CopyBegun("mv", f, g)]
    <3>1. PICK c \in Command : c = CopyBegun("mv", f, g) /\ c.stage = "open" /\ c.name = "mv"
      BY CopyingFacts
    <3>2. QED
      BY <2>2, <2>3, <3>1, <1>3
  <2>4. CASE cmd' = [cmd EXCEPT ![Shell] = Polling]
    <3>1. PICK c \in Command : c = Polling /\ c.stage = "poll" /\ c.name = "shell"
      BY IdleFacts
    <3>2. QED
      BY <2>2, <2>4, <3>1, <1>3
  <2>5. QED
    BY <2>1, <2>3, <2>4 DEF Move, CopyBegun
<1>6. QED
  BY <1>2, <1>4, <1>5

LEMMA SameWhole ==
  ASSUME CallInv, CallInv', WritesAtEnd, OutputsBacked, UNCHANGED image, cmd' = cmd
  PROVE  WritesAtEnd' /\ OutputsBacked'
<1>1. /\ Grown /\ fat' = fat /\ fds' = fds
      /\ \A p : Numbers(p)' = Numbers(p) /\ \A n : Descriptor(p, n)' = Descriptor(p, n)
  BY NotGrown DEF image, Numbers, Descriptor
<1>2. PICK c : c = cmd /\ c = cmd'
  OBVIOUS
<1>3. ASSUME NEW n, AtEndWriter(n)
      PROVE  AtEndWriter(n)'
  BY <1>1, <1>3, StaysAtEnd
<1>4. WritesAtEnd'
  <2>1. /\ c[Shell].name # "-a"
        /\ c[Shell].stage = "create" => c[Shell].fd \in {-1} \cup Numbers(Shell)'
    BY <1>1, <1>2 DEF WritesAtEnd
  <2>2. ASSUME c[Shell].stage \in {"read", "write"}, c[Shell].name \in {"cp", "mv"}
        PROVE  c[Shell].fd # c[Shell].to /\ AtEndWriter(c[Shell].to)'
    BY <1>2, <1>3, <2>2 DEF WritesAtEnd
  <2>3. ASSUME c[Shell].stage \in {"read", "write"}, c[Shell].name = "-w"
        PROVE  AtEndWriter(c[Shell].fd)'
    BY <1>2, <1>3, <2>3 DEF WritesAtEnd
  <2>4. /\ c[Shell].stage \in {"read", "write"} /\ c[Shell].name \in {"cp", "mv"} =>
             AtEndWriter(cmd[Shell].to)'
        /\ c[Shell].stage \in {"read", "write"} /\ c[Shell].name = "-w" =>
             AtEndWriter(cmd[Shell].fd)'
    BY <1>2, <2>2, <2>3
  <2>5. QED
    BY <1>2, <2>1, <2>2, <2>4 DEF WritesAtEnd
<1>5. ASSUME NEW p \in Jobs
      PROVE  OutputBacked(p)'
  <2>1. OutputBacked(p) /\ p \in Proc
    BY DEF OutputsBacked, Jobs
  <2>2. Fresh(p) => Fresh(p)'
    BY <1>1 DEF Fresh
  <2>3. Writer(p, 1) => Writer(p, 1)'
    BY <1>1, <2>1, StaysBacked
  <2>4. QED
    BY <2>1, <2>2, <2>3 DEF OutputBacked
<1>6. QED
  BY <1>4, <1>5 DEF OutputsBacked

LEMMA HostKept ==
  ASSUME CommandInv, ~cut, Whole, CommandInv', "-a" \notin Commands,
         \/ \E p \in Proc : Switch(p)
         \/ HostEnds \/ StartPennOS \/ \E c \in Commands, f \in Name : StartTool(c, f)
  PROVE  Outcome
<1>1. /\ cmd \in [Proc -> Command] /\ Shell \in Proc /\ CallInv /\ CallInv' /\ Sound
      /\ WritesAtEnd /\ OutputsBacked
  BY CommandsAssumption DEF CommandInv, Whole
<1>2. CASE \E p \in Proc : Switch(p)
  <2>1. UNCHANGED image /\ closed' = closed /\ cmd' = cmd
    BY <1>2 DEF Switch
  <2>2. Kept
    BY <1>1, <2>1, SameKept DEF image
  <2>3. QED
    BY <1>1, <2>1, <2>2, SameWhole DEF Outcome
<1>3. CASE HostEnds
  <2>1. /\ Boot /\ cmd'[Shell] = Idle
        /\ \A p \in Jobs : cmd'[p] = Idle /\ fds'[p] = NewTable
    BY <1>1, <1>3 DEF HostEnds, Boot, Jobs
  <2>2. Kept
    BY <1>1, <2>1, BootKept
  <2>3. WritesAtEnd'
    BY <2>1, WritesNot, IdleFacts
  <2>4. ASSUME NEW p \in Jobs
        PROVE  OutputBacked(p)'
    <3>1. Fresh(p)' /\ cmd'[p].stage = "idle"
      BY <2>1, NewTableFresh, IdleFacts DEF Fresh, Descriptor
    <3>2. QED
      BY <3>1 DEF OutputBacked
  <2>5. QED
    BY <2>2, <2>3, <2>4 DEF Outcome, OutputsBacked
<1>4. ASSUME host = "none", UNCHANGED image, closed' = closed, NEW c \in Command,
             cmd' = [cmd EXCEPT ![Shell] = c], c.stage \in {"start", "poll"}, c.name # "-a"
      PROVE  Outcome
  <2>1. Kept /\ TablesShrink(Proc \ {Shell})
    BY <1>1, <1>4, SameKept DEF image, TablesShrink
  <2>2. running = Shell
    BY <1>4, NoneFacts
  <2>3. Others(Shell) /\ cmd'[Shell] = c
    BY <1>1, <1>4, SetFacts
  <2>4. WritesAtEnd'
    BY <2>3, <1>4, WritesNot
  <2>5. QED
    BY <2>1, <2>2, <2>3, <2>4, ShellOutcome
<1>5. CASE StartPennOS
  <2>1. PICK c \in Command : c = Polling /\ c.stage = "poll" /\ c.name = "shell"
    BY IdleFacts
  <2>2. QED
    BY <2>1, <1>4, <1>5 DEF StartPennOS
<1>6. CASE \E c \in Commands, f \in Name : StartTool(c, f)
  <2>1. PICK t \in Commands, f \in Name : StartTool(t, f)
    BY <1>6
  <2>2. t \in {"cat", "touch", "rm"} \cup Tools
    BY <2>1 DEF StartTool, Tools
  <2>3. PICK c \in Command :
          /\ c = [Idle EXCEPT !.name = t, !.stage = "start", !.src = f]
          /\ c.name = t /\ c.stage = "start" /\ c.src = f /\ c.to = -1
    BY <2>2, StartedFacts, Zenon
  <2>4. host = "none" /\ UNCHANGED image /\ closed' = closed /\ cmd' = [cmd EXCEPT ![Shell] = c]
    BY <2>1, <2>3 DEF StartTool
  <2>5. t # "-a"
    BY <2>1
  <2>6. QED
    BY <2>3, <2>4, <2>5, <1>4
<1>7. QED
  BY <1>2, <1>3, <1>5, <1>6

LEMMA ToolKept ==
  ASSUME CommandInv, ~cut, Whole, CommandInv', Tool
  PROVE  Outcome
<1> DEFINE c == cmd[Shell]
<1>1. /\ cmd \in [Proc -> Command] /\ Shell \in Proc /\ CallInv /\ CallInv' /\ Sound
      /\ WritesAtEnd /\ Standard
  BY CommandsAssumption DEF CommandInv, Whole
<1>2. PICK k : k = c.fd
  OBVIOUS
<1>3. closed' = closed /\ running = Shell
  BY DEF Tool, Typed, FileTurn, Turn, cpu
<1>4. "read" \in Stages /\ "write" \in Stages /\ "close" \in Stages
  BY DEF Stages
<1>5. CASE \E t \in DOMAIN ToolMode :
             /\ FileTurn(Shell, {t}, "start")
             /\ Open(Shell, cmd[Shell].src, ToolMode[t])
             /\ With(Shell, "read", "fd", Opened(Shell, cmd[Shell].src, ToolMode[t]))
  <2>1. PICK t \in DOMAIN ToolMode :
          /\ FileTurn(Shell, {t}, "start")
          /\ Open(Shell, cmd[Shell].src, ToolMode[t])
          /\ With(Shell, "read", "fd", Opened(Shell, cmd[Shell].src, ToolMode[t]))
    BY <1>5
  <2>2. PICK f, mode, n : f = c.src /\ mode = ToolMode[t] /\ n = Opened(Shell, f, mode)
    OBVIOUS
  <2>3. t \in {"-w", "-a", "-r"} /\ (t = "-w" => mode = "F_WRITE")
    BY <2>2 DEF ToolMode
  <2>4. c.name = t /\ c.stage = "start" /\ Open(Shell, f, mode) /\ With(Shell, "read", "fd", n)
    BY <2>1, <2>2 DEF FileTurn, Turn
  <2>5. f \in Name
    <3>1. Sane(Shell, cmd[Shell])
      BY <1>1 DEF CommandInv
    <3>2. QED
      BY <2>2, <2>3, <2>4, <3>1 DEF Sane, FileNames, Tools
  <2>6. n \in (-1 .. MaxNumber) \ {0}
    BY <2>2, <2>4, <2>5, <1>1, OpenEffect
  <2>7. Kept /\ TablesShrink(Proc \ {Shell})
    BY <2>4, <2>5, <1>1, <1>3, OpenKept, OpenShrinks
  <2>8. Advances(Shell, "read") /\ cmd'[Shell].fd = n
    BY <2>4, <2>6, <1>1, <1>4, WithFd
  <2>9. t = "-w" => AtEndWriter(n)'
    BY <2>2, <2>3, <2>4, <2>5, <1>1, OpenedAtEnd
  <2>10. t # "-a"
    BY <2>4, <1>1 DEF WritesAtEnd
  <2>11. t = "-w" => AtEndWriter(cmd[Shell].fd)'
    BY <2>8, <2>9
  <2>12. cmd'[Shell].name = t /\ cmd'[Shell].stage = "read" /\ t \notin {"cp", "mv"}
    BY <2>3, <2>4, <2>8 DEF Advances
  <2>13. WritesAtEnd'
    BY <2>10, <2>11, <2>12 DEF WritesAtEnd
  <2>14. QED
    BY <2>7, <2>8, <2>13, <1>3, ShellOutcome DEF Advances
<1>6. ASSUME NEW st \in {"read", "write"}, FileTurn(Shell, {"-w", "-a"}, st)
      PROVE  c.name = "-w" /\ c.stage = st /\ AtEndWriter(k)
  <2>1. c.name \in {"-w", "-a"} /\ c.stage = st
    BY <1>6 DEF FileTurn, Turn
  <2>2. QED
    BY <2>1, <1>1, <1>2 DEF WritesAtEnd
<1>7. ASSUME c.name = "-w", Kept, AtEndWriter(k)', TablesShrink(Proc \ {Shell}),
             NEW st \in {"read", "write", "close"}, At(Shell, st)
      PROVE  Outcome
  <2>1. Advances(Shell, st) /\ cmd'[Shell].fd = k
    BY <1>1, <1>2, <1>4, <1>7, AtFacts
  <2>2. AtEndWriter(cmd[Shell].fd)'
    BY <2>1, <1>7
  <2>3. WritesAtEnd'
    BY <2>1, <2>2, <1>7 DEF WritesAtEnd, Advances
  <2>4. QED
    BY <2>1, <2>3, <1>3, <1>7, ShellOutcome DEF Advances
<1>8. CASE Typed
  <2>1. /\ files' = files /\ fat' = fat /\ data' = data /\ fds' = fds
        /\ stored' = files \/ stored' = stored
        /\ FileTurn(Shell, {"-w", "-a"}, "read")
        /\ \E st \in {"write", "close"} : At(Shell, st)
    BY <1>8 DEF Typed, StoresOnly
  <2>2. Kept
    BY <2>1, <1>1, <1>3, SameKept
  <2>3. c.name = "-w" /\ AtEndWriter(k)
    BY <2>1, <1>6
  <2>4. Descriptor(Shell, k)' = Descriptor(Shell, k) /\ TablesShrink(Proc \ {Shell}) /\ Grown
    BY <2>1, <1>1, NotGrown DEF Descriptor, TablesShrink
  <2>5. AtEndWriter(k)'
    BY <1>1, <2>1, <2>3, <2>4, StaysAtEnd
  <2>6. QED
    BY <2>1, <2>2, <2>3, <2>4, <2>5, <1>7
<1>9. CASE /\ FileTurn(Shell, {"-w", "-a"}, "write")
           /\ Writes(Shell, cmd[Shell].fd, 1)
           /\ At(Shell, "read")
  <2>1. c.name = "-w" /\ AtEndWriter(k)
    BY <1>6, <1>9
  <2>2. Overflows \/ (Kept /\ AtEndWriter(k)')
    BY <2>1, <1>1, <1>2, <1>3, <1>9, WriteStaysAtEnd
  <2>3. TablesShrink(Proc \ {Shell})
    BY <1>1, <1>9, WriteShrinks
  <2>4. QED
    BY <2>1, <2>2, <2>3, <1>7, <1>9 DEF Outcome
<1>10. CASE /\ FileTurn(Shell, {"-r"}, "read")
            /\ \/ \E got : ReadsSome(Shell, cmd[Shell].fd, got)
               \/ ReadsNothing(Shell, cmd[Shell].fd)
            /\ \E st \in {"read", "close"} : At(Shell, st)
  <2>1. /\ ReadsAny(Shell, k) /\ c.name = "-r" /\ c.stage = "read"
        /\ k \in (-1 .. MaxNumber) \ {0}
    <3>1. ReadsAny(Shell, k) /\ c.name = "-r" /\ c.stage = "read"
      BY <1>2, <1>10 DEF ReadsAny, FileTurn, Turn
    <3>2. k \in (-1 .. MaxNumber) \ {0}
      BY <1>1, <1>2 DEF Command
    <3>3. QED
      BY <3>1, <3>2
  <2>2. Kept /\ TablesShrink(Proc \ {Shell})
    BY <1>1, <1>3, <2>1, ReadKept, ReadMovesNone
  <2>3. PICK st \in {"read", "close"} : At(Shell, st)
    BY <1>10
  <2>4. Advances(Shell, st)
    BY <2>3, <1>1, <1>4, AtFacts
  <2>5. WritesAtEnd'
    BY <2>1, <2>4 DEF WritesAtEnd, Advances
  <2>6. QED
    BY <2>2, <2>4, <2>5, <1>3, ShellOutcome DEF Advances
<1>11. QED
  <2>1. \/ Typed
        \/ /\ FileTurn(Shell, {"-w", "-a"}, "write")
           /\ Writes(Shell, cmd[Shell].fd, 1)
           /\ At(Shell, "read")
        \/ /\ FileTurn(Shell, {"-r"}, "read")
           /\ \/ \E got : ReadsSome(Shell, cmd[Shell].fd, got)
              \/ ReadsNothing(Shell, cmd[Shell].fd)
           /\ \E st \in {"read", "close"} : At(Shell, st)
        \/ \E t \in DOMAIN ToolMode :
             /\ FileTurn(Shell, {t}, "start")
             /\ Open(Shell, cmd[Shell].src, ToolMode[t])
             /\ With(Shell, "read", "fd", Opened(Shell, cmd[Shell].src, ToolMode[t]))
    BY Zenon DEF Tool
  <2>2. QED
    BY <2>1, <1>5, <1>8, <1>9, <1>10

-------------------------------------------------------------------------------
(* The theorem.                                                              *)

\* No f_open appends.
CommandsUse == "-a" \notin Commands

\* What holds until a link is replaced or the table is written over, and as long
\* as the timer is not armed inside a command.
WholeInv == ~cut /\ ~torn => Spilled \/ Whole

\* A timer that was armed inside a command stays so.
LEMMA CutStays ==
  ASSUME CommandStep, cut
  PROVE  cut'
<1>1. CASE \E p \in Jobs : Touch(p) \/ Rm(p) \/ Cat(p) \/ Close(p) \/ Exit(p)
  BY <1>1 DEF Touch, Rm, Cat, CatReads, Close, Exit, Pause
<1>2. CASE Opens(Shell) \/ Copies(Shell) \/ CpEnds(Shell) \/ MvEnds(Shell)
  BY <1>2 DEF Opens, Copies, CpEnds, MvEnds, Pause, Arm
<1>3. CASE Wait \/ Prompt \/ \E p \in Jobs, c \in Commands, f \in Name : Spawn(p, c, f)
  BY <1>3 DEF Wait, Prompt, Spawn, Pause, Arm
<1>4. CASE \E f \in Name : Redirects(f) \/ Copy(f) \/ \E g \in Name : Move(f, g)
  BY <1>4 DEF Redirects, Copy, Move, Pause, Arm
<1>5. CASE (\E p \in Proc : Switch(p)) \/ Interrupt
  BY <1>5 DEF Switch, Interrupt
<1>6. CASE HostEnds \/ StartPennOS \/ Tool
  BY <1>6 DEF HostEnds, StartPennOS, Tool, Typed
<1>7. CASE \E c \in Commands, f \in Name : StartTool(c, f)
  BY <1>7 DEF StartTool
<1>8. QED
  BY <1>1, <1>2, <1>3, <1>4, <1>5, <1>6, <1>7 DEF CommandStep

\* Bytes over the table stay there.
LEMMA SpillLasts ==
  ASSUME CommandInv, CommandStep, Spilled
  PROVE  Spilled'
<1>1. CallInv /\ Shell \in Proc /\ \A p \in Jobs : p \in Proc
  BY CommandsAssumption DEF CommandInv, Jobs
<1>2. ASSUME data' = data
      PROVE  Spilled'
  BY <1>2, KindKept
<1>3. ASSUME NEW p \in Proc, NEW n, NEW numb \in Nat \ {0}, Writes(p, n, numb)
      PROVE  Spilled'
  <2>1. CASE UNCHANGED image
    BY <2>1, <1>2 DEF image
  <2>2. CASE \E d \in Descriptor(p, n) : d.file # Terminal /\ FWrite(p, d, numb)
    <3>1. PICK d \in FileDescriptors(p) : FWrite(p, d, numb)
      BY <2>2 DEF Descriptor, FileDescriptors
    <3>2. Spilled' \/ data'[END] = data[END]
      BY <1>1, <3>1, FWriteKeeps
    <3>3. QED
      BY <3>2, KindKept
  <2>3. QED
    BY <1>3, <2>1, <2>2 DEF Writes
<1>4. ASSUME NEW p, NEW f, NEW mode, Open(p, f, mode)
      PROVE  data' = data
  BY <1>4 DEF Open, OpenOld, OpenNew, image
<1>5. ASSUME NEW p, NEW k, ReadsAny(p, k)
      PROVE  data' = data
  BY <1>5 DEF ReadsAny, ReadsSome, ReadsTerminal, ReadsNothing, ReadFails, FRead, image
<1>6. ASSUME NEW p, NEW n, FClose(p, n)
      PROVE  data' = data
  BY <1>6 DEF FClose
<1>7. ASSUME NEW p, NEW f, FUnlink(p, f) \/ Unlinked(p, f)
      PROVE  data' = data
  BY <1>7 DEF FUnlink, Unlinked
<1>8. ASSUME NEW p, ToTerminal(p) \/ UNCHANGED image
      PROVE  data' = data
  BY <1>8 DEF ToTerminal, StoresOnly, image
<1>9. CASE \E p \in Jobs : Touch(p) \/ Rm(p) \/ Cat(p) \/ Close(p) \/ Exit(p)
  <2>1. PICK p \in Jobs : Touch(p) \/ Rm(p) \/ Cat(p) \/ Close(p) \/ Exit(p)
    BY <1>9
  <2>2. CASE Touch(p) \/ Rm(p) \/ Close(p) \/ Exit(p)
    BY <2>2, <1>2, <1>4, <1>6, <1>7, <1>8 DEF Touch, Rm, Close, Exit
  <2>3. CASE Cat(p)
    <3>1. CASE FileTurn(p, {"cat"}, "write") /\ (Writes(p, 1, cmd[p].filled) \/ ToTerminal(p))
      <4>1. PICK numb : numb = cmd[p].filled
        OBVIOUS
      <4>2. numb \in Nat \ {0}
        <5>1. cmd[p].name = "cat" /\ cmd[p].stage = "write" /\ Sane(p, cmd[p]) /\ cmd[p] \in Command
          BY <1>1, <3>1 DEF FileTurn, Turn, CommandInv
        <5>2. cmd[p].filled \in 0 .. FAT_WIDTH + 1 /\ cmd[p].filled # 0
          BY <5>1 DEF Command, Sane
        <5>3. QED
          BY <4>1, <5>2, GeometryAssumption
      <4>3. QED
        BY <3>1, <4>1, <4>2, <1>1, <1>2, <1>3, <1>8
    <3>2. CASE CatReads(p)
      <4>1. ReadsAny(p, cmd[p].fd)
        BY <3>2, Zenon DEF CatReads, ReadsAny
      <4>2. QED
        BY <4>1, <1>2, <1>5
    <3>3. CASE Open(p, cmd[p].src, "F_READ")
      BY <3>3, <1>2, <1>4
    <3>4. QED
      BY <2>3, <3>1, <3>2, <3>3 DEF Cat
  <2>4. QED
    BY <2>1, <2>2, <2>3
<1>10. CASE Opens(Shell) \/ CpEnds(Shell) \/ MvEnds(Shell)
  BY <1>10, <1>2, <1>4, <1>6, <1>7 DEF Opens, CpEnds, MvEnds
<1>11. CASE Copies(Shell)
  <2>1. ReadsAny(Shell, cmd[Shell].fd) \/ Writes(Shell, cmd[Shell].to, FAT_WIDTH)
    BY <1>11, Zenon DEF Copies, ReadsAny
  <2>2. QED
    BY <2>1, <1>1, <1>2, <1>3, <1>5, GeometryAssumption
<1>12. CASE Wait \/ Prompt \/ \E p \in Jobs, c \in Commands, f \in Name : Spawn(p, c, f)
  <2>1. data' = data
    BY <1>12 DEF Wait, Prompt, ToTerminal, StoresOnly, Spawn, image
  <2>2. QED
    BY <2>1, <1>2
<1>13. CASE \E f \in Name : Redirects(f) \/ Copy(f) \/ \E g \in Name : Move(f, g)
  <2>1. data' = data
    BY <1>13 DEF Redirects, FDup, Copy, Move, image
  <2>2. QED
    BY <2>1, <1>2
<1>14. CASE (\E p \in Proc : Switch(p)) \/ Interrupt \/ HostEnds \/ StartPennOS
            \/ \E c \in Commands, f \in Name : StartTool(c, f)
  <2>1. data' = data
    BY <1>14 DEF Switch, Interrupt, HostEnds, Boot, StartPennOS, StartTool, image
  <2>2. QED
    BY <2>1, <1>2
<1>15. CASE Tool
  <2>1. \/ \E mode : Open(Shell, cmd[Shell].src, mode)
        \/ Typed
        \/ Writes(Shell, cmd[Shell].fd, 1)
        \/ ReadsAny(Shell, cmd[Shell].fd)
    BY <1>15, Zenon DEF Tool, ReadsAny
  <2>2. Typed => data' = data
    BY DEF Typed, StoresOnly
  <2>3. QED
    BY <2>1, <2>2, <1>1, <1>2, <1>3, <1>4, <1>5
<1>16. QED
  BY <1>9, <1>10, <1>11, <1>12, <1>13, <1>14, <1>15 DEF CommandStep

LEMMA StepKept ==
  ASSUME CommandInv, CommandInv', CommandsUse, Whole, ~cut, ~cut', CommandStep
  PROVE  Outcome
<1>1. CASE \E p \in Jobs : Touch(p) \/ Rm(p) \/ Cat(p) \/ Close(p) \/ Exit(p)
  BY <1>1, JobKept
<1>2. CASE Opens(Shell) \/ Copies(Shell) \/ CpEnds(Shell) \/ MvEnds(Shell)
  BY <1>2, OpensKept, CopiesKept, CpEndsKept, MvEndsKept
<1>3. CASE Wait \/ Prompt \/ \E p \in Jobs, c \in Commands, f \in Name : Spawn(p, c, f)
  BY <1>3, LoopKept
<1>4. CASE \E f \in Name : Redirects(f) \/ Copy(f) \/ \E g \in Name : Move(f, g)
  BY <1>4, LineKept
<1>5. ~Interrupt
  BY DEF Interrupt
<1>6. CASE (\E p \in Proc : Switch(p)) \/ HostEnds \/ StartPennOS
           \/ \E c \in Commands, f \in Name : StartTool(c, f)
  BY <1>6, HostKept DEF CommandsUse
<1>7. CASE Tool
  BY <1>7, ToolKept
<1>8. QED
  BY <1>1, <1>2, <1>3, <1>4, <1>5, <1>6, <1>7 DEF CommandStep

\* What the theorem says of a step that leaves all whole.
LEMMA KeptSays ==
  ASSUME CallInv', Kept
  PROVE  ChainsDisjoint' /\ FreeBlocksUnlinked' /\ BlocksKept
<1>1. Apart(files, fat)' /\ FreeUnlinked(files, fat)' /\ BlocksKept /\ ~Spilled'
  BY DEF Kept, Sound
<1>2. PICK dir, t : dir = files' /\ t = fat'
  OBVIOUS
<1>3. dir \in Directory /\ Apart(dir, t)
  BY <1>1, <1>2 DEF CallInv, GoodDirectory
<1>4. \A i, j \in DOMAIN Starts(dir) :
        /\ ~Cyclic(t, Starts(dir)[i])
        /\ i # j => Chain(t, Starts(dir)[i]) \cap Chain(t, Starts(dir)[j]) = {}
  BY <1>3, ApartSays
<1>5. ChainsDisjoint'
  BY <1>2, <1>4 DEF ChainsDisjoint
<1>6. FreeBlocksUnlinked'
  BY <1>1 DEF FreeUnlinked, FreeBlocksUnlinked
<1>7. QED
  BY <1>1, <1>5, <1>6

LEMMA WholeAtFirst ==
  ASSUME InitCommands
  PROVE  Whole
<1>1. /\ files = << >> /\ stored = << >> /\ fat = EmptyFat /\ cmd[Shell] = Idle
      /\ data = [b \in Block \cup {END} |-> [o \in 0 .. FAT_WIDTH - 1 |-> Blank]]
      /\ \A p \in Jobs : cmd[p] = Idle /\ fds[p] = NewTable
  BY CommandsAssumption DEF InitCommands, Init, Jobs
<1>2. DOMAIN files = {} /\ DOMAIN stored = {} /\ \A b \in Block : fat[b] = END
  BY <1>1 DEF EmptyFat
<1>3. ~Cyclic(fat, 0)
  BY <1>2, AloneChain, BlockFacts
<1>4. Apart(files, fat)
  BY <1>2, <1>3 DEF Apart
<1>5. FreeUnlinked(files, fat)
  BY <1>2 DEF FreeUnlinked
<1>6. Remembered
  BY <1>2 DEF Remembered
<1>7. WritesAtEnd
  BY <1>1, IdleFacts DEF WritesAtEnd
<1>8. ~Spilled
  BY <1>1 DEF Spilled
<1>9. ASSUME NEW p \in Jobs
      PROVE  OutputBacked(p)
  <2>1. Fresh(p)
    BY <1>1, NewTableFresh DEF Fresh, Descriptor
  <2>2. QED
    BY <2>1, <1>1, <1>9, IdleFacts DEF OutputBacked
<1>10. QED
  BY <1>4, <1>5, <1>6, <1>7, <1>8, <1>9 DEF Whole, Sound, OutputsBacked

LEMMA CommandsStepKept ==
  ASSUME CommandInv, CommandInv', CommandsUse, WholeInv, NextCommands
  PROVE  /\ WholeInv'
         /\ ~cut' => IF torn'
                       THEN torn \/ \E p \in Jobs : FileTurn(p, {"cat"}, "write")
                       ELSE /\ ChainsDisjoint' /\ FreeBlocksUnlinked'
                            /\ Spilled' => Spilled \/ Roomless(files, fat) # {}
                            /\ ~Spilled' => BlocksKept
<1>1. CommandStep /\ (torn' <=> torn \/ (~Spilled' /\ LinkReplaced)) /\ CallInv'
  BY DEF NextCommands, CommandInv
<1>2. CASE cut' \/ torn
  BY <1>1, <1>2 DEF WholeInv
<1>3. Spilled' => ChainsDisjoint' /\ FreeBlocksUnlinked'
  BY DEF ChainsDisjoint, FreeBlocksUnlinked
<1>4. CASE ~cut' /\ ~torn /\ Spilled
  <2>1. Spilled'
    BY <1>1, <1>4, SpillLasts
  <2>2. QED
    BY <2>1, <1>1, <1>3, <1>4 DEF WholeInv
<1>5. CASE ~cut' /\ ~torn /\ ~Spilled
  <2>1. ~cut /\ Whole
    BY <1>1, <1>5, CutStays DEF WholeInv
  <2>2. Outcome
    BY <1>1, <1>5, <2>1, StepKept
  <2>3. CASE Overflows
    BY <2>3, <1>1, <1>3, <1>5 DEF Overflows, WholeInv
  <2>4. CASE Overtakes /\ \E p \in Jobs : FileTurn(p, {"cat"}, "write")
    BY <2>4, <1>1 DEF Overtakes, WholeInv
  <2>5. CASE Kept /\ WritesAtEnd' /\ OutputsBacked'
    <3>1. ~torn' /\ Whole' /\ ~Spilled'
      BY <2>5, <1>1, <1>5 DEF Kept, Sound, Whole
    <3>2. QED
      BY <3>1, <2>5, <1>1, KeptSays DEF WholeInv
  <2>6. QED
    BY <2>2, <2>3, <2>4, <2>5 DEF Outcome
<1>6. QED
  BY <1>2, <1>4, <1>5

\* Whatever commands are given (catFlatFat -a, which appends, is not among them),
\* in whatever order, over restarts and catFlatFat in between, and as long as
\* nothing arms the timer inside a command and no redirected program has overtaken
\* the output of a copy: no two files share a block, and the bytes of a file stay
\* in theirs, until a command writes to a file that has no room for a byte more.
\* That write goes over the table, which then holds nothing that could be kept.
THEOREM CommandsLeaveFilesWhole ==
  ASSUME CommandsUse
  PROVE  CommandsSpec => CommandsKeepFiles
<1>1. InitCommands => WholeInv
  BY WholeAtFirst DEF WholeInv
<1>2. ASSUME CommandInv, CommandInv', WholeInv, [NextCommands]_commandVars
      PROVE  WholeInv'
  <2>1. CASE NextCommands
    BY <1>2, <2>1, CommandsStepKept
  <2>2. CASE UNCHANGED commandVars
    <3>1. UNCHANGED image /\ cmd' = cmd /\ closed' = closed /\ cut' = cut /\ torn' = torn
      BY <2>2 DEF commandVars, cpu
    <3>2. CallInv /\ CallInv'
      BY <1>2 DEF CommandInv
    <3>3. Whole => Kept
      BY <3>1, <3>2, SameKept DEF Whole, image
    <3>4. Whole => WritesAtEnd' /\ OutputsBacked'
      BY <3>1, <3>2, SameWhole DEF Whole
    <3>5. Whole => Whole'
      BY <3>3, <3>4 DEF Whole, Kept
    <3>6. Spilled => Spilled'
      BY <3>1 DEF Spilled, image
    <3>7. QED
      BY <1>2, <3>1, <3>5, <3>6 DEF WholeInv
  <2>3. QED
    BY <1>2, <2>1, <2>2
<1>3. ASSUME CommandInv, CommandInv', WholeInv, [NextCommands]_commandVars
      PROVE  [~cut' /\ <<files, fat>>' # <<files, fat>>
              => IF torn'
                   THEN torn \/ \E p \in Jobs : FileTurn(p, {"cat"}, "write")
                   ELSE /\ ChainsDisjoint' /\ FreeBlocksUnlinked'
                        /\ Spilled' => Spilled \/ Roomless(files, fat) # {}
                        /\ ~Spilled' => BlocksKept]_commandVars
  BY <1>3, CommandsStepKept
<1>4. QED
  BY <1>1, <1>2, <1>3, CommandInvHolds, PTL DEF CommandsSpec, CommandsKeepFiles
================================================================================
