----------------------------- MODULE FileCommands -----------------------------
(****************************************************************************)
(* The programs that use the files, call by call: cat, touch and rm as      *)
(* processes of PennOS, cp and mv inside the shell (f_cp and f_move),       *)
(* redirection, and catFlatFat on the host while PennOS is down.  Each call *)
(* is an action of FlatFat.                                                 *)
(*                                                                          *)
(* What keeps the commands apart is the timer alone.  Every call f_...      *)
(* pauses it, so a command keeps the CPU from its first call on until its   *)
(* p_exit, the end of cp or mv, or a kernel call of the shell arms it       *)
(* again; unless something else does: a key of the terminal, or the stop    *)
(* that a background process gives itself when it writes to the terminal.   *)
(* `cut' remembers that this has happened.  Even so, a redirected program   *)
(* may run after cp has filled its output file; `torn' remembers that then  *)
(* k_write has replaced a link.                                             *)
(*                                                                          *)
(* How the shell waits and how the scheduler chooses is modelled in Kernel  *)
(* and Scheduler: here the shell may prompt whenever it runs, and the armed *)
(* timer may give the CPU to any process that is ready.                     *)
(****************************************************************************)
EXTENDS FlatFat

CONSTANTS
  Shell,     \* the shell, which runs cp and mv; in FlatFat's tables it also
             \* stands for catFlatFat, which has one table of its own
  Commands,  \* the commands given
  CopyName,  \* f_cp's name for the copy of a file: its name and a "1"
  Redirect   \* the commands that may be redirected (to a new file)

ASSUME CommandsAssumption ==
  /\ Shell \in Proc
  /\ Commands \subseteq {"cat", "touch", "rm", "cp", "mv", "-w", "-a", "-r"}
  /\ DOMAIN CopyName \subseteq Name /\ \A f \in DOMAIN CopyName : CopyName[f] \in Name
  /\ Redirect \subseteq {"cat", "touch", "rm"}

VARIABLES
  host,     \* what runs on the image: "PennOS", "catFlatFat", or "none"
  cmd,      \* the command of each process and how far it is
  running,  \* curr_process_pcb
  timer,    \* the interval timer is armed
  closed,   \* descriptors of the host process that f_move has closed
  cut,      \* the timer was armed inside a command
  torn      \* a link of the table was replaced, and the blocks behind it cut off

image == <<files, fat, data, fds, stored, harm>>
cpu == <<host, running, closed>>
commandVars == <<image, cpu, cmd, timer, cut, torn>>

Jobs == Proc \ {Shell}
\* k_setFileSystem's descriptor of the image, after those of the host's
\* terminal and of the log.
Memory == 4

\* fd, to: the descriptor read and the one written; filled: how many bytes of
\* cat's buffer come before the first zero; job: whom the shell has spawned.
Idle == [name |-> "none", stage |-> "idle", src |-> Terminal, dst |-> Terminal,
         fd |-> -1, to |-> -1, filled |-> 0, job |-> Shell]
Polling == [Idle EXCEPT !.name = "shell", !.stage = "poll"]

\* A process between its last arming of the timer and its next file call.
Outside == {"idle", "start", "spawned", "poll", "exited"}
Inside(p) == cmd[p].stage \notin Outside
Ready(p) == cmd[p].stage \notin {"idle", "exited"}

Turn(p, names, stage) ==
  /\ harm = "none" /\ running = p
  /\ cmd[p].name \in names /\ cmd[p].stage = stage
\* What the file calls do once f_move has closed the image is not modelled: none
\* reads or writes a byte of it.  (f_open and f_unlink still change the list, and
\* cut links in the mapped table.)
FileTurn(p, names, stage) == Memory \notin closed /\ Turn(p, names, stage)

At(p, stage) == cmd' = [cmd EXCEPT ![p].stage = stage]
With(p, stage, field, n) == cmd' = [cmd EXCEPT ![p].stage = stage, ![p][field] = n]

\* Mutant: the call leaves the timer as it is.
PauseNot == UNCHANGED <<cpu, timer, cut>>
\* pause_timer, with which every call f_... begins.
Pause == timer' = FALSE /\ UNCHANGED <<cpu, cut>>
Arm == timer' = TRUE /\ UNCHANGED <<cpu, cut>>

Descriptor(p, n) == {d \in fds[p] : d.number = n}
\* A call that stores the directory and does nothing else to the image; if that is
\* closed the store fails, and nobody asks.
StoresOnly ==
  /\ stored' = IF Memory \in closed THEN stored ELSE files
  /\ UNCHANGED <<files, fat, data, fds, harm>>

-------------------------------------------------------------------------------
(* The calls as the commands make them.                                      *)

\* f_open, which for F_READ alone may find no file and returns -1.
NoFile(f, mode) == mode = "F_READ" /\ Named(files, f) = {}
Open(p, f, mode) ==
  \/ OpenOld(p, f, mode)
  \/ OpenNew(p, f, mode)
  \/ NoFile(f, mode) /\ UNCHANGED image
Opened(p, f, mode) == IF NoFile(f, mode) THEN -1 ELSE NextNumber(p)

\* f_read of a whole buffer: a positive number, 0, or -1.  Descriptor 1, which
\* f_open gives out when standard output is gone, reads the terminal.
ReadsSome(p, n, got) ==
  got > 0 /\ \E d \in Descriptor(p, n) : FRead(p, d, FAT_WIDTH, got)
ReadsTerminal(n) == n = 1 /\ UNCHANGED image
ReadsNothing(p, n) ==
  \/ /\ \E d \in Descriptor(p, n) : n = 1 \/ Entry(d.file).size = d.pos
     /\ UNCHANGED image
  \/ \E d \in Descriptor(p, n) : FRead(p, d, FAT_WIDTH, 0)
ReadFails(p, n) == Descriptor(p, n) = {} /\ UNCHANGED image

\* f_write of n bytes to the file of a descriptor, or to one that is not there, or
\* was opened to read.
Writes(p, number, n) ==
  \/ \E d \in Descriptor(p, number) : d.file # Terminal /\ FWrite(p, d, n)
  \/ /\ \A d \in Descriptor(p, number) : d.mode = "F_READ"
     /\ UNCHANGED image
ToTerminal(p) ==
  /\ \E d \in Descriptor(p, 1) : d.file = Terminal
  /\ StoresOnly

-------------------------------------------------------------------------------
(* cat, touch and rm.                                                        *)

Touch(p) ==
  /\ FileTurn(p, {"touch"}, "start")
  /\ Open(p, cmd[p].src, "F_WRITE")
  /\ With(p, "close", "fd", Opened(p, cmd[p].src, "F_WRITE"))
  /\ Pause

Rm(p) ==
  /\ FileTurn(p, {"rm"}, "start")
  /\ FUnlink(p, cmd[p].src)
  /\ At(p, "exit")
  /\ Pause

\* Mutant: each read is put behind the one before.
FilledUp(p, n) == {cmd[p].filled + n}

\* strlen of cat's buffer after a read of n bytes.  The buffer is cleared once,
\* so a short read leaves the end of the ones before; and a full buffer has no
\* zero, so strlen goes on behind it, for a byte here, unless one is there.
Filled(p, n) ==
  IF n >= FAT_WIDTH \/ cmd[p].filled >= FAT_WIDTH
    THEN {FAT_WIDTH, FAT_WIDTH + 1}
    ELSE {IF n > cmd[p].filled THEN n ELSE cmd[p].filled}

CatReads(p) ==
  /\ FileTurn(p, {"cat"}, "read")
  /\ \/ \E got \in 1 .. FAT_WIDTH :
          /\ ReadsSome(p, cmd[p].fd, got)
          /\ \E m \in Filled(p, got) : With(p, "write", "filled", m)
     \/ /\ ReadsTerminal(cmd[p].fd)
        /\ \E m \in Filled(p, FAT_WIDTH) : With(p, "write", "filled", m)
     \/ ReadsNothing(p, cmd[p].fd) /\ At(p, "close")
     \/ ReadFails(p, cmd[p].fd) /\ At(p, "close")
  /\ Pause

Cat(p) ==
  \/ /\ FileTurn(p, {"cat"}, "start")
     /\ Open(p, cmd[p].src, "F_READ")
     /\ With(p, "read", "fd", Opened(p, cmd[p].src, "F_READ"))
     /\ Pause
  \/ CatReads(p)
  \/ /\ FileTurn(p, {"cat"}, "write")
     /\ Writes(p, 1, cmd[p].filled) \/ ToTerminal(p)
     /\ At(p, "read")
     /\ Pause

Close(p) ==
  /\ FileTurn(p, {"cat", "touch"}, "close")
  /\ FClose(p, cmd[p].fd)
  /\ At(p, "exit")
  /\ Pause

\* p_exit goes to the scheduler.
Exit(p) ==
  /\ Turn(p, {"cat", "touch", "rm"}, "exit")
  /\ cmd' = [cmd EXCEPT ![p] = [Idle EXCEPT !.name = cmd[p].name, !.stage = "exited"]]
  /\ timer' = TRUE
  /\ \E q \in Proc \ {p} : Ready(q) /\ running' = q
  /\ UNCHANGED <<image, host, closed, cut>>

-------------------------------------------------------------------------------
(* cp and mv, by the shell.                                                  *)

\* Both copy buffer by buffer; f_read's -1 counts as a buffer, so the copy of a
\* file that is not there goes on without end.
Opens(p) ==
  \/ /\ FileTurn(p, {"cp", "mv"}, "open")
     /\ Open(p, cmd[p].src, "F_READ")
     /\ With(p, "create", "fd", Opened(p, cmd[p].src, "F_READ"))
     /\ Pause
  \/ /\ FileTurn(p, {"cp", "mv"}, "create")
     /\ Open(p, cmd[p].dst, "F_WRITE")
     /\ With(p, "read", "to", Opened(p, cmd[p].dst, "F_WRITE"))
     /\ Pause

Copies(p) ==
  \/ /\ FileTurn(p, {"cp", "mv"}, "read")
     /\ \/ /\ \E got \in 1 .. FAT_WIDTH : ReadsSome(p, cmd[p].fd, got)
           /\ At(p, "write")
        \/ ReadsTerminal(cmd[p].fd) /\ At(p, "write")
        \/ ReadFails(p, cmd[p].fd) /\ At(p, "write")
        \/ ReadsNothing(p, cmd[p].fd) /\ At(p, "close")
     /\ Pause
  \/ /\ FileTurn(p, {"cp", "mv"}, "write")
     /\ Writes(p, cmd[p].to, FAT_WIDTH)
     /\ At(p, "read")
     /\ Pause

\* Mutant: f_cp leaves the copy open.
CpEndsOpen(p) ==
  /\ FileTurn(p, {"cp"}, "close")
  /\ FClose(p, cmd[p].fd)
  /\ cmd' = [cmd EXCEPT ![p] = Polling]
  /\ Arm

\* The end of f_cp: the two f_close, then start_timer.
CpEnds(p) ==
  \/ /\ FileTurn(p, {"cp"}, "close")
     /\ FClose(p, cmd[p].fd)
     /\ At(p, "close too")
     /\ Pause
  \/ /\ FileTurn(p, {"cp"}, "close too")
     /\ FClose(p, cmd[p].to)
     /\ cmd' = [cmd EXCEPT ![p] = Polling]
     /\ Arm

\* The end of f_move: close is the host's, so its descriptors of these numbers
\* go, not the process's (there is none with the number -1 of a file not found);
\* then f_unlink, which stores nothing any more if the image was among them.
MvEnds(p) ==
  /\ FileTurn(p, {"mv"}, "close")
  /\ closed' = closed \cup ({cmd[p].fd, cmd[p].to} \ {-1})
  /\ IF Memory \in closed'
       THEN Unlinked(p, cmd[p].src) /\ UNCHANGED stored
       ELSE FUnlink(p, cmd[p].src)
  /\ cmd' = [cmd EXCEPT ![p] = Polling]
  /\ timer' = TRUE
  /\ UNCHANGED <<host, running, cut>>

-------------------------------------------------------------------------------
(* The shell.                                                                *)

\* p_wait, which arms the timer; it may reap a job that has exited or, by a
\* signal that came while the timer was armed, is dead before its first call.
Wait ==
  /\ Turn(Shell, {"shell"}, "spawned") \/ Turn(Shell, {"shell"}, "launched")
     \/ Turn(Shell, {"shell"}, "poll")
  /\ \/ cmd' = [cmd EXCEPT ![Shell] = Polling] /\ UNCHANGED image
     \/ \E p \in Jobs :
          /\ cmd[p] # Idle
          /\ ~Inside(p) \/ cut
          /\ cmd' = [cmd EXCEPT ![Shell] = Polling, ![p] = Idle]
          /\ fds' = [fds EXCEPT ![p] = NewTable]
          /\ UNCHANGED <<files, fat, data, stored, harm>>
  /\ timer' = TRUE
  /\ UNCHANGED <<host, running, closed, cut>>

\* f_write of the prompt and f_read of the line.
Prompt ==
  /\ Turn(Shell, {"shell"}, "poll") /\ ToTerminal(Shell)
  /\ At(Shell, "reading")
  /\ Pause

Reading == Turn(Shell, {"shell"}, "reading")

\* p_spawn arms the timer before the new process is redirected.
Spawn(p, c, f) ==
  /\ Reading
  /\ c \in Commands \cap {"cat", "touch", "rm"}
  /\ cmd[p] = Idle
  /\ cmd' = [cmd EXCEPT ![p] = [Idle EXCEPT !.name = c, !.stage = "start", !.src = f],
                        ![Shell].stage = "spawned", ![Shell].job = p]
  /\ UNCHANGED image
  /\ Arm

Redirects(f) ==
  /\ cmd[cmd[Shell].job].name \in Redirect
  /\ FileTurn(Shell, {"shell"}, "spawned")
  /\ Redirected(f) = {}
  /\ FDup(cmd[Shell].job, 1, f)
  /\ At(Shell, "launched")
  /\ Pause

Copy(f) ==
  /\ Reading
  /\ "cp" \in Commands /\ f \in DOMAIN CopyName
  /\ cmd' = [cmd EXCEPT ![Shell] = [Idle EXCEPT !.name = "cp", !.stage = "open",
                                                !.src = f, !.dst = CopyName[f]]]
  /\ UNCHANGED image
  /\ Pause

\* f_move does nothing unless both names are there.
Move(f, g) ==
  /\ Reading
  /\ "mv" \in Commands
  /\ \/ /\ Named(files, f) # {} /\ Named(files, g) # {}
        /\ cmd' = [cmd EXCEPT ![Shell] = [Idle EXCEPT !.name = "mv", !.stage = "open",
                                                      !.src = f, !.dst = g]]
        /\ Pause
     \/ /\ Named(files, f) = {} \/ Named(files, g) = {}
        /\ cmd' = [cmd EXCEPT ![Shell] = Polling]
        /\ Arm
  /\ UNCHANGED image

\* The armed timer, and the scheduler.
Switch(p) ==
  /\ harm = "none" /\ host = "PennOS" /\ timer
  /\ p # running /\ Ready(p)
  /\ running' = p
  /\ UNCHANGED <<image, host, closed, cmd, timer, cut>>

\* The timer is armed inside a command: a handler of SIGINT or SIGTSTP, which
\* may run in the middle of anything, ends with start_timer, and so does the
\* stop that a background process gives itself in f_write to the terminal.
Interrupt ==
  /\ harm = "none" /\ host = "PennOS" /\ ~timer
  /\ timer' = TRUE /\ cut' = TRUE
  /\ UNCHANGED <<image, cpu, cmd>>

-------------------------------------------------------------------------------
(* The host.                                                                 *)

\* PennOS or catFlatFat ends (logout, the end of main, SIGINT) or is killed.
HostEnds ==
  /\ host # "none"
  /\ Boot
  /\ host' = "none"
  /\ cmd' = [p \in Proc |-> Idle]
  /\ running' = Shell
  /\ timer' = FALSE
  /\ closed' = {}
  /\ UNCHANGED cut

StartPennOS ==
  /\ host = "none"
  /\ host' = "PennOS"
  /\ cmd' = [cmd EXCEPT ![Shell] = Polling]
  /\ timer' = TRUE
  /\ UNCHANGED <<image, running, closed, cut>>

StartTool(c, f) ==
  /\ host = "none"
  /\ host' = "catFlatFat"
  /\ c \in Commands \cap {"-w", "-a", "-r"}
  /\ cmd' = [cmd EXCEPT ![Shell] = [Idle EXCEPT !.name = c, !.stage = "start", !.src = f]]
  /\ UNCHANGED <<image, running, closed, timer, cut>>

ToolMode == [c \in {"-w", "-a", "-r"} |->
               CASE c = "-w" -> "F_WRITE" [] c = "-a" -> "F_APPEND" [] OTHER -> "F_READ"]

\* Mutant: b_read of nothing returns before it stores the directory.
TypedStoresLate ==
  /\ FileTurn(Shell, {"-w", "-a"}, "read")
  /\ \/ StoresOnly /\ At(Shell, "write")
     \/ UNCHANGED image /\ At(Shell, "close")
  /\ UNCHANGED <<cpu, timer, cut>>

\* b_read of the terminal: a byte, or the end of the input.
Typed ==
  /\ FileTurn(Shell, {"-w", "-a"}, "read")
  /\ StoresOnly
  /\ At(Shell, "write") \/ At(Shell, "close")
  /\ UNCHANGED <<cpu, timer, cut>>

\* The b_ calls are those of PennOS without the timer; b_read stores the
\* directory and b_write does not, which is the same here: the read before has
\* just done so.  b_close, with which main ends, leaves the image as HostEnds does.
Tool ==
  \/ \E c \in DOMAIN ToolMode :
       /\ FileTurn(Shell, {c}, "start")
       /\ Open(Shell, cmd[Shell].src, ToolMode[c])
       /\ With(Shell, "read", "fd", Opened(Shell, cmd[Shell].src, ToolMode[c]))
       /\ UNCHANGED <<cpu, timer, cut>>
  \/ Typed
  \/ /\ FileTurn(Shell, {"-w", "-a"}, "write")
     /\ Writes(Shell, cmd[Shell].fd, 1)
     /\ At(Shell, "read")
     /\ UNCHANGED <<cpu, timer, cut>>
  \/ /\ FileTurn(Shell, {"-r"}, "read")
     /\ \/ /\ \E got \in 1 .. FAT_WIDTH : ReadsSome(Shell, cmd[Shell].fd, got)
           /\ At(Shell, "read")
        \/ ReadsNothing(Shell, cmd[Shell].fd) /\ At(Shell, "close")
     /\ UNCHANGED <<cpu, timer, cut>>

-------------------------------------------------------------------------------
InitCommands ==
  /\ Init
  /\ host = "none" /\ running = Shell /\ timer = FALSE /\ closed = {}
  /\ cut = FALSE /\ torn = FALSE
  /\ cmd = [p \in Proc |-> Idle]

CommandStep ==
  \/ \E p \in Jobs : Touch(p) \/ Rm(p) \/ Cat(p) \/ Close(p) \/ Exit(p)
  \/ Opens(Shell) \/ Copies(Shell) \/ CpEnds(Shell) \/ MvEnds(Shell)
  \/ Wait \/ Prompt
  \/ \E p \in Jobs, c \in Commands, f \in Name : Spawn(p, c, f)
  \/ \E f \in Name : Redirects(f) \/ Copy(f) \/ \E g \in Name : Move(f, g)
  \/ \E p \in Proc : Switch(p)
  \/ Interrupt
  \/ HostEnds \/ StartPennOS \/ Tool
  \/ \E c \in Commands, f \in Name : StartTool(c, f)

\* k_write replaces the link of a full block that is not the last of its chain (as
\* long as what changes the table are links).
LinkReplaced == \E b \in Block : fat[b] # END /\ fat'[b] \notin {END, fat[b]}

NextCommands == CommandStep /\ torn' = (torn \/ (~Spilled' /\ LinkReplaced))

CommandsSpec == InitCommands /\ [][NextCommands]_commandVars

-------------------------------------------------------------------------------
(* Properties.                                                               *)

\* The variables of this module stay in their ranges; those of FlatFat do so by
\* FlatFat!TypeOK, whatever calls are made.
CommandsTypeOK ==
  /\ host \in {"PennOS", "catFlatFat", "none"}
  /\ running \in Proc /\ timer \in BOOLEAN /\ cut \in BOOLEAN
  /\ closed \subseteq 0 .. MaxNumber
  /\ \A p \in Proc : /\ cmd[p].src \in Name \cup {Terminal}
                     /\ cmd[p].fd \in -1 .. MaxNumber /\ cmd[p].to \in -1 .. MaxNumber
                     /\ cmd[p].filled \in 0 .. FAT_WIDTH + 1

\* No lock guards the files, but as long as nothing arms the timer inside a
\* command, at most one process is between its first file call and the end of
\* its command: cat, rm, touch, cp, mv, redirection and the prompt never
\* overlap, though the timer is armed between spawn and redirection, at p_exit,
\* and in every wait.
CommandsSerial ==
  ~cut => \A p, q \in Proc : Inside(p) /\ Inside(q) => p = q

\* Until a file is truncated its bytes stay in the blocks they are in.
BlocksKept ==
  \A i \in DOMAIN files, j \in DOMAIN files' :
    /\ files[i].name = files'[j].name /\ files[i].size <= files'[j].size
    => \A o \in 0 .. files[i].size - 1 :
         LET b == Walk(fat, files[i].start, o \div FAT_WIDTH)
         IN  b \in Block => Walk(fat', files'[j].start, o \div FAT_WIDTH) = b

\* So commands leave the files whole, in whatever order they are given, over
\* redirections, restarts in the middle and catFlatFat in between: no two files
\* share a block, the bytes of a file stay in their blocks, whatever is written
\* behind them or elsewhere, and a free block has no link.  Two things end this.
\* A program whose output is redirected writes from the start of its file, which
\* cp or mv may have filled before it runs.  And a disc that is full: cat, cp, mv
\* and catFlatFat take no notice of a short write, and the next one goes over the
\* table; but not before a file has no room for another byte.
CommandsKeepFiles ==
  [][~cut' /\ <<files, fat>>' # <<files, fat>>
     => IF torn'
          THEN torn \/ \E p \in Jobs : FileTurn(p, {"cat"}, "write")
          ELSE /\ ChainsDisjoint' /\ FreeBlocksUnlinked'
               /\ Spilled' => Spilled \/ Roomless(files, fat) # {}
               /\ ~Spilled' => BlocksKept]_commandVars

\* While the shell reads a line, and when catFlatFat has seen the end of its
\* input, block 0 holds the directory as it is: every size is on disk, though
\* f_write stores the directory before it writes and f_close and f_dup not at
\* all, so PennOS may be killed at its prompt and nothing is lost.  This is so
\* until the second mv closes the image of the file system in place of its file:
\* from then on the shell goes on prompting, and nothing is stored.
RestStored ==
  Memory \notin closed =>
    ((\/ ~cut /\ cmd[Shell].stage = "reading"
      \/ host = "catFlatFat" /\ cmd[Shell].stage = "close") => stored = files)

\* The descriptors of a command end with it: whoever is about to start a
\* command, or is done with one, has no descriptor but the standard two, though
\* f_close takes none of these, rm may take a redirected one away in between,
\* and the numbers f_open gives depend on what is there.  (mv leaves one.)
CommandsClose ==
  ~cut /\ closed = {} =>
    \A p \in Proc : ~Inside(p) => Numbers(p) \subseteq {0, 1}

===============================================================================
