# A verification of PennOS

PennOS is a small operating system that runs as one host process: cooperative
and preemptive scheduling of user contexts by `SIGALRM`, a process kernel with
signals and `wait`, a shell, and a flat FAT file system kept in one file of the
host. This directory holds its TLA+ models, the TLC configurations that check
them, and proofs, for every value of the constants, of most of what they check.
Paths below are relative to the inner directory of the repository (`src/*.c`,
`doc/*.md`).

## 1. The system

| component | state | operations | interacts with |
|---|---|---|---|
| scheduler, queues (`scheduler.c`, `queue.c`) | `active[3]`, `inactive[3]`, `curr_q`, `runs_left` | `next_to_schedule`, `add_to_inactive`, `remove_from_queues`, `set_time` | called by the kernel, under `SIGALRM` or from a call |
| process kernel (`kernel.c`) | `pcb_table`, parent/child/sibling links, `old_status`/`curr_status`, `fg_pid`, `curr_process_pcb`, the interval timer | `k_process_create`, `k_exit`, `k_process_wait`, `k_process_kill`, `k_nice`, `k_sleep`, handlers of SIGALRM, SIGINT, SIGTSTP | shell, programs, scheduler; file calls pause its timer |
| shell and programs (`shell.c`) | where the loop is, the line's command | poll, prompt, built-ins, spawn, foreground wait; `cat`, `sleep`, `busy`, `ls`, `touch`, `rm`, `ps`, `zombify`, `orphanify`, `cp`, `mv` | kernel calls, file calls, job list |
| job list (`job_list.c`) | list of pid, command, status | insert, delete, update | shell only |
| flat FAT (`kernelFileSystem.c`) | the table, the blocks, the directory list and its stored form | block search, chain walk, `k_read`, `k_write`, store, load, defragment | user file calls, host-side tools |
| user file calls (`userFileSystem.c`) | one descriptor table per process | `f_open` ... `f_dup`, `f_move`, `f_cp` | programs; every call pauses the timer |
| host-side tools (`binaryFileSystem.c`, `mkFlatFat.c`, `lsFlatFat.c`, `catFlatFat.c`) | one descriptor table | `b_open` ... | flat FAT |
| tokenizer and parsing (`tokenizer.c`, `shell.c`) | position in the line; `func`, `args` from line to line | `get_next_token`, `is_redirect_instruction`, `select_function` | shell |
| log, signal queue | - | output, dead code | - |

**What is hard.** All processes share one CPU and all kernel data. `SIGALRM`
can come between any two instructions unless the timer is paused or the signal
is masked; SIGINT and SIGTSTP are never masked, so their handlers change a
status in the middle of anything, the scheduler's loop included. Changes of
status are not queued: a parent learns of them only by comparing `old_status`
with `curr_status` when it polls. Reaping frees a whole family of PCBs that
queues, lists and `fg_pid` may name. File calls turn multitasking off and leave
it off. The file system keeps the same fact in several places (the size, the
chain, the position of every descriptor, the directory in memory and in
block 0) and updates them in different orders. A file command is many calls with
no lock but the paused timer, and the shell spawns, redirects and waits with the
timer now armed, now not. `PROJECT.json` lists each hazard
at its line with the properties that cover it.

**What makes each part correct.** *Scheduler*: one node per process, none lost,
no node for freed memory, the loop ends and never finds nothing, no process
that stays runnable starves. *Kernel*: a dead process stays visible to its
parent until it is reaped, reaping keeps the family tree closed, the shell
cannot be stopped or killed, waiting ends when something has changed. *Job
list*: it is the list of the shell's children, and shows them as they are.
*Command line*: a line starts the program it names, with its argument and files.
*Files*:
disjoint chains, every byte of a file where its chain says as long as no write goes where
there is no room, the directory's
block never given out, descriptors only on files that exist, a stored directory
that agrees with memory and can be read back. *File commands*: they do not
overlap, touch only their files, close what they open.

## 2. Modules

| module | models | role |
|---|---|---|
| `Scheduler` | `scheduler.c`, `queue.c` and the kernel calls that drive them | specification |
| `MCScheduler` | - | instances |
| `SchedulerProofs` | - | theorems about `Scheduler` |
| `KernelProofs` | - | theorems about `Kernel`, `ProcessLife` among them |
| `JobControlProofs` | - | theorems about `JobControl`, over those of `KernelProofs` |
| `FatTableProofs` | - | lemmas about walks, chains and the block search |
| `FlatFatProofs` | - | theorems about `FlatFat`, under any calls and under those of the run `FatFiles` |
| `FileCommandsProofs` | - | theorems about `FileCommands`, over those of `FlatFatProofs` |
| `DirectoryStoreProofs` | - | theorems about `DirectoryStore` |
| `Kernel` | `kernel.c`, the loop and programs of `shell.c`, the terminal | specification; implements `ProcessLife` |
| `ProcessLife` | the life of a process: spawned, stopped, continued, dead once, reaped with its family | abstract specification |
| `JobControl` | `job_list.c` and what `shell()` does with it | composes `Kernel` with the job list |
| `FatTable` | the table: chains, free blocks, cleaning (`kernelFileSystem.c`) | operators |
| `FlatFat` | `kernelFileSystem.c`, `userFileSystem.c` | specification, over `FatTable` |
| `MCFlatFat` | - | instances |
| `FileCommands` | the file programs of `shell.c`, `f_cp`, `f_move`, redirection, `catFlatFat.c`, `binaryFileSystem.c` | composes `FlatFat` with the shell, the scheduler and the host |
| `MCFileCommands` | - | instance |
| `DirectoryStore` | `k_storeDirectory`, `k_loadDirectory` | specification, over `FatTable` |
| `MCDirectoryStore` | - | instance |
| `CommandLine` | `tokenizer.c`, the parsing in `shell.c` | specification |
| `CommandLineProofs` | - | theorems about `CommandLine` |

`JobControl` extends `Kernel` and `FileCommands` extends `FlatFat`: their steps are
those of the module they extend, taken together with the list, the timer or the
running process. What two modules take from each other: `Kernel` dispatches any
runnable process (`Scheduler` says which), `JobControl` and `FileCommands` take
the command a line means (`CommandLine`), `FlatFat` takes the stored directory
for a copy (`DirectoryStore`), `Kernel` a file command for calls that pause the
timer (`FileCommands`).

In every module a definition that a comment calls a *mutant* is a wrong variant
of the definition that follows; no specification uses it. It records which
mistake the property would notice.

### Scheduler

Variables have the code's names. A queue is a sequence of pids; `Level` 0 to 2
is niceness -1 to 1. `next_to_schedule` runs with `SIGALRM` masked but may be
interrupted by the other handlers between two turns of its loop, so each turn
is one action: `Skip` (the status at line 123 is not runnable) or `Dispatch`
(it is, and `k_schedule` resumes the process). The refill of `add_to_active`
and `set_time` happens at the start of a turn and is part of it (`Active`,
`Inactive`, `RunsLeft`). The signals `SigStop` and `SigTerm` may come while
`deciding` holds, the shell's own calls may not. `Terminate` is
`k_process_terminate` with the timer paused, one step; `ArmedTerminate`,
`RemoveScan`, `RemoveDone` are the same call when the HANG wait runs with the
timer armed, queue by queue, so that the scheduler may come in between.
`set_time` is translated as it runs: its counter is 3 after the loop, so
neither of its quota branches is taken. `runs_left` of a new PCB is whatever
`malloc` leaves (`Garbage`); a negative number behaves like 0.

### Kernel

A step is one kernel call, one handler, or one scheduler decision.
`status`, `old`, `parent`, `children` are the PCB's fields (the `cpcb`/`spcb`
list as a sequence), `prog` what the process still has to do, `pc` where the
shell is, `timer` whether the interval timer is armed. `Alarm` is enabled only
while it is. `Dispatch` may choose any runnable process: `Scheduler` says how
it is chosen. `WaitNoHang` and `WaitHang` are the two branches of
`k_process_wait`, with the test `old # status`, the unlinking of the child
(`Unlinked`, `UnlinkEnds`: the cursor of its loop never moves) and the family
removal (`Family`). When the unlinking loop does not end, `pc` becomes
`"stuck"`. Between a spawn and the wait or poll that follows (`pc` is
`"spawned"` or `"launched"`) `Redirect` is `f_dup`, which pauses the timer
again; `ps` makes file calls and arms it at its end (`PsEnds`). `CtrlC` and
`CtrlZ` may come at any state. `Life` maps the statuses
to `ProcessLife` (READY, WAITING and SIGNALREADY are "running").

### FlatFat

`files` is the list `root->next`, `stored` what `k_storeDirectory` last wrote
to block 0, `fat` the table, `fds` the table of every process. A byte written
at offset `o` of file `f` is the cell `<<f, o>>`, so a property can ask whose
byte is in a block; `data` holds the cells. A call is one action, with the
whole of its helpers: it pauses the timer before it touches the files, and no
handler makes a file call. `KWrite` folds the passes of the loop of `k_write`,
with its three ways out, as long as the position has a block.

*Past the end of a chain.* A file whose last block is full has a block for its next
byte, linked by the write that filled it, unless the disc was full then. If it has none,
the next write's walk ends at -1 without an index out of bounds, and
`lseek` takes it to the bytes before block 0: the table, which is mapped and fills
them exactly (512 entries of two bytes, `FAT_WIDTH` 1024). The user's bytes become
entries. `cp`, `mv` and `catFlatFat -w` take no notice of a short write and so make
this write on every full disc; `f_lseek`, which checks no position, leads there
directly. `OverTable` is that write: `data[END]` holds the bytes put there, and the
entries under them become what the bytes are as numbers, anything from `Texts` (a
block, the end, or no block, for which `MEMFULL` stands). The call returns as
if nothing had happened, unless it fills the place and finds a free block, which it
would link behind the entry -1. A file that got no block to start in starts at
`MEMFULL`; then `lseek` fails and the bytes go where the call before left off, behind
the directory's text, which `f_write` has just stored (`Behind`). A read past the end
returns the table's bytes (`FRead`, where a walk to no block may also read
less). The properties of chains and bytes hold until the table is first
written over (`Spilled`); `SpilledWhenFull` says when that can be; types, names,
descriptors and the directory's list hold afterwards too.

*Where the model stops.* Some calls run into what C does not define (an index of -1
or -4 into the table, a freed node), or do not end: `harm` records it
(`"astray"`, `"freed"`, `"loop"`) and the model goes no further, except that after
`"freed"` and `"loop"` the host may be killed and restarted; what was written through
a wrong index may be in the image. The block search comes to harm in the first such
chain it walks, unless it has found a block before (`SearchHarm`). `Boot` loads what
is stored and keeps the table, which is mapped memory.

Constants limit which calls a run makes: `Sharing` allows a second open on a
file in use, `Modes` and `Calls` choose the calls. They state usage under which
a property holds; the runs that expect a violation lift just what breaks it.

### JobControl

`jobs` is the list after its head. The shell learns of a child only from `p_wait`,
and changes the list afterwards, with the timer armed: `due` is what it has yet to
do (`Wait` sets it from the status `p_wait` returned, `Launch` from the pid of a
spawn; `UpdateList` does it). `Updated` says what the list will be then. `BgLast`
is `bg` or `fg` without a pid. Every other step of `Kernel` leaves the list alone.

### FileCommands

`cmd[p]` is the command a process runs and the next call it makes; each call is an
action of `FlatFat` with the `pause_timer` it begins with (`Pause`) or the
`start_timer` it ends with (`Arm`). `Switch` is the scheduler, wherever the timer
is armed. The shell polls, prompts, spawns, redirects, and runs `cp` and `mv`
itself. `HostEnds` is the end of the host process at any point; then PennOS or
`catFlatFat` starts on the image as it was left. `Interrupt` is what arms the timer
inside a command: a handler of SIGINT or SIGTSTP, or the stop a background
process gives itself in `f_write`; `cut` remembers it. Once `f_move` has closed the
image (`Memory \in closed`) the shell goes on prompting, `touch`, `rm` and the others may
still be typed, and no store reaches the disc (`StoresOnly`); the commands' own calls on
the closed image are not modelled (`FileTurn`): none reads or writes a byte of it, and
what they do to the list in memory is lost at the next boot, while the links that
they cut in the mapped table are not.

What the translation shows of the code beside the properties: `cp` and `mv` write
whole buffers, so every write ends on a block boundary and the size of the copy
stays 0 (`k_write`'s last line) unless the disc is full, and then the write after
the short one goes over the table; `cp` of a file that is not there reads -1 bytes at a time and never ends; `cat`
writes the end of earlier reads again after a short one; `mv` onto a name that is
not there does nothing; the first `mv` closes descriptors 2 and 3 of the host, the
next one 4, the disc image; a `cat` whose file got descriptor 1 reads the terminal and
fails to write to it, without end; `rm` of the
file its own output is redirected to takes the standard output away, and the next
`f_open` gets number 1, which cannot be closed; a `cat` redirected to a new
file writes at its start whenever it runs, so if `cp` fills that file before, and
the disc is full and one `rm` frees a block, `cat` replaces the link of the first
full block and cuts off the rest of the copy (`LinkReplaced`; `torn` remembers it).
The blocks it cuts off are free and still linked; on a disc with more blocks than
the run's, further episodes of this kind made two files share one. `CommandsKeepFiles`
says that this and a write over the table are the only ways: until then every step of every
command leaves the files whole, the step that replaces the first link is the write of a
redirected program, and the one that goes over the table comes when a file has no
room for another byte.

### DirectoryStore

The text of the directory, character by character (a number is one), as
`k_storeDirectory` cuts it into blocks and `k_loadDirectory` reads it back along
the chain of block 0. `Store` puts entry after entry; an entry that does not fit takes
a block (`NextBlock`). Each call that stores is an action: creating, removing,
extending a file, storing again, mounting. What the code loses, and the properties
therefore except: `writtenFromStore` is not reset after an entry that crosses from
one block to the next, so every entry behind it lacks its first characters and
ends in those of an earlier one (`Short`); a store that finds no block leaves the
text without its final zero (`status`); and a directory of three blocks, stored
again, leaves a free block with a link into its own chain, which the next file to
get that block follows. `LengthAssumption` bounds the directory to two blocks: with
root, as many entries of the longest kind as there are names. The sum of the
lengths of the entries would not be enough: behind an entry that crosses, `sprintf`
leaves in the buffer what a longer one put there, and the next entries are written
with it, so with names of 24, 1, 1 and 1 characters and blocks of 30 a directory
whose text fits in two blocks takes a third.

### CommandLine

A line is a sequence of characters; the user means a command by it, written with
any blanks (`Written`), or types anything (`Free`). `GetNextToken` is translated
with the position as what is left of the line, `ReadToken` is one call more, and
`Tokens` makes as many as the line has characters. `func`, a local variable of the
loop, keeps its value from one line to the next in the build the Makefile makes
(`-g`, no optimisation), so a line that does not set it spawns what came before.

## 3. Runs

Passing runs:

| run | question | instance | distinct states |
|---|---|---|---|
| `SchedSafety` | queues sound under all interleavings | 4 pids, all 3 levels, garbage 0 or 2 | 229 000 |
| `SchedLiveness` | the loop ends, nobody starves, zombies leave | 3 pids, all 3 levels, garbage 0 or 2, renicing, one reap cut by ticks | 292 000 |
| `KernelSafety` | status, family, terminal, timer, job list | pids up to 5; zombify, orphanify, file programs | 4 278 000 |
| `KernelLiveness` | dead children reaped and off the list, foreground wait ends, `Kernel` implements `ProcessLife` | pids up to 4; sleep, orphanify, ps | 120 000 |
| `FatFiles` | chains, bytes, stored directory, search for a block, when the table is written over | 2 processes, 2 names, 4 blocks of 2 bytes | 718 000 |
| `FatCalls` | block 0 private, names distinct, descriptors live | 2 processes that share, seek, redirect, unlink, defragment, restart; 3 blocks of 1 byte; 3 open files | 1 874 000 |
| `FileCommands` | commands serial, files kept, directory stored, descriptors closed | shell and a job, a file and its copy, 4 blocks of 2 bytes, `catFlatFat -w` and `-r` | 543 000 |
| `DirectoryStore` | the directory read back as stored, its blocks its own | names of 1, 2 and 3 characters, 5 blocks of 23 characters | 86 000 |
| `CommandLine` | the line understood | 5 commands with all parts and spacings, all lines of 4 characters from 7 | 70 000 |

Bounds. Four pids give two processes on one level and one on another beside
the shell, hence every order of the six queues up to length three; the queue
invariants are proved for any number (section 5). In `Kernel`, pids up to 5
are three processes beside init and the shell: the least number for which a
child of a child, two siblings, and a reaped child in third place occur. In
`FatFiles` 4 blocks, one of them the directory's, let two files fill the disc,
give a file a chain of two blocks, and make the search for a block fail; sizes
up to 3 with blocks of 2 cross a boundary and end on one. Writes of 1 and 2
bytes reach every branch of the loop of `k_write`, and the second file to fill its block is
one write from going over the table. Bytes written there read as ends of chains or as no
block (`Entries`): a file with bytes of 255 and any other; entries that happen to be
blocks are in the theorems, which take any `Texts`. Behind such a write
`FatFiles` leaves the bytes out of the view (`BytesOfFiles`), as its properties do. `FatCalls` has blocks of one
byte, so every write ends on a boundary and links a block: the case in which
the table and the sizes disagree is the normal one. It takes states that
differ only in the bytes as one (`VIEW`): no guard reads the bytes and no
property of the run does, and it has three files open at most at once (`FewOpen`):
two at neighbouring numbers of one process, and one in another's table.
`FileCommands` has the fewest files for which a copy, a move onto it and a
redirection to it meet, and a disc on which a redirected `cat` replaces a
link; sizes up to 6 are three blocks, as far as the writes go that `cp` makes after the
disc has filled: over the table, and on. Only `cat` is redirected. One job meets the shell's
own commands and the host's; the theorems of section 5 cover any number. The properties
claim nothing once `cut` is set, and `CommandsKeepFiles` nothing once `torn` is, so the
successors of such states are not explored (`Watched`); the bytes are out of the
view, since no guard or property of the run reads them. In `DirectoryStore` the
root's entry and one file's fill the first block to its last character, with another
file's the zero alone crosses, and a third name makes an entry cross and leaves
characters in the buffer for the entry behind it; the view leaves out the bytes of blocks
outside the directory's chain, which are written before they are read. (Which
of the states that agree otherwise is kept depends on the order of exploration,
so the count varies a little.) In `CommandLine` one program of each kind and
lines with every order of four characters reach each branch of the tokenizer and
each way to lack a word.

`MaxPid`, `MaxSize`, `MaxNumber`, `ArmedReaps`, `MaxBlocks`, `MaxLength`, `MaxLine` are
the bounds of the models; each is named in its module. The runs of `FlatFat` and
`FileCommands` do not check deadlock, because the model stops at a `harm`, nor
does `CommandLine`, which stops after `logout`; the other passing runs check it.

Runs that expect a violation; the text of the repository that says otherwise is
quoted by the property and by the finding in `PROJECT.json`:

| run | what the code does |
|---|---|
| `SchedReapRace` | a reap with the timer armed leaves a node with a freed PCB |
| `KernelUnlink` | the unlink loop of `k_process_wait` runs for ever |
| `FatAppend` | a replaced link leaves a free block with a tail, and chains meet |

Other places where a document promises what the models, translated from the
code, do not do; they can be read off the definition named:

- `Turn`: levels are served in rotation, where `doc/Scheduler_Documentation.md:76` has
  "the first process in the highest-priority active queue"; `Lowest`: no level gets a larger quota.
- `KNice`: no node changes its level (`doc/Kernel_Documentation.md:99`).
- `TerminalFromBackground`: a process that stops itself runs on until the tick
  (`doc/Signal_Documentation.md:7`).
- `KProcessCreate`: a foreground spawn gets the terminal only from a spawner that
  has it (`doc/Kernel_Documentation.md:37`); `Fg` never gives it (`:17`).
- `AddFile`: on a full disc a file starts at block -4
  (`doc/File_Documentation.md:241`); `SearchHarm`: with appends or shared files a
  chain may become a cycle, on which `k_blockFree` does not return (`:294`).
- `KExit`: a process that a signal killed while it ran, and that reaches its
  `p_exit` before the tick, is reported as exited, not as signalled
  (`doc/Kernel_Documentation.md:152`).
- `Prompt` pauses the timer: while the shell reads a line nothing else runs, so a
  sleeper sleeps on for as long as the user thinks (`doc/Kernel_Documentation.md:8`).
- `OverTable`: a write that finds no block puts its bytes over the table and says it
  wrote them, where `doc/File_Documentation.md:62` has "*numb* bytes from the inputted
  string will be written to the file" and `:347` of `k_write` "across the blocks of a
  file".
- `WritePass`: a write that ends exactly at a block's end does not raise the size
  (`doc/File_Documentation.md:62`); hence `CpEnds` leaves a copy with a size that
  is not the file's (`doc/Kernel_Documentation.md:23`).
- `Files`: with two redirections the first file is the input whatever the marks
  say, though the comment at `shell.c:22` names both orders.
- `SelectFunction`: `nice` runs what an earlier line ran when it is given zombify,
  orphanify or a program without its argument (`doc/Kernel_Documentation.md:6`).
- `Redirected`: redirection takes a file whose name merely begins with the one
  given (`doc/File_Documentation.md:115`).
- `Defragment` moves nothing and clears the table (`doc/File_Documentation.md:161`).

**Fairness.** `Scheduler!FairSpec`: weak fairness of the loop (it runs until it
returns) and of entering the scheduler (the armed interval timer is periodic).
`JobControl!AnsweredJobs`: weak fairness of `Alarm` while the timer is armed; strong
fairness of dispatching the shell, which `Scheduler!NoStarvation` justifies for
a process that stays runnable; a job that holds the CPU in a file call with the
timer paused goes on to its `p_exit` (weak); the shell's own steps, those on its
list among them, and a user who answers the prompt (strong, since ticks interrupt
them). Without the user nothing at all happens at the prompt. `Kernel!FairSpec`
has no assumption on the user.

## 4. What is modelled with less detail, or not at all

- Use after free: `remove_by_pid` goes on from the node it freed. The model
  takes the freed node to be unchanged until the loop has moved on. A PCB
  read after it was freed is nondeterministic (`MayRun`, `MayNotRun`).
- Indices out of bounds (`p_kill(-1)`, niceness typed by the user, a full
  `pcb_table`) have no defined outcome and are outside the inputs.
- Calls are atomic in `Kernel` and `FlatFat`. A handler that arms the timer inside a
  call or between the calls of a command is modelled (`Interrupt`), what the
  commands do to each other after it is not: the files then have no protection,
  and the models claim nothing.
- What an index out of the table reads or writes (`harm`), and the file calls on an
  image that `f_move` has closed.
- `FlatFat` takes the stored directory for a copy of the list; `DirectoryStore`
  shows that it is one up to the second block.
- `FileCommands` redirects standard output only, to a file that does not exist yet;
  `FlatFat`'s `FDup` has both standard descriptors and any file.
- `ls`, `man`, `jobs`, `f_ls` and the log only print. `b_lseek`, `insert_head` and the
  signal queue are never called. `scheduler_logout`, `kern_logout`, `clear_list` and
  `k_fileSysLogout` run when the host process is about to exit and store nothing.
- The interval between `init_kern` and the spawn of the shell: a tick in it finds
  nothing to schedule, and PennOS ends.

## 5. Proofs

Every theorem holds for all values of the constants that satisfy the assumptions of
its module, that is for any number of processes, pids, names, blocks and block
sizes. The assumptions are those the code makes: `Shell \in Pid`, niceness -1 to 1
at a spawn (`Scheduler`), at least one block and one byte per block (`FatTable`),
the terminal is not a file (`NameAssumption`), and the like; TLC evaluates each in a
passing run. Some theorems have a hypothesis of their own: `ArmedReaps = 0`
for three of the scheduler, `FilesUse` for four of `FlatFatProofs`, no `f_dup` for one, `CommandsUse` (no
`catFlatFat -a`) for one of the commands. The violating runs `SchedReapRace` and
`FatAppend` show why none is dropped.

| module | theorems | property |
|---|---|---|
| `SchedulerProofs` | `TypeCorrect`, `NothingLost`, `ShellIsSchedulable` | `TypeOK`, `NoneLost`, `SomethingToSchedule` |
| | `QueuesSound`, `NodesAreUnique`, `NoFreedPcbQueued`, if `ArmedReaps = 0` | `OneNode`, `QueuedHavePcb` |
| `KernelProofs` | `KernelTypes`, `DeathsAreReportable`, `TheShellSurvives`, `FamiliesStayInTable`, `ChildrenStayListed`, `SchedulerRunsOnTimer` | `TypeOK`, `ZombieReportable`, `ShellSurvives`, `FamilyInTable`, `EveryChildListed`, `TimerPaused` |
| | `KernelImplementsLife` | `ImplementsLife` |
| `JobControlProofs` | `JobControlIsKernel`: `JobSpec => Spec` | |
| | `JobListTypes`, `JobListIsChildList`, `JobListIsTrue`, `JobControlImplementsLife` | `JobsTypeOK`, `JobsAreChildren`, `JobsShowStatus`, `ImplementsLife` |
| `FlatFatProofs` | `FatTypes`, `DirectoryBlockIsPrivate`, `FileNamesAreUnique`, `DescriptorsHaveFiles` | `TypeOK`, `RootBlockPrivate`, `NamesDistinct`, `DescriptorsLive` |
| | `FilesShareNoBlock`, `FreeBlocksAreSingle`, `FilesKeepTheirBytes`, `TableOutlivesRoom`, under `FilesUse` | `ChainsDisjoint`, `FreeBlocksUnlinked`, `BytesInPlace`, `SpilledWhenFull` |
| | `RestartLosesNoFile`, if no call is `f_dup` | `DiskListsFiles` |
| `FileCommandsProofs` | `CommandsMakeGoodCalls` | the first four of `FlatFatProofs`, under `CommandsSpec` |
| | `CommandTypes`, `CommandsNeverOverlap`, `NothingLostAtRest`, `CommandsCloseFiles` | `CommandsTypeOK`, `CommandsSerial`, `RestStored`, `CommandsClose` |
| | `CommandsLeaveFilesWhole`, under `CommandsUse` | `CommandsKeepFiles` |
| `DirectoryStoreProofs` | `DirectoryTypes`, `DirectoryStaysApart`, `StoredDirectoryIsHeld` | `DirectoryTypeOK`, `DirectoryApart`, `StoredIsHeld` |
| `CommandLineProofs` | `LinesAreTokenized`, `LinesAreObeyed` | `TokensFaithful`, `LineObeyed` |

Each component has one inductive invariant, which TLC checked on an instance before
it was proved; one lemma per action says that the action keeps it.

**Scheduler** (`QueueInv`, `LossInv`). That a process is not lost needs to know that
a node taken from the head of a queue is the only one of its process, that a new
process gets no second node needs `QueuedHavePcb`, and both need the types:
`QueueInv` is their conjunction without armed reaps. With armed reaps a process may
have two nodes and a node no PCB; `LossInv` gives these two up and keeps `NoneLost`,
with the shell never the victim: no turn and no removal takes the node of a process
other than the victim off all queues, however many it has. The work is done by
lemmas on sequences: `RemoveByPid`, `Append` and `Tail` on duplicate-free sequences
and their sets of elements.

**Kernel** (`KernelInv`). The invariants, with `Roots` (what init and the shell
are, and that nobody else is a child of init), `Rest` (a free pid has no parent,
children or program; no job waits, or is ready after a stop that no wait has seen)
and `GoneStaysGone` (outside the scheduler the running process is not dead). Why
`Reap` keeps `FamilyInTable`: `Family` is the least set that contains the child and
is closed under children, given as an intersection, so it is closed itself
(`FamilyFacts`), and a process outside it has its parent outside it. `Unlinked`
takes only the reaped child from a list (`UnlinkedFacts`). The refinement of
`ProcessLife` is proved step by step under the invariant: kills, spawns, exits and
reaps map to its actions (`KillImplements`, ..., `FamilyIsDescendants`), everything
else stutters.

**Job list** (`JobInv`). `Listed` is the list once the update that is due is made;
`JobInv` relates it to the shell's children: same pids in the same order, each in
the state of its process as long as `p_wait` would not report a change.
`JobStepIsKernelStep` and the kernel's invariant do the rest: an action that is not
the shell's changes no child's place, and a status only so that `p_wait` would
report it (`OthersList`).

**Table and calls** (`CallInv`). Types, names, block 0 and live descriptors hold of
any sequence of calls, over the table too: the entries are links of any kind once it
is written over, and until then lead to blocks other than 0 or end (`TableKind`); a start or
a descriptor is never taken from it but through the block search. `KWrite` is a
recursive function of the number of passes; `KWriteInduction` shows that what the first pass establishes and every pass keeps
holds at the end, and each pass ends the call or links a next block (`PassCases`).
The induction theorems of the library take a formula as a parameter, which no
backend instantiates; that `<` is well-founded on `Nat` does not, so `SetInduction`
(induction for a set) follows from it, and `Walk` and `KWrite` can be reasoned
about.

**Files** (`FilesInv`). Under `FilesUse` (modes `F_READ` and `F_WRITE`; of the other
calls only unlinking and restarts; no second open of an open file), which is the use
the run `FatFiles` checks: chains end and are apart, free blocks are unlinked, bytes
are in place, a file has one descriptor at most, and a writer stands at the end of
what was written, in the last block of the chain (`Writers`, `AtEnd`), which is what
keeps `k_write` from replacing a link. A writer that has no block is at the
size of its file (`AtEnd`), so a write over the table comes only from a roomless one;
and a file gets roomless only in the pass whose search failed, or by a start of `MEMFULL`,
with every block in use (`RoomKept`, action by action). `FilesInv` ends with
that write; `DiskListsFiles` does not speak of the table and is kept by each call by
itself (`CallKeepsDisk`). The walk lemmas of `FatTableProofs` say what
linking or cleaning one block leaves of every other chain.

**Commands** (`CommandInv`). `CallInv`, and: what each command may be at each stage
(`Sane`), a process inside a command has the CPU with the timer paused while nothing
has cut in (`HasCpu`), which descriptors a command has at each stage (`TablesFit`),
the standard ones open for each process (`Standard`), what runs on the host
(`HostRuns`), and the stored directory at rest (`Rested`). Since whoever is inside
has the CPU, an action of one command finds the others where they were: `JobTurn`,
`ShellTurn` and `ToolTurn` prove that once for all actions, and each action's lemma
shows only what it does to its own command and table. The proof showed that the copy
a `cp` makes must be a name of the model's (`CommandsAssumption`), and that the
effect of `f_unlink` on a process's own table is to take nodes, never to add one.

**Files under the commands** (`Whole`). `FilesInv` does not carry over: here files are
shared, `cp` and `mv` leave sizes that are not the files', and a redirected program
writes anywhere. What carries over is `Apart` and `FreeUnlinked`, and that they hold as
long as no link is replaced by another. A restart brings the directory back as it was
stored while the table stays as it is; hence `Remembered`: a file that is not on disk
has one block, and one that is on disk is in the list with the same start, but for the
one that an `f_move` which closed the image has removed. Together these
are `Sound`. A write leaves the links it
finds if it begins in the last block of its chain or behind it (`KWriteExtends`); if it
begins before that it leaves the table or replaces a link (`KWriteCuts`). So the next
part is `WritesAtEnd`: the descriptor through which `cp`, `mv` or `catFlatFat -w` writes
is the only one of its number, another than the one it reads, and stands in the last
block of a file that `F_WRITE` has cut to one block, or behind it. `touch`, `rm` and the
reads write nothing; a job's `cat` is the one writer left, and the property names it. A
write whose walk ends at -1 goes over the table; that this is so only for a roomless
file needs `Backed`: a descriptor that is written to stands at its file's size, before it,
or in a block (`NoRoom`). For the redirected `cat` it is the third part, `OutputsBacked`. Each
step has one of three outcomes (`Outcome`): the table is written over (`Overflows`), a link
is replaced by a redirected program (`Overtakes`), or all three parts hold again and
nothing has moved (`Kept`). `StepKept` puts the actions together.

**Stored directory** (`DirInv`). `Sound` says that no chain is a cycle, no two of
the directory's and the files' chains meet, and a block of none has no link;
`NearEnd`, that block 0 and the block at each file's size are the last of their
chain or the last but one (after a mount the size is the one stored before the last
block was linked). Replacing such a link by a free block keeps `Sound` (`Relinked`):
the block cut off is a single one without a link, which is why a directory that
takes its second block anew at every store leaks nothing, and why one of three
blocks does. Inside a store `StoreInv` counts characters: behind the `n`th entry at
most `n * Longest` are written, so the second block is never full
(`StoreEntryKeeps`). The proof found what `LengthAssumption` has to count: with the
entries' own lengths alone `DirectoryApart` is false (section 2).
`BytesInv` adds the characters: the text of `stored`, entry by entry at the places
`TextBefore` gives, and its zero, are in the blocks of the directory's chain
(`HoldsText`). It is inductive only together with the part of `StoreInv` that says
where a store stands (`TextInv`): the entry that crosses is cut at the block's end and
goes on in the next, which `EntryWritten` shows character by character; a call that
stores nothing writes outside the chain (`ExtendKeepsBytes`). Reading back is a fold over
the text up to the zero: `Partial` says which fields a prefix has completed and how much of the
next, `HashRead` and `CharRead` what one more character does, and `FieldsAreRight` that
the whole gives the list that was stored.

**Command line** (`LineInv`). The invariant is small: the line is a sequence of
characters, it writes the command meant if there is one, and nothing is done before it
is handled. The work is in what the operators compute, for a line of any length.
`GetNextTokenSays` describes one call by three places in the line (`IsToken`): where the
word begins, where it ends, and where the next call goes on. What `k` calls have read,
joined, is the line up to that place without its blanks (`Reads`), and each call takes a
character, so as many calls as there are characters take all (`TokensSay`). A written
command is laid out so that part `k` ends at `o[k]` with at most one blank before it
(`LaidOut`). `NextPlace` shows that each call returns the next part: behind a
word stands a blank or a mark (`BehindWord`), so the word ends there; and a mark must be
the first character a call sees, or it would begin a word (`Place`), which it is because
the word before it has taken the blanks between them. This is where the proof needs that
no two marks stand beside each other and none comes first (`Plain`); a command the
shell has never writes such a line (`PartsInTurn`). `PartsAt` says where the parts of a
command are, and from that `SpawnedIsMeant` follows clause by clause. `Tokens` and
`FlattenSeq` are recursive functions, whose solutions exist by induction on a set of
numbers (`ReadingExists`, `FlatExists`).

Only model-checked:

- Liveness (`SchedulerReturns`, `NoStarvation`, `ZombieUnqueued`, `ChildReaped`,
  `HangEnds`, `DeadJobsLeave`): fairness and `ENABLED` are outside what the prover does.

Every leaf is checked from nothing; the modules take from half a minute to some
minutes each.

## 6. Plan

1. Which files share blocks after a link was replaced, and after `catFlatFat -a`.
2. Handlers that arm the timer inside a paused section, call by call; `Boot`: the
   ticks before the shell exists.
