-------------------------------- MODULE FlatFat --------------------------------
(****************************************************************************)
(* The flat FAT file system of PennOS: kernelFileSystem.c (the table, the   *)
(* blocks, the directory) under userFileSystem.c (descriptors, the calls).  *)
(*                                                                          *)
(* Every call f_... pauses the timer before it touches the files, and       *)
(* none of the handlers of other signals calls one: a call is one action,   *)
(* with all its helpers do.  A byte written at offset o of file f is the    *)
(* cell <<f, o>>, which is what lets the properties tell whose bytes a      *)
(* block holds.  The directory on disk is a copy of the list, and storing   *)
(* it takes no block: it fits in block 0, as some thirty files with short   *)
(* names do.  How the copy is written and read is DirectoryStore's matter.  *)
(*                                                                          *)
(* The table is the first block of the image, before block 0, and a write   *)
(* that has come to the end of its chain goes there: `data' holds its bytes *)
(* too.  C does not define what follows an index out of the table: `harm'   *)
(* then says why, and the model goes no further, but for a restart of the   *)
(* host process.                                                            *)
(****************************************************************************)
EXTENDS FatTable

CONSTANTS
  Proc,        \* the processes that make the calls
  Name,        \* file names, none of which "root" begins with
  Prefix,      \* pairs <<long, short>> of names: long begins with short
  Modes,       \* modes given to f_open
  Calls,       \* which calls are made besides f_open, f_read, f_write, f_close;
               \* "readback": f_read on a descriptor opened with F_WRITE
  Sharing,     \* may a file be opened while a descriptor is open on it?
  Lengths,     \* the numb of f_read and f_write
  Texts,       \* what a caller's bytes are as entries of the table
  MaxSize,     \* bound: no call may move a position past it
  MaxNumber    \* bound on descriptor numbers

ASSUME LengthsAssumption ==
  Lengths \subseteq Nat \ {0} /\ MaxSize \in Nat /\ MaxNumber \in Nat \ {0}
Links == [Block -> Block \cup {END, MEMFULL}]
ASSUME TextsAssumption == Texts \subseteq Links
ASSUME UseAssumption ==
  /\ Modes \subseteq {"F_READ", "F_WRITE", "F_APPEND"}
  /\ Calls \subseteq {"readback", "seek", "dup", "unlink", "defragment", "boot"}
  /\ Sharing \in BOOLEAN /\ Prefix \subseteq Name \X Name

Terminal == "terminal"   \* the fileP of a standard descriptor: NULL
ASSUME NameAssumption == Terminal \notin Name

VARIABLES
  files,   \* the list root->next: name, blockStart and size of each file
  fat,     \* the table; -1 ends a chain
  data,    \* the bytes k_write has put into each block, and over the table (END)
  fds,     \* the fdtable of each process
  stored,  \* the directory as block 0 holds it
  harm     \* what the last call ran into, "none" if all went well

vars == <<files, fat, data, fds, stored, harm>>

Blank == <<"blank", -1>>  \* a byte never written
NewTable == {[number |-> 0, file |-> Terminal, mode |-> "F_READ", pos |-> 0],
             [number |-> 1, file |-> Terminal, mode |-> "F_WRITE", pos |-> 0]}
\* A call finds the first file in the list with the name.
First(f) == CHOOSE i \in Named(files, f) : \A j \in Named(files, f) : i <= j
Entry(f) == files[First(f)]

-------------------------------------------------------------------------------
(* k_write: one turn of its loop in the blocks of f.                         *)
(* w: table, bytes, size of f, position, block written, bytes left.          *)
WritePass(f, w) ==
  LET off  == w.pos % FAT_WIDTH
      fits == off + w.left < FAT_WIDTH
      n    == IF fits THEN w.left ELSE FAT_WIDTH - off
      pos  == w.pos + n
      put  == [o \in 0 .. FAT_WIDTH - 1 |->
                 IF o \in off .. off + n - 1 THEN <<f, w.pos - off + o>>
                                             ELSE w.data[w.at][o]]
      new  == DetermineBlock(files, w.fat)
      out  == [w EXCEPT !.data[w.at] = put, !.pos = pos, !.left = w.left - n]
  IN  IF w.left = 0 \/ w.done \/ w.harm # "none" THEN w
      ELSE IF fits \/ new = MEMFULL
        THEN [out EXCEPT !.done = TRUE,
                         !.size = IF pos > @ THEN pos ELSE @,
                         !.harm = IF fits THEN @ ELSE SearchHarm(files, w.fat)]
      ELSE [out EXCEPT !.fat[w.at] = new, !.at = new,
                       !.harm = SearchHarm(files, w.fat)]

\* Where the walk to a position ends, and whether it stays in the table: the
\* last step may lead to END, or elsewhere, but none may start there.
WalkEnd(f, pos) == Walk(fat, Entry(f).start, pos \div FAT_WIDTH)
StaysIn(f, pos) ==
  \A k \in 0 .. pos \div FAT_WIDTH - 1 : Walk(fat, Entry(f).start, k) \in Block

KWrite(f, pos, numb) ==
  LET first == [fat |-> fat, data |-> data, size |-> Entry(f).size,
                pos |-> pos, left |-> numb, done |-> FALSE, harm |-> "none",
                at |-> WalkEnd(f, pos)]
      pass[k \in 0 .. numb] ==
        IF k = 0 THEN first ELSE WritePass(f, pass[k - 1])
  IN  pass[numb]

\* k_write where the walk ends in no block: one turn of the loop puts n bytes
\* elsewhere, which makes t of the table and dt of the bytes.  To link another
\* block behind it would be to index the table with it.
Part(pos, numb) ==
  IF (pos % FAT_WIDTH) + numb < FAT_WIDTH THEN numb ELSE FAT_WIDTH - (pos % FAT_WIDTH)
Missed(f, pos, numb, t, dt) ==
  LET n == Part(pos, numb)
  IN  [fat |-> t, data |-> dt, pos |-> pos + n,
       size |-> IF pos + n > Entry(f).size THEN pos + n ELSE Entry(f).size,
       harm |-> IF (pos % FAT_WIDTH) + numb < FAT_WIDTH THEN "none"
                ELSE IF SearchHarm(files, t) = "none" /\ DetermineBlock(files, t) # MEMFULL
                  THEN "astray"
                ELSE SearchHarm(files, t)]

\* At END the block before block 0 is written: the table, which fills it.  The
\* entries under the bytes become what those are as numbers.
Under(b, off, n) ==
  off * NUM_BLOCKS < (b + 1) * FAT_WIDTH /\ b * FAT_WIDTH < (off + n) * NUM_BLOCKS
OverTable(f, pos, numb, text) ==
  LET off == pos % FAT_WIDTH
      n   == Part(pos, numb)
      put == [o \in 0 .. FAT_WIDTH - 1 |->
                IF o \in off .. off + n - 1 THEN <<f, pos - off + o>> ELSE data[END][o]]
  IN  Missed(f, pos, numb, [b \in Block |-> IF Under(b, off, n) THEN text[b] ELSE fat[b]],
             [data EXCEPT ![END] = put])

\* At a start of MEMFULL lseek fails, and the bytes go where the last call has
\* left off: behind the directory's text, from byte `tail' of block 0 on, or of
\* block 1.  (At a link above the last block they go behind the image: then
\* tail is past block 1.)
Behind(f, pos, numb, tail) ==
  LET put == [b \in DOMAIN data |-> [o \in 0 .. FAT_WIDTH - 1 |->
                LET i == b * FAT_WIDTH + o - tail
                IN  IF b \in {0, 1} /\ i \in 0 .. Part(pos, numb) - 1
                      THEN <<f, pos + i>> ELSE data[b][o]]]
  IN  Missed(f, pos, numb, fat, put)

\* k_read: how far it would get.  A position beyond the size makes
\* size - position wrap, so numb stays as it is.
ReadLength(f, pos, numb) ==
  IF pos <= Entry(f).size /\ Entry(f).size - pos < numb
    THEN Entry(f).size - pos
    ELSE numb
\* Where the walk leads to a number that is neither a block nor END, lseek may
\* fail, or go behind the image, and the read may stop anywhere.
Reads(f, pos, numb) ==
  {n \in 0 .. ReadLength(f, pos, numb) :
     n = ReadLength(f, pos, numb) \/ WalkEnd(f, pos + n) \notin Block \cup {END}}
ReadHarm(f, pos, n) == IF StaysIn(f, pos + n) THEN "none" ELSE "astray"

-------------------------------------------------------------------------------
(* The calls.                                                                *)

Numbers(p) == {d.number : d \in fds[p]}
NextNumber(p) == CHOOSE n \in 1 .. MaxNumber :
                   n \notin Numbers(p) /\ 1 .. n - 1 \subseteq Numbers(p)
FileDescriptors(p) == {d \in fds[p] : d.file # Terminal}
\* d is the head of the table of p (k = 0), or the node after it (k = 1).
NodeIs(p, d, k) == Cardinality({n \in Numbers(p) : n < d.number}) = k
OpenOn(f) == \E p \in Proc : \E d \in fds[p] : d.file = f

\* Mutant: the call stores the directory before it changes it.
StoreEarly == stored' = files

\* k_storeDirectory at the end of a call.
StoreDirectory == stored' = files'

\* k_addFile: at the end of the list, with the first free block.
AddFile(f) == Append(files, [name |-> f, start |-> DetermineBlock(files, fat), size |-> 0])
Resized(f, n) == [i \in DOMAIN files |->
                    IF files[i].name = f THEN [files[i] EXCEPT !.size = n]
                                         ELSE files[i]]

Moved(p, d, pos) == [fds EXCEPT ![p] = (@ \ {d}) \cup {[d EXCEPT !.pos = pos]}]

OpenDescriptor(p, f, mode, pos) ==
  fds' = [fds EXCEPT ![p] = @ \cup {[number |-> NextNumber(p), file |-> f,
                                     mode |-> mode, pos |-> pos]}]
MayOpen(p, f, mode) ==
  /\ mode \in Modes
  /\ ~ 1 .. MaxNumber \subseteq Numbers(p)
  /\ Sharing \/ ~ OpenOn(f)

\* k_cleanFat goes on to the -1 of the chain, cutting every link it passes.
CleanHarm(start) == IF Strays(fat, start) THEN "astray" ELSE "none"

\* f_open of a file the directory has; F_WRITE truncates it.
OpenOld(p, f, mode) ==
  /\ MayOpen(p, f, mode)
  /\ Named(files, f) # {}
  /\ OpenDescriptor(p, f, mode, IF mode = "F_APPEND" THEN Entry(f).size ELSE 0)
  /\ IF mode = "F_WRITE"
       THEN /\ fat' = CleanFat(fat, Entry(f).start)
            /\ files' = Resized(f, 0)
            /\ harm' = CleanHarm(Entry(f).start)
       ELSE UNCHANGED <<fat, files, harm>>
  /\ StoreDirectory
  /\ UNCHANGED data

\* f_open of a new file: k_determineBlock's MEMFULL is taken for a block, and
\* for F_WRITE k_cleanFat then reads the table at that index.
OpenNew(p, f, mode) ==
  /\ MayOpen(p, f, mode) /\ mode # "F_READ"
  /\ Named(files, f) = {}
  /\ files' = AddFile(f)
  /\ OpenDescriptor(p, f, mode, 0)
  /\ StoreDirectory
  /\ LET start == DetermineBlock(files, fat)
     IN  /\ fat' = IF mode = "F_WRITE" THEN CleanFat(fat, start) ELSE fat
         /\ harm' = IF mode = "F_WRITE" /\ SearchHarm(files, fat) = "none"
                      THEN CleanHarm(start) ELSE SearchHarm(files, fat)
  /\ UNCHANGED data

\* f_write: the directory goes to block 0 before the bytes are written.
FWrite(p, d, numb) ==
  LET f   == d.file
      pos == IF d.mode = "F_APPEND" THEN Entry(f).size ELSE d.pos
      Writes(w) == /\ fat' = w.fat /\ data' = w.data /\ harm' = w.harm
                   /\ files' = Resized(f, w.size)
                   /\ fds' = Moved(p, d, w.pos)
  IN  /\ d.mode # "F_READ"
      /\ pos + numb <= MaxSize
      /\ stored' = files
      /\ \/ StaysIn(f, pos) /\ WalkEnd(f, pos) \in Block /\ Writes(KWrite(f, pos, numb))
         \/ /\ StaysIn(f, pos) /\ WalkEnd(f, pos) = END
            /\ \E text \in Texts : Writes(OverTable(f, pos, numb, text))
         \/ /\ StaysIn(f, pos) /\ WalkEnd(f, pos) \notin Block \cup {END}
            /\ \E tail \in 1 .. 2 * FAT_WIDTH : Writes(Behind(f, pos, numb, tail))
         \/ ~StaysIn(f, pos) /\ harm' = "astray" /\ UNCHANGED <<files, fat, data, fds>>

\* f_read of a file, which gets n bytes; descriptor 1 reads the terminal whatever
\* it points to.  A read that stops in a block it wanted to the end raises a size
\* below the position.
FRead(p, d, numb, n) ==
  LET end == d.pos + ReadLength(d.file, d.pos, numb)
      pos == d.pos + n
  IN  /\ d.mode \in {"F_READ"} \cup (IF "readback" \in Calls THEN {"F_WRITE"} ELSE {})
      /\ d.number # 1
      /\ Entry(d.file).size # d.pos
      /\ end <= MaxSize
      /\ n \in Reads(d.file, d.pos, numb)
      /\ harm' = ReadHarm(d.file, d.pos, n)
      /\ fds' = Moved(p, d, pos)
      /\ files' = IF pos \div FAT_WIDTH < end \div FAT_WIDTH /\ Entry(d.file).size < pos
                    THEN Resized(d.file, pos) ELSE files
      /\ UNCHANGED <<fat, data, stored>>

\* f_lseek checks nothing.
FLseek(p, d, pos) ==
  /\ "seek" \in Calls
  /\ fds' = Moved(p, d, pos)
  /\ stored' = files
  /\ UNCHANGED <<files, fat, data, harm>>

\* f_close looks from the third node of the table on, and stores the directory
\* if it found nothing; of 0 and 1 it says that they cannot be closed.
FClose(p, n) ==
  LET hit == {d \in fds[p] : d.number = n /\ ~ NodeIs(p, d, 0) /\ ~ NodeIs(p, d, 1)}
  IN  /\ fds' = [fds EXCEPT ![p] = @ \ hit]
      /\ stored' = IF hit = {} /\ n \notin {0, 1} THEN files ELSE stored
      /\ harm' = IF Cardinality(Numbers(p)) < 2 THEN "freed" ELSE "none"
      /\ UNCHANGED <<files, fat, data>>

\* Mutant: the loop over a table starts after stdout, as that of f_close.
ForgetOpened(f) == [q \in Proc |-> {d \in fds[q] : d.file # f \/ d.number < 2}]
Forget(f) == [q \in Proc |-> {d \in fds[q] : d.file # f}]

\* f_unlink by p: first the table of p from its second node on.  After a hit
\* the loop passes over the node that follows, and a second hit right behind
\* takes that node along: the nodes of Dropped leave the table.  A hit on the
\* last node reads the next pointer of NULL, and the host process dies.
Nodes(p) == [k \in 1 .. Cardinality(fds[p]) |-> CHOOSE d \in fds[p] : NodeIs(p, d, k - 1)]
Dropped(p, f) ==
  LET nodes == Nodes(p)
      n     == Len(nodes)
      from[at \in 2 .. n + 2, prev \in 1 .. n] ==
        IF at > n THEN {}
        ELSE IF nodes[at].file = f THEN prev + 1 .. at \cup from[at + 2, prev]
        ELSE from[at + 1, at]
  IN  {nodes[k] : k \in from[2, 1]}
RunsOff(p, f) ==
  LET nodes == Nodes(p)
      n     == Len(nodes)
      from[at \in 2 .. n + 2] ==
        IF at > n THEN FALSE
        ELSE IF nodes[at].file = f THEN at = n \/ from[at + 2]
        ELSE from[at + 1]
  IN  from[2]

\* Then, unless that was the end, every table: the nodes that point to the file
\* leave it; the head of a table, a redirected stdin, is freed but stays the head.
Unlinked(p, f) ==
  /\ \/ /\ Named(files, f) = {}
        /\ UNCHANGED <<files, fat, fds, harm>>
     \/ /\ Named(files, f) # {} /\ RunsOff(p, f)
        /\ harm' = "freed"
        /\ UNCHANGED <<files, fat, fds>>
     \/ /\ Named(files, f) # {} /\ ~ RunsOff(p, f)
        /\ files' = RemoveAt(files, First(f))
        /\ fat' = CleanFat(fat, Entry(f).start)
        /\ fds' = [Forget(f) EXCEPT ![p] = @ \ Dropped(p, f)]
        /\ harm' = IF CleanHarm(Entry(f).start) = "none"
                      /\ \E q \in Proc : \E d \in fds[q] : d.file = f /\ d.number = 0
                      THEN "freed" ELSE CleanHarm(Entry(f).start)
  /\ UNCHANGED data

FUnlink(p, f) ==
  /\ "unlink" \in Calls
  /\ Unlinked(p, f)
  /\ IF Named(files, f) # {} /\ RunsOff(p, f) THEN UNCHANGED stored ELSE StoreDirectory

\* f_dup: the first file whose name begins with f, a new one if there is none;
\* the directory is not stored.  Standard output is the node after the head.

\* Mutant: the search looks at the first file alone.
RedirectedFirst(f) == {i \in DOMAIN files : i = 1 /\ files[i].name = f}
Redirected(f) ==
  {i \in DOMAIN files : files[i].name = f \/ <<files[i].name, f>> \in Prefix}
FDup(p, n, f) ==
  LET node == {d \in fds[p] : NodeIs(p, d, n)}
      old  == {d \in node : d.file = Terminal}
      hits == Redirected(f)
      to   == IF hits = {} THEN f
              ELSE files[CHOOSE i \in hits : \A j \in hits : i <= j].name
  IN  /\ "dup" \in Calls
      /\ fds' = [fds EXCEPT ![p] = (@ \ old) \cup
                                   {[d EXCEPT !.file = to] : d \in old}]
      /\ files' = IF hits = {} THEN AddFile(f) ELSE files
      /\ harm' = IF node = {} THEN "freed"
                 ELSE IF hits = {} THEN SearchHarm(files, fat) ELSE "none"
      /\ UNCHANGED <<fat, data, stored>>

\* k_defragmentSystem: it numbers the blocks of every chain, finds its list
\* pointer at the end already, moves nothing, and clears the table.
Defragment ==
  LET count == FoldSeq(LAMBDA s, n : n + Cardinality(Chain(fat, s)), 0, Starts(files))
  IN  /\ "defragment" \in Calls
      /\ fat' = EmptyFat
      /\ harm' = IF FirstHarmed(files, fat) # 0
                   THEN ChainHarm(fat, Starts(files)[FirstHarmed(files, fat)])
                   ELSE IF count >= NUM_BLOCKS THEN "astray" ELSE "none"
      /\ UNCHANGED <<files, data, fds, stored>>

\* The end of a process, and a new one in its place, with k_initFdTable's table.
Respawn(p) ==
  /\ fds[p] # NewTable
  /\ fds' = [fds EXCEPT ![p] = NewTable]
  /\ UNCHANGED <<files, fat, data, stored, harm>>

\* The host process ends (k_fileSysLogout stores nothing) or is killed, and
\* main mounts the image again: k_setFileSystem and k_loadDirectory.
Boot ==
  /\ "boot" \in Calls
  /\ harm # "astray"
  /\ files' = stored
  /\ fds' = [p \in Proc |-> NewTable]
  /\ harm' = "none"
  /\ UNCHANGED <<fat, data, stored>>

-------------------------------------------------------------------------------
\* mkFlatFat: an empty table, and a directory with root alone.
Init ==
  /\ files = << >> /\ stored = << >>
  /\ fat = EmptyFat
  /\ data = [b \in Block \cup {END} |-> [o \in 0 .. FAT_WIDTH - 1 |-> Blank]]
  /\ fds = [p \in Proc |-> NewTable]
  /\ harm = "none"

Call(p) ==
  \/ \E f \in Name, m \in Modes : OpenOld(p, f, m) \/ OpenNew(p, f, m)
  \/ \E d \in FileDescriptors(p), numb \in Lengths :
       FWrite(p, d, numb) \/ \E n \in 0 .. numb : FRead(p, d, numb, n)
  \/ \E d \in FileDescriptors(p), pos \in 0 .. MaxSize : FLseek(p, d, pos)
  \/ \E n \in 2 .. MaxNumber : FClose(p, n)
  \/ \E f \in Name : FUnlink(p, f)
  \/ \E n \in {0, 1}, f \in Name : FDup(p, n, f)

Next ==
  \/ harm = "none" /\ \E p \in Proc : Call(p) \/ Respawn(p)
  \/ harm = "none" /\ Defragment
  \/ Boot

Spec == Init /\ [][Next]_vars

-------------------------------------------------------------------------------
(* Properties.                                                               *)

\* Bytes of a file have gone over the table.  Nothing in the code prevents this
\* or notices it, and no property of the chains can be kept from then on: those
\* below say what holds up to there, and SpilledWhenFull how far that is.
Spilled == \E o \in 0 .. FAT_WIDTH - 1 : data[END][o] # Blank

\* Every variable stays in its range.  (The size of a file never passes the
\* bound on positions.)
Cell == (Name \X (0 .. MaxSize + FAT_WIDTH)) \cup {Blank}
Directory == Seq([name : Name, start : Block \cup {MEMFULL}, size : 0 .. MaxSize])
TypeOK ==
  /\ files \in Directory /\ stored \in Directory
  /\ fat \in Links
  /\ data \in [Block \cup {END} -> [0 .. FAT_WIDTH - 1 -> Cell]]
  /\ fds \in [Proc -> SUBSET [number : 0 .. MaxNumber, file : Name \cup {Terminal},
                              mode : {"F_READ", "F_WRITE", "F_APPEND"},
                              pos : 0 .. MaxSize]]
  /\ harm \in {"none", "astray", "loop", "freed"}

\* Block 0 is the directory's: whatever the processes call, in any order, with
\* stale links, a full table, defragmentation and restarts, no file starts in it,
\* not even by a table that was written over, and as long as none was, every
\* entry is a block or the end, and none leads to block 0 (k_determineBlock,
\* k_write).
RootBlockPrivate ==
  /\ 0 \notin {files[i].start : i \in DOMAIN files}
  /\ 0 \notin {stored[i].start : i \in DOMAIN stored}
  /\ ~Spilled => \A b \in Block : fat[b] \in (Block \ {0}) \cup {END}

\* No two entries of the directory, in memory or stored, have the same name,
\* over any run of calls and restarts (k_open, f_dup and f_unlink search the
\* list in different ways).
NamesDistinct ==
  \A dir \in {files, stored} : \A i, j \in DOMAIN dir :
    dir[i].name = dir[j].name => i = j

\* A descriptor of any process points to a file that is in the directory, after
\* every f_unlink, f_dup and restart (the loops over pcb_table in f_unlink).
DescriptorsLive ==
  \A p \in Proc : \A d \in FileDescriptors(p) : Named(files, d.file) # {}

\* Until the table is written over, two files share no block, and no chain is a
\* cycle, on which k_blockFree and so every f_open and f_write would never end,
\* with the timer paused (k_determineBlock gives out blocks of no chain, but
\* takes them with whatever link the table still has for them).
ChainsDisjoint ==
  ~Spilled => \A i, j \in DOMAIN Starts(files) :
    /\ ~Cyclic(fat, Starts(files)[i])
    /\ i # j => Chain(fat, Starts(files)[i]) \cap Chain(fat, Starts(files)[j]) = {}

\* Until then a block of no chain has no link: what a new file gets is one block,
\* not the rest of an old chain (k_cleanFat in f_open and f_unlink).
FreeBlocksUnlinked ==
  ~Spilled => \A b \in Block \ InUse(files, fat) : fat[b] = END

\* Until then every byte of a file below its size is the one written there, in
\* the block that its chain leads to: nothing was lost, moved, or overwritten by
\* another file (k_write's walk, fill and link; k_cleanFat).
BytesInPlace ==
  ~Spilled => \A i \in DOMAIN files : \A o \in 0 .. files[i].size - 1 :
    LET b == Walk(fat, files[i].start, o \div FAT_WIDTH)
    IN  b \in Block /\ data[b][o % FAT_WIDTH] = <<files[i].name, o>>

\* A restart loses no file: block 0 lists every file, with the block it starts
\* in, and a size its bytes on disk cover (f_write stores the directory before
\* the bytes, f_close not at all).
DiskListsFiles ==
  /\ Len(stored) = Len(files)
  /\ \A i \in DOMAIN files :
       /\ stored[i].name = files[i].name
       /\ stored[i].start = files[i].start
       /\ stored[i].size <= files[i].size

\* A file is roomless if the byte behind its last has no block.  k_write looks
\* for a block as soon as one is full: a file gets roomless only when there is
\* none, on a disc whose every block is some file's.  And only when there is a
\* roomless file can a write go over the table: then f_write ought to fail, and
\* does not (the MEMFULL returns of k_write and of k_addFile).
Roomless(dir, t) ==
  {dir[i].name : i \in {j \in DOMAIN dir :
     Walk(t, dir[j].start, dir[j].size \div FAT_WIDTH) \notin Block}}
SpilledWhenFull ==
  [][~Spilled =>
       /\ Spilled' => Roomless(files, fat) # {}
       /\ ~Spilled' /\ ~ Roomless(files', fat') \subseteq Roomless(files, fat)
            => Block \subseteq InUse(files', fat')]_vars

===============================================================================
