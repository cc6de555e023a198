---------------------------- MODULE DirectoryStore ----------------------------
(****************************************************************************)
(* The directory on disk: k_storeDirectory writes it as text from block 0   *)
(* on, taking further blocks from the table as the text grows;              *)
(* k_loadDirectory reads it back when the image is mounted.  FlatFat takes  *)
(* the two for a copy, which is what is checked here.                       *)
(*                                                                          *)
(* The text of an entry is "#name#size#start", and a zero byte ends the     *)
(* whole.  A character is a tuple: where the text is cut into blocks is     *)
(* what matters, not how a number is spelt, so a number is one character.   *)
(****************************************************************************)
EXTENDS FatTable

CONSTANTS
  Name,     \* file names
  Length,   \* how many characters a name has
  MaxLength,\* the most it may have
  MaxBlocks \* bound: blocks of a file

\* An entry is shorter than a block, and as many as there may be fit in two, each
\* as long as the longest: behind an entry that crosses from one block to the
\* next, a short one is followed by what a longer one has left in the buffer.
\* A directory of three blocks leaves a link behind when it is stored again: its
\* second block is taken anew and its old one, free now, leads to the third.
ASSUME LengthAssumption ==
  /\ IsFiniteSet(Name) /\ "root" \notin Name
  /\ Length \in [Name \cup {"root"} -> 1 .. MaxLength]
  /\ MaxLength \in Nat /\ MaxLength + 5 < FAT_WIDTH
  /\ (Cardinality(Name) + 1) * (MaxLength + 5) + 1 <= 2 * FAT_WIDTH
  /\ MaxBlocks \in Nat

VARIABLES
  files,   \* the list root->next: name, start, and size, as the blocks filled
  fat,     \* the table
  bytes,   \* the characters in each block; those of files are of no interest
  stored,  \* the files as of the last k_storeDirectory
  status,  \* what that returned
  harm     \* "none", or what the last call ran into

directoryVars == <<files, fat, bytes, stored, status, harm>>

Hash == <<"#">>
Zero == <<"zero">>
Other == <<"other">>   \* what malloc or a file has left
Number(n) == <<"number", n>>
Letters(f) == [k \in 1 .. Length[f] |-> <<f, k>>]

\* sprintf's text of an entry, root's included, without its zero.
Text(e) == <<Hash>> \o Letters(e.name) \o <<Hash, Number(e.size), Hash, Number(e.start)>>
Root == [name |-> "root", start |-> 0, size |-> -1]
Entries(dir) == <<Root>> \o dir

-------------------------------------------------------------------------------
(* k_storeDirectory.                                                         *)

\* w: table, bytes, currentBlock, bytesWritten, writtenFromStore, the buffer
\* Store, and what is returned.
\* The characters from Store + writtenFromStore to the next zero.
Rest(w) ==
  LET tail  == SubSeq(w.store, w.skip + 1, Len(w.store))
      zeros == {i \in DOMAIN tail : tail[i] = Zero}
  IN  IF zeros = {} THEN <<>> ELSE SubSeq(tail, 1, Min(zeros) - 1)

\* sprintf leaves what is in the buffer behind the new text and its zero.
Printed(store, text) ==
  text \o <<Zero>> \o SubSeq(store, Len(text) + 2, Len(store))

Put(w, chars) ==
  LET off == w.written % FAT_WIDTH
  IN  [w EXCEPT !.bytes[w.block] =
                  [o \in 0 .. FAT_WIDTH - 1 |->
                     IF o \in off .. off + Len(chars) - 1 THEN chars[o - off + 1]
                                                          ELSE @[o]],
                !.written = @ + Len(chars)]

\* One turn of the inner loop: fill the block, take the next one.
GoesOn(w) == w.status = "FILEOK" /\ w.harm = "none"
Overflows(w) == (w.written % FAT_WIDTH) + Len(Rest(w)) + 1 > FAT_WIDTH
Filled(dir, w) ==
  LET n == FAT_WIDTH - (w.written % FAT_WIDTH)
  IN  [Put(w, SubSeq(Rest(w), 1, n)) EXCEPT !.skip = @ + n,
                                            !.harm = SearchHarm(dir, w.fat)]

\* Mutant: the new block is linked behind the last one of the old directory.
NextBlockAppended(dir, w) ==
  LET new  == DetermineBlock(dir, w.fat)
      last == CHOOSE b \in Chain(w.fat, 0) : w.fat[b] = END
      out == Filled(dir, w)
  IN  IF new = MEMFULL
        THEN [out EXCEPT !.status = "MEMFULL"]
        ELSE [out EXCEPT !.fat[last] = new, !.block = new]

NextBlock(dir, w) ==
  LET new == DetermineBlock(dir, w.fat)
      out == Filled(dir, w)
  IN  IF new = MEMFULL
        THEN [out EXCEPT !.status = "MEMFULL"]
        ELSE [out EXCEPT !.fat[w.block] = new, !.block = new]

\* Mutant: writtenFromStore stays as it is when a block is full.
StoreEntryAgain(dir, w, e) ==
  LET new == [w EXCEPT !.store = Printed(@, Text(e))]
      out == IF Overflows(new) THEN [NextBlock(dir, new) EXCEPT !.skip = new.skip] ELSE new
  IN  IF ~GoesOn(w) THEN w ELSE IF ~GoesOn(out) THEN out ELSE Put(out, Rest(out))

\* One turn of the outer loop.  An entry is shorter than a block, so it
\* overflows once at most.
StoreEntry(dir, w, e) ==
  LET new == [w EXCEPT !.store = Printed(@, Text(e))]
      out == IF Overflows(new) THEN NextBlock(dir, new) ELSE new
  IN  IF ~GoesOn(w) THEN w ELSE IF ~GoesOn(out) THEN out ELSE Put(out, Rest(out))

\* A directory that finds no block stays without the zero that ends it.
Store(dir, t) ==
  LET start == [fat |-> t, bytes |-> bytes, block |-> 0, written |-> 0, skip |-> 0,
                store |-> <<>>, status |-> "FILEOK", harm |-> "none"]
      done[n \in 0 .. Len(Entries(dir))] ==
        IF n = 0 THEN start ELSE StoreEntry(dir, done[n - 1], Entries(dir)[n])
      last  == done[Len(Entries(dir))]
  IN  IF GoesOn(last) THEN Put(last, <<Zero>>) ELSE last

StoreDirectory(dir, t) ==
  \E w \in {Store(dir, t)} :
    /\ fat' = w.fat /\ bytes' = w.bytes /\ status' = w.status
    /\ harm' = w.harm
    /\ stored' = dir

-------------------------------------------------------------------------------
(* k_loadDirectory.                                                          *)

\* The characters it reads, block after block along the chain of block 0.
Read(k) ==
  LET b == Walk(fat, 0, k \div FAT_WIDTH)
  IN  IF b \in Block THEN bytes[b][k % FAT_WIDTH] ELSE Other
LoadedText ==
  LET zeros == {k \in 0 .. NUM_BLOCKS * FAT_WIDTH - 1 : Read(k) = Zero}
      last  == IF zeros = {} THEN 0 ELSE CHOOSE k \in zeros : \A j \in zeros : k <= j
  IN  [i \in 1 .. last |-> Read(i - 1)]

\* The fields between the "#", one character after the other; the first one is
\* passed over unread.
ReadOn(fields, c) ==
  IF c = Hash THEN Append(fields, <<>>)
              ELSE Append(Front(fields), Append(Last(fields), c))
Fields(text) ==
  LET read[k \in 1 .. Len(text)] ==
        IF k = 1 THEN << <<>> >> ELSE ReadOn(read[k - 1], text[k])
  IN  read[Len(text)]

\* What Fields must give for the directory dir: name, size, start by turns.
FieldOf(e, k) ==
  CASE k % 3 = 1 -> Letters(e.name)
    [] k % 3 = 2 -> <<Number(e.size)>>
    [] k % 3 = 0 -> <<Number(e.start)>>
FieldsOf(dir) ==
  [k \in 1 .. 3 * Len(Entries(dir)) |-> FieldOf(Entries(dir)[(k + 2) \div 3], k)]

\* Block 0 and what follows it hold dir: a mount finds the files of dir.
Holds(dir) == LoadedText # <<>> /\ Fields(LoadedText) = FieldsOf(dir)

-------------------------------------------------------------------------------
(* The calls, as far as the directory and the table go.                      *)

\* f_open of a new file: k_addFile, then k_storeDirectory.
Create(f) ==
  LET dir == Append(files, [name |-> f, start |-> DetermineBlock(files, fat), size |-> 0])
  IN  /\ Named(files, f) = {}
      /\ DetermineBlock(files, fat) # MEMFULL
      /\ files' = dir
      /\ StoreDirectory(dir, CleanFat(fat, DetermineBlock(files, fat)))

\* f_unlink.
Unlink(i) ==
  LET dir == RemoveAt(files, i)
  IN  /\ files' = dir
      /\ StoreDirectory(dir, CleanFat(fat, files[i].start))

\* f_write that goes on from the last block of a file into one more, which is
\* what raises the size here: the directory is stored, then the block linked.
Extend(i) ==
  \E w \in {Store(files, fat)} :
    LET new  == DetermineBlock(files, w.fat)
        last == Walk(w.fat, files[i].start, files[i].size)
    IN  /\ files[i].size < MaxBlocks
        /\ last \in Block /\ new # MEMFULL
        /\ files' = [files EXCEPT ![i].size = @ + 1]
        /\ fat' = [w.fat EXCEPT ![last] = new]
        /\ bytes' = [w.bytes EXCEPT ![last] = [o \in 0 .. FAT_WIDTH - 1 |-> Other]]
        /\ stored' = files /\ status' = w.status /\ harm' = w.harm

\* f_close of a descriptor that is not there, f_lseek, the shell's prompt,
\* lsFlatFat.
Restore == files' = files /\ StoreDirectory(files, fat)

\* The next mount, when the image holds the directory.
Mount ==
  /\ Holds(stored)
  /\ files' = stored
  /\ UNCHANGED <<fat, bytes, stored, status, harm>>

InitDirectory ==
  LET blank == [b \in Block |-> [o \in 0 .. FAT_WIDTH - 1 |-> Zero]]
      text  == Text(Root)
  IN  /\ files = <<>> /\ stored = <<>>
      /\ fat = EmptyFat
      /\ bytes = [blank EXCEPT ![0] = [o \in 0 .. FAT_WIDTH - 1 |->
                    IF o < Len(text) THEN text[o + 1] ELSE Zero]]
      /\ status = "FILEOK" /\ harm = "none"

NextDirectory ==
  /\ harm = "none"
  /\ \/ \E f \in Name : Create(f)
     \/ \E i \in DOMAIN files : Unlink(i) \/ Extend(i)
     \/ Restore
     \/ Mount

DirectorySpec == InitDirectory /\ [][NextDirectory]_directoryVars

-------------------------------------------------------------------------------
(* Properties.                                                               *)

\* A file starts at a block of the disc, under a name of its own, and every
\* link of the table leads to a block or ends a chain.
DirectoryTypeOK ==
  /\ \A i \in DOMAIN files : files[i].start \in Block /\ files[i].size \in 0 .. MaxBlocks
  /\ IsInjective([i \in DOMAIN files |-> files[i].name])
  /\ fat \in [Block -> Block \cup {END}]
  /\ status \in {"FILEOK", "MEMFULL"}

\* Where the text of entry n begins.
TextBefore(dir, n) ==
  LET at[m \in 1 .. n] ==
        IF m = 1 THEN 0 ELSE at[m - 1] + Len(Text(Entries(dir)[m - 1]))
  IN  at[n]

\* No entry but the last reaches the end of the first block.
Short(dir) == TextBefore(dir, Len(Entries(dir))) < FAT_WIDTH

\* What k_storeDirectory has written is what k_loadDirectory reads back, over
\* however many blocks and whatever an earlier directory has left behind in
\* them, when no block was missing.  Only the last entry may cross from one
\* block to the next: writtenFromStore is not reset after the entry that
\* does, so the entries behind it would lose their first characters.
StoredIsHeld == status = "FILEOK" /\ Short(stored) => Holds(stored)

\* The blocks a growing directory takes are no file's, those that f_write links
\* next are not the directory's, and no search for a block goes astray.  Though
\* a directory takes its second block anew whenever it is stored, it has no
\* more than two: the one it had is free again, and the disc does not fill up.
DirectoryApart ==
  /\ harm = "none"
  /\ Cardinality(Chain(fat, 0)) <= 2
  /\ \A i, j \in DOMAIN Starts(files) :
       i # j => Chain(fat, Starts(files)[i]) \cap Chain(fat, Starts(files)[j]) = {}

===============================================================================
