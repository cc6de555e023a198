------------------------------- MODULE FatTable -------------------------------
(****************************************************************************)
(* The table of the flat FAT (kernelFileSystem.c): chains of blocks, the    *)
(* search for a free block, and the removal of a chain's links.  `dir' is   *)
(* the list of files, `t' the table; each file has a name and a start.      *)
(****************************************************************************)
EXTENDS Integers, Sequences, FiniteSets, SequencesExt

CONSTANTS
  NUM_BLOCKS,  \* entries of the table
  FAT_WIDTH    \* bytes in a block

ASSUME GeometryAssumption ==
  NUM_BLOCKS \in Nat \ {0} /\ FAT_WIDTH \in Nat \ {0}

Block == 0 .. NUM_BLOCKS - 1
END == -1      \* ends a chain
MEMFULL == -4  \* no block is free
EmptyFat == [b \in Block |-> END]

\* The block k links after block b in table t; END once the chain has ended.
Walk(t, b, k) ==
  LET at[i \in 0 .. k] ==
        IF i = 0 THEN b ELSE IF at[i - 1] \in Block THEN t[at[i - 1]] ELSE END
  IN  at[k]
Chain(t, b) == {Walk(t, b, k) : k \in 0 .. NUM_BLOCKS - 1} \cap Block
Cyclic(t, b) == Walk(t, b, NUM_BLOCKS) # END
\* The chain leads out of the table, to a number that is neither a block nor END:
\* MEMFULL stands for all of them.
Strays(t, b) == \E k \in 0 .. NUM_BLOCKS : Walk(t, b, k) \notin Block \cup {END}

Named(dir, f) == {i \in DOMAIN dir : dir[i].name = f}
\* Mutant: k_blockFree walks the files from root->next on.
StartsNoRoot(dir) == [i \in DOMAIN dir |-> dir[i].start]
Starts(dir) == <<0>> \o [i \in DOMAIN dir |-> dir[i].start]

\* Mutant: only the first block of a file counts as used.
HeadsInUse(dir, t) == ToSet(Starts(dir)) \cap Block
InUse(dir, t) == UNION {Chain(t, s) : s \in ToSet(Starts(dir))}

\* Mutant: a full table is reported as the end of a chain.
DetermineBlockEnd(dir, t) ==
  IF Block \subseteq InUse(dir, t)
    THEN END
    ELSE CHOOSE b \in Block \ InUse(dir, t) : \A c \in Block \ InUse(dir, t) : b <= c

\* Mutant: the last block is never looked at.
DetermineBlockShort(dir, t) ==
  LET free == (Block \ {NUM_BLOCKS - 1}) \ InUse(dir, t)
  IN  IF free = {} THEN MEMFULL ELSE CHOOSE b \in free : \A c \in free : b <= c

\* k_determineBlock, through k_blockFree: the first block of no chain.
DetermineBlock(dir, t) ==
  IF Block \subseteq InUse(dir, t)
    THEN MEMFULL
    ELSE CHOOSE b \in Block \ InUse(dir, t) : \A c \in Block \ InUse(dir, t) : b <= c

\* What a walk that wants the end of the chain from b runs into: k_blockFree goes
\* round a cyclic chain for ever, and a number that is no block is read as one.
ChainHarm(t, b) ==
  IF Strays(t, b) THEN "astray" ELSE IF Cyclic(t, b) THEN "loop" ELSE "none"
FirstHarmed(dir, t) ==
  LET harmed == {i \in DOMAIN Starts(dir) : ChainHarm(t, Starts(dir)[i]) # "none"}
  IN  IF harmed = {} THEN 0 ELSE CHOOSE i \in harmed : \A j \in harmed : i <= j

\* The search looks for block after block, until it has one of no chain; it comes
\* to harm in the first such chain, unless the block is found up to there.
SearchHarm(dir, t) ==
  LET i == FirstHarmed(dir, t)
  IN  IF i = 0 \/ Block \subseteq UNION {Chain(t, Starts(dir)[j]) : j \in 1 .. i}
        THEN "none"
        ELSE ChainHarm(t, Starts(dir)[i])

\* Mutant: the links of a removed or truncated file stay.
CleanNothing(t, b) == t
CleanFat(t, b) == [c \in Block |-> IF c \in Chain(t, b) THEN END ELSE t[c]]

===============================================================================
