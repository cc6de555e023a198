-------------------------- MODULE DirectoryStoreProofs --------------------------
(****************************************************************************)
(* Theorems about DirectoryStore, for any names, files and geometry within  *)
(* LengthAssumption: a directory that grows into a second block takes it    *)
(* from the free ones, gives back the one it had, and leaves the files      *)
(* alone, whatever is created, extended, unlinked and mounted in between,   *)
(* and what it has written is what the next mount reads.                    *)
(****************************************************************************)
EXTENDS DirectoryStore, FatTableProofs

-------------------------------------------------------------------------------
(* The inductive invariant.                                                  *)

FileEntry == [name : Name, start : Block \ {0}, size : 0 .. MaxBlocks]
GoodDir(dir) ==
  /\ dir \in Seq(FileEntry)
  /\ \A i, j \in DOMAIN dir :
       i # j => dir[i].name # dir[j].name /\ dir[i].start # dir[j].start

\* Where the chains of the directory and of its files start.
Heads(dir) == {0} \cup {dir[i].start : i \in DOMAIN dir}

\* No chain is a cycle, no two meet, and a block of none has no link.
Sound(H, t) ==
  /\ t \in Table /\ H \subseteq Block
  /\ \A r \in H : ~Cyclic(t, r)
  /\ \A r, s \in H : r # s => Chain(t, r) \cap Chain(t, s) = {}
  /\ \A b \in Block : t[b] = END \/ \E r \in H : b \in Chain(t, r)

\* Block a is the last of its chain, or the last but one.
NearEnd(t, a) == a \in Block /\ (t[a] = END \/ (t[a] \in Block /\ t[t[a]] = END))

\* A file has a block more than its size counts, or two: after a mount the size
\* is the one stored before the last block was linked.
Ends(dir, t) == \A i \in DOMAIN dir : NearEnd(t, Walk(t, dir[i].start, dir[i].size))

SameFiles(dir, disk) ==
  /\ DOMAIN dir = DOMAIN disk
  /\ \A i \in DOMAIN dir : dir[i].name = disk[i].name /\ dir[i].start = disk[i].start

DirInv ==
  /\ GoodDir(files) /\ GoodDir(stored) /\ SameFiles(files, stored)
  /\ Sound(Heads(files), fat) /\ NearEnd(fat, 0)
  /\ Ends(files, fat) /\ Ends(stored, fat)
  /\ status \in {"FILEOK", "MEMFULL"} /\ harm = "none"

-------------------------------------------------------------------------------
(* What a new link or a cleared chain leaves of the table.                   *)

LEMMA SoundSays ==
  ASSUME NEW H, NEW t, Sound(H, t)
  PROVE  /\ t \in Table
         /\ \A r \in H : r \in Block /\ ~Cyclic(t, r)
         /\ \A r, s \in H : r # s => Chain(t, r) \cap Chain(t, s) = {}
         /\ \A b \in Block : (\A r \in H : b \notin Chain(t, r)) => t[b] = END
BY DEF Sound

\* A chain cut behind block a ends there.
LEMMA CutChain ==
  ASSUME NEW t \in Table, NEW r, ~Cyclic(t, r), NEW m \in Nat, NEW a,
         a = Walk(t, r, m), NearEnd(t, a),
         NEW v \in Table, v[a] = END, \A c \in Block : c # a => v[c] = t[c]
  PROVE  /\ ~Cyclic(v, r)
         /\ \A k \in 0 .. m : Walk(v, r, k) = Walk(t, r, k)
         /\ Chain(v, r) \subseteq Chain(t, r)
         /\ \A c \in Chain(t, r) : c \in Chain(v, r) \/ v[c] = END
<1>1. a \in Block
  BY DEF NearEnd
<1>2. \A i, j \in Nat : Walk(t, r, i) = Walk(t, r, j) /\ Walk(t, r, i) \in Block => i = j
  BY ChainInjective
<1> DEFINE S == {k \in Nat : k <= m => Walk(v, r, k) = Walk(t, r, k)}
<1>3. 0 \in S
  BY WalkZero
<1>4. ASSUME NEW k \in Nat, k \in S PROVE k + 1 \in S
  <2>1. CASE k + 1 <= m
    <3>1. Walk(v, r, k) = Walk(t, r, k)
      BY <2>1, <1>4
    <3>2. Walk(t, r, k) \in Block => Walk(t, r, k) # a
      BY <2>1, <1>2
    <3>3. Walk(v, r, k + 1) = IF Walk(v, r, k) \in Block THEN v[Walk(v, r, k)] ELSE END
      BY WalkNext
    <3>4. Walk(t, r, k + 1) = IF Walk(t, r, k) \in Block THEN t[Walk(t, r, k)] ELSE END
      BY WalkNext
    <3>5. Walk(v, r, k + 1) = Walk(t, r, k + 1)
      BY <3>1, <3>2, <3>3, <3>4
    <3>6. QED
      BY <3>5
  <2>2. QED
    BY <2>1
<1>5. Nat \subseteq S
  <2> HIDE DEF S
  <2>1. QED
    BY <1>3, <1>4, SetInduction
<1>6. \A k \in 0 .. m : Walk(v, r, k) = Walk(t, r, k)
  <2>1. \A k \in 0 .. m : k \in Nat /\ k <= m
    OBVIOUS
  <2>2. QED
    BY <2>1, <1>5
<1>7. Walk(v, r, m + 1) = END
  <2>1. m \in 0 .. m
    OBVIOUS
  <2>2. Walk(v, r, m) = a
    BY <2>1, <1>6
  <2>3. QED
    BY <2>2, <1>1, WalkNext
<1>8. m + 1 \in Nat /\ END \notin Block
  BY BlockFacts
<1>9. ~Cyclic(v, r)
  BY <1>7, <1>8, EndsInTime
<1>10. Chain(v, r) \subseteq Chain(t, r)
  <2>1. ASSUME NEW k \in Nat, Walk(v, r, k) \in Block
        PROVE  Walk(v, r, k) \in Chain(t, r)
    <3>1. k \in 0 .. m \/ k = m + 1 \/ k > m + 1
      OBVIOUS
    <3>2. k > m + 1 => Walk(v, r, k) = END
      BY <1>7, <1>8, WalkPast
    <3>3. k \in 0 .. m
      BY <2>1, <3>1, <3>2, <1>7, <1>8
    <3>4. Walk(v, r, k) = Walk(t, r, k)
      BY <3>3, <1>6
    <3>5. QED
      BY <3>4, <2>1, ChainIsWalk
  <2>2. QED
    BY <2>1, <1>9, ChainIsWalk
<1>11. ASSUME NEW c \in Chain(t, r) PROVE c \in Chain(v, r) \/ v[c] = END
  <2>1. PICK k \in Nat : c = Walk(t, r, k) /\ c \in Block
    BY ChainIsWalk
  <2>2. CASE k <= m
    <3>1. k \in 0 .. m
      BY <2>2
    <3>2. c = Walk(v, r, k)
      BY <3>1, <2>1, <1>6
    <3>3. QED
      BY <3>2, <2>1, <1>9, ChainIsWalk
  <2>3. CASE k > m
    <3>1. Walk(t, r, m + 1) = t[a]
      BY <1>1, WalkNext
    <3>2. Walk(t, r, (m + 1) + 1) = END
      <4>1. CASE t[a] = END
        BY <4>1, <3>1, <1>8, WalkNext
      <4>2. CASE t[a] \in Block /\ t[t[a]] = END
        BY <4>2, <3>1, <1>8, WalkNext
      <4>3. QED
        BY <4>1, <4>2 DEF NearEnd
    <3>3. (m + 1) + 1 \in Nat /\ (k = m + 1 \/ k = (m + 1) + 1 \/ k > (m + 1) + 1)
      BY <2>3
    <3>4. k > (m + 1) + 1 => Walk(t, r, k) = END
      BY <3>2, <3>3, <1>8, WalkPast
    <3>5. k = m + 1
      BY <3>2, <3>3, <3>4, <2>1, <1>8
    <3>6. c = t[a] /\ t[c] = END
      BY <3>1, <3>5, <2>1, <1>8 DEF NearEnd
    <3>7. c # a
      BY <3>5, <2>1, <1>2, <1>8
    <3>8. QED
      BY <3>6, <3>7, <2>1
  <2>4. QED
    BY <2>2, <2>3, <2>1
<1>12. QED
  BY <1>6, <1>9, <1>10, <1>11


\* A chain whose links stay keeps its last blocks.
LEMMA NearEndKept ==
  ASSUME NEW t, NEW u, NEW s, ~Cyclic(t, s), \A c \in Chain(t, s) : u[c] = t[c],
         NEW k \in Nat, NearEnd(t, Walk(t, s, k))
  PROVE  Walk(u, s, k) = Walk(t, s, k) /\ NearEnd(u, Walk(u, s, k))
<1> DEFINE a == Walk(t, s, k)
<1>1. Walk(u, s, k) = a
  BY SameLinksSameChain
<1>2. a \in Block /\ a \in Chain(t, s)
  BY ChainIsWalk DEF NearEnd
<1>3. Walk(t, s, k + 1) = t[a]
  BY <1>2, WalkNext
<1>4. t[a] \in Block => t[a] \in Chain(t, s)
  BY <1>3, ChainIsWalk
<1>5. NearEnd(t, a)
  OBVIOUS
<1> HIDE DEF a
<1>6. u[a] = t[a] /\ (t[a] \in Block => u[t[a]] = t[t[a]])
  BY <1>2, <1>4
<1>7. NearEnd(u, a)
  BY <1>5, <1>6 DEF NearEnd
<1>8. QED
  BY <1>1, <1>7 DEF a

\* A free block linked behind the end of a chain, or in place of its last block.
LEMMA Relinked ==
  ASSUME NEW H, NEW t, Sound(H, t), NEW r \in H, NEW m \in Nat, NEW a,
         a = Walk(t, r, m), NearEnd(t, a),
         NEW b \in Block, \A s \in H : b \notin Chain(t, s),
         NEW u \in Table, u[a] = b, \A c \in Block : c # a => u[c] = t[c]
  PROVE  /\ Sound(H, u) /\ u[b] = END
         /\ \A k \in 0 .. m : Walk(u, r, k) = Walk(t, r, k)
         /\ Walk(u, r, m + 1) = b
         /\ \A s \in H : s # r => \A c \in Chain(t, s) : u[c] = t[c]
<1>1. /\ t \in Table /\ \A s \in H : s \in Block /\ ~Cyclic(t, s)
      /\ \A s \in H : s # r => Chain(t, r) \cap Chain(t, s) = {}
      /\ \A s, q \in H : s # q => Chain(t, s) \cap Chain(t, q) = {}
      /\ t[b] = END
  BY SoundSays
<1>2. a \in Block /\ a \in Chain(t, r) /\ a # b /\ b \notin Chain(t, r)
  BY <1>1, ChainIsWalk DEF NearEnd
<1>3. PICK v \in Table : v[a] = END /\ \A c \in Block : c # a => v[c] = t[c]
  <2> DEFINE cut == [c \in Block |-> IF c = a THEN END ELSE t[c]]
  <2>1. cut \in Table
    BY <1>1 DEF Table
  <2>2. cut[a] = END /\ \A c \in Block : c # a => cut[c] = t[c]
    BY <1>2
  <2>3. QED
    BY <2>1, <2>2
<1>4. /\ ~Cyclic(v, r)
      /\ \A k \in 0 .. m : Walk(v, r, k) = Walk(t, r, k)
      /\ Chain(v, r) \subseteq Chain(t, r)
      /\ \A c \in Chain(t, r) : c \in Chain(v, r) \/ v[c] = END
  BY <1>1, <1>3, CutChain
<1>5. Walk(v, r, m) = a /\ v[b] = END /\ b \notin Chain(v, r)
  <2>1. m \in 0 .. m
    OBVIOUS
  <2>2. QED
    BY <2>1, <1>1, <1>2, <1>3, <1>4
<1>6. \A c \in Block : c # a => u[c] = v[c]
  BY <1>3
<1>7. /\ \A k \in 0 .. m : Walk(u, r, k) = Walk(v, r, k)
      /\ Walk(u, r, m + 1) = b /\ ~Cyclic(u, r)
      /\ Chain(u, r) = Chain(v, r) \cup {b}
  BY <1>2, <1>3, <1>4, <1>5, <1>6, LinkedChain
<1>8. \A s \in H : s # r => \A c \in Chain(t, s) : u[c] = t[c]
  BY <1>1, <1>2 DEF Chain
<1>9. ASSUME NEW s \in H, s # r PROVE Chain(u, s) = Chain(t, s) /\ ~Cyclic(u, s)
  <2>1. ~Cyclic(t, s) /\ \A c \in Chain(t, s) : u[c] = t[c]
    BY <1>1, <1>8, <1>9
  <2>2. QED
    BY <2>1, SameLinksSameChain
<1>10. \A s, q \in H : s # q => Chain(u, s) \cap Chain(u, q) = {}
  <2>1. \A s \in H : s # r => Chain(u, r) \cap Chain(u, s) = {}
    BY <1>1, <1>4, <1>7, <1>9
  <2>2. QED
    BY <2>1, <1>1, <1>9
<1>11. ASSUME NEW c \in Block, u[c] # END PROVE \E s \in H : c \in Chain(u, s)
  <2>1. CASE c = a
    <3>1. a \in Chain(v, r)
      BY <1>2, <1>4, <1>5, ChainIsWalk
    <3>2. QED
      BY <3>1, <2>1, <1>7
  <2>2. CASE c # a
    <3>1. u[c] = t[c] /\ v[c] = t[c]
      BY <2>2, <1>3
    <3>2. PICK s \in H : c \in Chain(t, s)
      BY <3>1, <1>11, SoundSays
    <3>3. CASE s = r
      BY <3>1, <3>2, <3>3, <1>11, <1>4, <1>7
    <3>4. CASE s # r
      BY <3>2, <3>4, <1>9
    <3>5. QED
      BY <3>3, <3>4
  <2>3. QED
    BY <2>1, <2>2
<1>12. Sound(H, u)
  <2>1. \A s \in H : ~Cyclic(u, s)
    BY <1>7, <1>9
  <2>2. H \subseteq Block
    BY <1>1
  <2>3. QED
    BY <2>1, <2>2, <1>10, <1>11 DEF Sound
<1>13. u[b] = END
  BY <1>1, <1>2
<1>14. QED
  BY <1>4, <1>7, <1>8, <1>12, <1>13


\* f_unlink takes a chain out of the table.
LEMMA Removed ==
  ASSUME NEW H, NEW t, Sound(H, t), NEW s \in H
  PROVE  /\ Sound(H \ {s}, CleanFat(t, s))
         /\ \A r \in H \ {s} : \A c \in Chain(t, r) : CleanFat(t, s)[c] = t[c]
<1>1. /\ t \in Table /\ \A r \in H : r \in Block /\ ~Cyclic(t, r)
      /\ \A r, q \in H : r # q => Chain(t, r) \cap Chain(t, q) = {}
      /\ \A b \in Block : (\A r \in H : b \notin Chain(t, r)) => t[b] = END
  BY SoundSays
<1>2. PICK u : u = CleanFat(t, s)
  OBVIOUS
<1>3. /\ u \in Table /\ \A c \in Chain(t, s) : u[c] = END
      /\ \A c \in Block \ Chain(t, s) : u[c] = t[c]
  BY <1>1, <1>2, CleanFatFacts
<1>4. \A r \in H \ {s} : \A c \in Chain(t, r) : u[c] = t[c]
  BY <1>1, <1>3 DEF Chain
<1>5. ASSUME NEW r \in H \ {s} PROVE Chain(u, r) = Chain(t, r) /\ ~Cyclic(u, r)
  <2>1. PICK b : b = r
    OBVIOUS
  <2>2. ~Cyclic(t, b) /\ \A c \in Chain(t, b) : u[c] = t[c]
    BY <1>1, <1>4, <2>1
  <2>3. Chain(u, b) = Chain(t, b)
    BY <2>2, SameLinksSameChain
  <2>4. ~Cyclic(u, b)
    BY <2>2, SameLinksSameChain
  <2>5. QED
    BY <2>1, <2>3, <2>4
<1>6. ASSUME NEW b \in Block, u[b] # END PROVE \E r \in H \ {s} : b \in Chain(u, r)
  <2>1. b \notin Chain(t, s) /\ t[b] # END
    BY <1>3, <1>6
  <2>2. PICK r \in H : b \in Chain(t, r)
    BY <2>1, <1>1
  <2>3. QED
    BY <2>1, <2>2, <1>5
<1>7. \A r, q \in H \ {s} : r # q => Chain(u, r) \cap Chain(u, q) = {}
  BY <1>1, <1>5
<1>8. H \ {s} \subseteq Block /\ \A r \in H \ {s} : ~Cyclic(u, r)
  BY <1>1, <1>5
<1>9. Sound(H \ {s}, u)
  BY <1>3, <1>6, <1>7, <1>8 DEF Sound
<1>10. QED
  BY <1>2, <1>4, <1>9

\* The block of a new file is a chain of its own, and clearing it changes nothing.
LEMMA Added ==
  ASSUME NEW H, NEW t, Sound(H, t), NEW b \in Block, \A r \in H : b \notin Chain(t, r)
  PROVE  /\ Sound(H \cup {b}, CleanFat(t, b))
         /\ \A c \in Block : CleanFat(t, b)[c] = t[c]
<1>1. /\ t \in Table /\ \A r \in H : r \in Block /\ ~Cyclic(t, r)
      /\ \A r, q \in H : r # q => Chain(t, r) \cap Chain(t, q) = {}
      /\ \A c \in Block : t[c] = END \/ \E r \in H : c \in Chain(t, r)
      /\ t[b] = END
  <2>1. t[b] = END
    BY SoundSays
  <2>2. QED
    BY <2>1 DEF Sound
<1>2. PICK u : u = CleanFat(t, b)
  OBVIOUS
<1>3. Chain(t, b) = {b}
  BY <1>1, AloneChain
<1>4. u \in Table /\ \A c \in Block : u[c] = t[c]
  <2>1. /\ u \in Table /\ \A c \in Chain(t, b) : u[c] = END
        /\ \A c \in Block \ Chain(t, b) : u[c] = t[c]
    BY <1>1, <1>2, CleanFatFacts
  <2>2. QED
    BY <2>1, <1>1, <1>3
<1>5. Chain(u, b) = {b} /\ ~Cyclic(u, b)
  BY <1>1, <1>4, AloneChain
<1>6. ASSUME NEW r \in H PROVE Chain(u, r) = Chain(t, r) /\ ~Cyclic(u, r)
  <2>1. PICK s : s = r
    OBVIOUS
  <2>2. ~Cyclic(t, s) /\ \A c \in Chain(t, s) : u[c] = t[c]
    BY <1>1, <1>4, <2>1 DEF Chain
  <2>3. Chain(u, s) = Chain(t, s)
    BY <2>2, SameLinksSameChain
  <2>4. ~Cyclic(u, s)
    BY <2>2, SameLinksSameChain
  <2>5. QED
    BY <2>1, <2>3, <2>4
<1>7. \A r, q \in H \cup {b} : r # q => Chain(u, r) \cap Chain(u, q) = {}
  BY <1>1, <1>5, <1>6
<1>8. H \cup {b} \subseteq Block /\ \A r \in H \cup {b} : ~Cyclic(u, r)
  BY <1>1, <1>5, <1>6
<1>9. \A c \in Block : u[c] = END \/ \E r \in H \cup {b} : c \in Chain(u, r)
  BY <1>1, <1>4, <1>6
<1>10. Sound(H \cup {b}, u)
  BY <1>4, <1>7, <1>8, <1>9 DEF Sound
<1>11. QED
  BY <1>2, <1>4, <1>10

-------------------------------------------------------------------------------
(* The list of files.                                                        *)

LEMMA DirFacts ==
  ASSUME NEW dir, GoodDir(dir)
  PROVE  /\ dir \in Seq(FileEntry) /\ Len(dir) \in Nat /\ DOMAIN dir = 1 .. Len(dir)
         /\ \A i \in DOMAIN dir : /\ dir[i] \in FileEntry /\ dir[i].name \in Name
                                  /\ dir[i].start \in Block \ {0}
                                  /\ dir[i].size \in 0 .. MaxBlocks
         /\ \A i, j \in DOMAIN dir :
              i # j => dir[i].name # dir[j].name /\ dir[i].start # dir[j].start
         /\ Heads(dir) \subseteq Block /\ 0 \in Heads(dir)
         /\ \A i \in DOMAIN dir : dir[i].start \in Heads(dir)
         /\ Heads(dir) = ToSet(Starts(dir))
<1>1. dir \in Seq(FileEntry) /\ Len(dir) \in Nat /\ DOMAIN dir = 1 .. Len(dir)
      /\ \A i \in DOMAIN dir : dir[i] \in FileEntry
  BY DEF GoodDir
<1>2. \A i \in DOMAIN dir : /\ dir[i].name \in Name /\ dir[i].start \in Block \ {0}
                            /\ dir[i].size \in 0 .. MaxBlocks
  BY <1>1 DEF FileEntry
<1>3. Heads(dir) = ToSet(Starts(dir))
  BY <1>1, StartsFacts DEF Heads
<1>4. Heads(dir) \subseteq Block /\ 0 \in Heads(dir)
      /\ \A i \in DOMAIN dir : dir[i].start \in Heads(dir)
  BY <1>2, BlockFacts DEF Heads
<1>5. QED
  BY <1>1, <1>2, <1>3, <1>4 DEF GoodDir

\* The search for a block ends, with one of no chain or with MEMFULL.
LEMMA SearchFacts ==
  ASSUME NEW dir, GoodDir(dir), NEW t, Sound(Heads(dir), t)
  PROVE  /\ SearchHarm(dir, t) = "none"
         /\ DetermineBlock(dir, t) # MEMFULL =>
              /\ DetermineBlock(dir, t) \in Block \ {0}
              /\ \A r \in Heads(dir) : DetermineBlock(dir, t) \notin Chain(t, r)
<1>1. /\ dir \in Seq(FileEntry) /\ Heads(dir) = ToSet(Starts(dir))
      /\ \A r \in Heads(dir) : r \in Block /\ ~Cyclic(t, r)
  BY DirFacts, SoundSays
<1>2. \A i \in DOMAIN Starts(dir) : Starts(dir)[i] \in Heads(dir)
  BY <1>1 DEF ToSet
<1>3. SearchHarm(dir, t) = "none"
  <2>1. ASSUME NEW r \in Heads(dir)
        PROVE  ChainHarm(t, r) = "none"
    <3>1. r \in Block /\ t \in Table /\ ~Cyclic(t, r) /\ NUM_BLOCKS \in Nat
      BY <1>1, SoundSays, GeometryAssumption
    <3>2. \A k \in 0 .. NUM_BLOCKS : Walk(t, r, k) \in Block \cup {END}
      BY <3>1, WalkTyped
    <3>3. QED
      BY <3>1, <3>2 DEF ChainHarm, Strays
  <2>2. \A i \in DOMAIN Starts(dir) : ChainHarm(t, Starts(dir)[i]) = "none"
    BY <1>2, <2>1
  <2>3. FirstHarmed(dir, t) = 0
    BY <2>2 DEF FirstHarmed
  <2>4. QED
    BY <2>3 DEF SearchHarm
<1>4. \A c : c \in InUse(dir, t) <=> \E r \in Heads(dir) : c \in Chain(t, r)
  BY <1>1 DEF InUse
<1>5. DetermineBlock(dir, t) = MEMFULL \/ DetermineBlock(dir, t) \in Block \ InUse(dir, t)
  BY <1>1, DetermineBlockFacts
<1>6. DetermineBlock(dir, t) # 0
  BY <1>1, DetermineBlockFacts
<1>7. QED
  BY <1>3, <1>4, <1>5, <1>6

\* Each name is there once: with root, the entries are one more than the names.
LEMMA EntriesFacts ==
  ASSUME NEW dir, GoodDir(dir)
  PROVE  /\ Len(Entries(dir)) \in Nat /\ Len(Entries(dir)) <= Cardinality(Name) + 1
         /\ \A n \in 1 .. Len(Entries(dir)) :
              /\ Entries(dir)[n].name \in Name \cup {"root"}
              /\ Entries(dir)[n].size \in Int /\ Entries(dir)[n].start \in Int
<1>1. /\ dir \in Seq(FileEntry) /\ Len(dir) \in Nat /\ DOMAIN dir = 1 .. Len(dir)
      /\ \A i \in DOMAIN dir : /\ dir[i].name \in Name /\ dir[i].start \in Block \ {0}
                               /\ dir[i].size \in 0 .. MaxBlocks
      /\ \A i, j \in DOMAIN dir : i # j => dir[i].name # dir[j].name
  BY DirFacts
<1> DEFINE name == [i \in 1 .. Len(dir) |-> dir[i].name]
<1>2. name \in Injection(1 .. Len(dir), Name)
  BY <1>1 DEF Injection, IsInjective
<1>3. IsFiniteSet(Name)
  BY LengthAssumption
<1>4. Cardinality(1 .. Len(dir)) <= Cardinality(Name)
  BY <1>2, <1>3, FS_Injection
<1>5. Cardinality(1 .. Len(dir)) = Len(dir)
  <2>1. PICK m : m = Len(dir)
    OBVIOUS
  <2>2. m \in Nat /\ 1 \in Int /\ m \in Int /\ (1 > m => m = 0)
    BY <1>1, <2>1
  <2>3. Cardinality(1 .. m) = IF 1 > m THEN 0 ELSE m - 1 + 1
    BY <2>2, FS_Interval
  <2>4. QED
    BY <2>1, <2>2, <2>3
<1>6. Cardinality(Name) \in Nat
  BY <1>3, FS_CardinalityType
<1>7. Entries(dir) = <<Root>> \o dir
  BY DEF Entries
<1>8. <<Root>> \in Seq({Root} \cup FileEntry) /\ Len(<<Root>>) = 1 /\ <<Root>>[1] = Root
      /\ dir \in Seq({Root} \cup FileEntry)
  BY <1>1
<1>9. /\ Len(Entries(dir)) = Len(dir) + 1 /\ Entries(dir)[1] = Root
      /\ \A n \in 2 .. Len(dir) + 1 : Entries(dir)[n] = dir[n - 1]
  <2>1. PICK root : root = <<Root>>
    OBVIOUS
  <2>2. PICK S : S = {Root} \cup FileEntry
    OBVIOUS
  <2>3. /\ root \in Seq(S) /\ dir \in Seq(S) /\ Len(root) = 1 /\ root[1] = Root
        /\ Entries(dir) = root \o dir
    BY <1>7, <1>8, <2>1, <2>2
  <2>4. /\ Len(root \o dir) = Len(root) + Len(dir)
        /\ \A n \in 1 .. Len(root) + Len(dir) :
             (root \o dir)[n] = IF n <= Len(root) THEN root[n] ELSE dir[n - Len(root)]
    BY <2>3, ConcatProperties
  <2>5. QED
    BY <1>1, <2>3, <2>4
<1>10. ASSUME NEW n \in 1 .. Len(Entries(dir))
       PROVE  /\ Entries(dir)[n].name \in Name \cup {"root"}
              /\ Entries(dir)[n].size \in Int /\ Entries(dir)[n].start \in Int
  <2>1. CASE n = 1
    BY <2>1, <1>9 DEF Root
  <2>2. CASE n # 1
    <3>1. n - 1 \in DOMAIN dir /\ Entries(dir)[n] = dir[n - 1]
      BY <2>2, <1>1, <1>9
    <3>2. \A s \in 0 .. MaxBlocks : s \in Int
      BY LengthAssumption
    <3>3. \A b \in Block : b \in Int
      BY BlockFacts
    <3>4. QED
      BY <3>1, <3>2, <3>3, <1>1
  <2>3. QED
    BY <2>1, <2>2
<1>11. QED
  BY <1>1, <1>4, <1>5, <1>6, <1>9, <1>10


-------------------------------------------------------------------------------
(* How much text an entry is.                                                *)

Char == {Hash, Zero} \cup {<<f, k>> : f \in Name \cup {"root"}, k \in 1 .. MaxLength}
        \cup {Number(n) : n \in Int}
Longest == MaxLength + 5
IsEntry(e) == e.name \in Name \cup {"root"} /\ e.size \in Int /\ e.start \in Int

LEMMA TextFacts ==
  ASSUME NEW e, IsEntry(e)
  PROVE  Text(e) \in Seq(Char) /\ Len(Text(e)) \in 1 .. Longest
<1> DEFINE hash == <<Hash>>
           numbers == <<Hash, Number(e.size), Hash, Number(e.start)>>
<1>1. Length[e.name] \in 1 .. MaxLength /\ MaxLength \in Nat
  BY LengthAssumption DEF IsEntry
<1>2. Letters(e.name) \in Seq(Char) /\ Len(Letters(e.name)) = Length[e.name]
  <2>1. \A k \in 1 .. Length[e.name] : <<e.name, k>> \in Char
    BY <1>1 DEF Char, IsEntry
  <2>2. Letters(e.name) = [k \in 1 .. Length[e.name] |-> <<e.name, k>>]
    BY DEF Letters
  <2>3. QED
    BY <2>1, <2>2, <1>1
<1>3. Hash \in Char /\ Number(e.size) \in Char /\ Number(e.start) \in Char
  BY DEF Char, IsEntry
<1>4. hash \in Seq(Char) /\ Len(hash) = 1 /\ numbers \in Seq(Char) /\ Len(numbers) = 4
  BY <1>3
<1>5. Text(e) = (hash \o Letters(e.name)) \o numbers
  BY DEF Text
<1> DEFINE letters == Letters(e.name)
<1> HIDE DEF hash, numbers, letters
<1>6. hash \o letters \in Seq(Char) /\ Len(hash \o letters) = Len(hash) + Len(letters)
  BY <1>2, <1>4, ConcatProperties DEF letters
<1>7. Text(e) \in Seq(Char) /\ Len(Text(e)) = Len(hash) + Len(letters) + Len(numbers)
  <2>1. Text(e) = (hash \o letters) \o numbers
    BY <1>5 DEF letters
  <2>2. PICK a : a = hash \o letters
    OBVIOUS
  <2>3. a \in Seq(Char) /\ Text(e) = a \o numbers
    BY <2>1, <2>2, <1>6
  <2>4. Text(e) \in Seq(Char) /\ Len(Text(e)) = Len(a) + Len(numbers)
    BY <2>3, <1>4, ConcatProperties
  <2>5. QED
    BY <2>2, <2>4, <1>6
<1>8. QED
  BY <1>1, <1>2, <1>4, <1>7 DEF Longest, letters

\* A buffer holds the text of an entry, its zero, and what was there behind it.
IsBuffer(store) == store \in Seq(Char) /\ Len(store) <= Longest + 1

LEMMA PrintedFacts ==
  ASSUME NEW store, IsBuffer(store), NEW text \in Seq(Char), Len(text) \in 1 .. Longest
  PROVE  IsBuffer(Printed(store, text))
<1> DEFINE zero == <<Zero>>
           left == SubSeq(store, Len(text) + 2, Len(store))
<1>1. zero \in Seq(Char) /\ Len(zero) = 1
  BY DEF Char
<1>2. store \in Seq(Char) /\ Len(store) \in Nat /\ Len(store) <= Longest + 1
      /\ Longest \in Nat /\ Len(text) \in Nat
  BY LengthAssumption DEF IsBuffer, Longest
<1>3. \A i \in Len(text) + 2 .. Len(store) : store[i] \in Char
  BY <1>2
<1>4. left \in Seq(Char)
      /\ Len(left) = IF Len(text) + 2 <= Len(store) THEN Len(store) - Len(text) - 1 ELSE 0
  BY <1>2, <1>3
<1>5. Printed(store, text) = (text \o zero) \o left
  BY DEF Printed
<1> HIDE DEF zero, left
<1>6. text \o zero \in Seq(Char) /\ Len(text \o zero) = Len(text) + 1
  BY <1>1, ConcatProperties
<1>7. Printed(store, text) \in Seq(Char)
      /\ Len(Printed(store, text)) = Len(text) + 1 + Len(left)
  <2>1. PICK a : a = text \o zero
    OBVIOUS
  <2>2. PICK b : b = left
    OBVIOUS
  <2>3. a \in Seq(Char) /\ b \in Seq(Char) /\ Printed(store, text) = a \o b
    BY <1>4, <1>5, <1>6, <2>1, <2>2
  <2>4. Printed(store, text) \in Seq(Char) /\ Len(Printed(store, text)) = Len(a) + Len(b)
    BY <2>3, ConcatProperties
  <2>5. QED
    BY <2>1, <2>2, <2>4, <1>6
<1>8. Len(text) + 1 + Len(left) <= Longest + 1
  <2>1. Len(text) + 1 <= Longest + 1
    BY <1>2
  <2>2. CASE Len(text) + 2 <= Len(store)
    BY <2>2, <1>2, <1>4
  <2>3. CASE ~(Len(text) + 2 <= Len(store))
    BY <2>1, <2>3, <1>2, <1>4
  <2>4. QED
    BY <2>2, <2>3
<1>9. QED
  BY <1>7, <1>8 DEF IsBuffer

\* The zeros behind Store + writtenFromStore.
Zeros(store, skip) == {i \in 1 .. Len(store) - skip : store[skip + i] = Zero}

LEMMA RestIs ==
  ASSUME NEW w, w.store \in Seq(Char), w.skip \in Nat
  PROVE  /\ Rest(w) \in Seq(Char)
         /\ Zeros(w.store, w.skip) = {} => Len(Rest(w)) = 0
         /\ Zeros(w.store, w.skip) # {} =>
              /\ Len(Rest(w)) + 1 \in Zeros(w.store, w.skip)
              /\ \A i \in Zeros(w.store, w.skip) : Len(Rest(w)) + 1 <= i
         /\ \A i \in 1 .. Len(Rest(w)) : Rest(w)[i] = w.store[w.skip + i]
<1> DEFINE store == w.store
           skip == w.skip
           tail == SubSeq(store, skip + 1, Len(store))
           zeros == {i \in DOMAIN tail : tail[i] = Zero}
<1>1. store \in Seq(Char) /\ Len(store) \in Nat /\ skip \in Nat
  OBVIOUS
<1>2. Rest(w) = IF zeros = {} THEN <<>> ELSE SubSeq(tail, 1, Min(zeros) - 1)
  BY DEF Rest
<1> HIDE DEF store, skip
<1>3. /\ tail \in Seq(Char) /\ Len(tail) = IF skip < Len(store) THEN Len(store) - skip ELSE 0
      /\ DOMAIN tail = 1 .. Len(store) - skip
      /\ \A i \in 1 .. Len(store) - skip : tail[i] = store[skip + i]
  <2>1. \A i \in skip + 1 .. Len(store) : store[i] \in Char
    BY <1>1
  <2>2. tail \in Seq(Char) /\ Len(tail) = IF skip < Len(store) THEN Len(store) - skip ELSE 0
    BY <1>1, <2>1
  <2>3. \A i \in 1 .. Len(store) - skip : tail[i] = store[skip + i]
    BY <1>1
  <2>4. QED
    BY <2>2, <2>3, <1>1
<1>4. zeros = Zeros(store, skip)
  BY <1>3 DEF Zeros
<1> HIDE DEF tail, zeros
<1>5. CASE zeros = {}
  BY <1>2, <1>4, <1>5 DEF store, skip
<1>6. CASE zeros # {}
  <2>1. zeros \in SUBSET Nat
    BY <1>4 DEF Zeros
  <2>2. \E m \in zeros : \A k \in zeros : m <= k
    BY <2>1, <1>6, LeastNat
  <2>3. Min(zeros) \in zeros /\ \A k \in zeros : Min(zeros) <= k
    BY <2>2 DEF Min
  <2>4. Min(zeros) \in 1 .. Len(store) - skip
    BY <2>3, <1>4 DEF Zeros
  <2>5. Len(tail) \in Nat /\ Min(zeros) - 1 <= Len(tail)
    BY <2>4, <1>1, <1>3
  <2>6. \A i \in 1 .. Min(zeros) - 1 : tail[i] \in Char
    BY <2>5, <2>4, <1>3
  <2>7. SubSeq(tail, 1, Min(zeros) - 1) \in Seq(Char)
        /\ Len(SubSeq(tail, 1, Min(zeros) - 1)) = Min(zeros) - 1
    BY <2>4, <2>5, <2>6, <1>3
  <2>8. Rest(w) \in Seq(Char) /\ Len(Rest(w)) + 1 = Min(zeros)
    BY <2>7, <2>4, <1>2, <1>6
  <2>9. ASSUME NEW i \in 1 .. Len(Rest(w)) PROVE Rest(w)[i] = store[skip + i]
    <3>1. i \in 1 .. Min(zeros) - 1 /\ i \in 1 .. Len(store) - skip
      BY <2>4, <2>8, <1>1
    <3>2. Rest(w)[i] = tail[i]
      BY <3>1, <2>4, <2>5, <1>2, <1>3, <1>6
    <3>3. QED
      BY <3>1, <3>2, <1>3
  <2>10. QED
    BY <2>3, <2>8, <2>9, <1>4, <1>6 DEF store, skip
<1>7. QED
  BY <1>5, <1>6

LEMMA RestFacts ==
  ASSUME NEW w, IsBuffer(w.store), w.skip \in Nat
  PROVE  Rest(w) \in Seq(Char) /\ Len(Rest(w)) \in 0 .. Longest
<1>1. w.store \in Seq(Char) /\ Len(w.store) \in Nat /\ Len(w.store) <= Longest + 1
      /\ Longest \in Nat
  BY LengthAssumption DEF IsBuffer, Longest
<1>2. Rest(w) \in Seq(Char) /\ Len(Rest(w)) \in Nat
  BY <1>1, RestIs
<1>3. CASE Zeros(w.store, w.skip) = {}
  BY <1>1, <1>2, <1>3, RestIs
<1>4. CASE Zeros(w.store, w.skip) # {}
  <2>1. Len(Rest(w)) + 1 \in Zeros(w.store, w.skip)
    BY <1>1, <1>4, RestIs
  <2>2. QED
    BY <2>1, <1>1, <1>2 DEF Zeros
<1>5. QED
  BY <1>3, <1>4

\* What is left of an entry when n characters of it have gone into a block.
LEMMA RestAfter ==
  ASSUME NEW w, IsBuffer(w.store), w.skip \in Nat, NEW n \in 1 .. Len(Rest(w)),
         NEW v, v.store = w.store, v.skip = w.skip + n
  PROVE  Len(Rest(v)) \in 0 .. Len(Rest(w)) - n
<1>1. w.store \in Seq(Char) /\ Len(w.store) \in Nat /\ Len(Rest(w)) \in Nat
      /\ v.store \in Seq(Char) /\ v.skip \in Nat /\ n \in Nat /\ n >= 1
  BY RestFacts DEF IsBuffer
<1>2. Zeros(w.store, w.skip) # {}
  BY <1>1, RestIs
<1> DEFINE z == Len(Rest(w)) + 1
<1>3. z \in Zeros(w.store, w.skip)
  BY <1>1, <1>2, RestIs
<1>4. z \in 1 .. Len(w.store) - w.skip /\ w.store[w.skip + z] = Zero
  BY <1>3 DEF Zeros
<1>5. z - n \in 1 .. Len(v.store) - v.skip
  <2>1. z \in Int /\ w.skip \in Int /\ Len(w.store) \in Int /\ n \in Int
    BY <1>1
  <2>2. z >= n + 1 /\ z <= Len(w.store) - w.skip
    BY <1>1, <1>4
  <2> HIDE DEF z
  <2>3. z - n >= 1 /\ z - n <= Len(w.store) - (w.skip + n) /\ z - n \in Int
        /\ Len(w.store) - (w.skip + n) \in Int
    BY <2>1, <2>2
  <2>4. Len(v.store) - v.skip = Len(w.store) - (w.skip + n)
    OBVIOUS
  <2>5. QED
    BY <2>3, <2>4
<1>6. v.skip + (z - n) = w.skip + z
  BY <1>1
<1>7. z - n \in Zeros(v.store, v.skip)
  BY <1>4, <1>5, <1>6 DEF Zeros
<1>8. /\ Rest(v) \in Seq(Char)
      /\ \A i \in Zeros(v.store, v.skip) : Len(Rest(v)) + 1 <= i
  <2>1. Zeros(v.store, v.skip) # {}
    BY <1>7
  <2>2. QED
    BY <2>1, <1>1, RestIs
<1>9. Len(Rest(v)) + 1 <= z - n /\ Len(Rest(v)) \in Nat
  BY <1>7, <1>8
<1>10. QED
  BY <1>1, <1>9


-------------------------------------------------------------------------------
(* k_storeDirectory, entry by entry.                                         *)

Fresh(t) == [fat |-> t, bytes |-> bytes, block |-> 0, written |-> 0, skip |-> 0,
             store |-> <<>>, status |-> "FILEOK", harm |-> "none"]
IsStore(g, dir, w, n) ==
  g = [k \in 0 .. n |-> IF k = 0 THEN w ELSE StoreEntry(dir, g[k - 1], Entries(dir)[k])]

\* The recursive definition inside Store has a solution.
LEMMA EntriesStored ==
  ASSUME NEW dir, NEW w
  PROVE  \A n \in Nat : \E g : IsStore(g, dir, w, n)
<1> DEFINE S == {n \in Nat : \E g : IsStore(g, dir, w, n)}
<1>1. 0 \in S
  <2>1. IsStore([k \in 0 .. 0 |-> w], dir, w, 0)
    BY DEF IsStore
  <2>2. QED
    BY <2>1
<1>2. ASSUME NEW n \in Nat, n \in S PROVE n + 1 \in S
  <2>1. PICK g : IsStore(g, dir, w, n)
    BY <1>2
  <2> DEFINE next == StoreEntry(dir, g[n], Entries(dir)[n + 1])
             h == [k \in 0 .. n + 1 |-> IF k <= n THEN g[k] ELSE next]
  <2> HIDE DEF next
  <2>2. \A k \in 0 .. n : h[k] = g[k]
    OBVIOUS
  <2>3. h[n + 1] = next
    OBVIOUS
  <2>4. \A k \in 0 .. n : g[k] = IF k = 0 THEN w
                                 ELSE StoreEntry(dir, g[k - 1], Entries(dir)[k])
    BY <2>1 DEF IsStore
  <2>5. \A k \in 0 .. n + 1 : h[k] = IF k = 0 THEN w
                                     ELSE StoreEntry(dir, h[k - 1], Entries(dir)[k])
    <3>1. ASSUME NEW k \in 0 .. n + 1, k # n + 1
          PROVE  h[k] = IF k = 0 THEN w ELSE StoreEntry(dir, h[k - 1], Entries(dir)[k])
      <4>1. k \in 0 .. n /\ (k # 0 => k - 1 \in 0 .. n)
        BY <3>1
      <4> HIDE DEF h
      <4>2. QED
        BY <4>1, <2>2, <2>4
    <3>2. h[n + 1] = StoreEntry(dir, h[(n + 1) - 1], Entries(dir)[n + 1])
      <4>1. h[n] = g[n] /\ (n + 1) - 1 = n
        BY <2>2
      <4> HIDE DEF h
      <4>2. QED
        BY <4>1, <2>3 DEF next
    <3>3. n + 1 # 0
      OBVIOUS
    <3> HIDE DEF h
    <3>4. QED
      BY <3>1, <3>2, <3>3
  <2>6. h = [k \in 0 .. n + 1 |-> IF k = 0 THEN w
                                  ELSE StoreEntry(dir, h[k - 1], Entries(dir)[k])]
    <3>1. h = [k \in 0 .. n + 1 |-> h[k]]
      OBVIOUS
    <3> HIDE DEF h
    <3>2. QED
      BY <2>5, <3>1
  <2> HIDE DEF h
  <2>7. IsStore(h, dir, w, n + 1)
    BY <2>6 DEF IsStore
  <2>8. QED
    BY <2>7
<1>3. Nat \subseteq S
  <2> HIDE DEF S
  <2>1. QED
    BY <1>1, <1>2, SetInduction
<1>4. QED
  BY <1>3

LEMMA StoreSteps ==
  ASSUME NEW dir, NEW t, Len(Entries(dir)) \in Nat
  PROVE  \E g : /\ \A k \in 0 .. Len(Entries(dir)) :
                     g[k] = IF k = 0 THEN Fresh(t)
                            ELSE StoreEntry(dir, g[k - 1], Entries(dir)[k])
                /\ Store(dir, t) = IF GoesOn(g[Len(Entries(dir))])
                                     THEN Put(g[Len(Entries(dir))], <<Zero>>)
                                     ELSE g[Len(Entries(dir))]
<1> DEFINE N == Len(Entries(dir))
           first == Fresh(t)
           g == CHOOSE h : IsStore(h, dir, first, N)
<1>1. IsStore(g, dir, first, N)
  BY EntriesStored, Zenon
<1>2. Store(dir, t) = IF GoesOn(g[N]) THEN Put(g[N], <<Zero>>) ELSE g[N]
  BY Zenon DEF Store, IsStore, Fresh
<1> HIDE DEF g, first
<1>3. \A k \in 0 .. N : g[k] = IF k = 0 THEN first
                               ELSE StoreEntry(dir, g[k - 1], Entries(dir)[k])
  BY <1>1 DEF IsStore
<1>4. QED
  BY <1>2, <1>3 DEF first

ShapeOf(w) ==
  w = [fat |-> w.fat, bytes |-> w.bytes, block |-> w.block, written |-> w.written,
       skip |-> w.skip, store |-> w.store, status |-> w.status, harm |-> w.harm]

LEMMA ShapeKept ==
  ASSUME NEW a, ShapeOf(a)
  PROVE  /\ \A b, x : /\ ShapeOf([a EXCEPT !.bytes[b] = x])
                      /\ ShapeOf([a EXCEPT !.fat[b] = x])
         /\ \A x : /\ ShapeOf([a EXCEPT !.block = x]) /\ ShapeOf([a EXCEPT !.written = x])
                   /\ ShapeOf([a EXCEPT !.skip = x]) /\ ShapeOf([a EXCEPT !.store = x])
                   /\ ShapeOf([a EXCEPT !.status = x]) /\ ShapeOf([a EXCEPT !.harm = x])
BY DEF ShapeOf

\* v: w when n more characters are written.
PutSays(w, n, v) ==
  /\ ShapeOf(v) /\ v.written = w.written + n
  /\ v.fat = w.fat /\ v.block = w.block /\ v.skip = w.skip /\ v.store = w.store
  /\ v.status = w.status /\ v.harm = w.harm

LEMMA PutFacts ==
  ASSUME NEW w, ShapeOf(w), NEW chars
  PROVE  PutSays(w, Len(chars), Put(w, chars))
<1> DEFINE off == w.written % FAT_WIDTH
           x == [o \in 0 .. FAT_WIDTH - 1 |->
                   IF o \in off .. off + Len(chars) - 1 THEN chars[o - off + 1]
                                                        ELSE w.bytes[w.block][o]]
           b == w.block
           a == [w EXCEPT !.bytes[b] = x]
<1>1. Put(w, chars) = [a EXCEPT !.written = w.written + Len(chars)]
  BY DEF Put
<1> HIDE DEF x, b
<1>2. ShapeOf(a)
  BY ShapeKept
<1>3. a.written = w.written /\ a.fat = w.fat /\ a.block = w.block /\ a.skip = w.skip
      /\ a.store = w.store /\ a.status = w.status /\ a.harm = w.harm
  BY DEF ShapeOf
<1> DEFINE n == w.written + Len(chars)
           c == [a EXCEPT !.written = n]
<1> HIDE DEF a, n
<1>4. ShapeOf(c)
  BY <1>2, ShapeKept
<1>5. c.written = n /\ c.fat = a.fat /\ c.block = a.block /\ c.skip = a.skip
      /\ c.store = a.store /\ c.status = a.status /\ c.harm = a.harm
  BY <1>2 DEF ShapeOf
<1>6. Put(w, chars) = c
  BY <1>1 DEF n
<1> HIDE DEF c
<1>7. PutSays(w, Len(chars), c)
  BY <1>3, <1>4, <1>5 DEF PutSays, n
<1>8. QED
  BY <1>6, <1>7

Room(w) == FAT_WIDTH - (w.written % FAT_WIDTH)

\* v: w when its block is filled and the block new is the next, if there is one.
NextSays(dir, w, new, v) ==
  /\ ShapeOf(v)
  /\ v.written = w.written + Len(SubSeq(Rest(w), 1, Room(w)))
  /\ v.skip = w.skip + Room(w) /\ v.store = w.store
  /\ v.harm = SearchHarm(dir, w.fat)
  /\ new = MEMFULL => v.fat = w.fat /\ v.status = "MEMFULL"
  /\ new # MEMFULL => /\ v.fat = [w.fat EXCEPT ![w.block] = new]
                      /\ v.block = new /\ v.status = w.status

LEMMA NextBlockFacts ==
  ASSUME NEW dir, NEW w, ShapeOf(w)
  PROVE  NextSays(dir, w, DetermineBlock(dir, w.fat), NextBlock(dir, w))
<1>1. PICK v : v = NextBlock(dir, w)
  OBVIOUS
<1> DEFINE put == Put(w, SubSeq(Rest(w), 1, Room(w)))
           s == w.skip + Room(w)
           h == SearchHarm(dir, w.fat)
           new == DetermineBlock(dir, w.fat)
           skipped == [put EXCEPT !.skip = s]
           fill == [skipped EXCEPT !.harm = h]
<1>2. /\ ShapeOf(put) /\ put.written = w.written + Len(SubSeq(Rest(w), 1, Room(w)))
      /\ put.fat = w.fat /\ put.block = w.block /\ put.skip = w.skip
      /\ put.store = w.store /\ put.status = w.status
  <2> DEFINE m == Len(SubSeq(Rest(w), 1, Room(w)))
  <2>1. PutSays(w, m, put)
    BY PutFacts
  <2> HIDE DEF m, put
  <2>2. QED
    BY <2>1 DEF PutSays, m
<1>3. Filled(dir, w) = fill
  BY <1>2 DEF Filled, Room
<1> HIDE DEF put, s, h
<1>4. /\ ShapeOf(skipped) /\ skipped.written = put.written /\ skipped.fat = put.fat
      /\ skipped.block = put.block /\ skipped.skip = s /\ skipped.store = put.store
      /\ skipped.status = put.status
  <2>1. ShapeOf(skipped)
    BY <1>2, ShapeKept
  <2>2. QED
    BY <2>1, <1>2 DEF ShapeOf
<1> HIDE DEF skipped
<1>5. /\ ShapeOf(fill) /\ fill.written = skipped.written /\ fill.fat = skipped.fat
      /\ fill.block = skipped.block /\ fill.skip = skipped.skip
      /\ fill.store = skipped.store /\ fill.status = skipped.status /\ fill.harm = h
  <2>1. ShapeOf(fill)
    BY <1>4, ShapeKept
  <2>2. QED
    BY <2>1, <1>4 DEF ShapeOf
<1> HIDE DEF fill
<1>6. /\ ShapeOf(fill) /\ fill.written = w.written + Len(SubSeq(Rest(w), 1, Room(w)))
      /\ fill.fat = w.fat /\ fill.block = w.block /\ fill.skip = s
      /\ fill.store = w.store /\ fill.status = w.status /\ fill.harm = h
  BY <1>2, <1>4, <1>5
<1> HIDE DEF fill, new
<1>7. CASE new = MEMFULL
  <2>1. v = [fill EXCEPT !.status = "MEMFULL"]
    BY <1>3, <1>7, <1>1 DEF NextBlock, new
  <2>2. ShapeOf(v)
    BY <2>1, <1>6 DEF ShapeOf
  <2>3. /\ v.written = fill.written /\ v.fat = fill.fat /\ v.block = fill.block
        /\ v.skip = fill.skip /\ v.store = fill.store /\ v.harm = fill.harm
        /\ v.status = "MEMFULL"
    BY <2>1, <1>6 DEF ShapeOf
  <2>4. NextSays(dir, w, new, v)
    BY <2>2, <2>3, <1>6, <1>7 DEF s, h, NextSays
  <2>5. QED
    BY <2>4, <1>1 DEF new
<1>8. CASE new # MEMFULL
  <2> DEFINE b == w.block
  <2>1. v = [fill EXCEPT !.fat[b] = new, !.block = new]
    BY <1>3, <1>8, <1>1 DEF NextBlock, new
  <2> DEFINE link == [fill EXCEPT !.fat[b] = new]
  <2>2. v = [link EXCEPT !.block = new]
    BY <2>1
  <2>3. ShapeOf(link)
    BY <1>6, ShapeKept
  <2>4. /\ link.written = fill.written /\ link.fat = [fill.fat EXCEPT ![b] = new]
        /\ link.skip = fill.skip /\ link.store = fill.store /\ link.harm = fill.harm
        /\ link.status = fill.status
    BY <1>6 DEF ShapeOf
  <2> HIDE DEF link
  <2>5. ShapeOf(v)
    BY <2>2, <2>3 DEF ShapeOf
  <2>6. /\ v.written = link.written /\ v.fat = link.fat /\ v.block = new
        /\ v.skip = link.skip /\ v.store = link.store /\ v.harm = link.harm
        /\ v.status = link.status
    BY <2>2, <2>3 DEF ShapeOf
  <2>7. NextSays(dir, w, new, v)
    BY <2>4, <2>5, <2>6, <1>6, <1>8 DEF s, h, NextSays
  <2>8. QED
    BY <2>7, <1>1 DEF new
<1>9. QED
  BY <1>7, <1>8


\* What storing the directory dir in table t leaves of it.
TableKept(dir, t, u) ==
  /\ Sound(Heads(dir), u) /\ NearEnd(u, 0)
  /\ \A r \in Heads(dir) : r # 0 => \A c \in Chain(t, r) : u[c] = t[c]

\* Block 0 goes on in a free block.
LEMMA BlockLinked ==
  ASSUME NEW dir, GoodDir(dir), NEW t, Sound(Heads(dir), t), NEW u, TableKept(dir, t, u),
         NEW b \in Block, \A r \in Heads(dir) : b \notin Chain(u, r),
         NEW v \in Table, v[0] = b, \A c \in Block : c # 0 => v[c] = u[c]
  PROVE  TableKept(dir, t, v)
<1>1. Sound(Heads(dir), u) /\ NearEnd(u, 0) /\ u \in Table
      /\ \A r \in Heads(dir) : r # 0 => \A c \in Chain(t, r) : u[c] = t[c]
  BY SoundSays DEF TableKept
<1>2. 0 \in Heads(dir) /\ Walk(u, 0, 0) = 0 /\ 0 \in Block
  BY DirFacts, WalkZero, BlockFacts
<1>3. /\ Sound(Heads(dir), v) /\ v[b] = END
      /\ \A s \in Heads(dir) : s # 0 => \A c \in Chain(u, s) : v[c] = u[c]
  BY <1>1, <1>2, Relinked
<1>4. NearEnd(v, 0)
  BY <1>2, <1>3 DEF NearEnd
<1>5. ASSUME NEW r \in Heads(dir), r # 0, NEW c \in Chain(t, r) PROVE v[c] = t[c]
  <2>1. ~Cyclic(t, r)
    BY SoundSays
  <2>2. Chain(u, r) = Chain(t, r)
    BY <2>1, <1>1, <1>5, SameLinksSameChain
  <2>3. QED
    BY <2>2, <1>1, <1>3, <1>5
<1>6. QED
  BY <1>3, <1>4, <1>5 DEF TableKept

\* Behind the nth entry: the text is in block 0, or goes on in a second block.
StoreInv(dir, t, n, w) ==
  /\ ShapeOf(w)
  /\ TableKept(dir, t, w.fat)
  /\ w.status \in {"FILEOK", "MEMFULL"} /\ w.harm = "none"
  /\ w.skip \in Nat /\ IsBuffer(w.store) /\ w.written \in Nat
  /\ w.status = "FILEOK" =>
       /\ w.written <= n * Longest
       /\ \/ w.block = 0 /\ w.written < FAT_WIDTH
          \/ w.block \in Block /\ w.written >= FAT_WIDTH

\* The longest directory fits in two blocks.
LEMMA SizeFacts ==
  /\ Longest \in Nat \ {0} /\ Longest < FAT_WIDTH /\ FAT_WIDTH \in Nat \ {0}
  /\ Cardinality(Name) + 1 \in Nat
  /\ \A n \in Nat : n < Cardinality(Name) + 1 =>
       /\ n * Longest \in Nat
       /\ (n + 1) * Longest = n * Longest + Longest
       /\ n * Longest + Longest + 1 <= 2 * FAT_WIDTH
<1>1. Longest \in Nat \ {0} /\ Longest < FAT_WIDTH /\ FAT_WIDTH \in Nat \ {0}
  BY LengthAssumption, GeometryAssumption DEF Longest
<1>2. Cardinality(Name) \in Nat
  BY LengthAssumption, FS_CardinalityType
<1>3. (Cardinality(Name) + 1) * Longest + 1 <= 2 * FAT_WIDTH
  BY LengthAssumption DEF Longest
<1> DEFINE C == Cardinality(Name) + 1
<1>4. C \in Nat /\ C * Longest + 1 <= 2 * FAT_WIDTH
  BY <1>2, <1>3
<1> HIDE DEF C
<1>5. ASSUME NEW n \in Nat, n < C
      PROVE  /\ n * Longest \in Nat
             /\ (n + 1) * Longest = n * Longest + Longest
             /\ n * Longest + Longest + 1 <= 2 * FAT_WIDTH
  <2>1. n * Longest \in Nat /\ (n + 1) * Longest = n * Longest + Longest
    BY <1>1
  <2>2. (n + 1) * Longest <= C * Longest
    <3>1. C - (n + 1) \in Nat
      BY <1>4, <1>5
    <3>2. (C - (n + 1)) * Longest \in Nat
      BY <3>1, <1>1
    <3>3. C * Longest = (C - (n + 1)) * Longest + (n + 1) * Longest
      BY <1>1, <1>4
    <3>4. (n + 1) * Longest \in Nat /\ C * Longest \in Nat
      BY <1>1, <1>4
    <3>5. QED
      BY <3>2, <3>3, <3>4
  <2>3. C * Longest \in Nat
    BY <1>1, <1>4
  <2>4. QED
    BY <2>1, <2>2, <2>3, <1>1, <1>4
<1>6. QED
  BY <1>1, <1>4, <1>5 DEF C

LEMMA Offset ==
  ASSUME NEW n \in Nat
  PROVE  /\ n < FAT_WIDTH => n % FAT_WIDTH = n
         /\ n >= FAT_WIDTH /\ n < 2 * FAT_WIDTH => n % FAT_WIDTH = n - FAT_WIDTH
BY GeometryAssumption

\* An entry is put into its block, or fills block 0 and goes on in a free one.
LEMMA StoreEntryKeeps ==
  ASSUME NEW dir, GoodDir(dir), NEW t, Sound(Heads(dir), t),
         NEW n \in Nat, n < Cardinality(Name) + 1,
         NEW w, StoreInv(dir, t, n, w), NEW e, IsEntry(e)
  PROVE  StoreInv(dir, t, n + 1, StoreEntry(dir, w, e))
<1> DEFINE text == Text(e)
           printed == Printed(w.store, text)
           new == [w EXCEPT !.store = printed]
           out == IF Overflows(new) THEN NextBlock(dir, new) ELSE new
<1>1. StoreEntry(dir, w, e) =
        IF ~GoesOn(w) THEN w ELSE IF ~GoesOn(out) THEN out ELSE Put(out, Rest(out))
  BY DEF StoreEntry
<1>2. /\ ShapeOf(w) /\ TableKept(dir, t, w.fat)
      /\ w.status \in {"FILEOK", "MEMFULL"} /\ w.harm = "none"
      /\ w.skip \in Nat /\ IsBuffer(w.store) /\ w.written \in Nat
      /\ w.status = "FILEOK" =>
           /\ w.written <= n * Longest
           /\ \/ w.block = 0 /\ w.written < FAT_WIDTH
              \/ w.block \in Block /\ w.written >= FAT_WIDTH
  BY DEF StoreInv
<1>3. text \in Seq(Char) /\ Len(text) \in 1 .. Longest
  BY TextFacts
<1>4. IsBuffer(printed)
  <2> HIDE DEF text
  <2>1. QED
    BY <1>2, <1>3, PrintedFacts
<1> HIDE DEF text, printed
<1>5. CASE ~GoesOn(w)
  <2>1. w.status # "FILEOK"
    BY <1>2, <1>5 DEF GoesOn
  <2>2. StoreEntry(dir, w, e) = w
    BY <1>1, <1>5
  <2>3. StoreInv(dir, t, n + 1, w)
    BY <1>2, <2>1 DEF StoreInv
  <2>4. QED
    BY <2>2, <2>3
<1>6. CASE GoesOn(w)
  <2>1. w.status = "FILEOK" /\ w.written <= n * Longest
    BY <1>2, <1>6 DEF GoesOn
  <2>2. /\ ShapeOf(new) /\ new.store = printed /\ new.skip = w.skip
        /\ new.written = w.written /\ new.fat = w.fat /\ new.block = w.block
        /\ new.status = "FILEOK" /\ new.harm = "none"
    <3>1. ShapeOf(new)
      BY <1>2, ShapeKept
    <3>2. QED
      BY <1>2, <2>1, <3>1 DEF ShapeOf
  <2> HIDE DEF new
  <2>3. Rest(new) \in Seq(Char) /\ Len(Rest(new)) \in 0 .. Longest
    BY <1>2, <1>4, <2>2, RestFacts
  <2> DEFINE r == Len(Rest(new))
  <2>4. /\ r \in Nat /\ w.written + r <= (n + 1) * Longest
        /\ w.written + r + 1 <= 2 * FAT_WIDTH /\ w.written < 2 * FAT_WIDTH
    BY <1>2, <2>1, <2>3, SizeFacts
  <2>5. CASE ~Overflows(new)
    <3>1. out = new /\ GoesOn(out)
      BY <2>2, <2>5 DEF GoesOn
    <3>2. PICK v : v = Put(new, Rest(new))
      OBVIOUS
    <3>3. StoreEntry(dir, w, e) = v
      BY <1>1, <1>6, <3>1, <3>2
    <3>4. /\ ShapeOf(v) /\ v.written = w.written + r
          /\ v.fat = w.fat /\ v.block = w.block /\ v.skip = w.skip /\ v.store = printed
          /\ v.status = "FILEOK" /\ v.harm = "none"
      <4>1. PutSays(new, r, v)
        BY <2>2, <3>2, PutFacts
      <4> HIDE DEF r
      <4>2. QED
        BY <4>1, <2>2 DEF PutSays
    <3>5. (w.written % FAT_WIDTH) + r + 1 <= FAT_WIDTH
      <4>1. ~((w.written % FAT_WIDTH) + r + 1 > FAT_WIDTH)
        BY <2>2, <2>5 DEF Overflows
      <4>2. w.written % FAT_WIDTH \in Int /\ FAT_WIDTH \in Int
        BY <1>2, GeometryAssumption
      <4>3. QED
        BY <4>1, <4>2, <2>4
    <3> HIDE DEF r
    <3>6. w.written + r \in Nat
      BY <2>4, <1>2
    <3>7. \/ v.block = 0 /\ v.written < FAT_WIDTH
          \/ v.block \in Block /\ v.written >= FAT_WIDTH
      <4>1. CASE w.block = 0 /\ w.written < FAT_WIDTH
        BY <4>1, <3>4, <3>5, <1>2, <2>4, Offset, SizeFacts
      <4>2. CASE w.block \in Block /\ w.written >= FAT_WIDTH
        BY <4>2, <3>4, <1>2, <2>4, SizeFacts
      <4>3. QED
        BY <4>1, <4>2, <1>2, <2>1
    <3>8. StoreInv(dir, t, n + 1, v)
      BY <1>2, <1>4, <2>4, <3>4, <3>6, <3>7 DEF StoreInv
    <3>9. QED
      BY <3>3, <3>8
  <2>6. CASE Overflows(new)
    <3>1. out = NextBlock(dir, new)
      BY <2>6
    <3>2. (w.written % FAT_WIDTH) + r + 1 > FAT_WIDTH
      BY <2>2, <2>6 DEF Overflows
    <3>3. w.block = 0 /\ w.written < FAT_WIDTH
      <4>1. CASE w.written >= FAT_WIDTH
        <5>1. w.written % FAT_WIDTH = w.written - FAT_WIDTH
          BY <4>1, <2>4, <1>2, Offset
        <5>2. QED
          BY <5>1, <3>2, <2>4, <1>2, SizeFacts
      <4>2. QED
        BY <4>1, <1>2, <2>1
    <3>4. w.written % FAT_WIDTH = w.written
      BY <3>3, <1>2, Offset
    <3> DEFINE k == FAT_WIDTH - w.written
               b == DetermineBlock(dir, w.fat)
    <3>5. Room(new) = k /\ k \in 1 .. r
      <4>1. Room(new) = k
        BY <2>2, <3>4 DEF Room
      <4>2. FAT_WIDTH \in Nat /\ w.written \in Nat /\ w.written < FAT_WIDTH
            /\ w.written + r + 1 > FAT_WIDTH
        BY <1>2, <3>2, <3>3, <3>4, SizeFacts
      <4> HIDE DEF r
      <4>3. k \in 1 .. r
        BY <2>4, <4>2
      <4>4. QED
        BY <4>1, <4>3
    <3>6. Len(SubSeq(Rest(new), 1, k)) = k
      BY <2>3, <3>5
    <3>7. /\ ShapeOf(out) /\ out.written = FAT_WIDTH
          /\ out.skip = w.skip + k /\ out.store = printed
          /\ out.harm = SearchHarm(dir, w.fat)
          /\ b = MEMFULL => out.fat = w.fat /\ out.status = "MEMFULL"
          /\ b # MEMFULL =>
               /\ out.fat = [w.fat EXCEPT ![0] = b]
               /\ out.block = b /\ out.status = "FILEOK"
      <4>1. NextSays(dir, new, b, out)
        <5>1. NextSays(dir, new, DetermineBlock(dir, new.fat), NextBlock(dir, new))
          BY <2>2, NextBlockFacts
        <5> HIDE DEF out
        <5>2. QED
          BY <5>1, <2>2, <3>1
      <4>2. w.written + k = FAT_WIDTH
        BY <1>2, SizeFacts
      <4> HIDE DEF out, k, b
      <4>3. out.written = FAT_WIDTH /\ out.skip = w.skip + k /\ out.store = printed
        BY <4>1, <4>2, <2>2, <3>5, <3>6 DEF NextSays
      <4>4. QED
        BY <4>1, <4>3, <2>2, <3>3 DEF NextSays
    <3> HIDE DEF out, b
    <3>8. /\ out.harm = "none"
          /\ b # MEMFULL => b \in Block /\ \A s \in Heads(dir) : b \notin Chain(w.fat, s)
      <4>1. Sound(Heads(dir), w.fat)
        BY <1>2 DEF TableKept
      <4>2. QED
        BY <4>1, <3>7, SearchFacts DEF b
    <3>9. out.skip \in Nat /\ IsBuffer(out.store) /\ out.written \in Nat
      BY <3>5, <3>7, <1>2, <1>4, SizeFacts
    <3>10. CASE b = MEMFULL
      <4>1. StoreEntry(dir, w, e) = out
        <5>1. ~GoesOn(out)
          BY <3>7, <3>10 DEF GoesOn
        <5>2. QED
          BY <5>1, <1>1, <1>6 DEF out
      <4>2. TableKept(dir, t, out.fat)
        BY <3>7, <3>10, <1>2
      <4>3. out.status = "MEMFULL"
        BY <3>7, <3>10
      <4>4. StoreInv(dir, t, n + 1, out)
        BY <4>2, <4>3, <3>7, <3>8, <3>9 DEF StoreInv
      <4>5. QED
        BY <4>1, <4>4
    <3>11. CASE b # MEMFULL
      <4>1. PICK v : v = Put(out, Rest(out))
        OBVIOUS
      <4>2. StoreEntry(dir, w, e) = v
        <5>1. GoesOn(out)
          BY <3>7, <3>8, <3>11 DEF GoesOn
        <5>2. QED
          BY <5>1, <1>1, <1>6, <4>1 DEF out
      <4>3. Rest(out) \in Seq(Char) /\ Len(Rest(out)) \in 0 .. r - k
        <5>1. Len(Rest(out)) \in 0 .. r - k
          BY <1>2, <1>4, <2>2, <3>5, <3>7, RestAfter
        <5>2. QED
          BY <5>1, <3>9, RestFacts
      <4>4. /\ ShapeOf(v) /\ v.written = FAT_WIDTH + Len(Rest(out))
            /\ v.fat = out.fat /\ v.block = b /\ v.skip = out.skip /\ v.store = out.store
            /\ v.status = "FILEOK" /\ v.harm = "none"
        <5>1. /\ ShapeOf(v) /\ v.written = out.written + Len(Rest(out))
              /\ v.fat = out.fat /\ v.block = out.block /\ v.skip = out.skip
              /\ v.store = out.store /\ v.status = out.status /\ v.harm = out.harm
          BY <3>7, <4>1, PutFacts DEF PutSays
        <5>2. QED
          BY <5>1, <3>7, <3>8, <3>11
      <4>5. v.written \in Nat /\ v.written <= (n + 1) * Longest /\ v.written >= FAT_WIDTH
        <5>1. FAT_WIDTH + (r - k) = w.written + r
          BY <1>2, <2>4, SizeFacts
        <5> HIDE DEF r, k
        <5>2. r \in Nat /\ k \in Nat /\ k <= r
          BY <2>4, <3>5
        <5>3. Len(Rest(out)) \in Nat /\ FAT_WIDTH + Len(Rest(out)) <= w.written + r
          BY <4>3, <5>1, <5>2, <1>2, SizeFacts
        <5>4. (n + 1) * Longest \in Nat
          BY SizeFacts
        <5>5. QED
          BY <4>4, <5>2, <5>3, <5>4, <2>4, <1>2, SizeFacts
      <4>6. TableKept(dir, t, out.fat)
        <5>1. w.fat \in Table /\ 0 \in Block
          BY <1>2, SoundSays, BlockFacts DEF TableKept
        <5>2. out.fat \in Table /\ out.fat[0] = b
              /\ \A c \in Block : c # 0 => out.fat[c] = w.fat[c]
          BY <5>1, <3>7, <3>8, <3>11 DEF Table
        <5>3. QED
          BY <5>2, <3>8, <3>11, <1>2, BlockLinked
      <4>7. StoreInv(dir, t, n + 1, v)
        BY <4>4, <4>5, <4>6, <3>8, <3>9, <3>11 DEF StoreInv
      <4>8. QED
        BY <4>2, <4>7
    <3>12. QED
      BY <3>10, <3>11
  <2>7. QED
    BY <2>5, <2>6
<1>7. QED
  BY <1>5, <1>6


\* k_storeDirectory leaves the chains of the files alone, and the directory in
\* two blocks at most.
LEMMA StoreKeeps ==
  ASSUME NEW dir, GoodDir(dir), NEW t, Sound(Heads(dir), t), NearEnd(t, 0)
  PROVE  /\ TableKept(dir, t, Store(dir, t).fat)
         /\ Store(dir, t).status \in {"FILEOK", "MEMFULL"} /\ Store(dir, t).harm = "none"
<1> DEFINE N == Len(Entries(dir))
<1>1. /\ N \in Nat /\ N <= Cardinality(Name) + 1 /\ Cardinality(Name) + 1 \in Nat
      /\ \A n \in 1 .. N : IsEntry(Entries(dir)[n])
  BY EntriesFacts, SizeFacts DEF IsEntry
<1>2. PICK g : /\ \A k \in 0 .. N :
                    g[k] = IF k = 0 THEN Fresh(t)
                           ELSE StoreEntry(dir, g[k - 1], Entries(dir)[k])
               /\ Store(dir, t) = IF GoesOn(g[N]) THEN Put(g[N], <<Zero>>) ELSE g[N]
  BY <1>1, StoreSteps
<1> HIDE DEF N
<1> DEFINE S == {k \in Nat : k <= N => StoreInv(dir, t, k, g[k])}
<1>3. StoreInv(dir, t, 0, Fresh(t))
  <2> DEFINE w == Fresh(t)
  <2>1. /\ ShapeOf(w) /\ w.fat = t /\ w.block = 0 /\ w.written = 0 /\ w.skip = 0
        /\ w.store = <<>> /\ w.status = "FILEOK" /\ w.harm = "none"
    BY DEF Fresh, ShapeOf
  <2> HIDE DEF w
  <2>2. IsBuffer(w.store)
    <3>1. <<>> \in Seq(Char) /\ Len(<<>>) = 0
      OBVIOUS
    <3>2. QED
      BY <3>1, <2>1, SizeFacts DEF IsBuffer
  <2>3. TableKept(dir, t, w.fat)
    BY <2>1 DEF TableKept
  <2>4. w.written <= 0 * Longest /\ w.written < FAT_WIDTH
    BY <2>1, SizeFacts
  <2>5. StoreInv(dir, t, 0, w)
    BY <2>1, <2>2, <2>3, <2>4 DEF StoreInv
  <2>6. QED
    BY <2>5 DEF w
<1>4. 0 \in S
  BY <1>1, <1>2, <1>3
<1>5. ASSUME NEW k \in Nat, k \in S PROVE k + 1 \in S
  <2>1. CASE k + 1 <= N
    <3>1. k + 1 \in 0 .. N /\ k + 1 \in 1 .. N /\ k + 1 # 0 /\ (k + 1) - 1 = k
          /\ k < Cardinality(Name) + 1
      BY <2>1, <1>1
    <3>2. StoreInv(dir, t, k, g[k])
      BY <1>5, <2>1, <1>1
    <3>3. g[k + 1] = StoreEntry(dir, g[k], Entries(dir)[k + 1])
      BY <3>1, <1>2
    <3>4. StoreInv(dir, t, k + 1, StoreEntry(dir, g[k], Entries(dir)[k + 1]))
      BY <3>1, <3>2, <1>1, StoreEntryKeeps
    <3>5. QED
      BY <3>3, <3>4
  <2>2. CASE ~(k + 1 <= N)
    BY <2>2
  <2>3. QED
    BY <2>1, <2>2
<1>6. Nat \subseteq S
  <2> HIDE DEF S
  <2>1. QED
    BY <1>4, <1>5, SetInduction
<1>7. StoreInv(dir, t, N, g[N])
  BY <1>1, <1>6
<1>8. /\ ShapeOf(g[N]) /\ TableKept(dir, t, g[N].fat)
      /\ g[N].status \in {"FILEOK", "MEMFULL"} /\ g[N].harm = "none"
  BY <1>7 DEF StoreInv
<1>9. CASE GoesOn(g[N])
  <2>1. PutSays(g[N], Len(<<Zero>>), Put(g[N], <<Zero>>))
    BY <1>8, PutFacts
  <2>2. Store(dir, t) = Put(g[N], <<Zero>>)
    BY <1>2, <1>9
  <2>3. QED
    BY <2>1, <2>2, <1>8 DEF PutSays
<1>10. CASE ~GoesOn(g[N])
  BY <1>2, <1>8, <1>10
<1>11. QED
  BY <1>9, <1>10

-------------------------------------------------------------------------------
(* The calls keep the invariant.                                             *)

\* Links of a file that stay leave its last block near the end of its chain.
LEMMA EndsKept ==
  ASSUME NEW dir, NEW disk, NEW t, NEW u, Ends(disk, t),
         \A i \in DOMAIN dir : \E j \in DOMAIN disk :
           /\ dir[i].start = disk[j].start /\ dir[i].size = disk[j].size
           /\ disk[j].size \in Nat /\ ~Cyclic(t, disk[j].start)
           /\ \A c \in Chain(t, disk[j].start) : u[c] = t[c]
  PROVE  Ends(dir, u)
<1>1. ASSUME NEW i \in DOMAIN dir PROVE NearEnd(u, Walk(u, dir[i].start, dir[i].size))
  <2>1. PICK j \in DOMAIN disk :
           /\ dir[i].start = disk[j].start /\ dir[i].size = disk[j].size
           /\ disk[j].size \in Nat /\ ~Cyclic(t, disk[j].start)
           /\ \A c \in Chain(t, disk[j].start) : u[c] = t[c]
    OBVIOUS
  <2>2. NearEnd(t, Walk(t, disk[j].start, disk[j].size))
    BY DEF Ends
  <2>3. NearEnd(u, Walk(u, disk[j].start, disk[j].size))
    BY <2>1, <2>2, NearEndKept
  <2>4. QED
    BY <2>1, <2>3
<1>2. QED
  BY <1>1 DEF Ends

\* What is stored is a directory, in a table in which its chains are apart.
WellStored ==
  \E dir, t : /\ GoodDir(dir) /\ Sound(Heads(dir), t) /\ NearEnd(t, 0)
             /\ StoreDirectory(dir, t)

\* A directory stored in a table in which its files are whole is the new state.
LEMMA Stored ==
  ASSUME NEW dir, GoodDir(dir), NEW t, Sound(Heads(dir), t), NearEnd(t, 0), Ends(dir, t),
         files' = dir, StoreDirectory(dir, t)
  PROVE  DirInv' /\ WellStored
<1> DEFINE w == Store(dir, t)
<1>1. TableKept(dir, t, w.fat) /\ w.status \in {"FILEOK", "MEMFULL"} /\ w.harm = "none"
  BY StoreKeeps
<1>2. /\ fat' = w.fat /\ status' = w.status /\ harm' = w.harm
      /\ stored' = dir /\ files' = dir
  BY DEF StoreDirectory
<1> HIDE DEF w
<1>3. Ends(dir, w.fat)
  <2>1. ASSUME NEW i \in DOMAIN dir
        PROVE  /\ dir[i].size \in Nat /\ ~Cyclic(t, dir[i].start)
               /\ \A c \in Chain(t, dir[i].start) : w.fat[c] = t[c]
    <3>1. dir[i].start \in Heads(dir) /\ dir[i].start # 0 /\ dir[i].size \in 0 .. MaxBlocks
      BY DirFacts
    <3>2. dir[i].size \in Nat
      BY <3>1, LengthAssumption
    <3>3. QED
      BY <3>1, <3>2, <1>1, SoundSays DEF TableKept
  <2>2. QED
    BY <2>1, EndsKept
<1>4. SameFiles(dir, dir)
  BY DEF SameFiles
<1>5. WellStored
  BY DEF WellStored
<1>6. QED
  BY <1>1, <1>2, <1>3, <1>4, <1>5 DEF DirInv, TableKept


\* What the invariant says of the files, each with what a store needs of it.
LEMMA InvFacts ==
  ASSUME DirInv
  PROVE  /\ files \in Seq(FileEntry) /\ Len(files) \in Nat /\ DOMAIN files = 1 .. Len(files)
         /\ Sound(Heads(files), fat) /\ fat \in Table /\ NearEnd(fat, 0)
         /\ \A i \in DOMAIN files :
              /\ files[i].start \in Heads(files) /\ files[i].start \in Block \ {0}
              /\ files[i].size \in Nat /\ files[i].name \in Name
              /\ ~Cyclic(fat, files[i].start)
              /\ NearEnd(fat, Walk(fat, files[i].start, files[i].size))
         /\ 0 \in Heads(files) /\ ~Cyclic(fat, 0)
<1>1. GoodDir(files) /\ Sound(Heads(files), fat) /\ NearEnd(fat, 0) /\ Ends(files, fat)
  BY DEF DirInv
<1>2. \A n \in 0 .. MaxBlocks : n \in Nat
  BY LengthAssumption
<1>3. 0 \in Heads(files)
  BY <1>1, DirFacts
<1>4. \A r \in Heads(files) : ~Cyclic(fat, r)
  BY <1>1, SoundSays
<1>5. \A i \in DOMAIN files :
        /\ files[i].start \in Heads(files) /\ files[i].start \in Block \ {0}
        /\ files[i].size \in Nat /\ files[i].name \in Name
  BY <1>1, <1>2, DirFacts
<1>6. \A i \in DOMAIN files : NearEnd(fat, Walk(fat, files[i].start, files[i].size))
  BY <1>1 DEF Ends
<1>7. files \in Seq(FileEntry) /\ Len(files) \in Nat /\ DOMAIN files = 1 .. Len(files)
      /\ fat \in Table
  BY <1>1, DirFacts, SoundSays
<1>8. QED
  BY <1>1, <1>3, <1>4, <1>5, <1>6, <1>7

\* f_open of a new file.
LEMMA CreateKeeps ==
  ASSUME DirInv, NEW f \in Name, Create(f)
  PROVE  DirInv' /\ WellStored
<1> DEFINE b == DetermineBlock(files, fat)
           new == [name |-> f, start |-> b, size |-> 0]
           dir == Append(files, new)
           t == CleanFat(fat, b)
           n == Len(files)
<1>1. /\ Named(files, f) = {} /\ b # MEMFULL
      /\ files' = dir /\ StoreDirectory(dir, t)
  BY DEF Create
<1>2. GoodDir(files) /\ Sound(Heads(files), fat)
  BY DEF DirInv
<1>3. b \in Block \ {0} /\ \A r \in Heads(files) : b \notin Chain(fat, r)
  BY <1>1, <1>2, SearchFacts
<1> HIDE DEF b
<1>4. new \in FileEntry /\ new.name = f /\ new.start = b /\ new.size = 0
  BY <1>3, LengthAssumption DEF FileEntry
<1> HIDE DEF new
<1>5. /\ files \in Seq(FileEntry) /\ n \in Nat /\ DOMAIN files = 1 .. n
      /\ dir \in Seq(FileEntry) /\ DOMAIN dir = 1 .. n + 1
      /\ \A i \in DOMAIN files : dir[i] = files[i]
      /\ dir[n + 1] = new
  BY <1>4, InvFacts
<1> HIDE DEF dir, n
<1>6. \A i \in DOMAIN files : files[i].name # f /\ files[i].start # b
  <2>1. \A i \in DOMAIN files : files[i].name # f
    BY <1>1 DEF Named
  <2>2. \A r \in Heads(files) : r \in Chain(fat, r)
    BY <1>2, SoundSays, ChainHead
  <2>3. QED
    BY <2>1, <2>2, <1>3, InvFacts
<1>7. \A i \in DOMAIN dir : i \in DOMAIN files \/ i = n + 1
  BY <1>5
<1>8. GoodDir(dir)
  <2>1. \A i, j \in DOMAIN files :
          i # j => files[i].name # files[j].name /\ files[i].start # files[j].start
    BY <1>2, DirFacts
  <2>2. ASSUME NEW i \in DOMAIN dir, NEW j \in DOMAIN dir, i # j
        PROVE  dir[i].name # dir[j].name /\ dir[i].start # dir[j].start
    <3>1. CASE i \in DOMAIN files /\ j \in DOMAIN files
      BY <3>1, <2>1, <2>2, <1>5
    <3>2. CASE i \in DOMAIN files /\ j = n + 1
      BY <3>2, <1>4, <1>5, <1>6
    <3>3. CASE i = n + 1 /\ j \in DOMAIN files
      BY <3>3, <1>4, <1>5, <1>6
    <3>4. QED
      BY <3>1, <3>2, <3>3, <2>2, <1>7
  <2>3. QED
    BY <2>2, <1>5 DEF GoodDir
<1>9. Heads(dir) = Heads(files) \cup {b}
  <2>1. n + 1 \in DOMAIN dir /\ \A i \in DOMAIN files : i \in DOMAIN dir
    BY <1>5
  <2>2. {dir[i].start : i \in DOMAIN dir} = {files[i].start : i \in DOMAIN files} \cup {b}
    BY <2>1, <1>4, <1>5, <1>7
  <2>3. QED
    BY <2>2 DEF Heads
<1>10. /\ Sound(Heads(dir), t) /\ \A c \in Block : t[c] = fat[c]
  BY <1>2, <1>3, <1>9, Added
<1>11. fat[b] = END
  BY <1>2, <1>3, SoundSays
<1> HIDE DEF t
<1>12. NearEnd(t, 0)
  BY <1>10, InvFacts, BlockFacts DEF NearEnd
<1>13. Ends(dir, t)
  <2>1. ASSUME NEW i \in DOMAIN files
        PROVE  NearEnd(t, Walk(t, files[i].start, files[i].size))
    <3>1. \A c \in Chain(fat, files[i].start) : t[c] = fat[c]
      BY <1>10 DEF Chain
    <3>2. QED
      BY <3>1, InvFacts, NearEndKept
  <2>2. NearEnd(t, Walk(t, b, 0))
    BY <1>3, <1>10, <1>11, WalkZero DEF NearEnd
  <2>3. ASSUME NEW i \in DOMAIN dir PROVE NearEnd(t, Walk(t, dir[i].start, dir[i].size))
    <3>1. CASE i \in DOMAIN files
      BY <3>1, <2>1, <1>5
    <3>2. CASE i = n + 1
      BY <3>2, <2>2, <1>4, <1>5
    <3>3. QED
      BY <3>1, <3>2, <1>7
  <2>4. QED
    BY <2>3 DEF Ends
<1>14. QED
  BY <1>1, <1>8, <1>10, <1>12, <1>13, Stored

\* f_unlink.
LEMMA UnlinkKeeps ==
  ASSUME DirInv, NEW k \in DOMAIN files, Unlink(k)
  PROVE  DirInv' /\ WellStored
<1> DEFINE s == files[k].start
           dir == RemoveAt(files, k)
           t == CleanFat(fat, s)
           n == Len(files)
           old(i) == IF i < k THEN i ELSE i + 1
<1>1. files' = dir /\ StoreDirectory(dir, t)
  BY DEF Unlink
<1>2. GoodDir(files) /\ Sound(Heads(files), fat)
  BY DEF DirInv
<1>3. s \in Heads(files) /\ s # 0
  BY InvFacts
<1>4. files \in Seq(FileEntry) /\ n \in Nat /\ DOMAIN files = 1 .. n /\ k \in 1 .. n
  BY InvFacts
<1>5. /\ dir \in Seq(FileEntry) /\ DOMAIN dir = 1 .. n - 1
      /\ \A i \in 1 .. n - 1 : dir[i] = files[old(i)]
  <2> DEFINE head == SubSeq(files, 1, k - 1)
             rear == SubSeq(files, k + 1, n)
  <2>1. head \in Seq(FileEntry) /\ Len(head) = k - 1 /\ \A i \in 1 .. k - 1 : head[i] = files[i]
    BY <1>4
  <2>2. rear \in Seq(FileEntry) /\ Len(rear) = n - k
        /\ \A i \in 1 .. n - k : rear[i] = files[k + i]
    <3>1. /\ n + 1 - (k + 1) = n - k /\ k + 1 \in 1 .. n + 1 /\ n \in k .. n
          /\ \A i \in 1 .. n - k : k + 1 + i - 1 = k + i /\ k + i \in 1 .. n
      BY <1>4
    <3>2. \A i \in k + 1 .. n : files[i] \in FileEntry
      BY <1>4
    <3> HIDE DEF n
    <3>3. rear \in Seq(FileEntry)
      BY <3>2, <1>4
    <3>4. Len(rear) = n - k /\ \A i \in 1 .. n - k : rear[i] = files[k + 1 + i - 1]
      BY <3>1, <1>4
    <3>5. QED
      BY <3>1, <3>3, <3>4
  <2>3. dir = head \o rear
    BY DEF RemoveAt
  <2> HIDE DEF head, rear, dir, n
  <2>4. /\ dir \in Seq(FileEntry) /\ Len(dir) = Len(head) + Len(rear)
        /\ \A i \in 1 .. Len(head) + Len(rear) :
             dir[i] = IF i <= Len(head) THEN head[i] ELSE rear[i - Len(head)]
    BY <2>1, <2>2, <2>3, ConcatProperties
  <2>5. DOMAIN dir = 1 .. n - 1 /\ Len(head) + Len(rear) = n - 1
    BY <2>1, <2>2, <2>4, <1>4
  <2>6. ASSUME NEW i \in 1 .. n - 1 PROVE dir[i] = files[old(i)]
    <3>1. dir[i] = IF i <= Len(head) THEN head[i] ELSE rear[i - Len(head)]
      BY <2>4, <2>5
    <3>2. CASE i < k
      <4>1. i \in 1 .. k - 1 /\ i <= Len(head)
        BY <3>2, <2>1, <1>4
      <4>2. QED
        BY <4>1, <3>1, <3>2, <2>1
    <3>3. CASE ~(i < k)
      <4>1. i - (k - 1) \in 1 .. n - k /\ k + (i - (k - 1)) = i + 1 /\ ~(i <= Len(head))
        BY <3>3, <2>1, <1>4
      <4>2. QED
        BY <4>1, <3>1, <3>3, <2>1, <2>2
    <3>4. QED
      BY <3>2, <3>3
  <2>7. QED
    BY <2>4, <2>5, <2>6
<1>6. /\ \A i \in 1 .. n - 1 : old(i) \in DOMAIN files /\ old(i) # k
      /\ \A i, j \in 1 .. n - 1 : i # j => old(i) # old(j)
      /\ \A j \in DOMAIN files : j # k => \E i \in 1 .. n - 1 : old(i) = j
  <2>1. \A i \in 1 .. n - 1 : old(i) \in DOMAIN files /\ old(i) # k
    BY <1>4
  <2>2. \A i, j \in 1 .. n - 1 : i # j => old(i) # old(j)
    BY <1>4
  <2>3. ASSUME NEW j \in DOMAIN files, j # k PROVE \E i \in 1 .. n - 1 : old(i) = j
    <3>1. CASE j < k
      <4>1. j \in 1 .. n - 1 /\ old(j) = j
        BY <3>1, <1>4
      <4>2. QED
        BY <4>1
    <3>2. CASE ~(j < k)
      <4>1. j - 1 \in 1 .. n - 1 /\ old(j - 1) = j
        BY <3>2, <2>3, <1>4
      <4>2. QED
        BY <4>1
    <3>3. QED
      BY <3>1, <3>2
  <2>4. QED
    BY <2>1, <2>2, <2>3
<1> HIDE DEF dir, old, n
<1>7. \A i, j \in DOMAIN files :
        i # j => files[i].name # files[j].name /\ files[i].start # files[j].start
  BY <1>2, DirFacts
<1>8. GoodDir(dir)
  BY <1>5, <1>6, <1>7 DEF GoodDir
<1>9. Heads(dir) = Heads(files) \ {s}
  <2>1. {dir[i].start : i \in DOMAIN dir} = {files[i].start : i \in DOMAIN files} \ {s}
    <3>1. ASSUME NEW i \in DOMAIN dir
          PROVE  dir[i].start \in {files[j].start : j \in DOMAIN files} \ {s}
      BY <1>5, <1>6, <1>7
    <3>2. ASSUME NEW j \in DOMAIN files, files[j].start # s
          PROVE  files[j].start \in {dir[i].start : i \in DOMAIN dir}
      BY <3>2, <1>5, <1>6
    <3>3. QED
      BY <3>1, <3>2
  <2>2. QED
    BY <2>1, <1>3 DEF Heads
<1>10. /\ Sound(Heads(dir), t)
       /\ \A r \in Heads(dir) : \A c \in Chain(fat, r) : t[c] = fat[c]
  BY <1>2, <1>3, <1>9, Removed
<1> HIDE DEF t, s
<1>11. NearEnd(t, 0)
  <2>1. \A c \in Chain(fat, 0) : t[c] = fat[c]
    BY <1>8, <1>10, DirFacts
  <2>2. Walk(fat, 0, 0) = 0 /\ Walk(t, 0, 0) = 0
    BY WalkZero
  <2>3. NearEnd(t, Walk(t, 0, 0))
    BY <2>1, <2>2, InvFacts, NearEndKept
  <2>4. QED
    BY <2>2, <2>3
<1>12. Ends(dir, t)
  <2>1. ASSUME NEW i \in DOMAIN dir PROVE NearEnd(t, Walk(t, dir[i].start, dir[i].size))
    <3>1. old(i) \in DOMAIN files /\ dir[i] = files[old(i)]
      BY <1>5, <1>6
    <3>2. dir[i].start \in Heads(dir)
      BY <1>8, DirFacts
    <3>3. /\ ~Cyclic(fat, dir[i].start) /\ dir[i].size \in Nat
          /\ NearEnd(fat, Walk(fat, dir[i].start, dir[i].size))
      BY <3>1, InvFacts
    <3>4. QED
      BY <3>2, <3>3, <1>10, NearEndKept
  <2>2. QED
    BY <2>1 DEF Ends
<1>13. QED
  BY <1>1, <1>8, <1>10, <1>11, <1>12, Stored

\* f_close of a descriptor that is not there, and the other calls that store.
LEMMA RestoreKeeps ==
  ASSUME DirInv, Restore
  PROVE  DirInv' /\ WellStored
BY Stored DEF DirInv, Restore

\* The next mount has the sizes of the last store.
LEMMA MountKeeps ==
  ASSUME DirInv, Mount
  PROVE  DirInv'
<1>1. /\ files' = stored /\ stored' = stored /\ fat' = fat
      /\ status' = status /\ harm' = harm
  BY DEF Mount
<1>2. SameFiles(files, stored)
  BY DEF DirInv
<1>3. Heads(stored) = Heads(files)
  BY <1>2 DEF SameFiles, Heads
<1>4. SameFiles(stored, stored)
  BY DEF SameFiles
<1>5. QED
  BY <1>1, <1>3, <1>4 DEF DirInv


\* f_write that goes on into one more block: the directory is stored first.
LEMMA ExtendKeeps ==
  ASSUME DirInv, NEW k \in DOMAIN files, Extend(k)
  PROVE  DirInv'
<1> DEFINE w == Store(files, fat)
           t == w.fat
           b == DetermineBlock(files, t)
           r == files[k].start
           m == files[k].size
           a == Walk(t, r, m)
           u == [t EXCEPT ![a] = b]
           dir == [files EXCEPT ![k].size = @ + 1]
<1>1. /\ m < MaxBlocks /\ a \in Block /\ b # MEMFULL
      /\ files' = dir /\ fat' = u
      /\ stored' = files /\ status' = w.status /\ harm' = w.harm
  BY DEF Extend
<1>2. GoodDir(files) /\ Sound(Heads(files), fat) /\ NearEnd(fat, 0)
  BY DEF DirInv
<1>3. TableKept(files, fat, t) /\ w.status \in {"FILEOK", "MEMFULL"} /\ w.harm = "none"
  BY <1>2, StoreKeeps
<1> HIDE DEF w
<1>4. /\ Sound(Heads(files), t) /\ NearEnd(t, 0) /\ t \in Table
      /\ \A q \in Heads(files) : ~Cyclic(t, q)
  BY <1>3, SoundSays DEF TableKept
<1>5. b \in Block /\ \A q \in Heads(files) : b \notin Chain(t, q)
  BY <1>1, <1>2, <1>4, SearchFacts
<1>6. \A i \in DOMAIN files : NearEnd(t, Walk(t, files[i].start, files[i].size))
  <2>1. ASSUME NEW i \in DOMAIN files
        PROVE  NearEnd(t, Walk(t, files[i].start, files[i].size))
    <3>1. files[i].start \in Heads(files) /\ files[i].start # 0
      BY InvFacts
    <3>2. \A c \in Chain(fat, files[i].start) : t[c] = fat[c]
      BY <3>1, <1>3 DEF TableKept
    <3>3. QED
      BY <3>2, InvFacts, NearEndKept
  <2>2. QED
    BY <2>1
<1>7. r \in Heads(files) /\ r # 0 /\ m \in Nat /\ NearEnd(t, a)
  BY <1>6, InvFacts
<1>8. u \in Table /\ u[a] = b /\ \A c \in Block : c # a => u[c] = t[c]
  BY <1>1, <1>4, <1>5 DEF Table
<1> HIDE DEF u, b, t
<1>9. /\ Sound(Heads(files), u) /\ u[b] = END
      /\ \A i \in 0 .. m : Walk(u, r, i) = Walk(t, r, i)
      /\ Walk(u, r, m + 1) = b
      /\ \A s \in Heads(files) : s # r => \A c \in Chain(t, s) : u[c] = t[c]
  <2> HIDE DEF r, m
  <2>1. QED
    BY <1>4, <1>5, <1>7, <1>8, Relinked
<1>10. Walk(u, r, m) = a
  <2>1. m \in 0 .. m
    BY <1>7
  <2>2. QED
    BY <2>1, <1>9
<1> HIDE DEF a
<1>11. NearEnd(u, 0)
  <2>1. 0 \in Heads(files) /\ ~Cyclic(t, 0) /\ \A c \in Chain(t, 0) : u[c] = t[c]
    BY <1>4, <1>7, <1>9, InvFacts
  <2>2. Walk(t, 0, 0) = 0 /\ Walk(u, 0, 0) = 0
    BY WalkZero
  <2>3. NearEnd(u, Walk(u, 0, 0))
    BY <2>1, <2>2, <1>4, NearEndKept
  <2>4. QED
    BY <2>2, <2>3
<1>12. \A i \in DOMAIN files : i # k =>
         NearEnd(u, Walk(u, files[i].start, files[i].size))
  <2>1. ASSUME NEW i \in DOMAIN files, i # k
        PROVE  NearEnd(u, Walk(u, files[i].start, files[i].size))
    <3>1. files[i].start \in Heads(files) /\ files[i].start # r /\ files[i].size \in Nat
      BY <2>1, <1>2, InvFacts, DirFacts
    <3>2. /\ ~Cyclic(t, files[i].start)
          /\ \A c \in Chain(t, files[i].start) : u[c] = t[c]
      BY <3>1, <1>4, <1>9
    <3>3. QED
      BY <3>1, <3>2, <1>6, NearEndKept
  <2>2. QED
    BY <2>1
<1>13. NearEnd(u, a) /\ NearEnd(u, b)
  BY <1>1, <1>5, <1>8, <1>9 DEF NearEnd
<1>14. Ends(files, u)
  BY <1>10, <1>12, <1>13 DEF Ends
<1>15. /\ files \in Seq(FileEntry) /\ DOMAIN files = 1 .. Len(files) /\ Len(files) \in Nat
       /\ \A i \in DOMAIN files : files[i] \in FileEntry
  BY <1>2, DirFacts
<1>16. /\ DOMAIN dir = DOMAIN files
       /\ \A i \in DOMAIN files :
            /\ dir[i].name = files[i].name /\ dir[i].start = files[i].start
            /\ dir[i].size = IF i = k THEN m + 1 ELSE files[i].size
            /\ dir[i] \in FileEntry
  <2>1. m + 1 \in 0 .. MaxBlocks
    BY <1>1, <1>7, LengthAssumption
  <2>2. DOMAIN dir = DOMAIN files
    BY <1>15
  <2>3. \A i \in DOMAIN files :
          dir[i] = IF i = k THEN [files[i] EXCEPT !.size = m + 1] ELSE files[i]
    BY <1>15
  <2> HIDE DEF dir
  <2>4. ASSUME NEW i \in DOMAIN files
        PROVE  /\ dir[i].name = files[i].name /\ dir[i].start = files[i].start
               /\ dir[i].size = IF i = k THEN m + 1 ELSE files[i].size
               /\ dir[i] \in FileEntry
    <3>1. files[i] \in FileEntry
      BY <1>15
    <3>2. CASE i = k
      <4>1. dir[i] = [files[i] EXCEPT !.size = m + 1]
        BY <3>2, <2>3
      <4>2. QED
        BY <3>1, <3>2, <4>1, <2>1 DEF FileEntry
    <3>3. CASE i # k
      BY <3>1, <3>3, <2>3
    <3>4. QED
      BY <3>2, <3>3
  <2>5. QED
    BY <2>2, <2>4
<1>17. dir \in Seq(FileEntry)
  <2>1. dir = [i \in 1 .. Len(files) |-> dir[i]]
    BY <1>15
  <2> HIDE DEF dir
  <2>2. QED
    BY <2>1, <1>15, <1>16
<1> HIDE DEF dir
<1>18. GoodDir(dir)
  BY <1>2, <1>16, <1>17 DEF GoodDir
<1>19. Heads(dir) = Heads(files) /\ SameFiles(dir, files)
  BY <1>16 DEF Heads, SameFiles
<1>20. Ends(dir, u)
  <2>1. ASSUME NEW i \in DOMAIN dir PROVE NearEnd(u, Walk(u, dir[i].start, dir[i].size))
    <3>1. CASE i = k
      BY <3>1, <1>9, <1>13, <1>16
    <3>2. CASE i # k
      BY <3>2, <1>12, <1>16
    <3>3. QED
      BY <3>1, <3>2
  <2>2. QED
    BY <2>1 DEF Ends
<1>21. QED
  BY <1>1, <1>2, <1>3, <1>9, <1>11, <1>14, <1>18, <1>19, <1>20 DEF DirInv

LEMMA InitKeeps == InitDirectory => DirInv
<1> SUFFICES ASSUME InitDirectory PROVE DirInv
  OBVIOUS
<1>1. files = <<>> /\ stored = <<>> /\ fat = EmptyFat /\ status = "FILEOK" /\ harm = "none"
  BY DEF InitDirectory
<1>2. Heads(files) = {0} /\ DOMAIN files = {} /\ DOMAIN stored = {}
  BY <1>1 DEF Heads
<1>3. GoodDir(files) /\ GoodDir(stored)
  BY <1>1, <1>2 DEF GoodDir
<1>4. fat \in Table /\ \A b \in Block : fat[b] = END
  BY <1>1 DEF EmptyFat, Table
<1>5. 0 \in Block /\ ~Cyclic(fat, 0)
  BY <1>4, AloneChain, BlockFacts
<1>6. Sound({0}, fat) /\ NearEnd(fat, 0)
  BY <1>4, <1>5 DEF Sound, NearEnd
<1>7. Ends(files, fat) /\ Ends(stored, fat) /\ SameFiles(files, stored)
  BY <1>2 DEF Ends, SameFiles
<1>8. QED
  BY <1>1, <1>2, <1>3, <1>6, <1>7 DEF DirInv

\* What every call keeps: each file and the directory have a chain of their own,
\* the directory's has two blocks at most, and files and stored list the same.
LEMMA InvHolds == DirectorySpec => []DirInv
<1>1. ASSUME DirInv, [NextDirectory]_directoryVars PROVE DirInv'
  <2>1. ASSUME NEW f \in Name, Create(f) PROVE DirInv'
    BY <1>1, <2>1, CreateKeeps
  <2>2. ASSUME NEW i \in DOMAIN files, Unlink(i) PROVE DirInv'
    BY <1>1, <2>2, UnlinkKeeps
  <2>3. ASSUME NEW i \in DOMAIN files, Extend(i) PROVE DirInv'
    BY <1>1, <2>3, ExtendKeeps
  <2>4. CASE Restore
    BY <1>1, <2>4, RestoreKeeps
  <2>5. CASE Mount
    BY <1>1, <2>5, MountKeeps
  <2>6. CASE UNCHANGED directoryVars
    BY <1>1, <2>6 DEF directoryVars, DirInv
  <2>7. QED
    BY <1>1, <2>1, <2>2, <2>3, <2>4, <2>5, <2>6 DEF NextDirectory
<1>2. QED
  BY InitKeeps, <1>1, PTL DEF DirectorySpec

-------------------------------------------------------------------------------
(* The theorems.                                                             *)

\* However the directory and the files grow and shrink, each file has a start on
\* the disc and a name of its own, and every link leads to a block or ends a chain.
THEOREM DirectoryTypes == DirectorySpec => []DirectoryTypeOK
<1>1. ASSUME DirInv PROVE DirectoryTypeOK
  <2>1. GoodDir(files) /\ fat \in Table /\ status \in {"FILEOK", "MEMFULL"}
    BY <1>1, InvFacts DEF DirInv
  <2>2. IsInjective([i \in DOMAIN files |-> files[i].name])
    BY <2>1, DirFacts DEF IsInjective
  <2>3. QED
    BY <2>1, <2>2, DirFacts DEF DirectoryTypeOK, Table
<1>2. QED
  BY InvHolds, <1>1, PTL

\* The blocks of the directory, two at most, and those of each file are apart, and
\* every search for a block ends: for any names whose text fits in two blocks, with
\* what a longer entry leaves in the buffer counted, and any number of blocks.
THEOREM DirectoryStaysApart == DirectorySpec => []DirectoryApart
<1>1. ASSUME DirInv PROVE DirectoryApart
  <2>1. harm = "none" /\ NearEnd(fat, 0) /\ ~Cyclic(fat, 0)
    BY <1>1, InvFacts DEF DirInv
  <2>2. Chain(fat, 0) \subseteq {0, fat[0]}
    <3>1. Walk(fat, 0, 0) = 0 /\ Walk(fat, 0, 0 + 1) = fat[0]
      BY WalkZero, WalkNext, BlockFacts
    <3>2. Walk(fat, 0, 1) = fat[0]
      BY <3>1
    <3>3. Walk(fat, 0, 1 + 1) \notin Block
      BY <2>1, <3>2, WalkNext, BlockFacts DEF NearEnd
    <3>4. \A i \in Nat : i > 1 => Walk(fat, 0, i) \notin Block
      <4>1. 1 + 1 \in Nat /\ \A i \in Nat : i > 1 => i = 1 + 1 \/ i > 1 + 1
        OBVIOUS
      <4>2. \A i \in Nat : i > 1 + 1 => Walk(fat, 0, i) = END
        BY <3>3, WalkPast
      <4>3. QED
        BY <4>1, <4>2, <3>3, BlockFacts
    <3>5. ASSUME NEW c \in Chain(fat, 0) PROVE c \in {0, fat[0]}
      <4>1. PICK i \in Nat : c = Walk(fat, 0, i) /\ c \in Block
        BY <2>1, ChainIsWalk
      <4>2. i = 0 \/ i = 1
        BY <4>1, <3>4
      <4>3. QED
        BY <4>1, <4>2, <3>1, <3>2
    <3>6. QED
      BY <3>5
  <2>3. Cardinality(Chain(fat, 0)) <= 2
    <3>1. IsFiniteSet({0}) /\ Cardinality({0}) = 1
      BY FS_Singleton
    <3>2. /\ IsFiniteSet({0} \cup {fat[0]})
          /\ Cardinality({0} \cup {fat[0]}) =
               IF fat[0] \in {0} THEN Cardinality({0}) ELSE Cardinality({0}) + 1
      BY <3>1, FS_AddElement
    <3>3. Chain(fat, 0) \in SUBSET ({0} \cup {fat[0]})
      BY <2>2
    <3>4. IsFiniteSet(Chain(fat, 0))
          /\ Cardinality(Chain(fat, 0)) <= Cardinality({0} \cup {fat[0]})
      BY <3>2, <3>3, FS_Subset
    <3>5. Cardinality(Chain(fat, 0)) \in Nat
      BY <3>4, FS_CardinalityType
    <3>6. QED
      BY <3>1, <3>2, <3>4, <3>5
  <2>4. ASSUME NEW i \in DOMAIN Starts(files), NEW j \in DOMAIN Starts(files), i # j
        PROVE  Chain(fat, Starts(files)[i]) \cap Chain(fat, Starts(files)[j]) = {}
    <3>1. /\ files \in Seq(FileEntry) /\ DOMAIN files = 1 .. Len(files) /\ Len(files) \in Nat
          /\ Sound(Heads(files), fat) /\ 0 \in Heads(files)
          /\ \A n \in DOMAIN files : files[n].start \in Heads(files) /\ files[n].start # 0
          /\ \A n, m \in DOMAIN files : n # m => files[n].start # files[m].start
      BY <1>1, InvFacts, DirFacts DEF DirInv
    <3>2. /\ DOMAIN Starts(files) = 1 .. Len(files) + 1 /\ Starts(files)[1] = 0
          /\ \A n \in DOMAIN files : Starts(files)[n + 1] = files[n].start
      BY <3>1, StartsFacts
    <3>3. ASSUME NEW n \in DOMAIN Starts(files)
          PROVE  n = 1 \/ (n - 1 \in DOMAIN files /\ Starts(files)[n] = files[n - 1].start)
      <4>1. CASE n # 1
        <5>1. n - 1 \in DOMAIN files /\ (n - 1) + 1 = n
          BY <4>1, <3>1, <3>2
        <5>2. QED
          BY <5>1, <3>2
      <4>2. QED
        BY <4>1
    <3>4. /\ Starts(files)[i] \in Heads(files) /\ Starts(files)[j] \in Heads(files)
          /\ Starts(files)[i] # Starts(files)[j]
      <4>1. CASE i = 1
        BY <4>1, <2>4, <3>1, <3>2, <3>3
      <4>2. CASE j = 1
        BY <4>2, <2>4, <3>1, <3>2, <3>3
      <4>3. CASE i # 1 /\ j # 1
        <5>1. i - 1 # j - 1
          BY <2>4, <3>1, <3>2
        <5>2. QED
          BY <5>1, <4>3, <3>1, <3>3
      <4>4. QED
        BY <4>1, <4>2, <4>3
    <3>5. QED
      BY <3>1, <3>4, SoundSays
  <2>5. QED
    BY <2>1, <2>3, <2>4 DEF DirectoryApart
<1>2. QED
  BY InvHolds, <1>1, PTL

-------------------------------------------------------------------------------
(* Where the text of an entry begins.                                        *)

IsBefore(g, dir, n) ==
  g = [m \in 1 .. n |-> IF m = 1 THEN 0 ELSE g[m - 1] + Len(Text(Entries(dir)[m - 1]))]

\* The recursive definition inside TextBefore has a solution.
LEMMA BeforeExists ==
  ASSUME NEW dir
  PROVE  \A n \in Nat : \E g : IsBefore(g, dir, n)
<1> DEFINE S == {n \in Nat : \E g : IsBefore(g, dir, n)}
<1>1. 0 \in S
  <2>1. IsBefore([m \in 1 .. 0 |-> 0], dir, 0)
    BY DEF IsBefore
  <2>2. QED
    BY <2>1
<1>2. ASSUME NEW n \in Nat, n \in S PROVE n + 1 \in S
  <2>1. PICK g : IsBefore(g, dir, n)
    BY <1>2
  <2> DEFINE next == IF n + 1 = 1 THEN 0 ELSE g[n] + Len(Text(Entries(dir)[n]))
             h == [m \in 1 .. n + 1 |-> IF m <= n THEN g[m] ELSE next]
  <2> HIDE DEF next
  <2>2. \A m \in 1 .. n : h[m] = g[m]
    OBVIOUS
  <2>3. h[n + 1] = next
    OBVIOUS
  <2>4. h = [m \in 1 .. n + 1 |-> h[m]]
    OBVIOUS
  <2> HIDE DEF h
  <2>5. \A m \in 1 .. n :
          g[m] = IF m = 1 THEN 0 ELSE g[m - 1] + Len(Text(Entries(dir)[m - 1]))
    BY <2>1 DEF IsBefore
  <2>6. ASSUME NEW m \in 1 .. n + 1
        PROVE  h[m] = IF m = 1 THEN 0 ELSE h[m - 1] + Len(Text(Entries(dir)[m - 1]))
    <3>1. CASE m # n + 1
      <4>1. m \in 1 .. n /\ (m # 1 => m - 1 \in 1 .. n)
        BY <3>1
      <4>2. QED
        BY <4>1, <2>2, <2>5
    <3>2. CASE m = n + 1
      <4>1. n # 0 => n \in 1 .. n
        OBVIOUS
      <4>2. (m = 1 <=> n = 0) /\ m - 1 = n
        BY <3>2
      <4>3. QED
        BY <4>1, <4>2, <3>2, <2>2, <2>3 DEF next
    <3>3. QED
      BY <3>1, <3>2
  <2>7. IsBefore(h, dir, n + 1)
    BY <2>4, <2>6 DEF IsBefore
  <2>8. QED
    BY <2>7
<1>3. Nat \subseteq S
  <2> HIDE DEF S
  <2>1. QED
    BY <1>1, <1>2, SetInduction
<1>4. QED
  BY <1>3

LEMMA BeforeIsBefore ==
  ASSUME NEW dir, NEW n \in Nat
  PROVE  \E g : IsBefore(g, dir, n) /\ TextBefore(dir, n) = g[n]
<1> DEFINE w == CHOOSE g : IsBefore(g, dir, n)
<1>1. IsBefore(w, dir, n)
  BY BeforeExists, Zenon
<1>2. TextBefore(dir, n) = w[n]
  BY Zenon DEF TextBefore, IsBefore
<1>3. QED
  BY <1>1, <1>2, Zenon

\* Solutions of any length agree.
LEMMA BeforesAgree ==
  ASSUME NEW dir, NEW k \in Nat, NEW l \in Nat, NEW g, NEW h,
         IsBefore(g, dir, k), IsBefore(h, dir, l)
  PROVE  \A m \in Nat : m >= 1 /\ m <= k /\ m <= l => g[m] = h[m]
<1> DEFINE S == {m \in Nat : m >= 1 /\ m <= k /\ m <= l => g[m] = h[m]}
<1>1. \A m \in 1 .. k :
        g[m] = IF m = 1 THEN 0 ELSE g[m - 1] + Len(Text(Entries(dir)[m - 1]))
  BY DEF IsBefore
<1>2. \A m \in 1 .. l :
        h[m] = IF m = 1 THEN 0 ELSE h[m - 1] + Len(Text(Entries(dir)[m - 1]))
  BY DEF IsBefore
<1>3. 0 \in S
  OBVIOUS
<1>4. ASSUME NEW n \in Nat, n \in S PROVE n + 1 \in S
  <2>1. CASE n + 1 <= k /\ n + 1 <= l
    <3>1. n # 0 => g[n] = h[n]
      BY <2>1, <1>4
    <3>2. n + 1 \in 1 .. k /\ n + 1 \in 1 .. l /\ (n + 1 = 1 <=> n = 0) /\ (n + 1) - 1 = n
      BY <2>1
    <3>3. g[n + 1] = h[n + 1]
      BY <3>1, <3>2, <1>1, <1>2
    <3>4. QED
      BY <3>3
  <2>2. QED
    BY <2>1
<1>5. Nat \subseteq S
  <2> HIDE DEF S
  <2>1. QED
    BY <1>3, <1>4, SetInduction
<1>6. QED
  BY <1>5

LEMMA BeforeNext ==
  ASSUME NEW dir
  PROVE  /\ TextBefore(dir, 1) = 0
         /\ \A n \in Nat : n >= 1 =>
              TextBefore(dir, n + 1) = TextBefore(dir, n) + Len(Text(Entries(dir)[n]))
<1>1. TextBefore(dir, 1) = 0
  <2>1. PICK g : IsBefore(g, dir, 1) /\ TextBefore(dir, 1) = g[1]
    BY BeforeIsBefore
  <2>2. QED
    BY <2>1 DEF IsBefore
<1>2. ASSUME NEW n \in Nat, n >= 1
      PROVE  TextBefore(dir, n + 1) = TextBefore(dir, n) + Len(Text(Entries(dir)[n]))
  <2>1. PICK g : IsBefore(g, dir, n) /\ TextBefore(dir, n) = g[n]
    BY BeforeIsBefore
  <2>2. PICK h : IsBefore(h, dir, n + 1) /\ TextBefore(dir, n + 1) = h[n + 1]
    BY BeforeIsBefore
  <2>3. g[n] = h[n]
    BY <1>2, <2>1, <2>2, BeforesAgree
  <2>4. h[n + 1] = h[n] + Len(Text(Entries(dir)[n]))
    <3>1. n + 1 \in 1 .. n + 1 /\ n + 1 # 1 /\ (n + 1) - 1 = n
      BY <1>2
    <3>2. QED
      BY <3>1, <2>2 DEF IsBefore
  <2>5. QED
    BY <2>1, <2>2, <2>3, <2>4
<1>3. QED
  BY <1>1, <1>2

LEMMA BeforeFacts ==
  ASSUME NEW dir, GoodDir(dir)
  PROVE  /\ \A n \in 1 .. Len(Entries(dir)) + 1 : TextBefore(dir, n) \in Nat
         /\ \A n \in 1 .. Len(Entries(dir)) :
              /\ Len(Text(Entries(dir)[n])) \in 1 .. Longest
              /\ TextBefore(dir, n + 1) = TextBefore(dir, n) + Len(Text(Entries(dir)[n]))
         /\ \A m, n \in 1 .. Len(Entries(dir)) + 1 :
              m <= n => TextBefore(dir, m) <= TextBefore(dir, n)
<1> DEFINE N == Len(Entries(dir))
           T == [n \in Nat |-> TextBefore(dir, n)]
           L == [n \in Nat |-> Len(Text(Entries(dir)[n]))]
<1>1. N \in Nat /\ \A n \in 1 .. N : IsEntry(Entries(dir)[n])
  BY EntriesFacts DEF IsEntry
<1>2. \A n \in 1 .. N : L[n] \in 1 .. Longest
  BY <1>1, TextFacts
<1>3. T[1] = 0 /\ \A n \in Nat : n >= 1 => T[n + 1] = T[n] + L[n]
  BY BeforeNext
<1> HIDE DEF N, T, L
<1> DEFINE S == {k \in Nat : k <= N =>
                   \A m \in 1 .. k + 1 : T[m] \in Nat /\ T[m] <= T[k + 1]}
<1>4. 0 \in S
  BY <1>3
<1>5. ASSUME NEW k \in Nat, k \in S PROVE k + 1 \in S
  <2>1. SUFFICES ASSUME k + 1 <= N
                 PROVE  \A m \in 1 .. (k + 1) + 1 : T[m] \in Nat /\ T[m] <= T[(k + 1) + 1]
    OBVIOUS
  <2>2. T[k + 1] \in Nat /\ \A m \in 1 .. k + 1 : T[m] \in Nat /\ T[m] <= T[k + 1]
    BY <1>1, <1>5, <2>1
  <2>3. L[k + 1] \in Nat /\ T[(k + 1) + 1] = T[k + 1] + L[k + 1]
    <3>1. k + 1 \in 1 .. N /\ k + 1 \in Nat /\ k + 1 >= 1
      BY <1>1, <2>1
    <3>2. \A x \in 1 .. Longest : x \in Nat
      BY SizeFacts
    <3>3. QED
      BY <3>1, <3>2, <1>2, <1>3
  <2>4. ASSUME NEW m \in 1 .. (k + 1) + 1 PROVE T[m] \in Nat /\ T[m] <= T[(k + 1) + 1]
    <3>1. CASE m \in 1 .. k + 1
      <4>1. T[m] \in Nat /\ T[m] <= T[k + 1] /\ T[k + 1] \in Nat
        BY <3>1, <2>2
      <4>2. QED
        BY <4>1, <2>3
    <3>2. CASE m = (k + 1) + 1
      BY <3>2, <2>2, <2>3
    <3>3. QED
      BY <3>1, <3>2
  <2>5. QED
    BY <2>4
<1>6. Nat \subseteq S
  <2> HIDE DEF S
  <2>1. QED
    BY <1>4, <1>5, SetInduction
<1>7. ASSUME NEW n \in 1 .. N + 1
      PROVE  T[n] \in Nat /\ \A m \in 1 .. N + 1 : m <= n => T[m] <= T[n]
  <2>1. n - 1 \in Nat /\ n - 1 <= N /\ (n - 1) + 1 = n
    BY <1>1
  <2>2. T[n] \in Nat /\ \A m \in 1 .. n : T[m] <= T[n]
    <3>1. \A m \in 1 .. n : T[m] \in Nat /\ T[m] <= T[n]
      BY <2>1, <1>6
    <3>2. n \in 1 .. n
      BY <2>1
    <3>3. QED
      BY <3>1, <3>2
  <2>3. \A m \in 1 .. N + 1 : m <= n => m \in 1 .. n
    BY <1>1
  <2>4. QED
    BY <2>2, <2>3
<1>8. /\ \A n \in 1 .. N + 1 : n \in Nat /\ T[n] = TextBefore(dir, n)
      /\ \A n \in 1 .. N : n \in Nat /\ n >= 1 /\ n + 1 \in 1 .. N + 1
                           /\ L[n] = Len(Text(Entries(dir)[n]))
  BY <1>1 DEF T, L
<1>9. \A n \in 1 .. N : T[n + 1] = T[n] + L[n]
  BY <1>3, <1>8
<1>10. \A n \in 1 .. N : n \in 1 .. N + 1
  BY <1>1
<1>11. QED
  BY <1>2, <1>7, <1>8, <1>9, <1>10 DEF N

\* What the characters of an entry are; none of them is the one that ends the
\* directory, and the ones between the "#" are none.
LEMMA TextSays ==
  ASSUME NEW e, IsEntry(e)
  PROVE  /\ Length[e.name] \in Nat \ {0} /\ Len(Text(e)) = Length[e.name] + 5
         /\ Text(e)[1] = Hash
         /\ \A k \in 1 .. Length[e.name] : Text(e)[1 + k] = <<e.name, k>>
         /\ Text(e)[Length[e.name] + 2] = Hash
         /\ Text(e)[Length[e.name] + 3] = Number(e.size)
         /\ Text(e)[Length[e.name] + 4] = Hash
         /\ Text(e)[Length[e.name] + 5] = Number(e.start)
<1> DEFINE hash == <<Hash>>
           letters == Letters(e.name)
           numbers == <<Hash, Number(e.size), Hash, Number(e.start)>>
           n == Length[e.name]
<1>1. n \in 1 .. MaxLength /\ MaxLength \in Nat
  BY LengthAssumption DEF IsEntry
<1>2. letters \in Seq(Char) /\ Len(letters) = n /\ \A k \in 1 .. n : letters[k] = <<e.name, k>>
  <2>1. \A k \in 1 .. n : <<e.name, k>> \in Char
    BY <1>1 DEF Char, IsEntry
  <2>2. letters = [k \in 1 .. n |-> <<e.name, k>>]
    BY DEF Letters
  <2>3. n \in Nat
    BY <1>1
  <2> HIDE DEF letters, n
  <2>4. QED
    BY <2>1, <2>2, <2>3
<1>3. Hash \in Char /\ Number(e.size) \in Char /\ Number(e.start) \in Char
  BY DEF Char, IsEntry
<1>4. /\ hash \in Seq(Char) /\ Len(hash) = 1 /\ hash[1] = Hash
      /\ numbers \in Seq(Char) /\ Len(numbers) = 4
      /\ numbers[1] = Hash /\ numbers[2] = Number(e.size)
      /\ numbers[3] = Hash /\ numbers[4] = Number(e.start)
  BY <1>3
<1>5. Text(e) = (hash \o letters) \o numbers
  BY DEF Text
<1> HIDE DEF hash, numbers, letters, n
<1>6. PICK a : a = hash \o letters
  OBVIOUS
<1>7. /\ a \in Seq(Char) /\ Len(a) = 1 + n /\ a[1] = Hash
      /\ \A k \in 1 .. n : a[1 + k] = <<e.name, k>>
  <2>1. /\ a \in Seq(Char) /\ Len(a) = Len(hash) + Len(letters)
        /\ \A i \in 1 .. Len(hash) + Len(letters) :
             a[i] = IF i <= Len(hash) THEN hash[i] ELSE letters[i - Len(hash)]
    BY <1>2, <1>4, <1>6, ConcatProperties
  <2>2. a[1] = Hash
    BY <2>1, <1>1, <1>2, <1>4
  <2>3. ASSUME NEW k \in 1 .. n PROVE a[1 + k] = <<e.name, k>>
    <3>1. 1 + k \in 1 .. 1 + n /\ ~(1 + k <= 1) /\ (1 + k) - 1 = k
      BY <1>1
    <3>2. QED
      BY <3>1, <2>1, <1>2, <1>4
  <2>4. QED
    BY <2>1, <2>2, <2>3, <1>2, <1>4
<1>8. /\ Len(Text(e)) = Len(a) + 4
      /\ \A i \in 1 .. Len(a) + 4 :
           Text(e)[i] = IF i <= Len(a) THEN a[i] ELSE numbers[i - Len(a)]
  <2>1. PICK b : b = numbers
    OBVIOUS
  <2>2. a \in Seq(Char) /\ b \in Seq(Char) /\ Text(e) = a \o b
    BY <1>4, <1>5, <1>6, <1>7, <2>1
  <2>3. /\ Len(a \o b) = Len(a) + Len(b)
        /\ \A i \in 1 .. Len(a) + Len(b) :
             (a \o b)[i] = IF i <= Len(a) THEN a[i] ELSE b[i - Len(a)]
    BY <2>2, ConcatProperties
  <2>4. QED
    BY <1>4, <2>1, <2>2, <2>3
<1>9. ASSUME NEW i \in 1 .. 1 + n PROVE Text(e)[i] = a[i]
  <2>1. i \in 1 .. Len(a) + 4 /\ i <= Len(a)
    BY <1>1, <1>7
  <2>2. QED
    BY <2>1, <1>8
<1>10. ASSUME NEW j \in 1 .. 4 PROVE Text(e)[1 + n + j] = numbers[j]
  <2>1. 1 + n + j \in 1 .. Len(a) + 4 /\ ~(1 + n + j <= Len(a)) /\ (1 + n + j) - Len(a) = j
    BY <1>1, <1>7
  <2>2. QED
    BY <2>1, <1>8
<1>11. /\ 1 \in 1 .. 1 + n /\ \A k \in 1 .. n : 1 + k \in 1 .. 1 + n
       /\ n + 2 = 1 + n + 1 /\ n + 3 = 1 + n + 2 /\ n + 4 = 1 + n + 3 /\ n + 5 = 1 + n + 4
       /\ Len(Text(e)) = n + 5 /\ n \in Nat \ {0}
  BY <1>1, <1>7, <1>8
<1>12. Text(e)[1] = Hash /\ \A k \in 1 .. n : Text(e)[1 + k] = <<e.name, k>>
  BY <1>7, <1>9, <1>11
<1>13. /\ Text(e)[n + 2] = Hash /\ Text(e)[n + 3] = Number(e.size)
       /\ Text(e)[n + 4] = Hash /\ Text(e)[n + 5] = Number(e.start)
  BY <1>4, <1>10, <1>11
<1>14. QED
  BY <1>11, <1>12, <1>13 DEF n

LEMMA CharFacts ==
  /\ Hash # Zero
  /\ \A f, k : <<f, k>> # Hash /\ <<f, k>> # Zero
  /\ \A x : Number(x) # Hash /\ Number(x) # Zero
BY DEF Hash, Zero, Number

LEMMA TextWithoutZero ==
  ASSUME NEW e, IsEntry(e), NEW i \in 1 .. Len(Text(e))
  PROVE  Text(e)[i] # Zero
<1> DEFINE n == Length[e.name]
<1>1. /\ n \in Nat \ {0} /\ Len(Text(e)) = n + 5
      /\ Text(e)[1] = Hash /\ Text(e)[n + 2] = Hash /\ Text(e)[n + 4] = Hash
      /\ Text(e)[n + 3] = Number(e.size) /\ Text(e)[n + 5] = Number(e.start)
      /\ \A k \in 1 .. n : Text(e)[1 + k] = <<e.name, k>>
  BY TextSays
<1> HIDE DEF n
<1>2. CASE i \in 2 .. n + 1
  <2>1. i - 1 \in 1 .. n /\ 1 + (i - 1) = i
    BY <1>1, <1>2
  <2>2. Text(e)[i] = <<e.name, i - 1>>
    BY <2>1, <1>1
  <2>3. QED
    BY <2>2, CharFacts
<1>3. CASE i \notin 2 .. n + 1
  <2>1. i = 1 \/ i = n + 2 \/ i = n + 3 \/ i = n + 4 \/ i = n + 5
    BY <1>1, <1>3
  <2>2. QED
    BY <2>1, <1>1, CharFacts
<1>4. QED
  BY <1>2, <1>3

-------------------------------------------------------------------------------
(* What a turn of the loop writes.                                           *)

LEMMA PrintedSays ==
  ASSUME NEW store, IsBuffer(store), NEW text \in Seq(Char), Len(text) \in 1 .. Longest
  PROVE  /\ \A i \in 1 .. Len(text) : Printed(store, text)[i] = text[i]
         /\ Printed(store, text)[Len(text) + 1] = Zero
         /\ Len(Printed(store, text)) \in Nat /\ Len(Printed(store, text)) > Len(text)
<1> DEFINE zero == <<Zero>>
           left == SubSeq(store, Len(text) + 2, Len(store))
<1>1. zero \in Seq(Char) /\ Len(zero) = 1 /\ zero[1] = Zero
  BY DEF Char
<1>2. store \in Seq(Char) /\ Len(store) \in Nat /\ Len(text) \in Nat
  BY LengthAssumption DEF IsBuffer, Longest
<1>3. \A i \in Len(text) + 2 .. Len(store) : store[i] \in Char
  BY <1>2
<1>4. left \in Seq(Char)
  BY <1>2, <1>3
<1>5. Printed(store, text) = (text \o zero) \o left
  BY DEF Printed
<1> HIDE DEF zero, left
<1>6. PICK a : a = text \o zero
  OBVIOUS
<1>7. PICK b : b = left
  OBVIOUS
<1>8. /\ a \in Seq(Char) /\ Len(a) = Len(text) + Len(zero)
      /\ \A i \in 1 .. Len(text) + Len(zero) :
           a[i] = IF i <= Len(text) THEN text[i] ELSE zero[i - Len(text)]
  BY <1>1, <1>6, ConcatProperties
<1>9. b \in Seq(Char) /\ Len(b) \in Nat /\ Printed(store, text) = a \o b
  BY <1>4, <1>5, <1>6, <1>7
<1>10. /\ Len(a \o b) = Len(a) + Len(b)
       /\ \A i \in 1 .. Len(a) + Len(b) :
            (a \o b)[i] = IF i <= Len(a) THEN a[i] ELSE b[i - Len(a)]
  <2>1. a \in Seq(Char) /\ b \in Seq(Char)
    BY <1>8, <1>9
  <2>2. QED
    BY ONLY <2>1, ConcatProperties
<1>11. \A i \in 1 .. Len(text) + 1 : i \in 1 .. Len(a) + Len(b) /\ i <= Len(a)
  BY <1>1, <1>2, <1>8, <1>9
<1>12. \A i \in 1 .. Len(text) + 1 : Printed(store, text)[i] = a[i]
  BY <1>9, <1>10, <1>11
<1>13. /\ Len(text) + 1 \in 1 .. Len(text) + 1
       /\ \A i \in 1 .. Len(text) : i \in 1 .. Len(text) + 1
       /\ \A i \in 1 .. Len(text) + 1 : i \in 1 .. Len(text) + Len(zero)
  BY <1>1, <1>2
<1>14. \A i \in 1 .. Len(text) : a[i] = text[i]
  BY <1>2, <1>8, <1>13
<1>15. a[Len(text) + 1] = Zero
  <2>1. ~(Len(text) + 1 <= Len(text)) /\ (Len(text) + 1) - Len(text) = 1
    BY <1>2
  <2>2. QED
    BY <2>1, <1>1, <1>8, <1>13
<1>16. QED
  BY <1>1, <1>2, <1>8, <1>9, <1>10, <1>12, <1>13, <1>14, <1>15

\* From Store + writtenFromStore on: what of the entry is not written yet.
LEMMA RestOfEntry ==
  ASSUME NEW e, IsEntry(e), NEW store, IsBuffer(store),
         NEW w, w.store = Printed(store, Text(e)), w.skip \in 0 .. Len(Text(e))
  PROVE  /\ Rest(w) \in Seq(Char) /\ Len(Rest(w)) = Len(Text(e)) - w.skip
         /\ \A i \in 1 .. Len(Text(e)) - w.skip : Rest(w)[i] = Text(e)[w.skip + i]
<1> DEFINE text == Text(e)
           n == Len(Text(e))
           k == w.skip
<1>1. text \in Seq(Char) /\ n \in 1 .. Longest /\ \A i \in 1 .. n : text[i] # Zero
  BY TextFacts, TextWithoutZero
<1>2. n \in Nat /\ k \in Nat /\ k <= n
  BY <1>1, SizeFacts
<1> HIDE DEF text, n
<1>3. IsBuffer(w.store) /\ w.store \in Seq(Char) /\ Len(w.store) \in Nat
  BY <1>1, PrintedFacts DEF IsBuffer, text, n
<1>4. /\ \A i \in 1 .. n : w.store[i] = text[i]
      /\ w.store[n + 1] = Zero /\ Len(w.store) > n
  BY <1>1, PrintedSays DEF text, n
<1>5. n - k + 1 \in Zeros(w.store, k)
  <2>1. n - k + 1 \in 1 .. Len(w.store) - k /\ k + (n - k + 1) = n + 1
    BY <1>2, <1>3, <1>4
  <2>2. QED
    BY <2>1, <1>4 DEF Zeros
<1>6. ASSUME NEW i \in Zeros(w.store, k) PROVE i >= n - k + 1
  <2>1. i \in 1 .. Len(w.store) - k /\ w.store[k + i] = Zero
    BY DEF Zeros
  <2>2. k + i \notin 1 .. n
    BY <2>1, <1>1, <1>4
  <2>3. i \in Int /\ i >= 1
    BY <2>1, <1>2, <1>3
  <2> HIDE DEF k
  <2>4. QED
    BY <2>2, <2>3, <1>2
<1>7. /\ Rest(w) \in Seq(Char) /\ Len(Rest(w)) + 1 \in Zeros(w.store, k)
      /\ Len(Rest(w)) + 1 <= n - k + 1
      /\ \A i \in 1 .. Len(Rest(w)) : Rest(w)[i] = w.store[k + i]
  <2>1. Zeros(w.store, k) # {}
    BY <1>5
  <2>2. QED
    BY <2>1, <1>2, <1>3, <1>5, RestIs
<1>8. Len(Rest(w)) = n - k
  <2>1. Len(Rest(w)) + 1 >= n - k + 1 /\ Len(Rest(w)) \in Nat
    BY <1>6, <1>7
  <2>2. QED
    BY <2>1, <1>2, <1>7
<1>9. ASSUME NEW i \in 1 .. n - k PROVE Rest(w)[i] = text[k + i]
  <2>1. k + i \in 1 .. n /\ i \in 1 .. Len(Rest(w))
    BY <1>2, <1>8
  <2>2. QED
    BY <2>1, <1>4, <1>7
<1>10. QED
  BY <1>7, <1>8, <1>9 DEF text, n

\* v: the bytes bs with n characters put in block b from offset off on.
Puts(bs, b, off, chars, v) ==
  /\ DOMAIN v = DOMAIN bs
  /\ \A c \in DOMAIN bs : c # b => v[c] = bs[c]
  /\ b \in DOMAIN bs => \A o \in 0 .. FAT_WIDTH - 1 :
       v[b][o] = IF o \in off .. off + Len(chars) - 1 THEN chars[o - off + 1] ELSE bs[b][o]

LEMMA PutBytes ==
  ASSUME NEW w, ShapeOf(w), NEW chars
  PROVE  Puts(w.bytes, w.block, w.written % FAT_WIDTH, chars, Put(w, chars).bytes)
<1> DEFINE off == w.written % FAT_WIDTH
           x == [o \in 0 .. FAT_WIDTH - 1 |->
                   IF o \in off .. off + Len(chars) - 1 THEN chars[o - off + 1]
                                                        ELSE w.bytes[w.block][o]]
           b == w.block
           n == w.written + Len(chars)
           a == [w EXCEPT !.bytes[b] = x]
           c == [a EXCEPT !.written = n]
<1>1. Put(w, chars) = c
  BY DEF Put
<1>2. \A o \in 0 .. FAT_WIDTH - 1 :
        x[o] = IF o \in off .. off + Len(chars) - 1 THEN chars[o - off + 1]
                                                    ELSE w.bytes[w.block][o]
  OBVIOUS
<1> HIDE DEF x, b, n, off
<1>3. ShapeOf(a) /\ a.bytes = [w.bytes EXCEPT ![b] = x]
  <2>1. ShapeOf(a)
    BY ShapeKept
  <2>2. QED
    BY <2>1 DEF ShapeOf
<1> HIDE DEF a
<1>4. c.bytes = a.bytes
  BY <1>3 DEF ShapeOf
<1> HIDE DEF c
<1>5. /\ DOMAIN c.bytes = DOMAIN w.bytes /\ (b \in DOMAIN w.bytes => c.bytes[b] = x)
      /\ \A d \in DOMAIN w.bytes : d # b => c.bytes[d] = w.bytes[d]
  BY <1>3, <1>4 DEF b
<1>6. Puts(w.bytes, b, off, chars, c.bytes)
  BY <1>2, <1>5 DEF Puts, b
<1>7. QED
  BY <1>1, <1>6 DEF b, off

LEMMA NextBlockBytes ==
  ASSUME NEW dir, NEW w, ShapeOf(w)
  PROVE  Puts(w.bytes, w.block, w.written % FAT_WIDTH, SubSeq(Rest(w), 1, Room(w)),
              NextBlock(dir, w).bytes)
<1> DEFINE chars == SubSeq(Rest(w), 1, Room(w))
           put == Put(w, chars)
           s == w.skip + Room(w)
           h == SearchHarm(dir, w.fat)
           new == DetermineBlock(dir, w.fat)
           skipped == [put EXCEPT !.skip = s]
           fill == [skipped EXCEPT !.harm = h]
<1>1. ShapeOf(put) /\ put.skip = w.skip
  BY PutFacts DEF PutSays
<1>2. Filled(dir, w) = fill
  BY <1>1 DEF Filled, Room
<1>3. Puts(w.bytes, w.block, w.written % FAT_WIDTH, chars, put.bytes)
  BY PutBytes
<1> HIDE DEF chars, put, s, h
<1>4. ShapeOf(skipped) /\ skipped.bytes = put.bytes
  <2>1. ShapeOf(skipped)
    BY <1>1, ShapeKept
  <2>2. QED
    BY <2>1, <1>1 DEF ShapeOf
<1> HIDE DEF skipped
<1>5. ShapeOf(fill) /\ fill.bytes = put.bytes
  <2>1. ShapeOf(fill)
    BY <1>4, ShapeKept
  <2>2. QED
    BY <2>1, <1>4 DEF ShapeOf
<1> HIDE DEF fill
<1>6. PICK v : v = NextBlock(dir, w)
  OBVIOUS
<1> HIDE DEF new
<1>7. v.bytes = fill.bytes
  <2>1. CASE new = MEMFULL
    <3>1. v = [fill EXCEPT !.status = "MEMFULL"]
      BY <1>2, <1>6, <2>1 DEF NextBlock, new
    <3>2. QED
      BY <3>1, <1>5 DEF ShapeOf
  <2>2. CASE new # MEMFULL
    <3> DEFINE b == w.block
               link == [fill EXCEPT !.fat[b] = new]
    <3>1. v = [fill EXCEPT !.fat[b] = new, !.block = new]
      BY <1>2, <1>6, <2>2 DEF NextBlock, new
    <3>2. v = [link EXCEPT !.block = new]
      BY <3>1
    <3>3. ShapeOf(link) /\ link.bytes = fill.bytes
      <4>1. ShapeOf(link)
        BY <1>5, ShapeKept
      <4>2. QED
        BY <4>1, <1>5 DEF ShapeOf
    <3> HIDE DEF link
    <3>4. QED
      BY <3>2, <3>3 DEF ShapeOf
  <2>3. QED
    BY <2>1, <2>2
<1>8. QED
  BY <1>3, <1>5, <1>6, <1>7 DEF chars

LEMMA StoreEntryDomain ==
  ASSUME NEW dir, NEW w, ShapeOf(w), NEW e
  PROVE  DOMAIN StoreEntry(dir, w, e).bytes = DOMAIN w.bytes
<1> DEFINE printed == Printed(w.store, Text(e))
           new == [w EXCEPT !.store = printed]
           out == IF Overflows(new) THEN NextBlock(dir, new) ELSE new
<1>1. StoreEntry(dir, w, e) =
        IF ~GoesOn(w) THEN w ELSE IF ~GoesOn(out) THEN out ELSE Put(out, Rest(out))
  BY DEF StoreEntry
<1> HIDE DEF printed
<1>2. ShapeOf(new) /\ new.bytes = w.bytes
  <2>1. ShapeOf(new)
    BY ShapeKept
  <2>2. QED
    BY <2>1 DEF ShapeOf
<1> HIDE DEF new
<1>3. ShapeOf(out) /\ DOMAIN out.bytes = DOMAIN w.bytes
  <2>1. ShapeOf(NextBlock(dir, new))
    BY <1>2, NextBlockFacts DEF NextSays
  <2>2. DOMAIN NextBlock(dir, new).bytes = DOMAIN new.bytes
    BY <1>2, NextBlockBytes DEF Puts
  <2>3. QED
    BY <1>2, <2>1, <2>2
<1> HIDE DEF out
<1>4. DOMAIN Put(out, Rest(out)).bytes = DOMAIN out.bytes
  BY <1>3, PutBytes DEF Puts
<1>5. QED
  BY <1>1, <1>3, <1>4

\* v: w with the text put in block 0, from the end of what is there on.
EntryFits(w, text, v) ==
  /\ v.skip = 0 /\ v.fat = w.fat /\ v.block = 0
  /\ \A o \in 0 .. FAT_WIDTH - 1 :
       v.bytes[0][o] = IF o >= w.written /\ o < w.written + Len(text)
                         THEN text[o - w.written + 1] ELSE w.bytes[0][o]

\* v: w with block 0 filled, and the rest of the text at the start of the next.
EntryCrosses(w, text, v) ==
  /\ v.block \in Block \ {0} /\ v.fat[0] = v.block
  /\ \A o \in 0 .. FAT_WIDTH - 1 :
       v.bytes[0][o] = IF o >= w.written THEN text[o - w.written + 1] ELSE w.bytes[0][o]
  /\ \A o \in 0 .. w.written + Len(text) - FAT_WIDTH - 1 :
       v.bytes[v.block][o] = text[FAT_WIDTH - w.written + o + 1]

LEMMA EntryWritten ==
  ASSUME NEW dir, GoodDir(dir), NEW w, ShapeOf(w), Sound(Heads(dir), w.fat),
         w.status = "FILEOK", w.harm = "none", w.skip = 0, w.block = 0,
         IsBuffer(w.store), w.written \in 0 .. FAT_WIDTH - 1, DOMAIN w.bytes = Block,
         NEW e, IsEntry(e), StoreEntry(dir, w, e).status = "FILEOK"
  PROVE  /\ StoreEntry(dir, w, e).written = w.written + Len(Text(e))
         /\ w.written + Len(Text(e)) < FAT_WIDTH =>
              EntryFits(w, Text(e), StoreEntry(dir, w, e))
         /\ w.written + Len(Text(e)) >= FAT_WIDTH =>
              EntryCrosses(w, Text(e), StoreEntry(dir, w, e))
<1> DEFINE text == Text(e)
           n == Len(text)
           printed == Printed(w.store, text)
           new == [w EXCEPT !.store = printed]
           out == IF Overflows(new) THEN NextBlock(dir, new) ELSE new
<1>1. GoesOn(w) /\ StoreEntry(dir, w, e) =
        IF ~GoesOn(w) THEN w ELSE IF ~GoesOn(out) THEN out ELSE Put(out, Rest(out))
  BY DEF StoreEntry, GoesOn
<1>2. text \in Seq(Char) /\ n \in 1 .. Longest
  BY TextFacts
<1>3. PICK p : p = w.written
  OBVIOUS
<1>4. /\ n \in Nat /\ n > 0 /\ n < FAT_WIDTH /\ FAT_WIDTH \in Nat /\ FAT_WIDTH > 0
      /\ p \in Nat /\ p < FAT_WIDTH /\ p % FAT_WIDTH = p
  <2>1. p \in Nat /\ p < FAT_WIDTH /\ FAT_WIDTH \in Nat /\ FAT_WIDTH > 0
    BY <1>3, SizeFacts
  <2>2. n \in Nat /\ n > 0 /\ n < FAT_WIDTH
    BY <1>2, SizeFacts
  <2>3. QED
    BY <2>1, <2>2, Offset
<1>5. Sound(Heads(dir), w.fat) /\ w.fat \in Table /\ 0 \in Block
  BY SoundSays, BlockFacts
<1>6. /\ ShapeOf(new) /\ new.store = printed /\ new.skip = 0 /\ new.bytes = w.bytes
      /\ new.written = p /\ new.fat = w.fat /\ new.block = 0
      /\ new.status = "FILEOK" /\ new.harm = "none"
  <2> HIDE DEF printed
  <2>1. ShapeOf(new)
    BY ShapeKept
  <2>2. QED
    BY <2>1, <1>3 DEF ShapeOf
<1> HIDE DEF new
<1>7. /\ Rest(new) \in Seq(Char) /\ Len(Rest(new)) = n
      /\ \A i \in 1 .. n : Rest(new)[i] = text[i]
  <2>1. new.skip \in 0 .. Len(Text(e)) /\ new.store = Printed(w.store, Text(e))
    BY <1>2, <1>4, <1>6
  <2>2. /\ Rest(new) \in Seq(Char) /\ Len(Rest(new)) = Len(Text(e)) - new.skip
        /\ \A i \in 1 .. Len(Text(e)) - new.skip : Rest(new)[i] = Text(e)[new.skip + i]
    BY <2>1, RestOfEntry
  <2>3. \A i \in 1 .. n : new.skip + i = i
    BY <1>6
  <2>4. n - new.skip = n
    BY <1>4, <1>6
  <2>5. QED
    BY <2>2, <2>3, <2>4
<1> HIDE DEF text, n, printed
<1>8. Overflows(new) <=> p + n >= FAT_WIDTH
  BY <1>4, <1>6, <1>7 DEF Overflows
<1>9. PICK v : v = StoreEntry(dir, w, e)
  OBVIOUS
<1>10. CASE p + n < FAT_WIDTH
  <2>1. out = new /\ GoesOn(out)
    BY <1>4, <1>6, <1>8, <1>10 DEF GoesOn
  <2>2. v = Put(new, Rest(new))
    BY <1>1, <1>9, <2>1
  <2>3. v.written = p + n /\ v.fat = w.fat /\ v.block = 0 /\ v.skip = 0
    <3>1. PutSays(new, Len(Rest(new)), v)
      BY <1>6, <2>2, PutFacts
    <3>2. QED
      BY <3>1, <1>6, <1>7 DEF PutSays
  <2>4. ASSUME NEW o \in 0 .. FAT_WIDTH - 1
        PROVE  v.bytes[0][o] = IF o >= p /\ o < p + n
                                 THEN text[o - p + 1] ELSE w.bytes[0][o]
    <3>1. v.bytes[0][o] = IF o \in p .. p + n - 1
                            THEN Rest(new)[o - p + 1] ELSE w.bytes[0][o]
      <4>1. Puts(w.bytes, 0, p, Rest(new), v.bytes)
        BY <1>4, <1>6, <2>2, PutBytes
      <4>2. QED
        BY <4>1, <1>5, <1>7 DEF Puts
    <3>2. o \in p .. p + n - 1 <=> o >= p /\ o < p + n
      BY <1>4
    <3>3. CASE o >= p /\ o < p + n
      <4>1. o - p + 1 \in 1 .. n
        BY <1>4, <3>3
      <4>2. QED
        BY <4>1, <3>1, <3>2, <3>3, <1>7
    <3>4. CASE ~(o >= p /\ o < p + n)
      BY <3>1, <3>2, <3>4
    <3>5. QED
      BY <3>3, <3>4
  <2>5. EntryFits(w, text, v)
    BY <2>3, <2>4, <1>3 DEF EntryFits, n
  <2>6. ~(p + n >= FAT_WIDTH)
    BY <1>4, <1>10
  <2>7. QED
    BY <1>3, <1>9, <2>3, <2>5, <2>6 DEF n, text
<1>11. CASE p + n >= FAT_WIDTH
  <2> DEFINE k == FAT_WIDTH - p
             b == DetermineBlock(dir, w.fat)
             first == SubSeq(Rest(new), 1, k)
  <2>1. out = NextBlock(dir, new)
    BY <1>8, <1>11
  <2>2. k \in 1 .. n /\ k \in Nat /\ Room(new) = k /\ p + k = FAT_WIDTH
    BY <1>4, <1>6, <1>11 DEF Room
  <2> HIDE DEF k
  <2>3. Len(first) = k /\ \A i \in 1 .. k : first[i] = text[i]
    <3>1. \A i \in 1 .. k : i \in 1 .. n
      BY <1>4, <2>2
    <3>2. k <= Len(Rest(new)) /\ Len(Rest(new)) \in Nat
      BY <1>4, <1>7, <2>2
    <3>3. Len(first) = k /\ \A i \in 1 .. k : first[i] = Rest(new)[i]
      BY <1>7, <2>2, <3>2
    <3>4. QED
      BY <3>1, <3>3, <1>7
  <2> HIDE DEF out, b, first
  <2>4. /\ ShapeOf(out) /\ out.written = FAT_WIDTH
        /\ out.skip = k /\ out.store = printed /\ out.harm = SearchHarm(dir, w.fat)
        /\ b = MEMFULL => out.status = "MEMFULL"
        /\ b # MEMFULL =>
             /\ out.fat = [w.fat EXCEPT ![0] = b]
             /\ out.block = b /\ out.status = "FILEOK"
    <3>1. NextSays(dir, new, b, out)
      <4>1. NextSays(dir, new, DetermineBlock(dir, new.fat), NextBlock(dir, new))
        BY <1>6, NextBlockFacts
      <4>2. QED
        BY <4>1, <1>6, <2>1 DEF b
    <3>2. /\ ShapeOf(out) /\ out.written = p + Len(first)
          /\ out.skip = 0 + k /\ out.store = printed /\ out.harm = SearchHarm(dir, w.fat)
      BY <3>1, <1>6, <2>2 DEF NextSays, first
    <3>3. 0 + k = k
      BY <2>2
    <3>4. /\ b = MEMFULL => out.status = "MEMFULL"
          /\ b # MEMFULL =>
               /\ out.fat = [w.fat EXCEPT ![0] = b]
               /\ out.block = b /\ out.status = "FILEOK"
      BY <3>1, <1>6 DEF NextSays
    <3>5. QED
      BY <3>2, <3>3, <3>4, <2>2, <2>3
  <2>5. Puts(w.bytes, 0, p, first, out.bytes)
    <3>1. Puts(new.bytes, new.block, new.written % FAT_WIDTH, SubSeq(Rest(new), 1, Room(new)),
               NextBlock(dir, new).bytes)
      BY <1>6, NextBlockBytes
    <3>2. QED
      BY <3>1, <1>4, <1>6, <2>1, <2>2 DEF first
  <2>6. /\ out.harm = "none"
        /\ b # MEMFULL => b \in Block /\ b # 0
    <3>1. /\ SearchHarm(dir, w.fat) = "none"
          /\ b # MEMFULL => b \in Block /\ \A s \in Heads(dir) : b \notin Chain(w.fat, s)
      BY <1>5, SearchFacts DEF b
    <3>2. 0 \in Heads(dir) /\ 0 \in Chain(w.fat, 0)
      <4>1. Walk(w.fat, 0, 0) = 0 /\ 0 \in Heads(dir) /\ ~Cyclic(w.fat, 0)
        BY WalkZero, DirFacts, SoundSays
      <4>2. QED
        BY <4>1, <1>5, ChainIsWalk
    <3>3. QED
      BY <3>1, <3>2, <2>4
  <2>7. b # MEMFULL
    <3>1. SUFFICES ASSUME b = MEMFULL PROVE FALSE
      OBVIOUS
    <3>2. out.status = "MEMFULL" /\ ~GoesOn(out)
      BY <2>4, <3>1 DEF GoesOn
    <3>3. StoreEntry(dir, w, e) = out
      BY <1>1, <3>2 DEF out
    <3>4. QED
      BY <3>2, <3>3
  <2>8. v = Put(out, Rest(out))
    <3>1. GoesOn(out)
      BY <2>4, <2>6, <2>7 DEF GoesOn
    <3>2. QED
      BY <3>1, <1>1, <1>9 DEF out
  <2>9. /\ Rest(out) \in Seq(Char) /\ Len(Rest(out)) = n - k
        /\ \A i \in 1 .. n - k : Rest(out)[i] = text[k + i]
    <3>1. out.skip \in 0 .. Len(Text(e)) /\ out.store = Printed(w.store, Text(e))
      BY <2>2, <2>4, <1>4 DEF n, text, printed
    <3>2. /\ Rest(out) \in Seq(Char) /\ Len(Rest(out)) = Len(Text(e)) - out.skip
          /\ \A i \in 1 .. Len(Text(e)) - out.skip : Rest(out)[i] = Text(e)[out.skip + i]
      BY <3>1, RestOfEntry
    <3>3. QED
      BY <3>2, <2>4 DEF n, text
  <2>10. /\ v.written = p + n /\ v.fat = out.fat /\ v.block = b
    <3>1. PutSays(out, Len(Rest(out)), v)
      BY <2>4, <2>8, PutFacts
    <3>2. v.written = FAT_WIDTH + (n - k) /\ v.fat = out.fat /\ v.block = b
      BY <3>1, <2>4, <2>7, <2>9 DEF PutSays
    <3>3. FAT_WIDTH + (n - k) = p + n
      BY <2>2, <1>4
    <3>4. QED
      BY <3>2, <3>3
  <2>11. Puts(out.bytes, b, 0, Rest(out), v.bytes)
    <3>1. out.written % FAT_WIDTH = 0
      <4>1. FAT_WIDTH % FAT_WIDTH = 0
        BY <1>4, Offset
      <4>2. QED
        BY <4>1, <2>4
    <3>2. QED
      BY <3>1, <2>4, <2>7, <2>8, PutBytes
  <2>12. v.fat[0] = b
    BY <1>5, <2>4, <2>7, <2>10 DEF Table
  <2>13. ASSUME NEW o \in 0 .. FAT_WIDTH - 1
         PROVE  v.bytes[0][o] = IF o >= p THEN text[o - p + 1] ELSE w.bytes[0][o]
    <3>1. v.bytes[0] = out.bytes[0]
      BY <2>5, <2>6, <2>7, <2>11, <1>5 DEF Puts
    <3>2. out.bytes[0][o] = IF o \in p .. p + k - 1
                              THEN first[o - p + 1] ELSE w.bytes[0][o]
      BY <2>3, <2>5, <1>5 DEF Puts
    <3>3. o \in p .. p + k - 1 <=> o >= p
      BY <1>4, <2>2
    <3>4. CASE o >= p
      <4>1. o - p + 1 \in 1 .. k
        BY <1>4, <2>2, <3>4
      <4>2. QED
        BY <4>1, <3>1, <3>2, <3>3, <3>4, <2>3
    <3>5. CASE ~(o >= p)
      BY <3>1, <3>2, <3>3, <3>5
    <3>6. QED
      BY <3>4, <3>5
  <2>14. ASSUME NEW o \in 0 .. p + n - FAT_WIDTH - 1
         PROVE  v.bytes[b][o] = text[k + o + 1]
    <3>1. o \in 0 .. FAT_WIDTH - 1 /\ o \in 0 .. 0 + (n - k) - 1 /\ o - 0 + 1 = o + 1
          /\ o + 1 \in 1 .. n - k /\ k + (o + 1) = k + o + 1
      BY <1>4, <2>2
    <3>2. DOMAIN out.bytes = Block
      BY <2>5 DEF Puts
    <3>3. v.bytes[b][o] = IF o \in 0 .. 0 + Len(Rest(out)) - 1
                            THEN Rest(out)[o - 0 + 1] ELSE out.bytes[b][o]
      BY <3>1, <3>2, <2>6, <2>7, <2>11 DEF Puts
    <3>4. QED
      BY <3>1, <3>3, <2>9
  <2>15. EntryCrosses(w, text, v)
    BY <2>6, <2>7, <2>10, <2>12, <2>13, <2>14, <1>3 DEF EntryCrosses, k, n
  <2>16. ~(p + n < FAT_WIDTH)
    BY <1>4, <1>11
  <2>17. QED
    BY <1>3, <1>9, <2>10, <2>15, <2>16 DEF n, text
<1>12. QED
  BY <1>4, <1>10, <1>11


-------------------------------------------------------------------------------
(* What k_storeDirectory leaves on the disc.                                 *)

\* The character k of the directory: it has two blocks at most.
At(t, bs, k) == IF k < FAT_WIDTH THEN bs[0][k] ELSE bs[t[0]][k - FAT_WIDTH]

\* After either the text is there, and what was before it is not touched.
LEMMA EntryThere ==
  ASSUME NEW w, NEW text, NEW v, Len(text) \in Nat, w.written \in Nat, w.written < FAT_WIDTH,
         \/ w.written + Len(text) < FAT_WIDTH /\ EntryFits(w, text, v)
         \/ w.written + Len(text) >= FAT_WIDTH /\ EntryCrosses(w, text, v)
  PROVE  /\ \A k \in Nat : k < w.written => At(v.fat, v.bytes, k) = w.bytes[0][k]
         /\ \A i \in 1 .. Len(text) : At(v.fat, v.bytes, w.written + i - 1) = text[i]
<1>1. PICK p : p = w.written
  OBVIOUS
<1>2. PICK n : n = Len(text)
  OBVIOUS
<1>3. p \in Nat /\ p < FAT_WIDTH /\ n \in Nat /\ FAT_WIDTH \in Nat
  BY <1>1, <1>2, SizeFacts
<1>4. CASE p + n < FAT_WIDTH /\ EntryFits(w, text, v)
  <2>1. \A o \in 0 .. FAT_WIDTH - 1 :
          v.bytes[0][o] = IF o >= p /\ o < p + n THEN text[o - p + 1] ELSE w.bytes[0][o]
    BY <1>1, <1>2, <1>4 DEF EntryFits
  <2>2. ASSUME NEW k \in Nat, k < p PROVE At(v.fat, v.bytes, k) = w.bytes[0][k]
    <3>1. k \in 0 .. FAT_WIDTH - 1 /\ ~(k >= p) /\ k < FAT_WIDTH
      BY <1>3, <2>2
    <3>2. QED
      BY <3>1, <2>1 DEF At
  <2>3. ASSUME NEW i \in 1 .. n PROVE At(v.fat, v.bytes, p + i - 1) = text[i]
    <3>1. /\ p + i - 1 \in 0 .. FAT_WIDTH - 1 /\ p + i - 1 >= p /\ p + i - 1 < p + n
          /\ p + i - 1 < FAT_WIDTH /\ (p + i - 1) - p + 1 = i
      BY <1>3, <1>4
    <3>2. QED
      BY <3>1, <2>1 DEF At
  <2>4. QED
    BY <2>2, <2>3, <1>1, <1>2
<1>5. CASE p + n >= FAT_WIDTH /\ EntryCrosses(w, text, v)
  <2>1. /\ \A o \in 0 .. FAT_WIDTH - 1 :
             v.bytes[0][o] = IF o >= p THEN text[o - p + 1] ELSE w.bytes[0][o]
        /\ \A o \in 0 .. p + n - FAT_WIDTH - 1 :
             v.bytes[v.fat[0]][o] = text[FAT_WIDTH - p + o + 1]
    BY <1>1, <1>2, <1>5 DEF EntryCrosses
  <2>2. ASSUME NEW k \in Nat, k < p PROVE At(v.fat, v.bytes, k) = w.bytes[0][k]
    <3>1. k \in 0 .. FAT_WIDTH - 1 /\ ~(k >= p) /\ k < FAT_WIDTH
      BY <1>3, <2>2
    <3>2. QED
      BY <3>1, <2>1 DEF At
  <2>3. ASSUME NEW i \in 1 .. n PROVE At(v.fat, v.bytes, p + i - 1) = text[i]
    <3>1. CASE p + i - 1 < FAT_WIDTH
      <4>1. p + i - 1 \in 0 .. FAT_WIDTH - 1 /\ p + i - 1 >= p /\ (p + i - 1) - p + 1 = i
        BY <1>3, <3>1
      <4>2. QED
        BY <4>1, <3>1, <2>1 DEF At
    <3>2. CASE ~(p + i - 1 < FAT_WIDTH)
      <4>1. PICK o : o = (p + i - 1) - FAT_WIDTH
        OBVIOUS
      <4>2. o \in 0 .. p + n - FAT_WIDTH - 1 /\ FAT_WIDTH - p + o + 1 = i
        BY <1>3, <3>2, <4>1
      <4>3. QED
        BY <4>1, <4>2, <3>2, <2>1 DEF At
    <3>3. QED
      BY <3>1, <3>2
  <2>4. QED
    BY <2>2, <2>3, <1>1, <1>2
<1>6. QED
  BY <1>1, <1>2, <1>4, <1>5


\* The first n entries are where TextBefore says.
Written(dir, t, bs, n) ==
  \A m \in 1 .. n : \A i \in 1 .. Len(Text(Entries(dir)[m])) :
    At(t, bs, TextBefore(dir, m) + i - 1) = Text(Entries(dir)[m])[i]

\* Behind the nth entry.
TextInv(dir, n, w) ==
  /\ DOMAIN w.bytes = Block
  /\ w.status = "FILEOK" /\ Short(dir) =>
       /\ w.written = TextBefore(dir, n + 1)
       /\ n < Len(Entries(dir)) => w.skip = 0
       /\ w.written >= FAT_WIDTH => w.block \in Block \ {0} /\ w.fat[0] = w.block
       /\ Written(dir, w.fat, w.bytes, n)

LEMMA TextEntryKeeps ==
  ASSUME NEW dir, GoodDir(dir), NEW t, NEW n \in Nat, n < Len(Entries(dir)),
         NEW w, StoreInv(dir, t, n, w), TextInv(dir, n, w)
  PROVE  TextInv(dir, n + 1, StoreEntry(dir, w, Entries(dir)[n + 1]))
<1>1. PICK N : N = Len(Entries(dir))
  OBVIOUS
<1>2. PICK e : e = Entries(dir)[n + 1]
  OBVIOUS
<1>3. PICK v : v = StoreEntry(dir, w, e)
  OBVIOUS
<1>4. PICK text : text = Text(e)
  OBVIOUS
<1>5. N \in Nat /\ n < N /\ n + 1 \in 1 .. N /\ FAT_WIDTH \in Nat
  BY <1>1, EntriesFacts, SizeFacts
<1>6. IsEntry(e)
  BY <1>1, <1>2, <1>5, EntriesFacts DEF IsEntry
<1>7. DOMAIN v.bytes = Block
  BY <1>3, StoreEntryDomain DEF StoreInv, TextInv
<1>8. SUFFICES ASSUME v.status = "FILEOK", Short(dir)
      PROVE  /\ v.written = TextBefore(dir, n + 1 + 1)
             /\ n + 1 < N => v.skip = 0
             /\ v.written >= FAT_WIDTH => v.block \in Block \ {0} /\ v.fat[0] = v.block
             /\ Written(dir, v.fat, v.bytes, n + 1)
  BY <1>1, <1>2, <1>3, <1>7 DEF TextInv
<1>9. w.status = "FILEOK"
  <2>1. CASE GoesOn(w)
    BY <2>1 DEF GoesOn
  <2>2. CASE ~GoesOn(w)
    BY <2>2, <1>3, <1>8 DEF StoreEntry
  <2>3. QED
    BY <2>1, <2>2
<1>10. /\ w.written = TextBefore(dir, n + 1) /\ w.skip = 0
       /\ Written(dir, w.fat, w.bytes, n)
  BY <1>1, <1>5, <1>8, <1>9 DEF TextInv
<1>11. /\ \A m \in 1 .. N + 1 : TextBefore(dir, m) \in Nat
       /\ \A m \in 1 .. N :
            /\ Len(Text(Entries(dir)[m])) \in 1 .. Longest
            /\ TextBefore(dir, m + 1) = TextBefore(dir, m) + Len(Text(Entries(dir)[m]))
       /\ \A m, k \in 1 .. N + 1 : m <= k => TextBefore(dir, m) <= TextBefore(dir, k)
  BY <1>1, BeforeFacts
<1>12. TextBefore(dir, N) < FAT_WIDTH
  BY <1>1, <1>8 DEF Short
<1>13. PICK p : p = w.written
  OBVIOUS
<1>14. p \in Nat /\ p < FAT_WIDTH /\ Len(text) \in Nat /\ TextBefore(dir, n + 1 + 1) = p + Len(text)
  <2>1. n + 1 \in 1 .. N + 1 /\ N \in 1 .. N + 1 /\ n + 1 <= N
    BY <1>5
  <2>2. TextBefore(dir, n + 1) \in Nat /\ TextBefore(dir, N) \in Nat
        /\ TextBefore(dir, n + 1) <= TextBefore(dir, N)
    BY <2>1, <1>11
  <2>3. p \in Nat /\ p < FAT_WIDTH
    BY <2>2, <1>5, <1>10, <1>12, <1>13
  <2>4. \A x \in 1 .. Longest : x \in Nat
    BY SizeFacts
  <2>5. Len(text) \in Nat
    BY <2>4, <1>2, <1>4, <1>5, <1>11
  <2>6. TextBefore(dir, n + 1 + 1) = TextBefore(dir, n + 1) + Len(Text(Entries(dir)[n + 1]))
    BY <1>5, <1>11
  <2>7. QED
    BY <2>3, <2>5, <2>6, <1>2, <1>4, <1>10, <1>13
<1>15. /\ ShapeOf(w) /\ Sound(Heads(dir), w.fat) /\ w.harm = "none" /\ w.block = 0
       /\ IsBuffer(w.store) /\ w.written \in 0 .. FAT_WIDTH - 1 /\ DOMAIN w.bytes = Block
  <2>1. /\ ShapeOf(w) /\ TableKept(dir, t, w.fat) /\ w.harm = "none" /\ IsBuffer(w.store)
        /\ (w.block = 0 /\ w.written < FAT_WIDTH) \/ (w.block \in Block /\ w.written >= FAT_WIDTH)
    BY <1>9 DEF StoreInv
  <2>2. w.block = 0
    BY <2>1, <1>5, <1>13, <1>14
  <2>3. w.written \in 0 .. FAT_WIDTH - 1
    BY <1>5, <1>13, <1>14
  <2>4. QED
    BY <2>1, <2>2, <2>3 DEF TableKept, TextInv
<1>16. /\ v.written = p + Len(text)
       /\ p + Len(text) < FAT_WIDTH => EntryFits(w, text, v)
       /\ p + Len(text) >= FAT_WIDTH => EntryCrosses(w, text, v)
  <2>1. StoreEntry(dir, w, e).status = "FILEOK"
    BY <1>3, <1>8
  <2>2. /\ StoreEntry(dir, w, e).written = w.written + Len(Text(e))
        /\ w.written + Len(Text(e)) < FAT_WIDTH =>
             EntryFits(w, Text(e), StoreEntry(dir, w, e))
        /\ w.written + Len(Text(e)) >= FAT_WIDTH =>
             EntryCrosses(w, Text(e), StoreEntry(dir, w, e))
    BY <2>1, <1>6, <1>9, <1>10, <1>15, EntryWritten
  <2>3. QED
    BY <2>2, <1>3, <1>4, <1>13
<1>17. v.written = TextBefore(dir, n + 1 + 1)
  BY <1>14, <1>16
<1>18. n + 1 < N => v.skip = 0
  <2>1. SUFFICES ASSUME n + 1 < N PROVE v.skip = 0
    OBVIOUS
  <2>2. n + 1 + 1 \in 1 .. N + 1 /\ N \in 1 .. N + 1 /\ n + 1 + 1 <= N
    BY <2>1, <1>5
  <2>3. TextBefore(dir, n + 1 + 1) <= TextBefore(dir, N) /\ TextBefore(dir, N) \in Nat
    BY <2>2, <1>11
  <2>4. p + Len(text) < FAT_WIDTH
    BY <2>3, <1>5, <1>12, <1>14
  <2>5. QED
    BY <2>4, <1>16 DEF EntryFits
<1>19. v.written >= FAT_WIDTH => v.block \in Block \ {0} /\ v.fat[0] = v.block
  BY <1>16 DEF EntryCrosses
<1>20. /\ \A k \in Nat : k < p => At(v.fat, v.bytes, k) = w.bytes[0][k]
       /\ \A i \in 1 .. Len(text) : At(v.fat, v.bytes, p + i - 1) = text[i]
  <2>1. \/ w.written + Len(text) < FAT_WIDTH /\ EntryFits(w, text, v)
        \/ w.written + Len(text) >= FAT_WIDTH /\ EntryCrosses(w, text, v)
    BY <1>5, <1>13, <1>14, <1>16
  <2>2. w.written \in Nat /\ w.written < FAT_WIDTH
    BY <1>13, <1>14
  <2>3. /\ \A k \in Nat : k < w.written => At(v.fat, v.bytes, k) = w.bytes[0][k]
        /\ \A i \in 1 .. Len(text) : At(v.fat, v.bytes, w.written + i - 1) = text[i]
    BY <2>1, <2>2, <1>14, EntryThere
  <2>4. QED
    BY <2>3, <1>13
<1>21. ASSUME NEW m \in 1 .. n + 1, NEW i \in 1 .. Len(Text(Entries(dir)[m]))
       PROVE  At(v.fat, v.bytes, TextBefore(dir, m) + i - 1) = Text(Entries(dir)[m])[i]
  <2>1. CASE m = n + 1
    BY <2>1, <1>2, <1>4, <1>10, <1>13, <1>20
  <2>2. CASE m # n + 1
    <3>1. PICK k : k = TextBefore(dir, m) + i - 1
      OBVIOUS
    <3>2. m \in 1 .. n /\ m \in 1 .. N /\ m + 1 \in 1 .. N + 1 /\ m \in 1 .. N + 1
          /\ n + 1 \in 1 .. N + 1 /\ m + 1 <= n + 1
      BY <2>2, <1>5
    <3>3. \A x \in 1 .. Longest : x \in Nat
      BY SizeFacts
    <3>4. TextBefore(dir, m) + Len(Text(Entries(dir)[m])) <= p
          /\ TextBefore(dir, m) \in Nat /\ Len(Text(Entries(dir)[m])) \in Nat
      BY <3>2, <3>3, <1>10, <1>11, <1>13
    <3>5. k \in Nat /\ k < p /\ k < FAT_WIDTH
      <4>1. PICK l : l = Len(Text(Entries(dir)[m]))
        OBVIOUS
      <4>2. PICK a : a = TextBefore(dir, m)
        OBVIOUS
      <4>3. i \in 1 .. l /\ l \in Nat /\ a \in Nat /\ a + l <= p /\ k = a + i - 1
        BY <3>1, <3>4, <4>1, <4>2
      <4>4. QED
        BY <4>3, <1>5, <1>14
    <3>6. At(w.fat, w.bytes, k) = Text(Entries(dir)[m])[i]
      BY <3>1, <3>2, <1>10 DEF Written
    <3>7. At(w.fat, w.bytes, k) = w.bytes[0][k]
      BY <3>5 DEF At
    <3>8. QED
      BY <3>1, <3>5, <3>6, <3>7, <1>20
  <2>3. QED
    BY <2>1, <2>2
<1>22. Written(dir, v.fat, v.bytes, n + 1)
  BY <1>21 DEF Written
<1>23. QED
  BY <1>17, <1>18, <1>19, <1>22


\* The whole text is there, and the zero that ends it.
HoldsText(dir, t, bs) ==
  /\ Written(dir, t, bs, Len(Entries(dir)))
  /\ At(t, bs, TextBefore(dir, Len(Entries(dir)) + 1)) = Zero
  /\ TextBefore(dir, Len(Entries(dir)) + 1) < 2 * FAT_WIDTH
  /\ TextBefore(dir, Len(Entries(dir)) + 1) >= FAT_WIDTH => t[0] \in Block \ {0}

\* What k_storeDirectory must leave when it finds the block it needs.
Kept(dir, w) ==
  /\ DOMAIN w.bytes = Block
  /\ w.status = "FILEOK" /\ Short(dir) => HoldsText(dir, w.fat, w.bytes)

\* The zero behind the last entry.
LEMMA ZeroPut ==
  ASSUME NEW dir, GoodDir(dir), NEW t, NEW w, StoreInv(dir, t, Len(Entries(dir)), w),
         TextInv(dir, Len(Entries(dir)), w), w.status = "FILEOK", Short(dir)
  PROVE  HoldsText(dir, Put(w, <<Zero>>).fat, Put(w, <<Zero>>).bytes)
<1>1. PICK N : N = Len(Entries(dir))
  OBVIOUS
<1>2. PICK v : v = Put(w, <<Zero>>)
  OBVIOUS
<1>3. PICK p : p = w.written
  OBVIOUS
<1>4. PICK o : o = p % FAT_WIDTH
  OBVIOUS
<1>5. /\ ShapeOf(w) /\ DOMAIN w.bytes = Block /\ p = TextBefore(dir, N + 1)
      /\ p >= FAT_WIDTH => w.block \in Block \ {0} /\ w.fat[0] = w.block
      /\ p < FAT_WIDTH => w.block = 0
      /\ Written(dir, w.fat, w.bytes, N)
  <2>1. /\ w.written = TextBefore(dir, N + 1) /\ Written(dir, w.fat, w.bytes, N)
        /\ w.written >= FAT_WIDTH => w.block \in Block \ {0} /\ w.fat[0] = w.block
    BY <1>1 DEF TextInv
  <2>2. /\ ShapeOf(w) /\ w.written \in Nat
        /\ (w.block = 0 /\ w.written < FAT_WIDTH) \/ (w.block \in Block /\ w.written >= FAT_WIDTH)
    BY DEF StoreInv
  <2>3. w.written < FAT_WIDTH => w.block = 0
    <3>1. FAT_WIDTH \in Nat
      BY SizeFacts
    <3>2. p \in Nat /\ ((w.block = 0 /\ p < FAT_WIDTH) \/ (w.block \in Block /\ p >= FAT_WIDTH))
      BY <2>2, <1>3
    <3>3. p < FAT_WIDTH => ~(p >= FAT_WIDTH)
      BY <3>1, <3>2
    <3>4. QED
      BY <3>2, <3>3, <1>3
  <2>4. QED
    BY <2>1, <2>2, <2>3, <1>3 DEF TextInv
<1>6. /\ \A m \in 1 .. N + 1 : TextBefore(dir, m) \in Nat
      /\ \A m \in 1 .. N :
           /\ Len(Text(Entries(dir)[m])) \in 1 .. Longest
           /\ TextBefore(dir, m + 1) = TextBefore(dir, m) + Len(Text(Entries(dir)[m]))
      /\ \A m, k \in 1 .. N + 1 : m <= k => TextBefore(dir, m) <= TextBefore(dir, k)
      /\ N \in Nat
  BY <1>1, BeforeFacts, EntriesFacts
<1>7. p \in Nat /\ p < 2 * FAT_WIDTH /\ FAT_WIDTH \in Nat \ {0}
  <2>1. N \in 1 .. N
    <3>1. N >= 1
      <4>1. N = 1 + Len(dir) /\ Len(dir) \in Nat
        BY <1>1, DirFacts DEF Entries
      <4>2. QED
        BY <4>1
    <3>2. QED
      BY <3>1, <1>6
  <2>2. PICK a : a = TextBefore(dir, N)
    OBVIOUS
  <2>3. PICK l : l = Len(Text(Entries(dir)[N]))
    OBVIOUS
  <2>4. a \in Nat /\ a < FAT_WIDTH /\ l \in 1 .. Longest /\ p = a + l
    <3>1. N \in 1 .. N + 1
      BY <2>1
    <3>2. QED
      BY <3>1, <2>1, <2>2, <2>3, <1>1, <1>5, <1>6 DEF Short
  <2>5. QED
    BY <2>4, SizeFacts
<1>8. v.fat = w.fat
  BY <1>2, <1>5, PutFacts DEF PutSays
<1>9. /\ o \in 0 .. FAT_WIDTH - 1
      /\ p < FAT_WIDTH => o = p
      /\ p >= FAT_WIDTH => o = p - FAT_WIDTH
  BY <1>4, <1>7, Offset
<1>10. /\ \A b \in Block : b # w.block => v.bytes[b] = w.bytes[b]
       /\ w.block \in Block => v.bytes[w.block][o] = Zero
       /\ w.block \in Block => \A x \in 0 .. FAT_WIDTH - 1 :
            x # o => v.bytes[w.block][x] = w.bytes[w.block][x]
  <2>1. PICK zero : zero = <<Zero>>
    OBVIOUS
  <2>2. Len(zero) = 1 /\ zero[1] = Zero
    BY <2>1
  <2>3. Puts(w.bytes, w.block, o, zero, v.bytes)
    BY <2>1, <1>2, <1>3, <1>4, <1>5, PutBytes
  <2>4. \A x \in 0 .. FAT_WIDTH - 1 : x \in o .. o + Len(zero) - 1 <=> x = o
    BY <2>2, <1>9
  <2>5. o - o + 1 = 1
    BY <1>9
  <2>6. QED
    BY <2>2, <2>3, <2>4, <2>5, <1>5, <1>9 DEF Puts
<1>11. ASSUME NEW k \in Nat, k < p PROVE At(v.fat, v.bytes, k) = At(w.fat, w.bytes, k)
  <2>1. 0 \in Block
    BY BlockFacts
  <2>2. CASE k < FAT_WIDTH
    <3>1. k \in 0 .. FAT_WIDTH - 1
      BY <2>2, <1>7
    <3>2. v.bytes[0][k] = w.bytes[0][k]
      <4>1. CASE p < FAT_WIDTH
        <5>1. w.block = 0 /\ k # o
          BY <4>1, <1>5, <1>7, <1>9, <1>11
        <5>2. QED
          BY <5>1, <3>1, <2>1, <1>10
      <4>2. CASE p >= FAT_WIDTH
        BY <4>2, <2>1, <1>5, <1>10
      <4>3. QED
        BY <4>1, <4>2, <1>7
    <3>3. QED
      BY <3>2, <2>2 DEF At
  <2>3. CASE ~(k < FAT_WIDTH)
    <3>1. p >= FAT_WIDTH /\ k - FAT_WIDTH \in 0 .. FAT_WIDTH - 1 /\ k - FAT_WIDTH # o
      BY <2>3, <1>7, <1>9, <1>11
    <3>2. w.block \in Block /\ w.fat[0] = w.block
      BY <3>1, <1>5
    <3>3. v.bytes[w.block][k - FAT_WIDTH] = w.bytes[w.block][k - FAT_WIDTH]
      BY <3>1, <3>2, <1>10
    <3>4. QED
      BY <3>2, <3>3, <2>3, <1>8 DEF At
  <2>4. QED
    BY <2>2, <2>3
<1>12. At(v.fat, v.bytes, p) = Zero
  <2>1. CASE p < FAT_WIDTH
    BY <2>1, <1>5, <1>9, <1>10, BlockFacts DEF At
  <2>2. CASE p >= FAT_WIDTH
    <3>1. ~(p < FAT_WIDTH)
      BY <2>2, <1>7
    <3>2. QED
      BY <3>1, <2>2, <1>5, <1>8, <1>9, <1>10 DEF At
  <2>3. QED
    BY <2>1, <2>2, <1>7
<1>13. ASSUME NEW m \in 1 .. N, NEW i \in 1 .. Len(Text(Entries(dir)[m]))
       PROVE  At(v.fat, v.bytes, TextBefore(dir, m) + i - 1) = Text(Entries(dir)[m])[i]
  <2>1. PICK l : l = Len(Text(Entries(dir)[m]))
    OBVIOUS
  <2>2. PICK a : a = TextBefore(dir, m)
    OBVIOUS
  <2>3. i \in 1 .. l /\ l \in Nat /\ a \in Nat /\ a + l <= p
    <3>1. \A x \in 1 .. Longest : x \in Nat
      BY SizeFacts
    <3>2. m \in 1 .. N + 1 /\ m + 1 \in 1 .. N + 1 /\ N + 1 \in 1 .. N + 1 /\ m + 1 <= N + 1
      BY <1>6
    <3>3. QED
      BY <3>1, <3>2, <2>1, <2>2, <1>5, <1>6
  <2>4. a + i - 1 \in Nat /\ a + i - 1 < p
    BY <2>3, <1>7
  <2>5. At(w.fat, w.bytes, a + i - 1) = Text(Entries(dir)[m])[i]
    BY <2>2, <1>5 DEF Written
  <2>6. QED
    BY <2>2, <2>4, <2>5, <1>11
<1>14. Written(dir, v.fat, v.bytes, N)
  BY <1>13 DEF Written
<1>15. p >= FAT_WIDTH => v.fat[0] \in Block \ {0}
  BY <1>5, <1>8
<1>16. HoldsText(dir, v.fat, v.bytes)
  BY <1>1, <1>5, <1>7, <1>12, <1>14, <1>15 DEF HoldsText
<1>17. QED
  BY <1>2, <1>16


LEMMA StoreHolds ==
  ASSUME NEW dir, GoodDir(dir), NEW t, Sound(Heads(dir), t), NearEnd(t, 0), DOMAIN bytes = Block
  PROVE  Kept(dir, Store(dir, t))
<1> DEFINE N == Len(Entries(dir))
<1>1. /\ N \in Nat /\ N <= Cardinality(Name) + 1 /\ Cardinality(Name) + 1 \in Nat
      /\ \A n \in 1 .. N : IsEntry(Entries(dir)[n])
  BY EntriesFacts, SizeFacts DEF IsEntry
<1>2. PICK g : /\ \A k \in 0 .. N :
                    g[k] = IF k = 0 THEN Fresh(t)
                           ELSE StoreEntry(dir, g[k - 1], Entries(dir)[k])
               /\ Store(dir, t) = IF GoesOn(g[N]) THEN Put(g[N], <<Zero>>) ELSE g[N]
  BY <1>1, StoreSteps
<1> DEFINE S == {k \in Nat : k <= N => StoreInv(dir, t, k, g[k]) /\ TextInv(dir, k, g[k])}
<1>3. StoreInv(dir, t, 0, Fresh(t)) /\ TextInv(dir, 0, Fresh(t))
  <2> DEFINE w == Fresh(t)
  <2>1. /\ ShapeOf(w) /\ w.fat = t /\ w.block = 0 /\ w.written = 0 /\ w.skip = 0
        /\ w.store = <<>> /\ w.status = "FILEOK" /\ w.harm = "none" /\ w.bytes = bytes
    BY DEF Fresh, ShapeOf
  <2> HIDE DEF w
  <2>2. IsBuffer(w.store)
    <3>1. <<>> \in Seq(Char) /\ Len(<<>>) = 0
      OBVIOUS
    <3>2. QED
      BY <3>1, <2>1, SizeFacts DEF IsBuffer
  <2>3. TableKept(dir, t, w.fat)
    BY <2>1 DEF TableKept
  <2>4. w.written <= 0 * Longest /\ w.written < FAT_WIDTH
    BY <2>1, SizeFacts
  <2>5. StoreInv(dir, t, 0, w)
    BY <2>1, <2>2, <2>3, <2>4 DEF StoreInv
  <2>6. w.written = TextBefore(dir, 0 + 1) /\ ~(w.written >= FAT_WIDTH)
    <3>1. FAT_WIDTH \in Nat \ {0} /\ 0 + 1 = 1
      BY SizeFacts
    <3>2. QED
      BY <3>1, <2>1, BeforeNext
  <2>7. Written(dir, w.fat, w.bytes, 0)
    BY DEF Written
  <2>8. TextInv(dir, 0, w)
    BY <2>1, <2>6, <2>7 DEF TextInv
  <2>9. QED
    BY <2>5, <2>8 DEF w
<1> HIDE DEF N
<1>4. 0 \in S
  BY <1>1, <1>2, <1>3
<1>5. ASSUME NEW k \in Nat, k \in S PROVE k + 1 \in S
  <2>1. CASE k + 1 <= N
    <3>1. k + 1 \in 0 .. N /\ k + 1 \in 1 .. N /\ k + 1 # 0 /\ (k + 1) - 1 = k
          /\ k < Cardinality(Name) + 1 /\ k < N
      BY <2>1, <1>1
    <3>2. StoreInv(dir, t, k, g[k]) /\ TextInv(dir, k, g[k])
      BY <1>5, <2>1, <1>1
    <3>3. g[k + 1] = StoreEntry(dir, g[k], Entries(dir)[k + 1])
      BY <3>1, <1>2
    <3>4. StoreInv(dir, t, k + 1, StoreEntry(dir, g[k], Entries(dir)[k + 1]))
      BY <3>1, <3>2, <1>1, StoreEntryKeeps
    <3>5. TextInv(dir, k + 1, StoreEntry(dir, g[k], Entries(dir)[k + 1]))
      BY <3>1, <3>2, TextEntryKeeps DEF N
    <3>6. QED
      BY <3>3, <3>4, <3>5
  <2>2. CASE ~(k + 1 <= N)
    BY <2>2
  <2>3. QED
    BY <2>1, <2>2
<1>6. Nat \subseteq S
  <2> HIDE DEF S
  <2>1. QED
    BY <1>4, <1>5, SetInduction
<1>7. StoreInv(dir, t, N, g[N]) /\ TextInv(dir, N, g[N])
  BY <1>1, <1>6
<1>8. PICK w : w = g[N]
  OBVIOUS
<1>9. /\ ShapeOf(w) /\ DOMAIN w.bytes = Block /\ w.harm = "none"
      /\ Store(dir, t) = IF GoesOn(w) THEN Put(w, <<Zero>>) ELSE w
  BY <1>2, <1>7, <1>8 DEF StoreInv, TextInv
<1>10. CASE GoesOn(w)
  <2>1. PICK v : v = Put(w, <<Zero>>)
    OBVIOUS
  <2>2. DOMAIN v.bytes = Block
    BY <1>9, <2>1, PutBytes DEF Puts
  <2>3. Short(dir) => HoldsText(dir, v.fat, v.bytes)
    BY <1>7, <1>8, <1>10, <2>1, ZeroPut DEF GoesOn, N
  <2>4. QED
    BY <1>9, <1>10, <2>1, <2>2, <2>3 DEF Kept
<1>11. CASE ~GoesOn(w)
  BY <1>9, <1>11 DEF Kept, GoesOn
<1>12. QED
  BY <1>10, <1>11

-------------------------------------------------------------------------------
(* The invariant of the characters.                                          *)

BytesInv ==
  /\ DOMAIN bytes = Block
  /\ status = "FILEOK" /\ Short(stored) => HoldsText(stored, fat, bytes)

LEMMA StoredBytes ==
  ASSUME NEW dir, GoodDir(dir), NEW t, Sound(Heads(dir), t), NearEnd(t, 0),
         DOMAIN bytes = Block, StoreDirectory(dir, t)
  PROVE  BytesInv'
<1> DEFINE w == Store(dir, t)
<1>1. fat' = w.fat /\ bytes' = w.bytes /\ status' = w.status /\ stored' = dir
  BY DEF StoreDirectory
<1>2. Kept(dir, w)
  BY StoreHolds
<1> HIDE DEF w
<1>3. Short(stored') <=> Short(dir)
  BY <1>1
<1>4. QED
  BY <1>1, <1>2 DEF BytesInv, Kept


\* f_write stores the directory, and changes a block that is not the directory's.
LEMMA ExtendKeepsBytes ==
  ASSUME DirInv, BytesInv, NEW k \in DOMAIN files, Extend(k)
  PROVE  BytesInv'
<1>1. PICK w : w = Store(files, fat)
  OBVIOUS
<1>2. PICK t : t = w.fat
  OBVIOUS
<1>3. PICK a : a = Walk(t, files[k].start, files[k].size)
  OBVIOUS
<1>4. PICK other : other = [o \in 0 .. FAT_WIDTH - 1 |-> Other]
  OBVIOUS
<1>5. PICK b : b = DetermineBlock(files, t)
  OBVIOUS
<1>6. /\ a \in Block /\ stored' = files /\ status' = w.status
      /\ fat' = [t EXCEPT ![a] = b] /\ bytes' = [w.bytes EXCEPT ![a] = other]
  BY <1>1, <1>2, <1>3, <1>4, <1>5 DEF Extend
<1>7. GoodDir(files) /\ Sound(Heads(files), fat) /\ NearEnd(fat, 0) /\ DOMAIN bytes = Block
  BY DEF DirInv, BytesInv
<1>8. Kept(files, w) /\ TableKept(files, fat, t)
  BY <1>1, <1>2, <1>7, StoreHolds, StoreKeeps
<1>9. /\ t \in Table /\ ~Cyclic(t, 0) /\ ~Cyclic(t, files[k].start)
      /\ Chain(t, 0) \cap Chain(t, files[k].start) = {}
  <2>1. Sound(Heads(files), t) /\ 0 \in Heads(files)
        /\ files[k].start \in Heads(files) /\ files[k].start # 0
    BY <1>8, InvFacts DEF TableKept
  <2>2. QED
    BY <2>1, SoundSays
<1>10. a \notin Chain(t, 0)
  <2>1. files[k].size \in Nat
    BY InvFacts
  <2>2. a \in Chain(t, files[k].start)
    BY <2>1, <1>3, <1>6, <1>9, ChainIsWalk
  <2>3. QED
    BY <2>2, <1>9
<1>11. a # 0 /\ (t[0] \in Block => a # t[0])
  <2>1. Walk(t, 0, 0) = 0 /\ Walk(t, 0, 0 + 1) = t[0]
    BY WalkZero, WalkNext, BlockFacts
  <2>2. 0 \in Chain(t, 0) /\ (t[0] \in Block => t[0] \in Chain(t, 0))
    <3>1. 0 \in Nat /\ 0 + 1 \in Nat /\ 0 \in Block
      BY BlockFacts
    <3>2. QED
      BY <3>1, <2>1, <1>9, ChainIsWalk
  <2>3. QED
    BY <2>2, <1>10
<1>12. PICK u : u = fat'
  OBVIOUS
<1>13. PICK bs : bs = bytes'
  OBVIOUS
<1>14. 0 \in Block /\ u[0] = t[0] /\ DOMAIN bs = Block /\ \A c \in Block : c # a => bs[c] = w.bytes[c]
  <2>1. DOMAIN w.bytes = Block
    BY <1>8 DEF Kept
  <2>2. 0 \in Block
    BY BlockFacts
  <2>3. u[0] = t[0]
    BY <2>2, <1>6, <1>9, <1>11, <1>12 DEF Table
  <2>4. QED
    BY <2>1, <2>2, <2>3, <1>6, <1>13
<1>15. SUFFICES ASSUME w.status = "FILEOK", Short(files) PROVE HoldsText(files, u, bs)
  <2>1. Short(stored') <=> Short(files)
    BY <1>6
  <2>2. QED
    BY <2>1, <1>6, <1>12, <1>13, <1>14 DEF BytesInv
<1>16. HoldsText(files, t, w.bytes)
  BY <1>2, <1>8, <1>15 DEF Kept
<1>17. PICK last : last = TextBefore(files, Len(Entries(files)) + 1)
  OBVIOUS
<1>18. /\ Written(files, t, w.bytes, Len(Entries(files)))
       /\ At(t, w.bytes, last) = Zero
       /\ last < 2 * FAT_WIDTH /\ (last >= FAT_WIDTH => t[0] \in Block \ {0})
  BY <1>16, <1>17 DEF HoldsText
<1>19. \A x : x < FAT_WIDTH \/ t[0] \in Block => At(u, bs, x) = At(t, w.bytes, x)
  BY <1>11, <1>14 DEF At
<1>20. PICK N : N = Len(Entries(files))
  OBVIOUS
<1>21. /\ \A m \in 1 .. N + 1 : TextBefore(files, m) \in Nat
       /\ \A m \in 1 .. N :
            /\ Len(Text(Entries(files)[m])) \in 1 .. Longest
            /\ TextBefore(files, m + 1) = TextBefore(files, m) + Len(Text(Entries(files)[m]))
       /\ \A m, j \in 1 .. N + 1 : m <= j => TextBefore(files, m) <= TextBefore(files, j)
       /\ N \in Nat
  BY <1>7, <1>20, BeforeFacts, EntriesFacts
<1>22. last \in Nat /\ FAT_WIDTH \in Nat
  <2>1. N + 1 \in 1 .. N + 1
    BY <1>21
  <2>2. QED
    BY <2>1, <1>17, <1>20, <1>21, SizeFacts
<1>23. \A x \in Nat : x <= last => At(u, bs, x) = At(t, w.bytes, x)
  <2>1. ASSUME NEW x \in Nat, x <= last PROVE x < FAT_WIDTH \/ t[0] \in Block
    <3>1. CASE last >= FAT_WIDTH
      BY <3>1, <1>18
    <3>2. CASE ~(last >= FAT_WIDTH)
      BY <3>2, <2>1, <1>22
    <3>3. QED
      BY <3>1, <3>2
  <2>2. QED
    BY <2>1, <1>19
<1>24. ASSUME NEW m \in 1 .. N, NEW i \in 1 .. Len(Text(Entries(files)[m]))
       PROVE  At(u, bs, TextBefore(files, m) + i - 1) = Text(Entries(files)[m])[i]
  <2>1. PICK l : l = Len(Text(Entries(files)[m]))
    OBVIOUS
  <2>2. PICK c : c = TextBefore(files, m)
    OBVIOUS
  <2>3. i \in 1 .. l /\ l \in Nat /\ c \in Nat /\ c + l <= last
    <3>1. \A x \in 1 .. Longest : x \in Nat
      BY SizeFacts
    <3>2. m \in 1 .. N + 1 /\ m + 1 \in 1 .. N + 1 /\ N + 1 \in 1 .. N + 1 /\ m + 1 <= N + 1
      BY <1>21
    <3>3. QED
      BY <3>1, <3>2, <2>1, <2>2, <1>17, <1>20, <1>21
  <2>4. c + i - 1 \in Nat /\ c + i - 1 <= last
    BY <2>3, <1>22
  <2>5. At(t, w.bytes, c + i - 1) = Text(Entries(files)[m])[i]
    BY <2>2, <1>18, <1>20 DEF Written
  <2>6. QED
    BY <2>2, <2>4, <2>5, <1>23
<1>25. Written(files, u, bs, N) /\ At(u, bs, last) = Zero
  <2>1. last <= last
    BY <1>22
  <2>2. QED
    BY <2>1, <1>18, <1>22, <1>23, <1>24 DEF Written
<1>26. QED
  BY <1>14, <1>17, <1>18, <1>20, <1>25 DEF HoldsText

\* At first block 0 has the text of the root alone.
LEMMA InitBytes == InitDirectory => BytesInv
<1> SUFFICES ASSUME InitDirectory PROVE BytesInv
  OBVIOUS
<1>1. GoodDir(<<>>)
  BY InitKeeps DEF InitDirectory, DirInv
<1>2. PICK text : text = Text(Root)
  OBVIOUS
<1>3. stored = <<>> /\ DOMAIN bytes = Block
      /\ \A o \in 0 .. FAT_WIDTH - 1 : bytes[0][o] = IF o < Len(text) THEN text[o + 1] ELSE Zero
  BY <1>2, BlockFacts DEF InitDirectory
<1>4. Len(Entries(<<>>)) = 1 /\ Entries(<<>>)[1] = Root
  BY DEF Entries
<1>5. Len(text) \in 1 .. Longest /\ TextBefore(<<>>, 1) = 0
      /\ TextBefore(<<>>, 1 + 1) = 0 + Len(text)
  <2>1. 1 \in 1 .. 1 /\ 1 \in Nat /\ 1 >= 1
    OBVIOUS
  <2>2. QED
    BY <2>1, <1>1, <1>2, <1>4, BeforeFacts, BeforeNext
<1>6. Len(text) \in Nat /\ Len(text) < FAT_WIDTH /\ FAT_WIDTH \in Nat \ {0}
  BY <1>5, SizeFacts
<1>7. PICK n : n = Len(text)
  OBVIOUS
<1>8. ASSUME NEW i \in 1 .. n PROVE At(fat, bytes, 0 + i - 1) = text[i]
  <2>1. /\ 0 + i - 1 \in 0 .. FAT_WIDTH - 1 /\ 0 + i - 1 < FAT_WIDTH
        /\ 0 + i - 1 < n /\ 0 + i - 1 + 1 = i
    BY <1>6, <1>7
  <2>2. QED
    BY <2>1, <1>3, <1>7 DEF At
<1>9. Written(<<>>, fat, bytes, 1)
  <2>1. \A m \in 1 .. 1 : m = 1
    OBVIOUS
  <2>2. QED
    BY <2>1, <1>2, <1>4, <1>5, <1>7, <1>8 DEF Written
<1>10. At(fat, bytes, 0 + n) = Zero /\ 0 + n < 2 * FAT_WIDTH /\ ~(0 + n >= FAT_WIDTH)
  <2>1. 0 + n \in 0 .. FAT_WIDTH - 1 /\ 0 + n < FAT_WIDTH /\ ~(0 + n < n)
    BY <1>6, <1>7
  <2>2. At(fat, bytes, 0 + n) = Zero
    BY <2>1, <1>3, <1>7 DEF At
  <2>3. QED
    BY <2>1, <2>2, <1>6
<1>11. HoldsText(<<>>, fat, bytes)
  BY <1>4, <1>5, <1>7, <1>9, <1>10 DEF HoldsText
<1>12. QED
  BY <1>3, <1>11 DEF BytesInv

LEMMA BytesHold == DirectorySpec => [](DirInv /\ BytesInv)
<1>1. ASSUME DirInv, BytesInv, [NextDirectory]_directoryVars PROVE DirInv' /\ BytesInv'
  <2>1. ASSUME DirInv', WellStored PROVE DirInv' /\ BytesInv'
    <3>1. DOMAIN bytes = Block
      BY <1>1 DEF BytesInv
    <3>2. QED
      BY <2>1, <3>1, StoredBytes DEF WellStored
  <2>2. ASSUME NEW f \in Name, Create(f) PROVE DirInv' /\ BytesInv'
    BY <1>1, <2>1, <2>2, CreateKeeps
  <2>3. ASSUME NEW i \in DOMAIN files, Unlink(i) PROVE DirInv' /\ BytesInv'
    BY <1>1, <2>1, <2>3, UnlinkKeeps
  <2>4. ASSUME NEW i \in DOMAIN files, Extend(i) PROVE DirInv' /\ BytesInv'
    BY <1>1, <2>4, ExtendKeeps, ExtendKeepsBytes
  <2>5. CASE Restore
    BY <1>1, <2>1, <2>5, RestoreKeeps
  <2>6. ASSUME UNCHANGED <<fat, bytes, stored, status>> PROVE BytesInv'
    <3>1. Short(stored') <=> Short(stored)
      BY <2>6
    <3>2. HoldsText(stored', fat', bytes') <=> HoldsText(stored, fat, bytes)
      BY <2>6
    <3>3. QED
      BY <1>1, <2>6, <3>1, <3>2 DEF BytesInv
  <2>7. CASE Mount
    BY <1>1, <2>6, <2>7, MountKeeps DEF Mount
  <2>8. CASE UNCHANGED directoryVars
    BY <1>1, <2>6, <2>8 DEF directoryVars, DirInv
  <2>9. QED
    BY <1>1, <2>2, <2>3, <2>4, <2>5, <2>7, <2>8 DEF NextDirectory
<1>2. QED
  BY InitKeeps, InitBytes, <1>1, PTL DEF DirectorySpec


-------------------------------------------------------------------------------
(* What k_loadDirectory finds of it.                                         *)

LEMMA BlockOf ==
  ASSUME NEW n \in Nat
  PROVE  /\ n < FAT_WIDTH => n \div FAT_WIDTH = 0
         /\ n >= FAT_WIDTH /\ n < 2 * FAT_WIDTH => n \div FAT_WIDTH = 1
BY GeometryAssumption

LEMMA DiscSize ==
  /\ NUM_BLOCKS * FAT_WIDTH \in Nat /\ FAT_WIDTH <= NUM_BLOCKS * FAT_WIDTH
  /\ NUM_BLOCKS > 1 => 2 * FAT_WIDTH <= NUM_BLOCKS * FAT_WIDTH
BY GeometryAssumption

\* The first two blocks of the chain of block 0.
LEMMA ReadAt ==
  ASSUME NEW k \in Nat, k < FAT_WIDTH \/ (k < 2 * FAT_WIDTH /\ fat[0] \in Block)
  PROVE  Read(k) = At(fat, bytes, k)
<1>1. FAT_WIDTH \in Nat \ {0} /\ 0 \in Block
  BY SizeFacts, BlockFacts
<1>2. Walk(fat, 0, 0) = 0 /\ Walk(fat, 0, 0 + 1) = fat[0]
  BY <1>1, WalkZero, WalkNext
<1>3. CASE k < FAT_WIDTH
  <2>1. k \div FAT_WIDTH = 0 /\ k % FAT_WIDTH = k
    BY <1>3, BlockOf, Offset
  <2>2. QED
    BY <2>1, <1>1, <1>2, <1>3 DEF Read, At
<1>4. CASE ~(k < FAT_WIDTH)
  <2>1. k \div FAT_WIDTH = 0 + 1 /\ k % FAT_WIDTH = k - FAT_WIDTH /\ fat[0] \in Block
    BY <1>1, <1>4, BlockOf, Offset
  <2>2. QED
    BY <2>1, <1>2, <1>4 DEF Read, At
<1>5. QED
  BY <1>3, <1>4


\* The text has n characters, those of entry m behind the first TextBefore(dir, m).
TextIs(dir, text, n) ==
  /\ text = [i \in 1 .. n |-> text[i]]
  /\ \A m \in 1 .. Len(Entries(dir)) : \A i \in 1 .. Len(Text(Entries(dir)[m])) :
       text[TextBefore(dir, m) + i] = Text(Entries(dir)[m])[i]

\* Every character of the text is one of an entry.
LEMMA EntryOf ==
  ASSUME NEW dir, GoodDir(dir)
  PROVE  \A n \in 1 .. Len(Entries(dir)) + 1 : \A k \in Nat : k < TextBefore(dir, n) =>
           \E m \in 1 .. Len(Entries(dir)) : \E i \in 1 .. Len(Text(Entries(dir)[m])) :
             k = TextBefore(dir, m) + i - 1
<1> DEFINE N == Len(Entries(dir))
           In(k) == \E m \in 1 .. N : \E i \in 1 .. Len(Text(Entries(dir)[m])) :
                      k = TextBefore(dir, m) + i - 1
           S == {n \in Nat : n <= N => \A k \in Nat : k < TextBefore(dir, n + 1) => In(k)}
<1>1. N \in Nat
  BY EntriesFacts
<1>2. 0 \in S
  <2>1. TextBefore(dir, 0 + 1) = 0
    BY BeforeNext
  <2> HIDE DEF N, In
  <2>2. \A k \in Nat : ~(k < 0)
    OBVIOUS
  <2>3. QED
    BY <2>1, <2>2
<1>3. ASSUME NEW n \in Nat, n \in S PROVE n + 1 \in S
  <2>1. SUFFICES ASSUME n + 1 <= N, NEW k \in Nat, k < TextBefore(dir, n + 1 + 1) PROVE In(k)
    OBVIOUS
  <2>2. PICK a : a = TextBefore(dir, n + 1)
    OBVIOUS
  <2>3. PICK l : l = Len(Text(Entries(dir)[n + 1]))
    OBVIOUS
  <2>4. n + 1 \in 1 .. N /\ n + 1 \in 1 .. N + 1 /\ n <= N
    BY <2>1, <1>1
  <2>5. a \in Nat /\ l \in 1 .. Longest /\ TextBefore(dir, n + 1 + 1) = a + l
    BY <2>2, <2>3, <2>4, BeforeFacts
  <2>6. l \in Nat
    BY <2>5, SizeFacts
  <2>7. CASE k < a
    BY <2>2, <2>4, <2>7, <1>3
  <2>8. CASE ~(k < a)
    <3>1. k - a + 1 \in 1 .. l /\ k = a + (k - a + 1) - 1
      BY <2>1, <2>5, <2>6, <2>8
    <3>2. QED
      BY <3>1, <2>2, <2>3, <2>4
  <2>9. QED
    BY <2>7, <2>8
<1>4. Nat \subseteq S
  <2> HIDE DEF S
  <2>1. QED
    BY <1>2, <1>3, SetInduction
<1>5. ASSUME NEW n \in 1 .. N + 1, NEW k \in Nat, k < TextBefore(dir, n) PROVE In(k)
  <2>1. n - 1 \in Nat /\ n - 1 <= N /\ (n - 1) + 1 = n
    BY <1>1
  <2> HIDE DEF In, N
  <2>2. n - 1 \in S
    BY <2>1, <1>4
  <2>3. QED
    BY <2>1, <2>2, <1>5
<1>6. QED
  BY <1>5

LEMMA LoadedIs ==
  ASSUME NEW dir, GoodDir(dir), HoldsText(dir, fat, bytes)
  PROVE  /\ TextIs(dir, LoadedText, TextBefore(dir, Len(Entries(dir)) + 1))
         /\ TextBefore(dir, Len(Entries(dir)) + 1) \in Nat \ {0}
<1>1. PICK N : N = Len(Entries(dir))
  OBVIOUS
<1>2. PICK n : n = TextBefore(dir, N + 1)
  OBVIOUS
<1>3. /\ \A m \in 1 .. N + 1 : TextBefore(dir, m) \in Nat
      /\ \A m \in 1 .. N :
           /\ Len(Text(Entries(dir)[m])) \in 1 .. Longest
           /\ TextBefore(dir, m + 1) = TextBefore(dir, m) + Len(Text(Entries(dir)[m]))
      /\ \A m, j \in 1 .. N + 1 : m <= j => TextBefore(dir, m) <= TextBefore(dir, j)
      /\ N \in Nat
      /\ \A m \in 1 .. N : IsEntry(Entries(dir)[m])
  BY <1>1, BeforeFacts, EntriesFacts DEF IsEntry
<1>4. /\ Written(dir, fat, bytes, N) /\ At(fat, bytes, n) = Zero
      /\ n < 2 * FAT_WIDTH /\ (n >= FAT_WIDTH => fat[0] \in Block \ {0})
  BY <1>1, <1>2 DEF HoldsText
<1>5. N >= 1
  <2>1. N = 1 + Len(dir) /\ Len(dir) \in Nat
    BY <1>1, DirFacts DEF Entries
  <2>2. QED
    BY <2>1
<1>6. n \in Nat \ {0} /\ FAT_WIDTH \in Nat \ {0}
  <2>1. 1 \in 1 .. N /\ 2 \in 1 .. N + 1 /\ N + 1 \in 1 .. N + 1 /\ 2 <= N + 1 /\ 1 + 1 = 2
    BY <1>3, <1>5
  <2>2. TextBefore(dir, 1) = 0 /\ TextBefore(dir, 2) <= n /\ n \in Nat
    BY <2>1, <1>2, <1>3, BeforeNext
  <2>3. PICK l : l = Len(Text(Entries(dir)[1]))
    OBVIOUS
  <2>4. TextBefore(dir, 2) = 0 + l /\ l \in 1 .. Longest
    BY <2>1, <2>2, <2>3, <1>3
  <2>5. 0 + l <= n /\ l >= 1 /\ l \in Nat
    BY <2>2, <2>4, SizeFacts
  <2>6. QED
    BY <2>2, <2>5, SizeFacts
<1>7. \A k \in Nat : k <= n => Read(k) = At(fat, bytes, k)
  <2>1. ASSUME NEW k \in Nat, k <= n
        PROVE  k < FAT_WIDTH \/ (k < 2 * FAT_WIDTH /\ fat[0] \in Block)
    <3>1. CASE n >= FAT_WIDTH
      BY <3>1, <2>1, <1>4, <1>6
    <3>2. CASE ~(n >= FAT_WIDTH)
      BY <3>2, <2>1, <1>6
    <3>3. QED
      BY <3>1, <3>2
  <2>2. QED
    BY <2>1, ReadAt
<1>8. ASSUME NEW m \in 1 .. N, NEW i \in 1 .. Len(Text(Entries(dir)[m]))
      PROVE  /\ TextBefore(dir, m) + i - 1 \in Nat /\ TextBefore(dir, m) + i - 1 < n
             /\ Read(TextBefore(dir, m) + i - 1) = Text(Entries(dir)[m])[i]
  <2>1. PICK l : l = Len(Text(Entries(dir)[m]))
    OBVIOUS
  <2>2. PICK c : c = TextBefore(dir, m)
    OBVIOUS
  <2>3. i \in 1 .. l /\ l \in Nat /\ c \in Nat /\ c + l <= n
    <3>1. \A x \in 1 .. Longest : x \in Nat
      BY SizeFacts
    <3>2. m \in 1 .. N + 1 /\ m + 1 \in 1 .. N + 1 /\ N + 1 \in 1 .. N + 1 /\ m + 1 <= N + 1
      BY <1>3
    <3>3. QED
      BY <3>1, <3>2, <2>1, <2>2, <1>2, <1>3
  <2>4. c + i - 1 \in Nat /\ c + i - 1 < n /\ c + i - 1 <= n
    BY <2>3, <1>6
  <2>5. At(fat, bytes, c + i - 1) = Text(Entries(dir)[m])[i]
    BY <2>2, <1>4 DEF Written
  <2>6. QED
    BY <2>2, <2>4, <2>5, <1>7
<1>9. ASSUME NEW k \in Nat, k < n PROVE Read(k) # Zero
  <2>1. N + 1 \in 1 .. N + 1
    BY <1>3
  <2>2. PICK m \in 1 .. N : \E i \in 1 .. Len(Text(Entries(dir)[m])) :
          k = TextBefore(dir, m) + i - 1
    BY <2>1, <1>1, <1>2, <1>9, EntryOf
  <2>3. PICK i \in 1 .. Len(Text(Entries(dir)[m])) : k = TextBefore(dir, m) + i - 1
    BY <2>2
  <2>4. QED
    BY <2>3, <1>3, <1>8, TextWithoutZero
<1>10. n \in 0 .. NUM_BLOCKS * FAT_WIDTH - 1 /\ Read(n) = Zero
  <2>1. n < NUM_BLOCKS * FAT_WIDTH
    <3>1. CASE n >= FAT_WIDTH
      <4>1. PICK b : b = fat[0]
        OBVIOUS
      <4>2. b \in 1 .. NUM_BLOCKS - 1 /\ NUM_BLOCKS \in Nat
        BY <3>1, <4>1, <1>4, GeometryAssumption DEF Block
      <4>3. NUM_BLOCKS > 1
        BY <4>2
      <4>4. QED
        BY <4>3, <1>4, <1>6, DiscSize
    <3>2. CASE ~(n >= FAT_WIDTH)
      BY <3>2, <1>6, DiscSize
    <3>3. QED
      BY <3>1, <3>2
  <2>2. n <= n
    BY <1>6
  <2>3. QED
    BY <2>1, <2>2, <1>4, <1>6, <1>7, DiscSize
<1> DEFINE zeros == {k \in 0 .. NUM_BLOCKS * FAT_WIDTH - 1 : Read(k) = Zero}
           last == IF zeros = {} THEN 0 ELSE CHOOSE k \in zeros : \A j \in zeros : k <= j
<1>11. LoadedText = [i \in 1 .. last |-> Read(i - 1)]
  BY DEF LoadedText
<1>12. n \in zeros /\ \A j \in zeros : n <= j
  <2>1. \A j \in zeros : j \in Nat /\ Read(j) = Zero
    BY DiscSize
  <2>2. n \in zeros
    BY <1>10
  <2> HIDE DEF zeros
  <2>3. QED
    BY <2>1, <2>2, <1>6, <1>9
<1>13. last = n
  <2>1. \A j \in zeros : j \in Nat
    BY DiscSize
  <2> HIDE DEF zeros
  <2>2. \A k \in zeros : (\A j \in zeros : k <= j) => k = n
    <3>1. ASSUME NEW k \in zeros, \A j \in zeros : k <= j PROVE k = n
      <4>1. k <= n /\ n <= k /\ k \in Nat /\ n \in Nat
        BY <3>1, <2>1, <1>12
      <4>2. QED
        BY <4>1
    <3>2. QED
      BY <3>1
  <2>3. QED
    BY <2>2, <1>12
<1> HIDE DEF last
<1>14. PICK text : text = LoadedText
  OBVIOUS
<1>15. text = [i \in 1 .. n |-> Read(i - 1)]
  BY <1>11, <1>13, <1>14
<1>16. text = [i \in 1 .. n |-> text[i]]
  BY <1>15
<1>17. ASSUME NEW m \in 1 .. N, NEW i \in 1 .. Len(Text(Entries(dir)[m]))
       PROVE  text[TextBefore(dir, m) + i] = Text(Entries(dir)[m])[i]
  <2>1. PICK k : k = TextBefore(dir, m) + i - 1
    OBVIOUS
  <2>2. k \in Nat /\ k < n /\ Read(k) = Text(Entries(dir)[m])[i]
    BY <2>1, <1>8
  <2>3. m \in 1 .. N + 1
    BY <1>3
  <2>4. TextBefore(dir, m) \in Nat /\ i \in Int
    BY <2>3, <1>3
  <2>5. k + 1 \in 1 .. n /\ (k + 1) - 1 = k
    BY <2>2, <1>6
  <2>6. TextBefore(dir, m) + i = k + 1
    BY <2>1, <2>4
  <2>7. QED
    BY <2>2, <2>5, <2>6, <1>15
<1>18. TextIs(dir, text, n)
  BY <1>1, <1>16, <1>17 DEF TextIs
<1>19. QED
  BY <1>1, <1>2, <1>6, <1>14, <1>18


-------------------------------------------------------------------------------
(* What k_loadDirectory makes of it.                                         *)

IsRead(g, text, n) ==
  g = [k \in 1 .. n |-> IF k = 1 THEN << <<>> >> ELSE ReadOn(g[k - 1], text[k])]

\* The recursive definition inside Fields has a solution.
LEMMA ReadExists ==
  ASSUME NEW text
  PROVE  \A n \in Nat : \E g : IsRead(g, text, n)
<1> DEFINE S == {n \in Nat : \E g : IsRead(g, text, n)}
<1>1. 0 \in S
  <2>1. IsRead([k \in 1 .. 0 |-> 0], text, 0)
    BY DEF IsRead
  <2>2. QED
    BY <2>1
<1>2. ASSUME NEW n \in Nat, n \in S PROVE n + 1 \in S
  <2>1. PICK g : IsRead(g, text, n)
    BY <1>2
  <2> DEFINE next == IF n + 1 = 1 THEN << <<>> >> ELSE ReadOn(g[n], text[n + 1])
             h == [k \in 1 .. n + 1 |-> IF k <= n THEN g[k] ELSE next]
  <2> HIDE DEF next
  <2>2. \A k \in 1 .. n : h[k] = g[k]
    OBVIOUS
  <2>3. h[n + 1] = next
    OBVIOUS
  <2>4. h = [k \in 1 .. n + 1 |-> h[k]]
    OBVIOUS
  <2> HIDE DEF h
  <2>5. \A k \in 1 .. n :
          g[k] = IF k = 1 THEN << <<>> >> ELSE ReadOn(g[k - 1], text[k])
    BY <2>1 DEF IsRead
  <2>6. ASSUME NEW k \in 1 .. n + 1
        PROVE  h[k] = IF k = 1 THEN << <<>> >> ELSE ReadOn(h[k - 1], text[k])
    <3>1. CASE k # n + 1
      <4>1. k \in 1 .. n /\ (k # 1 => k - 1 \in 1 .. n)
        BY <3>1
      <4>2. QED
        BY <4>1, <2>2, <2>5
    <3>2. CASE k = n + 1
      <4>1. n # 0 => n \in 1 .. n
        OBVIOUS
      <4>2. (k = 1 <=> n = 0) /\ k - 1 = n
        BY <3>2
      <4>3. QED
        BY <4>1, <4>2, <3>2, <2>2, <2>3 DEF next
    <3>3. QED
      BY <3>1, <3>2
  <2>7. IsRead(h, text, n + 1)
    BY <2>4, <2>6 DEF IsRead
  <2>8. QED
    BY <2>7
<1>3. Nat \subseteq S
  <2> HIDE DEF S
  <2>1. QED
    BY <1>1, <1>2, SetInduction
<1>4. QED
  BY <1>3

LEMMA FieldsAreRead ==
  ASSUME NEW text, Len(text) \in Nat
  PROVE  \E g : /\ \A k \in 1 .. Len(text) :
                     g[k] = IF k = 1 THEN << <<>> >> ELSE ReadOn(g[k - 1], text[k])
                /\ Fields(text) = g[Len(text)]
<1> DEFINE w == CHOOSE g : IsRead(g, text, Len(text))
<1>1. IsRead(w, text, Len(text))
  BY ReadExists, Zenon
<1>2. Fields(text) = w[Len(text)]
  BY Zenon DEF Fields, IsRead
<1> HIDE DEF w
<1>3. \A k \in 1 .. Len(text) :
        w[k] = IF k = 1 THEN << <<>> >> ELSE ReadOn(w[k - 1], text[k])
  BY <1>1 DEF IsRead
<1>4. QED
  BY <1>2, <1>3

FieldAt(dir, k) == FieldOf(Entries(dir)[(k + 2) \div 3], k)

\* m fields are begun, all but the last are read.
Partial(dir, fields, m, last) ==
  /\ fields \in Seq(Seq(Char)) /\ Len(fields) = m
  /\ \A k \in 1 .. m - 1 : fields[k] = FieldAt(dir, k)
  /\ fields[m] = last

\* A "#" begins the next field.
LEMMA HashRead ==
  ASSUME NEW dir, NEW m \in Nat \ {0}, NEW fields, Partial(dir, fields, m, FieldAt(dir, m))
  PROVE  Partial(dir, ReadOn(fields, Hash), m + 1, <<>>)
<1>1. PICK empty : empty = <<>>
  OBVIOUS
<1>2. empty \in Seq(Char)
  BY <1>1
<1>3. /\ fields \in Seq(Seq(Char)) /\ Len(fields) = m
      /\ \A k \in 1 .. m : fields[k] = FieldAt(dir, k)
  BY DEF Partial
<1>4. PICK new : new = Append(fields, empty)
  OBVIOUS
<1>5. /\ new \in Seq(Seq(Char)) /\ Len(new) = m + 1 /\ new[m + 1] = empty
      /\ \A k \in 1 .. m : new[k] = fields[k]
  BY <1>2, <1>3, <1>4
<1>6. (m + 1) - 1 = m
  OBVIOUS
<1>7. Partial(dir, new, m + 1, empty)
  BY <1>3, <1>5, <1>6 DEF Partial
<1>8. ReadOn(fields, Hash) = new
  BY <1>1, <1>4 DEF ReadOn
<1>9. QED
  BY <1>1, <1>7, <1>8

\* Any other character goes to the end of the field begun last.
LEMMA CharRead ==
  ASSUME NEW dir, NEW m \in Nat \ {0}, NEW last, NEW fields, Partial(dir, fields, m, last),
         NEW c \in Char, c # Hash
  PROVE  Partial(dir, ReadOn(fields, c), m, Append(last, c))
<1>1. /\ fields \in Seq(Seq(Char)) /\ Len(fields) = m /\ fields[m] = last
      /\ \A k \in 1 .. m - 1 : fields[k] = FieldAt(dir, k)
  BY DEF Partial
<1>2. \A k \in 1 .. m : fields[k] \in Seq(Char)
  BY <1>1
<1>3. PICK longer : longer = Append(last, c)
  OBVIOUS
<1>4. longer \in Seq(Char)
  <2>1. m \in 1 .. m
    OBVIOUS
  <2>2. last \in Seq(Char)
    BY <2>1, <1>1, <1>2
  <2>3. QED
    BY <2>2, <1>3
<1>5. PICK front : front = Front(fields)
  OBVIOUS
<1>6. /\ front \in Seq(Seq(Char)) /\ Len(front) = m - 1
      /\ \A k \in 1 .. m - 1 : front[k] = fields[k]
  <2>1. front = SubSeq(fields, 1, m - 1)
    BY <1>1, <1>5 DEF Front
  <2>2. \A k \in 1 .. m - 1 : fields[k] \in Seq(Char)
    BY <1>2
  <2>3. QED
    BY <2>1, <2>2, <1>1
<1>7. PICK new : new = Append(front, longer)
  OBVIOUS
<1>8. /\ new \in Seq(Seq(Char)) /\ Len(new) = m /\ new[m] = longer
      /\ \A k \in 1 .. m - 1 : new[k] = front[k]
  BY <1>4, <1>6, <1>7
<1>9. Partial(dir, new, m, longer)
  BY <1>1, <1>6, <1>8 DEF Partial
<1>10. ReadOn(fields, c) = new
  BY <1>1, <1>3, <1>5, <1>7 DEF ReadOn, Last
<1>11. QED
  BY <1>3, <1>9, <1>10


\* The first j letters of a name.
LettersTo(f, j) == [k \in 1 .. j |-> <<f, k>>]

LEMMA LettersNext ==
  ASSUME NEW f, NEW j \in Nat
  PROVE  /\ LettersTo(f, 0) = <<>>
         /\ Append(LettersTo(f, j), <<f, j + 1>>) = LettersTo(f, j + 1)
<1> DEFINE S == {<<f, k>> : k \in Nat}
<1>1. LettersTo(f, 0) = <<>>
  BY DEF LettersTo
<1>2. PICK s : s = LettersTo(f, j)
  OBVIOUS
<1>3. PICK c : c = <<f, j + 1>>
  OBVIOUS
<1>4. s \in Seq(S) /\ Len(s) = j /\ \A k \in 1 .. j : s[k] = <<f, k>>
  BY <1>2 DEF LettersTo
<1>5. c \in S
  BY <1>3
<1> HIDE DEF S
<1>6. PICK new : new = Append(s, c)
  OBVIOUS
<1>7. /\ new \in Seq(S) /\ Len(new) = j + 1 /\ new[j + 1] = c
      /\ \A k \in 1 .. j : new[k] = s[k]
  BY <1>4, <1>5, <1>6
<1>8. new = [k \in 1 .. j + 1 |-> new[k]]
  BY <1>7
<1>9. \A k \in 1 .. j + 1 : new[k] = <<f, k>>
  <2>1. \A k \in 1 .. j + 1 : k \in 1 .. j \/ k = j + 1
    OBVIOUS
  <2>2. QED
    BY <2>1, <1>3, <1>4, <1>7
<1>10. new = LettersTo(f, j + 1)
  BY <1>8, <1>9 DEF LettersTo
<1>11. QED
  BY <1>1, <1>2, <1>3, <1>6, <1>10

\* The three fields of the nth entry.
LEMMA FieldsOfEntry ==
  ASSUME NEW dir, NEW n \in Nat \ {0}, NEW e, e = Entries(dir)[n]
  PROVE  /\ FieldAt(dir, 3 * n - 2) = Letters(e.name)
         /\ FieldAt(dir, 3 * n - 1) = <<Number(e.size)>>
         /\ FieldAt(dir, 3 * n) = <<Number(e.start)>>
<1>1. /\ (3 * n - 2) % 3 = 1 /\ (3 * n - 2 + 2) \div 3 = n
      /\ (3 * n - 1) % 3 = 2 /\ (3 * n - 1 + 2) \div 3 = n
      /\ (3 * n) % 3 = 0 /\ (3 * n + 2) \div 3 = n
  OBVIOUS
<1>2. FieldAt(dir, 3 * n - 2) = Letters(e.name)
  BY <1>1 DEF FieldAt, FieldOf
<1>3. FieldAt(dir, 3 * n - 1) = <<Number(e.size)>>
  BY <1>1 DEF FieldAt, FieldOf
<1>4. FieldAt(dir, 3 * n) = <<Number(e.start)>>
  BY <1>1 DEF FieldAt, FieldOf
<1>5. QED
  BY <1>2, <1>3, <1>4

\* From the "#" of an entry to its end.
LEMMA EntryRead ==
  ASSUME NEW dir, NEW n \in Nat \ {0}, NEW e, e = Entries(dir)[n], IsEntry(e),
         NEW p \in Nat, NEW g, NEW text,
         \A i \in 2 .. Len(Text(e)) : g[p + i] = ReadOn(g[p + i - 1], text[p + i]),
         \A i \in 1 .. Len(Text(e)) : text[p + i] = Text(e)[i],
         Partial(dir, g[p + 1], 3 * n - 2, <<>>)
  PROVE  Partial(dir, g[p + Len(Text(e))], 3 * n, FieldAt(dir, 3 * n))
<1>1. PICK l : l = Length[e.name]
  OBVIOUS
<1>2. PICK f : f = e.name
  OBVIOUS
<1>3. /\ l \in Nat \ {0} /\ Len(Text(e)) = l + 5
      /\ \A k \in 1 .. l : Text(e)[1 + k] = <<f, k>>
      /\ Text(e)[l + 2] = Hash /\ Text(e)[l + 3] = Number(e.size)
      /\ Text(e)[l + 4] = Hash /\ Text(e)[l + 5] = Number(e.start)
  BY <1>1, <1>2, TextSays
<1>4. Text(e) \in Seq(Char) /\ \A i \in 1 .. l + 5 : Text(e)[i] \in Char
  BY <1>3, TextFacts
<1>5. ASSUME NEW i \in 2 .. l + 5
      PROVE  g[p + i] = ReadOn(g[p + i - 1], Text(e)[i])
  <2>1. i \in 1 .. l + 5
    BY <1>3
  <2>2. QED
    BY <2>1, <1>3
<1>6. PICK m : m = 3 * n - 2
  OBVIOUS
<1>7. m \in Nat \ {0} /\ m + 1 \in Nat \ {0} /\ m + 2 \in Nat \ {0}
      /\ m + 1 = 3 * n - 1 /\ m + 2 = 3 * n
  BY <1>6
<1>8. /\ FieldAt(dir, m) = Letters(f) /\ FieldAt(dir, m + 1) = <<Number(e.size)>>
      /\ FieldAt(dir, m + 2) = <<Number(e.start)>>
  BY <1>2, <1>6, <1>7, FieldsOfEntry
<1> DEFINE S == {j \in Nat : j <= l => Partial(dir, g[p + 1 + j], m, LettersTo(f, j))}
<1>9. 0 \in S
  <2>1. p + 1 + 0 = p + 1
    OBVIOUS
  <2>2. QED
    BY <2>1, <1>6, LettersNext
<1>10. ASSUME NEW j \in Nat, j \in S PROVE j + 1 \in S
  <2>1. SUFFICES ASSUME j + 1 <= l
                 PROVE  Partial(dir, g[p + 1 + (j + 1)], m, LettersTo(f, j + 1))
    OBVIOUS
  <2>2. /\ p + 1 + (j + 1) = p + (j + 2) /\ p + (j + 2) - 1 = p + 1 + j
        /\ j + 2 \in 2 .. l + 5 /\ j + 2 \in 1 .. l + 5 /\ j + 1 \in 1 .. l /\ 1 + (j + 1) = j + 2
    BY <2>1, <1>3
  <2>3. PICK c : c = Text(e)[j + 2]
    OBVIOUS
  <2>4. c = <<f, j + 1>> /\ c \in Char /\ c # Hash
    <3>1. c \in Char
      BY <2>2, <2>3, <1>4
    <3>2. Text(e)[1 + (j + 1)] = <<f, j + 1>>
      BY <2>2, <1>3
    <3>3. QED
      BY <3>1, <3>2, <2>2, <2>3, CharFacts
  <2>5. Partial(dir, g[p + 1 + j], m, LettersTo(f, j))
    BY <2>1, <1>3, <1>10
  <2>6. g[p + 1 + (j + 1)] = ReadOn(g[p + 1 + j], c)
    BY <2>2, <2>3, <1>5
  <2>7. Partial(dir, ReadOn(g[p + 1 + j], c), m, Append(LettersTo(f, j), c))
    BY <2>4, <2>5, <1>7, CharRead
  <2>8. QED
    BY <2>4, <2>6, <2>7, LettersNext
<1>11. Nat \subseteq S
  <2> HIDE DEF S
  <2>1. QED
    BY <1>9, <1>10, SetInduction
<1>12. Partial(dir, g[p + 1 + l], m, Letters(f))
  <2>1. Partial(dir, g[p + 1 + l], m, LettersTo(f, l))
    BY <1>3, <1>11
  <2>2. LettersTo(f, l) = Letters(f)
    BY <1>1, <1>2 DEF LettersTo, Letters
  <2>3. QED
    BY <2>1, <2>2
<1>13. /\ l + 2 \in 2 .. l + 5 /\ p + (l + 2) - 1 = p + 1 + l
       /\ l + 3 \in 2 .. l + 5 /\ p + (l + 3) - 1 = p + (l + 2)
       /\ l + 4 \in 2 .. l + 5 /\ p + (l + 4) - 1 = p + (l + 3)
       /\ l + 5 \in 2 .. l + 5 /\ p + (l + 5) - 1 = p + (l + 4)
       /\ l + 3 \in 1 .. l + 5 /\ l + 5 \in 1 .. l + 5
  BY <1>3
<1>14. Partial(dir, g[p + (l + 2)], m + 1, <<>>)
  <2>1. g[p + (l + 2)] = ReadOn(g[p + 1 + l], Hash)
    BY <1>3, <1>5, <1>13
  <2>2. QED
    BY <2>1, <1>7, <1>8, <1>12, HashRead
<1>15. \A x : Append(<<>>, x) = <<x>>
  OBVIOUS
<1>16. Partial(dir, g[p + (l + 3)], m + 1, <<Number(e.size)>>)
  <2>1. PICK c : c = Number(e.size)
    OBVIOUS
  <2>2. g[p + (l + 3)] = ReadOn(g[p + (l + 2)], c)
    BY <2>1, <1>3, <1>5, <1>13
  <2>3. c \in Char /\ c # Hash
    BY <2>1, <1>3, <1>4, <1>13, CharFacts
  <2>4. Partial(dir, ReadOn(g[p + (l + 2)], c), m + 1, Append(<<>>, c))
    BY <2>3, <1>7, <1>14, CharRead
  <2>5. QED
    BY <2>1, <2>2, <2>4, <1>15
<1>17. Partial(dir, g[p + (l + 4)], m + 1 + 1, <<>>)
  <2>1. g[p + (l + 4)] = ReadOn(g[p + (l + 3)], Hash)
    BY <1>3, <1>5, <1>13
  <2>2. QED
    BY <2>1, <1>7, <1>8, <1>16, HashRead
<1>18. Partial(dir, g[p + (l + 5)], m + 2, <<Number(e.start)>>)
  <2>1. PICK c : c = Number(e.start)
    OBVIOUS
  <2>2. g[p + (l + 5)] = ReadOn(g[p + (l + 4)], c)
    BY <2>1, <1>3, <1>5, <1>13
  <2>3. c \in Char /\ c # Hash
    BY <2>1, <1>3, <1>4, <1>13, CharFacts
  <2>4. m + 1 + 1 = m + 2
    BY <1>7
  <2>5. Partial(dir, ReadOn(g[p + (l + 4)], c), m + 2, Append(<<>>, c))
    BY <2>3, <2>4, <1>7, <1>17, CharRead
  <2>6. QED
    BY <2>1, <2>2, <2>5, <1>15
<1>19. QED
  BY <1>3, <1>7, <1>8, <1>18


\* A text in which every entry is where it begins gives the fields of all.
LEMMA FieldsAreRight ==
  ASSUME NEW dir, GoodDir(dir), NEW text,
         TextIs(dir, text, TextBefore(dir, Len(Entries(dir)) + 1)),
         TextBefore(dir, Len(Entries(dir)) + 1) \in Nat \ {0}
  PROVE  text # <<>> /\ Fields(text) = FieldsOf(dir)
<1>1. PICK N : N = Len(Entries(dir))
  OBVIOUS
<1>2. PICK t : t = TextBefore(dir, N + 1)
  OBVIOUS
<1>3. PICK T : T = [n \in Nat |-> TextBefore(dir, n)]
  OBVIOUS
<1>4. /\ \A n \in 1 .. N + 1 : n \in Nat /\ T[n] \in Nat /\ T[n] = TextBefore(dir, n)
      /\ \A n \in 1 .. N : /\ Len(Text(Entries(dir)[n])) \in 1 .. Longest
                           /\ T[n + 1] = T[n] + Len(Text(Entries(dir)[n]))
                           /\ n \in 1 .. N + 1 /\ n + 1 \in 1 .. N + 1
      /\ \A n, j \in 1 .. N + 1 : n <= j => T[n] <= T[j]
      /\ T[N + 1] = t /\ T[1] = 0
  <2>1. N \in Nat
    BY <1>1, EntriesFacts
  <2>2. /\ \A n \in 1 .. N + 1 : n \in Nat /\ T[n] = TextBefore(dir, n)
        /\ \A n \in 1 .. N : n \in 1 .. N + 1 /\ n + 1 \in 1 .. N + 1
        /\ 1 \in 1 .. N + 1 /\ N + 1 \in 1 .. N + 1
    BY <2>1, <1>3
  <2>3. \A n \in 1 .. N + 1 : TextBefore(dir, n) \in Nat
    BY <1>1, BeforeFacts
  <2>4. \A n \in 1 .. N :
          /\ Len(Text(Entries(dir)[n])) \in 1 .. Longest
          /\ TextBefore(dir, n + 1) = TextBefore(dir, n) + Len(Text(Entries(dir)[n]))
    BY <1>1, BeforeFacts
  <2>5. \A n, j \in 1 .. N + 1 : n <= j => TextBefore(dir, n) <= TextBefore(dir, j)
    BY <1>1, BeforeFacts
  <2>6. T[N + 1] = t /\ T[1] = 0
    BY <2>2, <1>2, BeforeNext
  <2>7. QED
    BY <2>2, <2>3, <2>4, <2>5, <2>6
<1>5. /\ N \in Nat \ {0} /\ t \in Nat \ {0}
      /\ text = [i \in 1 .. t |-> text[i]]
      /\ \A n \in 1 .. N : \A i \in 1 .. Len(Text(Entries(dir)[n])) :
           text[T[n] + i] = Text(Entries(dir)[n])[i]
      /\ \A n \in 1 .. N : IsEntry(Entries(dir)[n])
  <2>1. N = 1 + Len(dir) /\ Len(dir) \in Nat
    BY <1>1, DirFacts DEF Entries
  <2>2. N \in Nat \ {0}
    BY <2>1
  <2>3. \A n \in 1 .. N : IsEntry(Entries(dir)[n])
    BY <1>1, EntriesFacts DEF IsEntry
  <2>4. /\ text = [i \in 1 .. t |-> text[i]]
        /\ \A n \in 1 .. N : \A i \in 1 .. Len(Text(Entries(dir)[n])) :
             text[TextBefore(dir, n) + i] = Text(Entries(dir)[n])[i]
    BY <1>1, <1>2 DEF TextIs
  <2>5. \A n \in 1 .. N : TextBefore(dir, n) = T[n]
    BY <1>4
  <2>6. QED
    BY <2>2, <2>3, <2>4, <2>5, <1>1, <1>2
<1>6. Len(text) = t /\ text # <<>>
  <2>1. Len(text) = t
    BY <1>5
  <2>2. QED
    BY <2>1, <1>5
<1>7. PICK g : /\ \A k \in 1 .. t :
                    g[k] = IF k = 1 THEN << <<>> >> ELSE ReadOn(g[k - 1], text[k])
               /\ Fields(text) = g[t]
  BY <1>5, <1>6, FieldsAreRead
<1>8. ASSUME NEW n \in 1 .. N, Partial(dir, g[T[n] + 1], 3 * n - 2, <<>>)
      PROVE  Partial(dir, g[T[n + 1]], 3 * n, FieldAt(dir, 3 * n))
  <2>1. PICK e : e = Entries(dir)[n]
    OBVIOUS
  <2>2. PICK p : p = T[n]
    OBVIOUS
  <2>3. PICK l : l = Len(Text(e))
    OBVIOUS
  <2>4. p \in Nat /\ l \in Nat /\ T[n + 1] = p + l /\ p + l <= t
    <3>1. \A x \in 1 .. Longest : x \in Nat
      BY SizeFacts
    <3>2. N + 1 \in 1 .. N + 1 /\ n + 1 <= N + 1
      BY <1>5
    <3>3. QED
      BY <3>1, <3>2, <2>1, <2>2, <2>3, <1>4
  <2>5. ASSUME NEW i \in 2 .. l PROVE g[p + i] = ReadOn(g[p + i - 1], text[p + i])
    <3>1. PICK x : x = p + i
      OBVIOUS
    <3>2. p \in Nat /\ l \in Nat /\ p + l <= t /\ t \in Nat
      BY <2>4, <1>5
    <3>3. x \in 1 .. t /\ x # 1
      BY <3>1, <3>2
    <3>4. PICK y : y = p + i - 1
      OBVIOUS
    <3>5. x - 1 = y
      BY <3>1, <3>2, <3>4
    <3>6. g[x] = ReadOn(g[y], text[x])
      BY <3>3, <3>5, <1>7
    <3>7. QED
      BY <3>1, <3>4, <3>6, Zenon
  <2>6. \A i \in 1 .. l : text[p + i] = Text(e)[i]
    BY <2>1, <2>2, <2>3, <1>5
  <2>7. IsEntry(e) /\ n \in Nat \ {0} /\ Partial(dir, g[p + 1], 3 * n - 2, <<>>)
    BY <2>1, <2>2, <1>5, <1>8
  <2>8. Partial(dir, g[p + l], 3 * n, FieldAt(dir, 3 * n))
    <3>1. \A i \in 2 .. Len(Text(e)) : g[p + i] = ReadOn(g[p + i - 1], text[p + i])
      BY <2>3, <2>5
    <3>2. \A i \in 1 .. Len(Text(e)) : text[p + i] = Text(e)[i]
      BY <2>3, <2>6
    <3>3. Partial(dir, g[p + Len(Text(e))], 3 * n, FieldAt(dir, 3 * n))
      BY <2>1, <2>4, <2>7, <3>1, <3>2, EntryRead
    <3>4. QED
      BY <2>3, <3>3
  <2>9. QED
    BY <2>4, <2>8
<1> DEFINE S == {k \in Nat : k + 1 <= N => Partial(dir, g[T[k + 1] + 1], 3 * (k + 1) - 2, <<>>)}
<1>9. 0 \in S
  <2>1. g[1] = << <<>> >>
    <3>1. 1 \in 1 .. t
      BY <1>5
    <3>2. QED
      BY <3>1, <1>7
  <2>2. T[0 + 1] + 1 = 1 /\ 3 * (0 + 1) - 2 = 1
    BY <1>4
  <2>3. PICK empty : empty = <<>>
    OBVIOUS
  <2>4. PICK one : one = <<empty>>
    OBVIOUS
  <2>5. empty \in Seq(Char)
    BY <2>3
  <2>6. one \in Seq(Seq(Char)) /\ Len(one) = 1 /\ one[1] = empty
    BY <2>4, <2>5
  <2>7. \A k \in 1 .. 1 - 1 : one[k] = FieldAt(dir, k)
    OBVIOUS
  <2>8. Partial(dir, one, 1, empty)
    BY <2>6, <2>7 DEF Partial
  <2>9. Partial(dir, g[T[0 + 1] + 1], 3 * (0 + 1) - 2, <<>>)
    BY <2>1, <2>2, <2>3, <2>4, <2>8
  <2>10. QED
    BY <2>9
<1>10. ASSUME NEW k \in Nat, k \in S PROVE k + 1 \in S
  <2>1. SUFFICES ASSUME (k + 1) + 1 <= N
                 PROVE  Partial(dir, g[T[(k + 1) + 1] + 1], 3 * ((k + 1) + 1) - 2, <<>>)
    OBVIOUS
  <2>2. k + 1 \in 1 .. N /\ (k + 1) + 1 \in 1 .. N
    BY <2>1, <1>5
  <2>3. Partial(dir, g[T[k + 1] + 1], 3 * (k + 1) - 2, <<>>)
    BY <2>2, <1>10
  <2>4. Partial(dir, g[T[(k + 1) + 1]], 3 * (k + 1), FieldAt(dir, 3 * (k + 1)))
    BY <2>2, <2>3, <1>8
  <2>5. PICK p : p = T[(k + 1) + 1]
    OBVIOUS
  <2>6. PICK e : e = Entries(dir)[(k + 1) + 1]
    OBVIOUS
  <2>7. PICK l : l = Len(Text(e))
    OBVIOUS
  <2>8. p \in Nat /\ p # 0 /\ l \in Nat \ {0} /\ p + l <= t
    <3>1. \A x \in 1 .. Longest : x \in Nat \ {0}
      BY SizeFacts
    <3>2. T[(k + 1) + 1] = T[k + 1] + Len(Text(Entries(dir)[k + 1]))
          /\ T[k + 1] \in Nat /\ Len(Text(Entries(dir)[k + 1])) \in Nat \ {0}
      BY <3>1, <2>2, <1>4
    <3>3. p \in Nat /\ p # 0
      BY <3>2, <2>5
    <3>4. N + 1 \in 1 .. N + 1 /\ ((k + 1) + 1) + 1 <= N + 1
      BY <2>2, <1>5
    <3>5. T[((k + 1) + 1) + 1] <= t /\ T[((k + 1) + 1) + 1] = p + l /\ l \in Nat \ {0}
      BY <3>1, <3>4, <2>2, <2>5, <2>6, <2>7, <1>4
    <3>6. QED
      BY <3>3, <3>5
  <2>9. p + 1 \in 1 .. t /\ p + 1 # 1 /\ (p + 1) - 1 = p /\ 1 \in 1 .. l
    BY <2>8, <1>5
  <2>10. text[p + 1] = Hash
    <3>1. text[p + 1] = Text(e)[1]
      BY <2>2, <2>5, <2>6, <2>7, <2>9, <1>5
    <3>2. QED
      BY <3>1, <2>2, <2>6, <1>5, TextSays
  <2>11. g[p + 1] = ReadOn(g[p], Hash)
    BY <2>9, <2>10, <1>7
  <2>12. 3 * (k + 1) \in Nat \ {0} /\ 3 * ((k + 1) + 1) - 2 = 3 * (k + 1) + 1
    OBVIOUS
  <2>13. Partial(dir, ReadOn(g[p], Hash), 3 * (k + 1) + 1, <<>>)
    BY <2>4, <2>5, <2>12, HashRead
  <2>14. QED
    BY <2>5, <2>11, <2>12, <2>13
<1>11. Nat \subseteq S
  <2> HIDE DEF S
  <2>1. QED
    BY <1>9, <1>10, SetInduction
<1>12. PICK m : m = 3 * N
  OBVIOUS
<1>13. Partial(dir, g[t], m, FieldAt(dir, m))
  <2>1. N - 1 \in Nat /\ (N - 1) + 1 = N /\ N \in 1 .. N
    BY <1>5
  <2>2. Partial(dir, g[T[N] + 1], 3 * N - 2, <<>>)
    <3>1. N - 1 \in S
      BY <2>1, <1>11
    <3>2. QED
      BY <3>1, <2>1
  <2>3. QED
    BY <2>1, <2>2, <1>4, <1>8, <1>12
<1>14. PICK f : f = g[t]
  OBVIOUS
<1>15. /\ f \in Seq(Seq(Char)) /\ Len(f) = m /\ m \in Nat \ {0}
       /\ \A k \in 1 .. m : f[k] = FieldAt(dir, k)
  <2>1. m \in Nat \ {0}
    BY <1>5, <1>12
  <2>2. /\ f \in Seq(Seq(Char)) /\ Len(f) = m /\ f[m] = FieldAt(dir, m)
        /\ \A k \in 1 .. m - 1 : f[k] = FieldAt(dir, k)
    BY <1>13, <1>14 DEF Partial
  <2>3. \A k \in 1 .. m : k \in 1 .. m - 1 \/ k = m
    BY <2>1
  <2>4. QED
    BY <2>1, <2>2, <2>3
<1>16. f = [k \in 1 .. m |-> f[k]]
  BY <1>15
<1>17. f = [k \in 1 .. m |-> FieldAt(dir, k)]
  BY <1>15, <1>16
<1>18. f = FieldsOf(dir)
  BY <1>1, <1>12, <1>17 DEF FieldsOf, FieldAt
<1>19. QED
  BY <1>6, <1>7, <1>14, <1>18

\* However files come and go and grow, and whatever an earlier directory has left
\* behind, the directory stored last is what the next mount reads, if it found the
\* block it needs and only its last entry goes on in a second one: for any names
\* whose text fits in two blocks and any number of blocks.
THEOREM StoredDirectoryIsHeld == DirectorySpec => []StoredIsHeld
<1>1. ASSUME DirInv, BytesInv PROVE StoredIsHeld
  <2>1. SUFFICES ASSUME status = "FILEOK", Short(stored) PROVE Holds(stored)
    BY DEF StoredIsHeld
  <2>2. GoodDir(stored) /\ HoldsText(stored, fat, bytes)
    BY <1>1, <2>1 DEF DirInv, BytesInv
  <2>3. LoadedText # <<>> /\ Fields(LoadedText) = FieldsOf(stored)
    BY <2>2, LoadedIs, FieldsAreRight
  <2>4. QED
    BY <2>3 DEF Holds
<1>2. QED
  BY BytesHold, <1>1, PTL
================================================================================
