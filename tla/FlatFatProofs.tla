---------------------------- MODULE FlatFatProofs ----------------------------
(****************************************************************************)
(* Theorems about FlatFat, for any number and size of blocks: those that    *)
(* hold of any sequence of calls by any processes, with sharing, seeks,     *)
(* appends, defragmentation and restarts, and those that hold of the calls  *)
(* the shell's programs make.                                               *)
(****************************************************************************)
EXTENDS FlatFat, FatTableProofs

\* A position is a block of the file and an offset in it.
LEMMA DivMod ==
  ASSUME NEW n \in Nat
  PROVE  /\ n \div FAT_WIDTH \in Nat
         /\ n % FAT_WIDTH \in 0 .. FAT_WIDTH - 1
         /\ n = FAT_WIDTH * (n \div FAT_WIDTH) + (n % FAT_WIDTH)
         /\ n % FAT_WIDTH <= n
BY GeometryAssumption

LEMMA DivModUnique ==
  ASSUME NEW q \in Nat, NEW r \in 0 .. FAT_WIDTH - 1, NEW n, n = FAT_WIDTH * q + r
  PROVE  n \div FAT_WIDTH = q /\ n % FAT_WIDTH = r
BY GeometryAssumption

-------------------------------------------------------------------------------
(* k_write, pass by pass.                                                    *)

FirstPass(f, pos, numb) ==
  [fat |-> fat, data |-> data, size |-> Entry(f).size,
   pos |-> pos, left |-> numb, done |-> FALSE, harm |-> "none",
   at |-> WalkEnd(f, pos)]
IsWrite(g, f, w, n) ==
  g = [k \in 0 .. n |-> IF k = 0 THEN w ELSE WritePass(f, g[k - 1])]

\* The recursive definition inside KWrite has a solution.
LEMMA PassesExist ==
  ASSUME NEW f, NEW w
  PROVE  \A n \in Nat : \E g : IsWrite(g, f, w, n)
<1> DEFINE S == {n \in Nat : \E g : IsWrite(g, f, w, n)}
<1>1. 0 \in S
  <2>1. IsWrite([k \in 0 .. 0 |-> w], f, w, 0)
    BY DEF IsWrite
  <2>2. QED
    BY <2>1
<1>2. ASSUME NEW n \in Nat, n \in S PROVE n + 1 \in S
  <2>1. PICK g : IsWrite(g, f, w, n)
    BY <1>2
  <2> DEFINE h == [k \in 0 .. n + 1 |-> IF k <= n THEN g[k] ELSE WritePass(f, g[n])]
  <2>2. \A k \in 0 .. n : h[k] = g[k]
    OBVIOUS
  <2>3. h[n + 1] = WritePass(f, g[n])
    OBVIOUS
  <2>4. \A k \in 0 .. n : g[k] = IF k = 0 THEN w ELSE WritePass(f, g[k - 1])
    BY <2>1 DEF IsWrite
  <2>5. \A k \in 0 .. n + 1 : h[k] = IF k = 0 THEN w ELSE WritePass(f, h[k - 1])
    <3>1. ASSUME NEW k \in 0 .. n + 1, k # n + 1
          PROVE  h[k] = IF k = 0 THEN w ELSE WritePass(f, h[k - 1])
      <4>1. k \in 0 .. n /\ (k # 0 => k - 1 \in 0 .. n)
        BY <3>1
      <4> HIDE DEF h
      <4>2. QED
        BY <4>1, <2>2, <2>4
    <3>2. h[n + 1] = WritePass(f, h[n])
      BY <2>2, <2>3
    <3>3. QED
      BY <3>1, <3>2
  <2>6. h = [k \in 0 .. n + 1 |-> IF k = 0 THEN w ELSE WritePass(f, h[k - 1])]
    <3>1. h = [k \in 0 .. n + 1 |-> h[k]]
      OBVIOUS
    <3> HIDE DEF h
    <3>2. QED
      BY <2>5, <3>1
  <2> HIDE DEF h
  <2>7. QED
    BY <2>6 DEF IsWrite
<1>3. Nat \subseteq S
  <2> HIDE DEF S
  <2>1. QED
    BY <1>1, <1>2, SetInduction
<1>4. QED
  BY <1>3

\* What holds before the first pass, and after a pass if before it, holds of
\* what k_write returns.
LEMMA KWriteInduction ==
  ASSUME NEW f, NEW pos, NEW numb \in Nat, NEW I,
         FirstPass(f, pos, numb) \in I, \A w \in I : WritePass(f, w) \in I
  PROVE  KWrite(f, pos, numb) \in I
<1> DEFINE first == FirstPass(f, pos, numb)
           g == CHOOSE g : IsWrite(g, f, first, numb)
<1>1. IsWrite(g, f, first, numb)
  BY PassesExist, Zenon
<1>2. KWrite(f, pos, numb) = g[numb]
  BY Zenon DEF KWrite, IsWrite, FirstPass
<1> DEFINE S == {k \in Nat : k <= numb => g[k] \in I}
<1> HIDE DEF g, first
<1>3. \A k \in 0 .. numb : g[k] = IF k = 0 THEN first ELSE WritePass(f, g[k - 1])
  BY <1>1 DEF IsWrite
<1>4. 0 \in S
  BY <1>3 DEF first
<1>5. ASSUME NEW k \in Nat, k \in S PROVE k + 1 \in S
  BY <1>3, <1>5
<1>6. Nat \subseteq S
  <2> HIDE DEF S
  <2>1. QED
    BY <1>4, <1>5, SetInduction
<1>7. QED
  BY <1>2, <1>6

Bytes == [Block \cup {END} -> [0 .. FAT_WIDTH - 1 -> Cell]]
Harms == {"none", "astray", "loop", "freed"}
WriteRecord ==
  [fat : Links, data : Bytes, size : Nat, pos : Nat, left : Nat,
   done : BOOLEAN, harm : Harms, at : Block]

\* The bytes a pass puts into the block, how many they are, and whether it is
\* the last pass of the call.
Put(f, w, n) ==
  [o \in 0 .. FAT_WIDTH - 1 |->
     IF o \in (w.pos % FAT_WIDTH) .. (w.pos % FAT_WIDTH) + n - 1
       THEN <<f, w.pos - (w.pos % FAT_WIDTH) + o>> ELSE w.data[w.at][o]]
Fits(w) == (w.pos % FAT_WIDTH) + w.left < FAT_WIDTH
Portion(w) == IF Fits(w) THEN w.left ELSE FAT_WIDTH - (w.pos % FAT_WIDTH)

Shape(v) ==
  v = [fat |-> v.fat, data |-> v.data, size |-> v.size, pos |-> v.pos, left |-> v.left,
       done |-> v.done, harm |-> v.harm, at |-> v.at]

\* A change of some fields leaves the others where they are.
LEMMA ShapeKept ==
  ASSUME NEW a, Shape(a)
  PROVE  /\ \A b, x : Shape([a EXCEPT !.data[b] = x]) /\ Shape([a EXCEPT !.fat[b] = x])
         /\ \A x : /\ Shape([a EXCEPT !.pos = x]) /\ Shape([a EXCEPT !.left = x])
                   /\ Shape([a EXCEPT !.done = x]) /\ Shape([a EXCEPT !.size = x])
                   /\ Shape([a EXCEPT !.harm = x]) /\ Shape([a EXCEPT !.at = x])
BY DEF Shape

\* v: what the last pass of a call makes of w, one that fits in its block or
\* finds no other.
EndsCall(f, w, v) ==
  /\ w.at \in Block /\ w.left > 0 /\ ~w.done /\ w.harm = "none"
  /\ Fits(w) \/ DetermineBlock(files, w.fat) = MEMFULL
  /\ v.fat = w.fat /\ v.at = w.at
  /\ v.data = [w.data EXCEPT ![w.at] = Put(f, w, Portion(w))]
  /\ v.pos = w.pos + Portion(w) /\ v.left = w.left - Portion(w)
  /\ v.size = IF v.pos > w.size THEN v.pos ELSE w.size
  /\ v.done = TRUE
  /\ v.harm \in Harms

\* v: what a pass makes of w that fills its block and links the next.
LinksNext(f, w, v) ==
  /\ w.at \in Block /\ w.left > 0 /\ ~w.done /\ w.harm = "none"
  /\ ~Fits(w) /\ DetermineBlock(files, w.fat) # MEMFULL
  /\ v.fat = [w.fat EXCEPT ![w.at] = DetermineBlock(files, w.fat)]
  /\ v.at = DetermineBlock(files, w.fat)
  /\ v.data = [w.data EXCEPT ![w.at] = Put(f, w, Portion(w))]
  /\ v.pos = w.pos + Portion(w) /\ v.left = w.left - Portion(w)
  /\ v.size = w.size
  /\ v.done = w.done
  /\ v.harm \in Harms

\* A pass does nothing, ends the call, or links the next block.
LEMMA PassCases ==
  ASSUME NEW f, NEW w \in WriteRecord, NEW v, v = WritePass(f, w)
  PROVE  /\ Shape(v)
         /\ \/ v = w
            \/ EndsCall(f, w, v)
            \/ LinksNext(f, w, v)
<1> DEFINE n == Portion(w)
           put == Put(f, w, n)
           new == DetermineBlock(files, w.fat)
           sh == SearchHarm(files, w.fat)
           out == [w EXCEPT !.data[w.at] = put, !.pos = w.pos + n, !.left = w.left - n]
           last == [out EXCEPT !.done = TRUE,
                               !.size = IF w.pos + n > @ THEN w.pos + n ELSE @,
                               !.harm = IF Fits(w) THEN @ ELSE sh]
           next == [out EXCEPT !.fat[w.at] = new, !.at = new, !.harm = sh]
<1>1. sh \in Harms
  BY DEF SearchHarm, ChainHarm, Harms
<1>2. WritePass(f, w) =
        IF w.left = 0 \/ w.done \/ w.harm # "none" THEN w
        ELSE IF Fits(w) \/ new = MEMFULL THEN last ELSE next
  BY Zenon DEF WritePass, Fits, Portion, Put
<1>3. w.left \in Nat /\ w.done \in BOOLEAN /\ w.harm \in Harms /\ w.size \in Nat
      /\ w.at \in Block
  BY DEF WriteRecord
<1> HIDE DEF n, put, new, sh
<1>4. Shape(w)
  BY DEF WriteRecord, Shape
<1>5. Shape(out)
  BY <1>4, ShapeKept
<1>6. Shape(last) /\ Shape(next)
  <2> HIDE DEF out
  <2>1. QED
    BY <1>4, <1>5, ShapeKept
<1>7. /\ last.fat = w.fat /\ last.at = w.at /\ last.data = [w.data EXCEPT ![w.at] = put]
      /\ last.pos = w.pos + n /\ last.left = w.left - n
      /\ last.size = IF last.pos > w.size THEN last.pos ELSE w.size
      /\ last.done = TRUE /\ last.harm \in Harms
  BY <1>1, <1>3 DEF WriteRecord
<1>8. /\ next.fat = [w.fat EXCEPT ![w.at] = new] /\ next.at = new
      /\ next.data = [w.data EXCEPT ![w.at] = put]
      /\ next.pos = w.pos + n /\ next.left = w.left - n
      /\ next.size = w.size /\ next.done = w.done /\ next.harm \in Harms
  BY <1>1, <1>3 DEF WriteRecord
<1> HIDE DEF last, next
<1>9. CASE w.left = 0 \/ w.done \/ w.harm # "none"
  BY <1>2, <1>9, <1>4
<1>10. CASE ~(w.left = 0 \/ w.done \/ w.harm # "none")
  <2>1. w.left > 0 /\ ~w.done /\ w.harm = "none"
    BY <1>3, <1>10
  <2>2. CASE Fits(w) \/ new = MEMFULL
    BY <1>2, <1>3, <1>7, <1>10, <1>6, <2>1, <2>2, Zenon DEF n, put, new, EndsCall
  <2>3. CASE ~(Fits(w) \/ new = MEMFULL)
    BY <1>2, <1>3, <1>8, <1>10, <1>6, <2>1, <2>3, Zenon DEF n, put, new, LinksNext
  <2>4. QED
    BY <2>2, <2>3
<1>11. QED
  BY <1>9, <1>10


-------------------------------------------------------------------------------
(* The invariant that every call keeps.                                      *)

FileRecord == [name : Name, start : Block \cup {MEMFULL}, size : 0 .. MaxSize]
DescriptorRecord == [number : 0 .. MaxNumber, file : Name \cup {Terminal},
               mode : {"F_READ", "F_WRITE", "F_APPEND"}, pos : 0 .. MaxSize]
NamesOf(dir) == {dir[i].name : i \in DOMAIN dir}
GoodDirectory(dir) ==
  /\ dir \in Directory
  /\ \A i \in DOMAIN dir : dir[i].start # 0
  /\ \A i, j \in DOMAIN dir : dir[i].name = dir[j].name => i = j
NoLinkToRoot(t) == \A b \in Block : t[b] # 0
\* What the table is known to be: once bytes have gone over it, little.
GoodTables == {t \in Table : NoLinkToRoot(t)}
TableKind == IF Spilled THEN Links ELSE GoodTables
Live(dir, table) ==
  \A p \in Proc : \A d \in table[p] : d.file = Terminal \/ d.file \in NamesOf(dir)

CallInv ==
  /\ GoodDirectory(files) /\ GoodDirectory(stored)
  /\ fat \in TableKind
  /\ data \in Bytes
  /\ fds \in [Proc -> SUBSET DescriptorRecord]
  /\ Live(files, fds)
  /\ harm \in Harms

LEMMA KindFacts ==
  /\ GoodTables \subseteq Links /\ TableKind \subseteq Links
  /\ TableKind = Links \/ TableKind = GoodTables
BY DEF TableKind, GoodTables, Table, Links

\* Only a change of the bytes at END can make the table one of another kind.
LEMMA KindKept ==
  ASSUME data'[END] = data[END]
  PROVE  TableKind' = TableKind /\ (Spilled' <=> Spilled)
<1>1. Spilled' <=> Spilled
  BY DEF Spilled
<1>2. QED
  BY <1>1 DEF TableKind

\* It is the conjunction of the four properties.
LEMMA CallInvSays ==
  CallInv <=> TypeOK /\ RootBlockPrivate /\ NamesDistinct /\ DescriptorsLive
<1>1. RootBlockPrivate <=>
        /\ ~Spilled => \A b \in Block : fat[b] \in (Block \ {0}) \cup {END}
        /\ \A i \in DOMAIN files : files[i].start # 0
        /\ \A i \in DOMAIN stored : stored[i].start # 0
  BY DEF RootBlockPrivate
<1>2. NamesDistinct <=>
        /\ \A i, j \in DOMAIN files : files[i].name = files[j].name => i = j
        /\ \A i, j \in DOMAIN stored : stored[i].name = stored[j].name => i = j
  BY DEF NamesDistinct
<1>3. DescriptorsLive <=> Live(files, fds)
  BY DEF DescriptorsLive, Live, FileDescriptors, NamesOf, Named
<1>4. TypeOK <=> /\ files \in Directory /\ stored \in Directory
                 /\ fat \in Links /\ data \in Bytes
                 /\ fds \in [Proc -> SUBSET DescriptorRecord] /\ harm \in Harms
  BY DEF TypeOK, Bytes, DescriptorRecord, Harms
<1>5. fat \in TableKind <=>
        fat \in Links /\ (~Spilled => \A b \in Block : fat[b] \in (Block \ {0}) \cup {END})
  <2>1. fat \in GoodTables <=>
          fat \in Links /\ \A b \in Block : fat[b] \in (Block \ {0}) \cup {END}
    BY BlockFacts DEF GoodTables, Table, NoLinkToRoot, Links
  <2>2. QED
    BY <2>1 DEF TableKind
<1>6. QED
  BY <1>1, <1>2, <1>3, <1>4, <1>5, Zenon DEF CallInv, GoodDirectory

LEMMA DirectoryFacts ==
  ASSUME NEW dir \in Directory
  PROVE  /\ dir \in Seq(FileRecord) /\ Len(dir) \in Nat /\ DOMAIN dir = 1 .. Len(dir)
         /\ \A i \in DOMAIN dir : dir[i] \in FileRecord
         /\ \A i \in DOMAIN dir : /\ dir[i].name \in Name
                                  /\ dir[i].start \in Block \cup {MEMFULL}
                                  /\ dir[i].size \in 0 .. MaxSize
<1>1. dir \in Seq(FileRecord) /\ Len(dir) \in Nat /\ DOMAIN dir = 1 .. Len(dir)
  BY DEF Directory, FileRecord
<1>2. \A i \in DOMAIN dir : dir[i] \in FileRecord
  BY <1>1
<1>3. QED
  BY <1>1, <1>2 DEF FileRecord

\* A call that looks for a file finds it when the directory has the name.
LEMMA EntryFacts ==
  ASSUME files \in Directory, NEW f, f \in NamesOf(files)
  PROVE  /\ First(f) \in DOMAIN files /\ files[First(f)].name = f
         /\ Entry(f) = files[First(f)] /\ f \in Name
         /\ Entry(f).start \in Block \cup {MEMFULL} /\ Entry(f).size \in 0 .. MaxSize
<1>1. Named(files, f) \in SUBSET Nat /\ Named(files, f) # {}
  BY DirectoryFacts DEF Named, NamesOf
<1>2. \E i \in Named(files, f) : \A j \in Named(files, f) : i <= j
  BY <1>1, LeastNat
<1>3. First(f) \in Named(files, f)
  BY <1>2 DEF First
<1>4. First(f) \in DOMAIN files /\ files[First(f)].name = f
  BY <1>3 DEF Named
<1>5. QED
  BY <1>4, DirectoryFacts DEF Entry

LEMMA NamedFacts ==
  ASSUME NEW f
  PROVE  Named(files, f) # {} <=> f \in NamesOf(files)
BY DEF Named, NamesOf

\* A change of a size leaves the names and the starts.
LEMMA ResizedFacts ==
  ASSUME files \in Directory, NEW f, NEW n \in 0 .. MaxSize
  PROVE  /\ Resized(f, n) \in Directory /\ DOMAIN Resized(f, n) = DOMAIN files
         /\ Len(Resized(f, n)) = Len(files)
         /\ \A i \in DOMAIN files :
              /\ Resized(f, n)[i].name = files[i].name
              /\ Resized(f, n)[i].start = files[i].start
              /\ Resized(f, n)[i].size = IF files[i].name = f THEN n ELSE files[i].size
         /\ NamesOf(Resized(f, n)) = NamesOf(files)
         /\ GoodDirectory(files) => GoodDirectory(Resized(f, n))
<1> DEFINE r == Resized(f, n)
<1>1. DOMAIN files = 1 .. Len(files) /\ Len(files) \in Nat
      /\ \A i \in DOMAIN files : files[i] \in FileRecord
  BY DirectoryFacts
<1>2. \A i \in DOMAIN files :
        r[i] = IF files[i].name = f THEN [files[i] EXCEPT !.size = n] ELSE files[i]
  BY DEF Resized
<1>3. DOMAIN r = DOMAIN files
  BY DEF Resized
<1>4. \A i \in DOMAIN files :
        /\ r[i] \in FileRecord
        /\ r[i].name = files[i].name /\ r[i].start = files[i].start
        /\ r[i].size = IF files[i].name = f THEN n ELSE files[i].size
  BY <1>1, <1>2 DEF FileRecord
<1>5. r = [i \in 1 .. Len(files) |-> r[i]]
  BY <1>1 DEF Resized
<1> HIDE DEF r
<1>6. r \in Seq(FileRecord) /\ Len(r) = Len(files)
  BY <1>1, <1>4, <1>5
<1>7. NamesOf(r) = NamesOf(files)
  BY <1>3, <1>4 DEF NamesOf
<1>8. r \in Directory
  BY <1>6 DEF Directory, FileRecord
<1>9. GoodDirectory(files) => GoodDirectory(r)
  BY <1>3, <1>4, <1>8, Zenon DEF GoodDirectory
<1>10. QED
  BY <1>3, <1>4, <1>6, <1>7, <1>8, <1>9 DEF r

\* k_addFile: a new name, at the end, with a block that no chain has.
LEMMA AddFileFacts ==
  ASSUME files \in Directory, NEW f \in Name
  PROVE  /\ AddFile(f) \in Directory /\ Len(AddFile(f)) = Len(files) + 1
         /\ DOMAIN AddFile(f) = 1 .. Len(files) + 1
         /\ \A i \in DOMAIN files : i \in DOMAIN AddFile(f) /\ AddFile(f)[i] = files[i]
         /\ AddFile(f)[Len(files) + 1] =
              [name |-> f, start |-> DetermineBlock(files, fat), size |-> 0]
         /\ NamesOf(AddFile(f)) = NamesOf(files) \cup {f}
         /\ GoodDirectory(files) /\ f \notin NamesOf(files) => GoodDirectory(AddFile(f))
<1> DEFINE b == DetermineBlock(files, fat)
           new == [name |-> f, start |-> b, size |-> 0]
           r == Append(files, new)
<1>1. files \in Seq(FileRecord) /\ DOMAIN files = 1 .. Len(files) /\ Len(files) \in Nat
  BY DirectoryFacts
<1>2. b \in Block \cup {MEMFULL} /\ b # 0
  BY <1>1, DetermineBlockFacts
<1> HIDE DEF b
<1>3. new \in FileRecord /\ new.name = f /\ new.start = b
  BY <1>2, LengthsAssumption DEF FileRecord
<1> HIDE DEF new
<1>4. /\ r \in Seq(FileRecord) /\ Len(r) = Len(files) + 1 /\ DOMAIN r = 1 .. Len(files) + 1
      /\ \A i \in 1 .. Len(files) : r[i] = files[i]
      /\ r[Len(files) + 1] = new
  BY <1>1, <1>3
<1> HIDE DEF r
<1>5. /\ \A i \in 1 .. Len(files) : i \in DOMAIN r
      /\ \A i \in DOMAIN r : i \in DOMAIN files \/ i = Len(files) + 1
      /\ Len(files) + 1 \in DOMAIN r
  BY <1>1, <1>4
<1>6. NamesOf(r) = NamesOf(files) \cup {f}
  BY <1>1, <1>3, <1>4, <1>5 DEF NamesOf
<1>7. ASSUME GoodDirectory(files), f \notin NamesOf(files) PROVE GoodDirectory(r)
  <2>1. r \in Directory
    BY <1>4 DEF Directory, FileRecord
  <2>2. \A i \in DOMAIN r : r[i].start # 0
    BY <1>1, <1>2, <1>3, <1>4, <1>5, <1>7 DEF GoodDirectory
  <2>3. \A i \in DOMAIN files : files[i].name # f
    BY <1>7 DEF NamesOf
  <2>4. \A i, j \in DOMAIN r : r[i].name = r[j].name => i = j
    BY <1>1, <1>3, <1>4, <1>5, <1>7, <2>3 DEF GoodDirectory
  <2>5. QED
    BY <2>1, <2>2, <2>4 DEF GoodDirectory
<1>8. AddFile(f) = r
  BY DEF AddFile, r, new, b
<1>9. r \in Directory
  BY <1>4 DEF Directory, FileRecord
<1>10. QED
  BY <1>1, <1>4, <1>5, <1>6, <1>7, <1>8, <1>9 DEF new, b


\* f_unlink takes one file off the list: the others keep their order.
LEMMA RemovedFacts ==
  ASSUME files \in Directory, NEW k \in DOMAIN files
  PROVE  /\ RemoveAt(files, k) \in Directory /\ Len(RemoveAt(files, k)) = Len(files) - 1
         /\ DOMAIN RemoveAt(files, k) = 1 .. Len(files) - 1
         /\ \A i \in 1 .. Len(files) - 1 :
              RemoveAt(files, k)[i] = IF i < k THEN files[i] ELSE files[i + 1]
         /\ GoodDirectory(files) => GoodDirectory(RemoveAt(files, k))
         /\ GoodDirectory(files) =>
              NamesOf(RemoveAt(files, k)) = NamesOf(files) \ {files[k].name}
<1> DEFINE r == RemoveAt(files, k)
           n == Len(files)
<1>1. files \in Seq(FileRecord) /\ DOMAIN files = 1 .. n /\ n \in Nat /\ k \in 1 .. n
  BY DirectoryFacts
<1>2. /\ r \in Seq(FileRecord) /\ Len(r) = n - 1 /\ DOMAIN r = 1 .. n - 1
      /\ \A i \in 1 .. n - 1 : r[i] = IF i < k THEN files[i] ELSE files[i + 1]
  <2> DEFINE a == SubSeq(files, 1, k - 1)
             b == SubSeq(files, k + 1, n)
  <2>1. a \in Seq(FileRecord) /\ Len(a) = k - 1 /\ \A i \in 1 .. k - 1 : a[i] = files[i]
    BY <1>1
  <2>2. b \in Seq(FileRecord) /\ Len(b) = n - k /\ \A i \in 1 .. n - k : b[i] = files[k + i]
    <3>1. b \in Seq(FileRecord) /\ Len(b) = n - k
      BY <1>1
    <3>2. \A i \in 1 .. n - k : b[i] = files[(k + 1) + i - 1]
      BY <1>1
    <3>3. \A i \in 1 .. n - k : (k + 1) + i - 1 = k + i
      BY <1>1
    <3>4. QED
      BY <3>1, <3>2, <3>3
  <2>3. r = a \o b
    BY DEF RemoveAt
  <2> HIDE DEF a, b, r
  <2>4. /\ a \o b \in Seq(FileRecord) /\ Len(a \o b) = Len(a) + Len(b)
        /\ \A i \in 1 .. Len(a) + Len(b) :
             (a \o b)[i] = IF i <= Len(a) THEN a[i] ELSE b[i - Len(a)]
    BY <2>1, <2>2, ConcatProperties, Zenon
  <2>5. Len(a) + Len(b) = n - 1
    BY <2>1, <2>2, <1>1
  <2>6. ASSUME NEW i \in 1 .. n - 1
        PROVE  r[i] = IF i < k THEN files[i] ELSE files[i + 1]
    <3>1. r[i] = IF i <= k - 1 THEN a[i] ELSE b[i - (k - 1)]
      BY <2>1, <2>3, <2>4, <2>5
    <3>2. CASE i < k
      BY <3>1, <3>2, <2>1, <1>1
    <3>3. CASE i >= k
      <4>1. i - (k - 1) \in 1 .. n - k /\ k + (i - (k - 1)) = i + 1 /\ ~(i <= k - 1) /\ ~(i < k)
        BY <3>3, <1>1
      <4>2. QED
        BY <4>1, <3>1, <2>2
    <3>4. QED
      BY <3>2, <3>3, <1>1
  <2>7. QED
    BY <2>3, <2>4, <2>5, <2>6
<1> HIDE DEF r, n
<1>3. r \in Directory
  BY <1>2 DEF Directory, FileRecord
<1> DEFINE from(i) == IF i < k THEN i ELSE i + 1
<1>4. \A i \in DOMAIN r : from(i) \in DOMAIN files /\ from(i) # k /\ r[i] = files[from(i)]
  BY <1>1, <1>2
<1>5. \A i, j \in DOMAIN r : from(i) = from(j) => i = j
  BY <1>1, <1>2
<1>6. \A j \in DOMAIN files : j # k => \E i \in DOMAIN r : from(i) = j
  <2>1. ASSUME NEW j \in DOMAIN files, j # k
        PROVE  \E i \in DOMAIN r : from(i) = j
    <3>1. CASE j < k
      BY <3>1, <1>1, <1>2
    <3>2. CASE j > k
      <4>1. j - 1 \in DOMAIN r /\ from(j - 1) = j
        BY <3>2, <1>1, <1>2
      <4>2. QED
        BY <4>1
    <3>3. QED
      BY <2>1, <3>1, <3>2, <1>1
  <2>2. QED
    BY <2>1
<1> HIDE DEF from
<1>7. GoodDirectory(files) => GoodDirectory(r)
  BY <1>3, <1>4, <1>5 DEF GoodDirectory
<1>8. GoodDirectory(files) => NamesOf(r) = NamesOf(files) \ {files[k].name}
  BY <1>4, <1>6 DEF GoodDirectory, NamesOf
<1>9. QED
  BY <1>2, <1>3, <1>7, <1>8 DEF r, n

-------------------------------------------------------------------------------
(* What a call does to the table and the bytes.                              *)

LEMMA SearchHarmType ==
  ASSUME NEW t
  PROVE  SearchHarm(files, t) \in Harms
BY DEF SearchHarm, ChainHarm, Harms

\* A removal of links and a new one behind a block leave the table of its kind.
LEMMA CleanFatKeepsKind ==
  ASSUME fat \in TableKind, NEW b
  PROVE  CleanFat(fat, b) \in TableKind
<1>1. \A c \in Block : CleanFat(fat, b)[c] = IF c \in Chain(fat, b) THEN END ELSE fat[c]
  BY DEF CleanFat
<1>2. CleanFat(fat, b) = [c \in Block |-> CleanFat(fat, b)[c]]
  BY DEF CleanFat
<1> PICK u : u = CleanFat(fat, b)
  OBVIOUS
<1>3. fat \in Links => u \in Links
  BY <1>1, <1>2 DEF Links
<1>4. fat \in GoodTables => u \in GoodTables
  BY <1>1, <1>2, BlockFacts DEF GoodTables, Table, NoLinkToRoot
<1>5. QED
  BY <1>3, <1>4, KindFacts

LEMMA LinkKeepsKind ==
  ASSUME NEW T, T = Links \/ T = GoodTables, NEW t \in T, NEW b \in Block,
         NEW n \in Block, n # 0
  PROVE  [t EXCEPT ![b] = n] \in T
BY DEF Links, GoodTables, Table, NoLinkToRoot

\* How many bytes a pass writes: some, never more than are left, and up to the
\* end of the block at most.
LEMMA PortionFacts ==
  ASSUME NEW w, w.pos \in Nat, w.left \in Nat, w.left > 0
  PROVE  /\ Portion(w) \in 1 .. w.left
         /\ w.pos % FAT_WIDTH \in 0 .. FAT_WIDTH - 1 /\ w.pos % FAT_WIDTH <= w.pos
         /\ (w.pos % FAT_WIDTH) + Portion(w) <= FAT_WIDTH
         /\ Fits(w) => /\ Portion(w) = w.left
                       /\ (w.pos % FAT_WIDTH) + Portion(w) < FAT_WIDTH
         /\ ~Fits(w) => (w.pos % FAT_WIDTH) + Portion(w) = FAT_WIDTH
BY DivMod, GeometryAssumption DEF Portion, Fits

LEMMA PutType ==
  ASSUME NEW f \in Name, NEW w \in WriteRecord, w.pos <= MaxSize, NEW n \in Nat
  PROVE  /\ [w.data EXCEPT ![w.at] = Put(f, w, n)] \in Bytes
         /\ [w.data EXCEPT ![w.at] = Put(f, w, n)][END] = w.data[END]
<1>1. w.pos \in Nat /\ w.data \in Bytes /\ w.at \in Block /\ w.at # END
  BY BlockFacts DEF WriteRecord
<1>2. w.data[w.at] \in [0 .. FAT_WIDTH - 1 -> Cell]
  BY <1>1 DEF Bytes
<1>3. ASSUME NEW o \in 0 .. FAT_WIDTH - 1
      PROVE  <<f, w.pos - (w.pos % FAT_WIDTH) + o>> \in Cell
  <2>1. w.pos - (w.pos % FAT_WIDTH) + o \in 0 .. MaxSize + FAT_WIDTH
    BY <1>1, DivMod, LengthsAssumption, GeometryAssumption
  <2>2. QED
    BY <2>1 DEF Cell
<1>4. Put(f, w, n) \in [0 .. FAT_WIDTH - 1 -> Cell]
  BY <1>2, <1>3 DEF Put
<1>5. QED
  BY <1>1, <1>4 DEF Bytes

\* The records of the passes of a call that ends at total: the table stays in T,
\* the bytes over it are d, and the size does not fall below s.
Passes(T, s, d, total) ==
  {w \in WriteRecord : /\ w.pos + w.left = total /\ w.fat \in T
                       /\ s <= w.size /\ w.size <= MaxSize
                       /\ w.data[END] = d}

LEMMA FirstPassType ==
  ASSUME files \in Directory, NEW T, fat \in T, fat \in Links, data \in Bytes,
         NEW f, f \in NamesOf(files), NEW pos \in Nat, NEW numb \in Nat,
         WalkEnd(f, pos) \in Block
  PROVE  FirstPass(f, pos, numb) \in Passes(T, Entry(f).size, data[END], pos + numb)
<1> DEFINE w == FirstPass(f, pos, numb)
<1>1. Entry(f).size \in 0 .. MaxSize
  BY EntryFacts
<1>2. /\ w.pos = pos /\ w.left = numb /\ w.size = Entry(f).size /\ w.fat = fat
      /\ w.data = data
  BY DEF FirstPass
<1>3. w \in WriteRecord
  BY <1>1 DEF FirstPass, WriteRecord, Harms
<1> HIDE DEF w
<1>4. QED
  BY <1>1, <1>2, <1>3 DEF Passes, w

LEMMA PassType ==
  ASSUME files \in Directory, NEW f, f \in NamesOf(files), NEW total \in Nat,
         total <= MaxSize, NEW T, T = Links \/ T = GoodTables,
         NEW s \in Nat, NEW bytes, NEW w \in Passes(T, s, bytes, total)
  PROVE  WritePass(f, w) \in Passes(T, s, bytes, total)
<1> DEFINE new == DetermineBlock(files, w.fat)
           d == [w.data EXCEPT ![w.at] = Put(f, w, Portion(w))]
<1>1. /\ w \in WriteRecord /\ w.pos + w.left = total /\ w.size <= MaxSize
      /\ s <= w.size /\ w.data[END] = bytes
      /\ w.fat \in T /\ w.pos \in Nat /\ w.left \in Nat /\ w.size \in Nat
      /\ w.fat \in Links /\ w.done \in BOOLEAN /\ w.at \in Block
  BY DEF Passes, WriteRecord
<1>2. new \in Block \cup {MEMFULL} /\ new # 0
  BY DirectoryFacts, DetermineBlockFacts
<1>3. PICK v : v = WritePass(f, w)
  OBVIOUS
<1>4. CASE v = w
  BY <1>3, <1>4
<1>5. CASE v # w
  <2>1. Shape(v) /\ (EndsCall(f, w, v) \/ LinksNext(f, w, v))
    BY <1>1, <1>3, <1>5, PassCases, Zenon
  <2>2. w.left > 0
    BY <2>1 DEF EndsCall, LinksNext
  <2>3. Portion(w) \in 1 .. w.left
    BY <1>1, <2>2, PortionFacts
  <2>4. d \in Bytes /\ d[END] = bytes
    <3>1. w.pos <= MaxSize /\ f \in Name /\ Portion(w) \in Nat
      BY <1>1, <2>3, EntryFacts, LengthsAssumption
    <3>2. QED
      BY <1>1, <3>1, PutType
  <2>5. w.pos + Portion(w) \in Nat /\ w.left - Portion(w) \in Nat
        /\ (w.pos + Portion(w)) + (w.left - Portion(w)) = total
        /\ w.pos + Portion(w) <= MaxSize
    BY <2>3, <1>1, LengthsAssumption
  <2> HIDE DEF d, new
  <2>6. /\ v.fat = w.fat \/ (new # MEMFULL /\ v.fat = [w.fat EXCEPT ![w.at] = new])
        /\ v.at = w.at \/ (new # MEMFULL /\ v.at = new)
        /\ v.data = d /\ v.pos = w.pos + Portion(w) /\ v.left = w.left - Portion(w)
        /\ (v.pos > w.size /\ v.size = v.pos) \/ v.size = w.size
        /\ v.done = TRUE \/ v.done = w.done
        /\ v.harm \in Harms
        /\ Shape(v)
    BY <2>1 DEF d, new, EndsCall, LinksNext
  <2>7. new # MEMFULL => /\ [w.fat EXCEPT ![w.at] = new] \in T
                         /\ [w.fat EXCEPT ![w.at] = new] \in Links
    BY <1>1, <1>2, LinkKeepsKind
  <2>8. v.fat \in T /\ v.fat \in Links
    BY <1>1, <2>6, <2>7
  <2>9. v.at \in Block
    BY <1>1, <1>2, <2>6
  <2>10. v.data \in Bytes /\ v.pos \in Nat /\ v.left \in Nat /\ v.pos + v.left = total
         /\ v.data[END] = bytes
    BY <2>4, <2>5, <2>6
  <2>11. v.size \in Nat /\ v.size <= MaxSize /\ s <= v.size
    BY <1>1, <2>5, <2>6
  <2>12. v.done \in BOOLEAN /\ v.harm \in Harms
    BY <1>1, <2>6
  <2>13. v \in WriteRecord
    BY <2>6, <2>8, <2>9, <2>10, <2>11, <2>12 DEF Shape, WriteRecord
  <2>14. QED
    BY <1>3, <2>8, <2>10, <2>11, <2>13 DEF Passes
<1>6. QED
  BY <1>4, <1>5

\* A write in the blocks of a file leaves the table of its kind, and no byte in it.
LEMMA KWriteTypes ==
  ASSUME files \in Directory, fat \in TableKind, data \in Bytes,
         NEW f, f \in NamesOf(files), NEW pos \in Nat, NEW numb \in Nat,
         pos + numb <= MaxSize, WalkEnd(f, pos) \in Block
  PROVE  LET w == KWrite(f, pos, numb)
         IN  /\ w.fat \in TableKind /\ w.data \in Bytes /\ w.data[END] = data[END]
             /\ w.size \in 0 .. MaxSize /\ Entry(f).size <= w.size
             /\ w.pos \in 0 .. MaxSize /\ w.harm \in Harms
<1>1. PICK T : T = TableKind
  OBVIOUS
<1> DEFINE I == Passes(T, Entry(f).size, data[END], pos + numb)
<1>2. Entry(f).size \in Nat /\ pos + numb \in Nat
  BY EntryFacts
<1>3. (T = Links \/ T = GoodTables) /\ fat \in T /\ fat \in Links
  BY <1>1, KindFacts
<1>4. FirstPass(f, pos, numb) \in I
  BY <1>3, FirstPassType
<1>5. ASSUME NEW w \in I PROVE WritePass(f, w) \in I
  BY <1>2, <1>3, PassType
<1>6. KWrite(f, pos, numb) \in I
  <2> HIDE DEF I
  <2>1. QED
    BY <1>4, <1>5, KWriteInduction
<1> DEFINE w == KWrite(f, pos, numb)
<1> HIDE DEF w
<1>7. w \in I
  BY <1>6 DEF w
<1>8. /\ w.fat \in T /\ w.data \in Bytes /\ w.harm \in Harms /\ w.data[END] = data[END]
      /\ w.size \in Nat /\ w.size <= MaxSize /\ Entry(f).size <= w.size
      /\ w.pos \in Nat /\ w.left \in Nat /\ w.pos + w.left = pos + numb
  BY <1>7 DEF Passes, WriteRecord
<1>9. w.size \in 0 .. MaxSize /\ w.pos \in 0 .. MaxSize
  BY <1>8, LengthsAssumption
<1>10. QED
  BY <1>1, <1>8, <1>9 DEF w

\* A write where the chain has ended writes a part of the bytes, and never cuts
\* the file.
LEMMA MissedFacts ==
  ASSUME files \in Directory, NEW f, f \in NamesOf(files), NEW pos \in Nat, NEW numb \in Nat,
         pos + numb <= MaxSize, NEW t, NEW dt
  PROVE  LET w == Missed(f, pos, numb, t, dt)
         IN  /\ w.fat = t /\ w.data = dt /\ w.pos = pos + Part(pos, numb)
             /\ w.size \in 0 .. MaxSize /\ Entry(f).size <= w.size
             /\ w.pos \in 0 .. MaxSize /\ w.harm \in Harms
             /\ Part(pos, numb) \in 0 .. numb
             /\ numb # 0 => Part(pos, numb) # 0
<1> DEFINE n == Part(pos, numb)
<1>1. n \in 0 .. numb /\ (numb # 0 => n # 0)
  BY DivMod, GeometryAssumption DEF Part
<1>2. Entry(f).size \in 0 .. MaxSize
  BY EntryFacts
<1>3. SearchHarm(files, t) \in Harms
  BY SearchHarmType
<1> HIDE DEF n
<1>4. Missed(f, pos, numb, t, dt) =
        [fat |-> t, data |-> dt, pos |-> pos + n,
         size |-> IF pos + n > Entry(f).size THEN pos + n ELSE Entry(f).size,
         harm |-> IF (pos % FAT_WIDTH) + numb < FAT_WIDTH THEN "none"
                  ELSE IF SearchHarm(files, t) = "none" /\ DetermineBlock(files, t) # MEMFULL
                    THEN "astray"
                  ELSE SearchHarm(files, t)]
  BY DEF Missed, n
<1>5. /\ pos + n \in 0 .. MaxSize
      /\ (IF pos + n > Entry(f).size THEN pos + n ELSE Entry(f).size) \in 0 .. MaxSize
      /\ Entry(f).size <= (IF pos + n > Entry(f).size THEN pos + n ELSE Entry(f).size)
  BY <1>1, <1>2, LengthsAssumption
<1>6. Missed(f, pos, numb, t, dt).harm \in Harms
  BY <1>3, <1>4 DEF Harms
<1>7. QED
  BY <1>1, <1>4, <1>5, <1>6 DEF n

\* What a write at END leaves: a table of which nothing is known, with a byte
\* over it that tells.
LEMMA OverTableFacts ==
  ASSUME files \in Directory, fat \in Links, data \in Bytes,
         NEW f, f \in NamesOf(files), NEW pos \in Nat, NEW numb \in Nat \ {0},
         pos + numb <= MaxSize, NEW text \in Links
  PROVE  LET w == OverTable(f, pos, numb, text)
         IN  /\ w.fat \in Links /\ w.data \in Bytes
             /\ \E o \in 0 .. FAT_WIDTH - 1 : w.data[END][o] # Blank
             /\ w.size \in 0 .. MaxSize /\ Entry(f).size <= w.size
             /\ w.pos \in 0 .. MaxSize /\ w.harm \in Harms
<1> DEFINE off == pos % FAT_WIDTH
           n == Part(pos, numb)
           put == [o \in 0 .. FAT_WIDTH - 1 |->
                     IF o \in off .. off + n - 1 THEN <<f, pos - off + o>> ELSE data[END][o]]
           t == [b \in Block |-> IF Under(b, off, n) THEN text[b] ELSE fat[b]]
           dt == [data EXCEPT ![END] = put]
<1>1. OverTable(f, pos, numb, text) = Missed(f, pos, numb, t, dt)
  BY DEF OverTable
<1>2. t \in Links
  BY DEF Links
<1>3. off \in 0 .. FAT_WIDTH - 1 /\ off <= pos /\ n \in 1 .. numb /\ f \in Name
  <2>1. off \in 0 .. FAT_WIDTH - 1 /\ off <= pos /\ f \in Name
    BY DivMod, EntryFacts
  <2>2. n \in 0 .. numb /\ n # 0
    BY MissedFacts
  <2> HIDE DEF off, n
  <2>3. QED
    BY <2>1, <2>2
<1> HIDE DEF off, n
<1>4. put \in [0 .. FAT_WIDTH - 1 -> Cell]
  <2>1. ASSUME NEW o \in 0 .. FAT_WIDTH - 1 PROVE <<f, pos - off + o>> \in Cell
    <3>1. pos - off + o \in 0 .. MaxSize + FAT_WIDTH
      BY <1>3, LengthsAssumption, GeometryAssumption
    <3>2. QED
      BY <1>3, <3>1 DEF Cell
  <2>2. data[END] \in [0 .. FAT_WIDTH - 1 -> Cell]
    BY DEF Bytes
  <2>3. QED
    BY <2>1, <2>2
<1>5. put[off] # Blank
  <2>1. off \in off .. off + n - 1
    BY <1>3
  <2>2. put[off] = <<f, pos - off + off>>
    BY <1>3, <2>1
  <2>3. pos - off + off = pos /\ pos # -1
    BY <1>3
  <2> PICK k : k = pos - off + off
    OBVIOUS
  <2> PICK c : c = put[off]
    OBVIOUS
  <2> HIDE DEF put
  <2>4. c = <<f, k>> /\ k \in Int /\ k # -1
    BY <1>3, <2>2, <2>3
  <2>5. c # <<"blank", -1>>
    BY <2>4
  <2>6. QED
    BY <2>5 DEF Blank
<1> HIDE DEF put
<1>6. dt \in Bytes /\ dt[END] = put
  BY <1>4 DEF Bytes
<1> HIDE DEF t, dt
<1>7. QED
  <2>1. PICK w : w = OverTable(f, pos, numb, text)
    OBVIOUS
  <2>2. /\ w.fat = t /\ w.data = dt
        /\ w.size \in 0 .. MaxSize /\ Entry(f).size <= w.size
        /\ w.pos \in 0 .. MaxSize /\ w.harm \in Harms
    BY <1>1, <2>1, MissedFacts
  <2>3. \E o \in 0 .. FAT_WIDTH - 1 : w.data[END][o] # Blank
    BY <1>3, <1>5, <1>6, <2>2
  <2>4. QED
    BY <1>2, <1>6, <2>1, <2>2, <2>3

\* What a write behind the directory's text leaves: the table as it was.
LEMMA BehindFacts ==
  ASSUME files \in Directory, data \in Bytes,
         NEW f, f \in NamesOf(files), NEW pos \in Nat, NEW numb \in Nat,
         pos + numb <= MaxSize, NEW tail \in Nat
  PROVE  LET w == Behind(f, pos, numb, tail)
         IN  /\ w.fat = fat /\ w.data \in Bytes /\ w.data[END] = data[END]
             /\ w.size \in 0 .. MaxSize /\ Entry(f).size <= w.size
             /\ w.pos \in 0 .. MaxSize /\ w.harm \in Harms
<1> DEFINE n == Part(pos, numb)
           at(b, o) == b * FAT_WIDTH + o - tail
           put(b, o) == IF b \in {0, 1} /\ at(b, o) \in 0 .. n - 1
                          THEN <<f, pos + at(b, o)>> ELSE data[b][o]
           dt == [b \in DOMAIN data |-> [o \in 0 .. FAT_WIDTH - 1 |-> put(b, o)]]
<1>1. Behind(f, pos, numb, tail) = Missed(f, pos, numb, fat, dt)
  BY DEF Behind
<1>2. n \in 0 .. numb /\ f \in Name
  BY MissedFacts, EntryFacts
<1> HIDE DEF n
<1>3. ASSUME NEW b \in Block \cup {END}, NEW o \in 0 .. FAT_WIDTH - 1
      PROVE  put(b, o) \in Cell
  <2>1. data[b][o] \in Cell
    BY DEF Bytes
  <2> HIDE DEF at
  <2>2. at(b, o) \in 0 .. n - 1 => <<f, pos + at(b, o)>> \in Cell
    <3>1. PICK i : i = at(b, o)
      OBVIOUS
    <3>2. i \in 0 .. n - 1 => pos + i \in 0 .. MaxSize + FAT_WIDTH
      BY <1>2, LengthsAssumption, GeometryAssumption
    <3>3. QED
      BY <1>2, <3>1, <3>2 DEF Cell
  <2>3. QED
    BY <2>1, <2>2
<1>4. DOMAIN data = Block \cup {END}
  BY DEF Bytes
<1>5. dt \in Bytes
  <2> HIDE DEF put
  <2>1. QED
    BY <1>3, <1>4 DEF Bytes
<1>6. dt[END] = data[END]
  <2>1. END \notin {0, 1}
    BY DEF END
  <2>2. \A o \in 0 .. FAT_WIDTH - 1 : put(END, o) = data[END][o]
    BY <2>1
  <2> HIDE DEF put
  <2>3. dt[END] = [o \in 0 .. FAT_WIDTH - 1 |-> data[END][o]]
    BY <1>4, <2>2
  <2>4. data[END] \in [0 .. FAT_WIDTH - 1 -> Cell]
    BY DEF Bytes
  <2>5. QED
    BY <2>3, <2>4
<1> HIDE DEF dt
<1>7. QED
  BY <1>1, <1>5, <1>6, MissedFacts

-------------------------------------------------------------------------------
(* Tables of descriptors.                                                    *)

Tables == [Proc -> SUBSET DescriptorRecord]

LEMMA NewTableFacts ==
  /\ NewTable \in SUBSET DescriptorRecord
  /\ \A d \in NewTable : d.file = Terminal
BY LengthsAssumption DEF NewTable, DescriptorRecord

\* A new descriptor takes the first number that is free.
LEMMA NextNumberFacts ==
  ASSUME NEW p, ~ 1 .. MaxNumber \subseteq Numbers(p)
  PROVE  /\ NextNumber(p) \in 1 .. MaxNumber /\ NextNumber(p) \notin Numbers(p)
         /\ 1 .. NextNumber(p) - 1 \subseteq Numbers(p)
<1> DEFINE T == 1 .. MaxNumber \ Numbers(p)
<1>1. T \in SUBSET Nat /\ T # {}
  BY LengthsAssumption
<1>2. PICK n \in T : \A k \in T : n <= k
  BY <1>1, LeastNat
<1>3. n \in 1 .. MaxNumber /\ n \notin Numbers(p) /\ 1 .. n - 1 \subseteq Numbers(p)
  BY <1>2, LengthsAssumption
<1>4. QED
  BY <1>3 DEF NextNumber

LEMMA OpenedFacts ==
  ASSUME fds \in Tables, NEW p \in Proc, NEW f \in Name, NEW mode, NEW pos \in 0 .. MaxSize,
         NEW dir, f \in NamesOf(dir), NamesOf(files) \subseteq NamesOf(dir), Live(files, fds),
         MayOpen(p, f, mode), OpenDescriptor(p, f, mode, pos)
  PROVE  fds' \in Tables /\ Live(dir, fds')
<1> DEFINE new == [number |-> NextNumber(p), file |-> f, mode |-> mode, pos |-> pos]
<1>1. NextNumber(p) \in 0 .. MaxNumber
  BY NextNumberFacts, LengthsAssumption DEF MayOpen
<1>2. new \in DescriptorRecord /\ new.file = f
  BY <1>1, UseAssumption DEF DescriptorRecord, MayOpen
<1>3. fds' = [fds EXCEPT ![p] = @ \cup {new}]
  BY DEF OpenDescriptor
<1> HIDE DEF new
<1>4. fds' \in Tables
  BY <1>2, <1>3 DEF Tables
<1>5. \A q \in Proc : \A d \in fds'[q] : d \in fds[q] \/ d = new
  BY <1>3 DEF Tables
<1>6. Live(dir, fds')
  BY <1>2, <1>5 DEF Live
<1>7. QED
  BY <1>4, <1>6

LEMMA MovedFacts ==
  ASSUME fds \in Tables, NEW p \in Proc, NEW d \in fds[p], NEW pos \in 0 .. MaxSize,
         NEW dir, NamesOf(files) \subseteq NamesOf(dir), Live(files, fds)
  PROVE  Moved(p, d, pos) \in Tables /\ Live(dir, Moved(p, d, pos))
<1> DEFINE e == [d EXCEPT !.pos = pos]
<1>1. e \in DescriptorRecord /\ e.file = d.file
  BY DEF Tables, DescriptorRecord
<1>2. Moved(p, d, pos) = [fds EXCEPT ![p] = (@ \ {d}) \cup {e}]
  BY DEF Moved
<1> HIDE DEF e
<1>3. Moved(p, d, pos) \in Tables
  BY <1>1, <1>2 DEF Tables
<1>4. \A q \in Proc : \A c \in Moved(p, d, pos)[q] : c \in fds[q] \/ (c = e /\ q = p)
  BY <1>2 DEF Tables
<1>5. QED
  BY <1>1, <1>3, <1>4 DEF Live

LEMMA FileDescriptorFacts ==
  ASSUME CallInv, NEW p \in Proc, NEW d \in FileDescriptors(p)
  PROVE  /\ d \in fds[p] /\ d.file \in NamesOf(files) /\ d.pos \in 0 .. MaxSize
         /\ d.file \in Name /\ d.mode \in {"F_READ", "F_WRITE", "F_APPEND"}
         /\ Entry(d.file).size \in 0 .. MaxSize
         /\ Entry(d.file).start \in Block \cup {MEMFULL}
<1>1. d \in fds[p] /\ d.file \in NamesOf(files)
  BY DEF FileDescriptors, CallInv, Live
<1>2. d \in DescriptorRecord
  BY <1>1 DEF CallInv, Tables
<1>3. d.pos \in 0 .. MaxSize /\ d.mode \in {"F_READ", "F_WRITE", "F_APPEND"}
  BY <1>2 DEF DescriptorRecord
<1>4. QED
  BY <1>1, <1>3, EntryFacts DEF CallInv, GoodDirectory

-------------------------------------------------------------------------------
(* Every call keeps the invariant.                                           *)

LEMMA OpenOldKeeps ==
  ASSUME CallInv, NEW p \in Proc, NEW f \in Name, NEW mode, OpenOld(p, f, mode)
  PROVE  CallInv'
<1>1. f \in NamesOf(files)
  BY NamedFacts DEF OpenOld
<1>2. files \in Directory /\ fat \in TableKind /\ fds \in Tables
      /\ GoodDirectory(files) /\ Live(files, fds)
  BY DEF CallInv, GoodDirectory, Tables
<1>3. Entry(f).size \in 0 .. MaxSize /\ 0 \in 0 .. MaxSize
  BY <1>1, <1>2, EntryFacts, LengthsAssumption
<1>4. fds' \in Tables /\ Live(files, fds')
  BY <1>1, <1>2, <1>3, OpenedFacts DEF OpenOld
<1>5. CASE mode = "F_WRITE"
  <2>1. files' = Resized(f, 0) /\ fat' = CleanFat(fat, Entry(f).start) /\ stored' = files'
        /\ harm' \in Harms /\ data' = data
    BY <1>5 DEF OpenOld, StoreDirectory, Harms, CleanHarm
  <2>2. GoodDirectory(files') /\ NamesOf(files') = NamesOf(files)
    BY <2>1, <1>2, <1>3, ResizedFacts
  <2>3. fat' \in TableKind /\ TableKind' = TableKind
    BY <2>1, <1>2, CleanFatKeepsKind, KindKept
  <2>4. Live(files', fds')
    BY <2>2, <1>4 DEF Live
  <2>5. QED
    BY <2>1, <2>2, <2>3, <2>4, <1>4 DEF CallInv, Tables
<1>6. CASE mode # "F_WRITE"
  <2>1. files' = files /\ fat' = fat /\ stored' = files' /\ harm' = harm /\ data' = data
    BY <1>6 DEF OpenOld, StoreDirectory
  <2>2. QED
    BY <2>1, <1>2, <1>4, KindKept DEF CallInv, Tables
<1>7. QED
  BY <1>5, <1>6

LEMMA OpenNewKeeps ==
  ASSUME CallInv, NEW p \in Proc, NEW f \in Name, NEW mode, OpenNew(p, f, mode)
  PROVE  CallInv'
<1>1. f \notin NamesOf(files)
  BY NamedFacts DEF OpenNew
<1>2. files \in Directory /\ fat \in TableKind /\ fds \in Tables
      /\ GoodDirectory(files) /\ Live(files, fds)
  BY DEF CallInv, GoodDirectory, Tables
<1>3. files' = AddFile(f) /\ stored' = files' /\ data' = data
  BY DEF OpenNew, StoreDirectory
<1>4. GoodDirectory(files') /\ NamesOf(files') = NamesOf(files) \cup {f}
  BY <1>1, <1>2, <1>3, AddFileFacts
<1>5. fds' \in Tables /\ Live(files', fds')
  <2>1. MayOpen(p, f, mode) /\ OpenDescriptor(p, f, mode, 0) /\ 0 \in 0 .. MaxSize
    BY LengthsAssumption DEF OpenNew
  <2>2. QED
    BY <2>1, <1>2, <1>4, OpenedFacts
<1>6. fat' = fat \/ fat' = CleanFat(fat, DetermineBlock(files, fat))
  BY DEF OpenNew
<1>7. fat' \in TableKind /\ TableKind' = TableKind
  BY <1>2, <1>3, <1>6, CleanFatKeepsKind, KindKept
<1>8. harm' \in Harms
  <2>1. harm' = CleanHarm(DetermineBlock(files, fat)) \/ harm' = SearchHarm(files, fat)
    BY DEF OpenNew
  <2>2. QED
    BY <2>1, SearchHarmType DEF Harms, CleanHarm
<1>9. QED
  BY <1>3, <1>4, <1>5, <1>7, <1>8 DEF CallInv, Tables

\* What f_write does to the four variables it changes, wherever the walk has led.
WritesAll(p, d, w) ==
  /\ fat' = w.fat /\ data' = w.data /\ harm' = w.harm
  /\ files' = Resized(d.file, w.size) /\ fds' = Moved(p, d, w.pos)
WritePosition(d) == IF d.mode = "F_APPEND" THEN Entry(d.file).size ELSE d.pos

\* A write goes into the blocks of the file, over the table, behind the text of
\* the directory, or astray.
LEMMA FWriteCases ==
  ASSUME NEW p, NEW d, NEW numb, FWrite(p, d, numb)
  PROVE  LET pos == WritePosition(d)
         IN  /\ pos + numb <= MaxSize /\ stored' = files /\ d.mode # "F_READ"
             /\ \/ /\ StaysIn(d.file, pos) /\ WalkEnd(d.file, pos) \in Block
                   /\ WritesAll(p, d, KWrite(d.file, pos, numb))
                \/ /\ StaysIn(d.file, pos) /\ WalkEnd(d.file, pos) = END
                   /\ \E text \in Texts : WritesAll(p, d, OverTable(d.file, pos, numb, text))
                \/ /\ StaysIn(d.file, pos) /\ WalkEnd(d.file, pos) \notin Block \cup {END}
                   /\ \E tail \in 1 .. 2 * FAT_WIDTH :
                        WritesAll(p, d, Behind(d.file, pos, numb, tail))
                \/ /\ ~StaysIn(d.file, pos) /\ harm' = "astray"
                   /\ UNCHANGED <<files, fat, data, fds>>
BY Zenon DEF FWrite, WritesAll, WritePosition

LEMMA WritesAllKeeps ==
  ASSUME CallInv, NEW p \in Proc, NEW d \in FileDescriptors(p), NEW w,
         WritesAll(p, d, w), stored' = files,
         w.fat \in TableKind', w.data \in Bytes, w.harm \in Harms,
         w.size \in 0 .. MaxSize, w.pos \in 0 .. MaxSize
  PROVE  CallInv'
<1>1. /\ fat' = w.fat /\ data' = w.data /\ harm' = w.harm
      /\ files' = Resized(d.file, w.size) /\ fds' = Moved(p, d, w.pos)
  BY DEF WritesAll
<1>2. /\ d \in fds[p] /\ files \in Directory /\ fds \in Tables /\ GoodDirectory(files)
      /\ Live(files, fds)
  BY FileDescriptorFacts DEF CallInv, GoodDirectory, Tables
<1>3. GoodDirectory(files') /\ NamesOf(files') = NamesOf(files)
  BY <1>1, <1>2, ResizedFacts
<1>4. fds' \in Tables /\ Live(files', fds')
  BY <1>1, <1>2, <1>3, MovedFacts
<1>5. QED
  BY <1>1, <1>2, <1>3, <1>4 DEF CallInv, Tables

\* Only a write where the chain has ended takes the table's kind from it.
LEMMA FWriteKeeps ==
  ASSUME CallInv, NEW p \in Proc, NEW d \in FileDescriptors(p), NEW numb \in Nat \ {0},
         FWrite(p, d, numb)
  PROVE  /\ CallInv'
         /\ IF StaysIn(d.file, WritePosition(d)) /\ WalkEnd(d.file, WritePosition(d)) = END
              THEN Spilled' ELSE data'[END] = data[END]
         /\ \/ files' = files
            \/ \E n \in 0 .. MaxSize : /\ files' = Resized(d.file, n)
                                      /\ Entry(d.file).size <= n
<1> DEFINE f == d.file
<1>1. PICK pos : pos = WritePosition(d)
  OBVIOUS
<1>2. /\ d \in fds[p] /\ f \in NamesOf(files) /\ pos \in Nat /\ numb \in Nat
      /\ pos + numb <= MaxSize /\ stored' = files
  BY <1>1, FileDescriptorFacts, FWriteCases, LengthsAssumption DEF WritePosition
<1>3. /\ files \in Directory /\ GoodDirectory(files) /\ fat \in TableKind /\ fat \in Links
      /\ data \in Bytes
  BY KindFacts DEF CallInv, GoodDirectory
<1> HIDE DEF f
<1>4. CASE StaysIn(f, pos) /\ WalkEnd(f, pos) \in Block
  <2>1. PICK w : w = KWrite(f, pos, numb)
    OBVIOUS
  <2>2. /\ w.fat \in TableKind /\ w.data \in Bytes /\ w.data[END] = data[END]
        /\ w.size \in 0 .. MaxSize /\ Entry(f).size <= w.size
        /\ w.pos \in 0 .. MaxSize /\ w.harm \in Harms
    BY <1>2, <1>3, <1>4, <2>1, KWriteTypes
  <2>3. WritesAll(p, d, w)
    BY <1>1, <1>4, <2>1, FWriteCases, BlockFacts, Zenon DEF f
  <2>4. data'[END] = data[END] /\ files' = Resized(f, w.size)
    BY <2>2, <2>3 DEF WritesAll, f
  <2>5. w.fat \in TableKind'
    BY <2>2, <2>4, KindKept
  <2>6. CallInv'
    BY <1>2, <2>2, <2>3, <2>5, WritesAllKeeps
  <2>7. QED
    BY <1>1, <1>4, <2>2, <2>4, <2>6, BlockFacts DEF f
<1>5. CASE StaysIn(f, pos) /\ WalkEnd(f, pos) = END
  <2>1. PICK text \in Texts : WritesAll(p, d, OverTable(f, pos, numb, text))
    BY <1>1, <1>5, FWriteCases, BlockFacts, Zenon DEF f
  <2>2. PICK w : w = OverTable(f, pos, numb, text)
    OBVIOUS
  <2>3. /\ w.fat \in Links /\ w.data \in Bytes
        /\ \E o \in 0 .. FAT_WIDTH - 1 : w.data[END][o] # Blank
        /\ w.size \in 0 .. MaxSize /\ Entry(f).size <= w.size
        /\ w.pos \in 0 .. MaxSize /\ w.harm \in Harms
    <3>1. text \in Links /\ numb \in Nat \ {0}
      BY TextsAssumption
    <3>2. LET x == OverTable(f, pos, numb, text)
          IN  /\ x.fat \in Links /\ x.data \in Bytes
              /\ \E o \in 0 .. FAT_WIDTH - 1 : x.data[END][o] # Blank
              /\ x.size \in 0 .. MaxSize /\ Entry(f).size <= x.size
              /\ x.pos \in 0 .. MaxSize /\ x.harm \in Harms
      BY <1>2, <1>3, <3>1, OverTableFacts, Zenon
    <3>3. QED
      BY <2>2, <3>2, Zenon
  <2>4. WritesAll(p, d, w)
    BY <2>1, <2>2
  <2>5. data' = w.data /\ files' = Resized(f, w.size)
    BY <2>4 DEF WritesAll, f
  <2>6. Spilled'
    BY <2>3, <2>5 DEF Spilled
  <2>7. w.fat \in TableKind'
    BY <2>3, <2>6 DEF TableKind
  <2>8. CallInv'
    BY <1>2, <2>3, <2>4, <2>7, WritesAllKeeps
  <2>9. QED
    BY <1>1, <1>5, <2>3, <2>5, <2>6, <2>8 DEF f
<1>6. CASE StaysIn(f, pos) /\ WalkEnd(f, pos) \notin Block \cup {END}
  <2>1. PICK tail \in 1 .. 2 * FAT_WIDTH : WritesAll(p, d, Behind(f, pos, numb, tail))
    BY <1>1, <1>6, FWriteCases, Zenon DEF f
  <2>2. PICK w : w = Behind(f, pos, numb, tail)
    OBVIOUS
  <2>3. tail \in Nat
    BY GeometryAssumption
  <2>4. /\ w.fat = fat /\ w.data \in Bytes /\ w.data[END] = data[END]
        /\ w.size \in 0 .. MaxSize /\ Entry(f).size <= w.size
        /\ w.pos \in 0 .. MaxSize /\ w.harm \in Harms
    BY <1>2, <1>3, <2>2, <2>3, BehindFacts
  <2>5. WritesAll(p, d, w)
    BY <2>1, <2>2
  <2>6. data'[END] = data[END] /\ files' = Resized(f, w.size)
    BY <2>4, <2>5 DEF WritesAll, f
  <2>7. w.fat \in TableKind'
    BY <1>3, <2>4, <2>6, KindKept
  <2>8. CallInv'
    BY <1>2, <2>4, <2>5, <2>7, WritesAllKeeps
  <2>9. QED
    BY <1>1, <1>6, <2>4, <2>6, <2>8 DEF f
<1>7. CASE ~StaysIn(f, pos)
  <2>1. harm' = "astray" /\ UNCHANGED <<files, fat, data, fds>>
    BY <1>1, <1>7, FWriteCases, Zenon DEF f
  <2>2. TableKind' = TableKind
    BY <2>1, KindKept
  <2>3. QED
    BY <1>1, <1>2, <1>7, <2>1, <2>2 DEF CallInv, Harms, f
<1>8. QED
  BY <1>4, <1>5, <1>6, <1>7

\* A read changes positions and raises sizes.
LEMMA FReadKeeps ==
  ASSUME CallInv, NEW p \in Proc, NEW d \in FileDescriptors(p), NEW numb \in Nat,
         NEW n, FRead(p, d, numb, n)
  PROVE  /\ CallInv'
         /\ data' = data
         /\ \/ files' = files
            \/ \E k \in 0 .. MaxSize : /\ files' = Resized(d.file, k)
                                      /\ Entry(d.file).size <= k
<1> DEFINE r == ReadLength(d.file, d.pos, numb)
<1>1. /\ d \in fds[p] /\ d.pos \in 0 .. MaxSize /\ numb \in Nat
      /\ Entry(d.file).size \in 0 .. MaxSize
  BY FileDescriptorFacts, LengthsAssumption
<1>2. r \in Nat
  BY <1>1 DEF ReadLength
<1>3. /\ n \in 0 .. r /\ d.pos + r <= MaxSize /\ fds' = Moved(p, d, d.pos + n)
      /\ files' = files \/ (/\ files' = Resized(d.file, d.pos + n)
                            /\ Entry(d.file).size < d.pos + n)
      /\ UNCHANGED <<fat, data, stored>>
  BY DEF FRead, Reads
<1>4. harm' \in Harms
  BY DEF FRead, ReadHarm, Harms
<1> HIDE DEF r
<1>5. d.pos + n \in 0 .. MaxSize
  BY <1>1, <1>2, <1>3, LengthsAssumption
<1>6. GoodDirectory(files') /\ NamesOf(files') = NamesOf(files)
  BY <1>3, <1>5, ResizedFacts DEF CallInv, GoodDirectory
<1>7. fds' \in Tables /\ Live(files', fds')
  BY <1>1, <1>3, <1>5, <1>6, MovedFacts DEF CallInv, Tables
<1>8. TableKind' = TableKind
  BY <1>3, KindKept
<1>9. CallInv'
  BY <1>3, <1>4, <1>6, <1>7, <1>8 DEF CallInv, Tables
<1>10. QED
  BY <1>1, <1>3, <1>5, <1>9

LEMMA FLseekKeeps ==
  ASSUME CallInv, NEW p \in Proc, NEW d \in FileDescriptors(p),
         NEW pos \in 0 .. MaxSize, FLseek(p, d, pos)
  PROVE  CallInv'
<1>1. d \in fds[p]
  BY FileDescriptorFacts
<1>2. fds' = Moved(p, d, pos) /\ stored' = files /\ UNCHANGED <<files, fat, data, harm>>
  BY DEF FLseek
<1>3. fds' \in Tables /\ Live(files, fds')
  BY <1>1, <1>2, MovedFacts DEF CallInv, Tables
<1>4. QED
  BY <1>2, <1>3, KindKept DEF CallInv, Tables

LEMMA FCloseKeeps ==
  ASSUME CallInv, NEW p \in Proc, NEW n, FClose(p, n)
  PROVE  CallInv'
<1>1. PICK hit : fds' = [fds EXCEPT ![p] = @ \ hit]
  BY DEF FClose
<1>2. /\ stored' = files \/ stored' = stored
      /\ harm' \in Harms
      /\ UNCHANGED <<files, fat, data>>
  BY DEF FClose, Harms
<1>3. fds' \in Tables /\ Live(files, fds')
  BY <1>1 DEF CallInv, Tables, Live
<1>4. QED
  BY <1>2, <1>3, KindKept DEF CallInv, Tables

\* f_unlink removes the file and every descriptor on it, whether the directory
\* can still be stored or not.
LEMMA UnlinkedKeeps ==
  ASSUME CallInv, NEW p \in Proc, NEW f \in Name, Unlinked(p, f),
         stored' = files' \/ stored' = stored
  PROVE  CallInv'
<1>1. /\ GoodDirectory(files) /\ files \in Directory /\ fat \in TableKind
      /\ fds \in Tables /\ Live(files, fds) /\ GoodDirectory(stored)
  BY DEF CallInv, GoodDirectory, Tables
<1>2. data' = data /\ (stored' = files' \/ stored' = stored) /\ TableKind' = TableKind
  BY KindKept DEF Unlinked
<1>3. CASE UNCHANGED <<files, fat, fds>> /\ (harm' = harm \/ harm' = "freed")
  BY <1>1, <1>2, <1>3 DEF CallInv, Tables, Harms
<1>4. CASE ~(UNCHANGED <<files, fat, fds>> /\ (harm' = harm \/ harm' = "freed"))
  <2>1. /\ Named(files, f) # {}
        /\ files' = RemoveAt(files, First(f))
        /\ fat' = CleanFat(fat, Entry(f).start)
        /\ fds' = [Forget(f) EXCEPT ![p] = @ \ Dropped(p, f)]
        /\ harm' \in Harms
    BY <1>4 DEF Unlinked, Harms, CleanHarm
  <2>2. First(f) \in DOMAIN files /\ files[First(f)].name = f
    BY <2>1, <1>1, NamedFacts, EntryFacts
  <2>3. GoodDirectory(files') /\ NamesOf(files') = NamesOf(files) \ {f}
    BY <2>1, <2>2, <1>1, RemovedFacts
  <2>4. fat' \in TableKind
    BY <2>1, <1>1, CleanFatKeepsKind
  <2>5. \A q \in Proc : fds'[q] \in SUBSET {d \in fds[q] : d.file # f}
    BY <2>1 DEF Forget
  <2>6. fds' \in Tables
    <3>1. fds' = [q \in Proc |-> fds'[q]]
      BY <2>1 DEF Forget
    <3>2. QED
      BY <3>1, <2>5, <1>1 DEF Tables
  <2>7. Live(files', fds')
    BY <2>3, <2>5, <1>1 DEF Live
  <2>8. QED
    BY <1>1, <1>2, <2>1, <2>3, <2>4, <2>6, <2>7 DEF CallInv, Tables
<1>5. QED
  BY <1>3, <1>4

LEMMA FUnlinkKeeps ==
  ASSUME CallInv, NEW p \in Proc, NEW f \in Name, FUnlink(p, f)
  PROVE  CallInv'
<1>1. Unlinked(p, f) /\ (stored' = files' \/ stored' = stored)
  BY DEF FUnlink, StoreDirectory
<1>2. QED
  BY <1>1, UnlinkedKeeps

\* f_dup points a standard descriptor to a file of the list, or to a new one.
LEMMA FDupKeeps ==
  ASSUME CallInv, NEW p \in Proc, NEW n, NEW f \in Name, FDup(p, n, f)
  PROVE  CallInv'
<1> DEFINE hits == Redirected(f)
           to == IF hits = {} THEN f
                 ELSE files[CHOOSE i \in hits : \A j \in hits : i <= j].name
<1>1. /\ GoodDirectory(files) /\ files \in Directory /\ fds \in Tables /\ Live(files, fds)
  BY DEF CallInv, GoodDirectory, Tables
<1>2. /\ files' = IF hits = {} THEN AddFile(f) ELSE files
      /\ harm' = "freed" \/ harm' = SearchHarm(files, fat) \/ harm' = "none"
      /\ UNCHANGED <<fat, data, stored>>
  BY DEF FDup
<1>3. PICK old : /\ old \subseteq fds[p]
                 /\ fds' = [fds EXCEPT ![p] = (@ \ old) \cup {[d EXCEPT !.file = to] : d \in old}]
  BY DEF FDup
<1>4. GoodDirectory(files') /\ NamesOf(files) \subseteq NamesOf(files')
      /\ to \in NamesOf(files') /\ to \in Name
  <2>1. CASE hits = {}
    <3>1. f \notin NamesOf(files)
      BY <2>1 DEF Redirected, NamesOf
    <3>2. QED
      BY <2>1, <3>1, <1>1, <1>2, AddFileFacts
  <2>2. CASE hits # {}
    <3>1. hits \in SUBSET Nat /\ hits \subseteq DOMAIN files
      BY <1>1, DirectoryFacts DEF Redirected
    <3>2. \E i \in hits : \A j \in hits : i <= j
      BY <3>1, <2>2, LeastNat
    <3> DEFINE k == CHOOSE i \in hits : \A j \in hits : i <= j
    <3>3. k \in DOMAIN files
      BY <3>1, <3>2
    <3>4. to = files[k].name
      BY <2>2
    <3> HIDE DEF k, hits, to
    <3>5. QED
      BY <2>2, <3>3, <3>4, <1>1, <1>2, DirectoryFacts DEF NamesOf
  <2>3. QED
    BY <2>1, <2>2
<1> HIDE DEF hits, to
<1>5. \A d \in DescriptorRecord : /\ [d EXCEPT !.file = to] \in DescriptorRecord
                                 /\ [d EXCEPT !.file = to].file = to
  BY <1>4 DEF DescriptorRecord
<1>6. {[d EXCEPT !.file = to] : d \in old} \in SUBSET DescriptorRecord
  BY <1>1, <1>3, <1>5 DEF Tables
<1>7. fds' \in Tables
  BY <1>1, <1>3, <1>6 DEF Tables
<1>8. \A q \in Proc : \A e \in fds'[q] : e \in fds[q] \/ e.file = to
  <2> DEFINE new == {[d EXCEPT !.file = to] : d \in old}
  <2>1. old \in SUBSET DescriptorRecord
    BY <1>1, <1>3 DEF Tables
  <2>2. \A e \in new : e.file = to
    BY <2>1, <1>5
  <2>3. fds' = [fds EXCEPT ![p] = (@ \ old) \cup new]
    BY <1>3
  <2> HIDE DEF new
  <2>4. QED
    BY <2>2, <2>3, <1>1 DEF Tables
<1>9. Live(files', fds')
  BY <1>1, <1>4, <1>8 DEF Live
<1>10. harm' \in Harms
  BY <1>2, SearchHarmType DEF Harms
<1>11. QED
  BY <1>2, <1>4, <1>7, <1>9, <1>10, KindKept DEF CallInv, Tables


LEMMA DefragmentKeeps ==
  ASSUME CallInv, Defragment
  PROVE  CallInv'
<1>1. /\ fat' = EmptyFat /\ harm' \in Harms /\ TableKind' = TableKind
      /\ UNCHANGED <<files, data, fds, stored>>
  BY KindKept DEF Defragment, Harms, ChainHarm
<1>2. fat' \in TableKind
  BY <1>1, BlockFacts DEF EmptyFat, TableKind, Links, GoodTables, Table, NoLinkToRoot
<1>3. QED
  BY <1>1, <1>2 DEF CallInv

LEMMA RespawnKeeps ==
  ASSUME CallInv, NEW p \in Proc, Respawn(p)
  PROVE  CallInv'
<1>1. fds' = [fds EXCEPT ![p] = NewTable] /\ UNCHANGED <<files, fat, data, stored, harm>>
  BY DEF Respawn
<1>2. fds' \in Tables /\ Live(files, fds')
  BY <1>1, NewTableFacts DEF CallInv, Tables, Live
<1>3. QED
  BY <1>1, <1>2, KindKept DEF CallInv, Tables

\* After a restart no descriptor is left to point to a file that block 0 does
\* not list.
LEMMA BootKeeps ==
  ASSUME CallInv, Boot
  PROVE  CallInv'
<1>1. /\ files' = stored /\ fds' = [p \in Proc |-> NewTable] /\ harm' = "none"
      /\ UNCHANGED <<fat, data, stored>>
  BY DEF Boot
<1>2. fds' \in Tables /\ Live(files', fds')
  BY <1>1, NewTableFacts DEF Tables, Live
<1>3. QED
  BY <1>1, <1>2, KindKept DEF CallInv, Tables, Harms

LEMMA InitCallInv == Init => CallInv
<1>1. SUFFICES ASSUME Init PROVE CallInv
  OBVIOUS
<1>2. GoodDirectory(files) /\ GoodDirectory(stored)
  BY <1>1 DEF Init, GoodDirectory, Directory
<1>3. fat \in TableKind
  BY <1>1, BlockFacts DEF Init, EmptyFat, TableKind, Links, GoodTables, Table, NoLinkToRoot
<1>4. data \in Bytes
  BY <1>1 DEF Init, Bytes, Cell
<1>5. fds \in Tables /\ Live(files, fds)
  BY <1>1, NewTableFacts DEF Init, Tables, Live
<1>6. QED
  BY <1>1, <1>2, <1>3, <1>4, <1>5 DEF CallInv, Tables, Init, Harms

LEMMA CallKeeps ==
  ASSUME CallInv, NEW p \in Proc, Call(p)
  PROVE  CallInv'
<1>1. CASE \E f \in Name, m \in Modes : OpenOld(p, f, m)
  BY <1>1, OpenOldKeeps
<1>2. CASE \E f \in Name, m \in Modes : OpenNew(p, f, m)
  BY <1>2, OpenNewKeeps
<1>3. CASE \E d \in FileDescriptors(p), n \in Lengths : FWrite(p, d, n)
  BY <1>3, FWriteKeeps, LengthsAssumption
<1>4. CASE \E d \in FileDescriptors(p), n \in Lengths : \E k \in 0 .. n : FRead(p, d, n, k)
  BY <1>4, FReadKeeps, LengthsAssumption
<1>5. CASE \E d \in FileDescriptors(p), pos \in 0 .. MaxSize : FLseek(p, d, pos)
  BY <1>5, FLseekKeeps
<1>6. CASE \E n \in 2 .. MaxNumber : FClose(p, n)
  BY <1>6, FCloseKeeps
<1>7. CASE \E f \in Name : FUnlink(p, f)
  BY <1>7, FUnlinkKeeps
<1>8. CASE \E n \in {0, 1}, f \in Name : FDup(p, n, f)
  BY <1>8, FDupKeeps
<1>9. QED
  BY <1>1, <1>2, <1>3, <1>4, <1>5, <1>6, <1>7, <1>8, Zenon DEF Call

LEMMA NextCallInv ==
  ASSUME CallInv, [Next]_vars
  PROVE  CallInv'
<1>1. CASE \E p \in Proc : Call(p)
  BY <1>1, CallKeeps
<1>2. CASE \E p \in Proc : Respawn(p)
  BY <1>2, RespawnKeeps
<1>3. CASE Defragment
  BY <1>3, DefragmentKeeps
<1>4. CASE Boot
  BY <1>4, BootKeeps
<1>5. CASE UNCHANGED vars
  BY <1>5, KindKept DEF vars, CallInv, Tables
<1>6. QED
  BY <1>1, <1>2, <1>3, <1>4, <1>5, Zenon DEF Next

LEMMA CallInvariant == Spec => []CallInv
<1>1. CallInv /\ [Next]_vars => CallInv'
  BY NextCallInv
<1>2. QED
  BY InitCallInv, <1>1, PTL DEF Spec

\* The variables stay in their ranges, whatever is called and however full the
\* disc is: bytes written over the table make entries of it that are no blocks,
\* and nothing else of the wrong kind.
THEOREM FatTypes == Spec => []TypeOK
BY CallInvariant, CallInvSays, PTL

\* Block 0 stays the directory's: no file starts in it, whatever is called, not
\* even by a table that a file was written over; and until one was, no link
\* leads to it.
THEOREM DirectoryBlockIsPrivate == Spec => []RootBlockPrivate
BY CallInvariant, CallInvSays, PTL

\* No call gives two files of the directory, in memory or on disk, one name.
THEOREM FileNamesAreUnique == Spec => []NamesDistinct
BY CallInvariant, CallInvSays, PTL

\* No process has a descriptor on a file that has left the directory.
THEOREM DescriptorsHaveFiles == Spec => []DescriptorsLive
BY CallInvariant, CallInvSays, PTL

-------------------------------------------------------------------------------
(* FlatFat as the shell's programs use it: files are read or written from    *)
(* their start, one descriptor on each, and unlinked, and the system may be  *)
(* stopped and started again.  Then every file keeps its bytes, in blocks    *)
(* that are its own.                                                         *)

FilesUse ==
  /\ Modes \subseteq {"F_READ", "F_WRITE"}
  /\ Calls \subseteq {"unlink", "boot"}
  /\ ~Sharing

\* No chain is a cycle, and no two meet.
Apart(dir, t) ==
  /\ ~Cyclic(t, 0)
  /\ \A i \in DOMAIN dir : /\ ~Cyclic(t, dir[i].start)
                           /\ Chain(t, dir[i].start) \cap Chain(t, 0) = {}
  /\ \A i, j \in DOMAIN dir :
       i # j => Chain(t, dir[i].start) \cap Chain(t, dir[j].start) = {}

FreeUnlinked(dir, t) == \A b \in Block \ InUse(dir, t) : t[b] = END

\* The first n bytes of file f are in the blocks that the chain from s leads to.
BytesUpTo(t, dt, f, s, n) ==
  \A o \in 0 .. n - 1 :
    LET b == Walk(t, s, o \div FAT_WIDTH)
    IN  b \in Block /\ dt[b][o % FAT_WIDTH] = <<f, o>>

\* The block that a write at pos begins in, if there is one, is the chain's last.
LastAt(t, s, pos) ==
  Walk(t, s, pos \div FAT_WIDTH) \in Block => t[Walk(t, s, pos \div FAT_WIDTH)] = END

Image(dir, t, dt) ==
  /\ Apart(dir, t) /\ FreeUnlinked(dir, t)
  /\ \A i \in DOMAIN dir : BytesUpTo(t, dt, dir[i].name, dir[i].start, dir[i].size)

\* A descriptor opened with F_WRITE is at the end of what was written.  (The
\* size of the file may lag behind: k_write leaves it when it fills a block and
\* links another.)
AtEnd(t, dt, e, pos) ==
  /\ e.size <= pos /\ BytesUpTo(t, dt, e.name, e.start, pos) /\ LastAt(t, e.start, pos)
  /\ Walk(t, e.start, pos \div FAT_WIDTH) \notin Block => e.size = pos
Writers(dir, t, dt, table) ==
  \A p \in Proc : \A d \in table[p] :
    d.file # Terminal /\ d.mode = "F_WRITE" =>
      \A i \in DOMAIN dir : dir[i].name = d.file => AtEnd(t, dt, dir[i], d.pos)

\* Each file has one descriptor at most, and none appends.
Single(table) ==
  \A p, q \in Proc : \A d \in table[p], e \in table[q] :
    d.file # Terminal /\ d.file = e.file => p = q /\ d = e
ReadOrWrite(table) ==
  \A p \in Proc : \A d \in table[p] : d.file # Terminal => d.mode \in {"F_READ", "F_WRITE"}

OnDisk(disk, dir) ==
  /\ Len(disk) = Len(dir)
  /\ \A i \in DOMAIN dir : /\ disk[i].name = dir[i].name
                           /\ disk[i].start = dir[i].start
                           /\ disk[i].size <= dir[i].size

\* A file that gets no block to start in is the last that is opened.
Begun(dir, h) == h # "astray" => \A i \in DOMAIN dir : dir[i].start \in Block

FilesInv ==
  /\ CallInv /\ ~Spilled /\ Begun(files, harm)
  /\ Image(files, fat, data)
  /\ Writers(files, fat, data, fds) /\ Single(fds) /\ ReadOrWrite(fds)
  /\ OnDisk(stored, files)

-------------------------------------------------------------------------------
(* The properties follow from the invariant.                                 *)

LEMMA ApartSays ==
  ASSUME NEW dir \in Directory, NEW t, Apart(dir, t)
  PROVE  \A i, j \in DOMAIN Starts(dir) :
           /\ ~Cyclic(t, Starts(dir)[i])
           /\ i # j => Chain(t, Starts(dir)[i]) \cap Chain(t, Starts(dir)[j]) = {}
<1>1. dir \in Seq(FileRecord)
  BY DirectoryFacts
<1>2. /\ DOMAIN Starts(dir) = 1 .. Len(dir) + 1 /\ Len(dir) \in Nat
      /\ DOMAIN dir = 1 .. Len(dir)
      /\ Starts(dir)[1] = 0
      /\ \A i \in DOMAIN dir : Starts(dir)[i + 1] = dir[i].start
  BY <1>1, StartsFacts
<1>3. \A i \in DOMAIN Starts(dir) :
        i = 1 \/ (i - 1 \in DOMAIN dir /\ Starts(dir)[i] = dir[i - 1].start)
  <2>1. \A i \in 1 .. Len(dir) + 1 : i = 1 \/ (i - 1 \in 1 .. Len(dir) /\ (i - 1) + 1 = i)
    BY <1>2
  <2>2. QED
    BY <2>1, <1>2
<1>4. ASSUME NEW i \in DOMAIN Starts(dir), NEW j \in DOMAIN Starts(dir), i # j
      PROVE  Chain(t, Starts(dir)[i]) \cap Chain(t, Starts(dir)[j]) = {}
  <2>1. CASE i = 1
    <3>1. j # 1
      BY <1>4, <2>1
    <3>2. QED
      BY <2>1, <3>1, <1>2, <1>3 DEF Apart
  <2>2. CASE j = 1
    <3>1. i # 1
      BY <1>4, <2>2
    <3>2. QED
      BY <2>2, <3>1, <1>2, <1>3 DEF Apart
  <2>3. CASE i # 1 /\ j # 1
    <3>1. i - 1 # j - 1
      BY <1>2, <1>4
    <3>2. QED
      BY <2>3, <3>1, <1>3 DEF Apart
  <2>4. QED
    BY <2>1, <2>2, <2>3
<1>5. \A i \in DOMAIN Starts(dir) : ~Cyclic(t, Starts(dir)[i])
  BY <1>2, <1>3 DEF Apart
<1>6. QED
  BY <1>4, <1>5

LEMMA FilesInvSays ==
  FilesInv => ChainsDisjoint /\ FreeBlocksUnlinked /\ BytesInPlace /\ DiskListsFiles
<1>1. SUFFICES ASSUME FilesInv
               PROVE  ChainsDisjoint /\ FreeBlocksUnlinked /\ BytesInPlace /\ DiskListsFiles
  OBVIOUS
<1>2. files \in Directory
  BY <1>1 DEF FilesInv, CallInv, GoodDirectory
<1>3. ChainsDisjoint
  BY <1>1, <1>2, ApartSays DEF FilesInv, Image, ChainsDisjoint
<1>4. FreeBlocksUnlinked
  BY <1>1 DEF FilesInv, Image, FreeUnlinked, FreeBlocksUnlinked
<1>5. BytesInPlace
  BY <1>1 DEF FilesInv, Image, BytesUpTo, BytesInPlace
<1>6. DiskListsFiles
  BY <1>1 DEF FilesInv, OnDisk, DiskListsFiles
<1>7. QED
  BY <1>3, <1>4, <1>5, <1>6

-------------------------------------------------------------------------------
(* What leaves a file as it is.                                              *)

\* The table and the bytes agree with t and dt on the chain from s.
SameChain(t, dt, u, du, s) == \A c \in Chain(t, s) : u[c] = t[c] /\ du[c] = dt[c]

LEMMA SameBytes ==
  ASSUME NEW t, NEW dt, NEW u, NEW du, NEW s, ~Cyclic(t, s), SameChain(t, dt, u, du, s),
         NEW f, NEW n \in Nat, BytesUpTo(t, dt, f, s, n)
  PROVE  BytesUpTo(u, du, f, s, n)
<1>1. \A k \in Nat : Walk(u, s, k) = Walk(t, s, k)
  <2>1. PICK b : b = s
    OBVIOUS
  <2>2. ~Cyclic(t, b) /\ \A c \in Chain(t, b) : u[c] = t[c]
    BY <2>1 DEF SameChain
  <2>3. \A k \in Nat : Walk(u, b, k) = Walk(t, b, k)
    BY <2>2, SameLinksSameChain
  <2>4. QED
    BY <2>1, <2>3
<1>2. \A k \in Nat : Walk(t, s, k) \in Block => du[Walk(t, s, k)] = dt[Walk(t, s, k)]
  BY ChainIsWalk DEF SameChain
<1>3. ASSUME NEW o \in 0 .. n - 1
      PROVE  /\ Walk(u, s, o \div FAT_WIDTH) \in Block
             /\ du[Walk(u, s, o \div FAT_WIDTH)][o % FAT_WIDTH] = <<f, o>>
  <2>1. o \div FAT_WIDTH \in Nat
    BY DivMod
  <2>2. /\ Walk(t, s, o \div FAT_WIDTH) \in Block
        /\ dt[Walk(t, s, o \div FAT_WIDTH)][o % FAT_WIDTH] = <<f, o>>
    BY DEF BytesUpTo
  <2>3. QED
    BY <2>1, <2>2, <1>1, <1>2
<1>4. QED
  BY <1>3 DEF BytesUpTo

LEMMA SameAtEnd ==
  ASSUME NEW t, NEW dt, NEW u, NEW du, NEW e, NEW pos \in Nat, ~Cyclic(t, e.start),
         SameChain(t, dt, u, du, e.start), AtEnd(t, dt, e, pos)
  PROVE  AtEnd(u, du, e, pos)
<1>1. BytesUpTo(u, du, e.name, e.start, pos)
  BY SameBytes DEF AtEnd
<1>2. pos \div FAT_WIDTH \in Nat
  BY DivMod
<1>3. Walk(u, e.start, pos \div FAT_WIDTH) = Walk(t, e.start, pos \div FAT_WIDTH)
  <2>1. PICK s : s = e.start
    OBVIOUS
  <2>2. ~Cyclic(t, s) /\ \A c \in Chain(t, s) : u[c] = t[c]
    BY <2>1 DEF SameChain
  <2>3. \A k \in Nat : Walk(u, s, k) = Walk(t, s, k)
    BY <2>2, SameLinksSameChain
  <2>4. QED
    BY <1>2, <2>1, <2>3
<1>4. LastAt(u, e.start, pos)
  BY <1>2, <1>3, ChainIsWalk DEF AtEnd, LastAt, SameChain
<1>5. QED
  BY <1>1, <1>3, <1>4 DEF AtEnd

\* Chains and blocks in use depend on the starts of the files alone.
LEMMA SameStarts ==
  ASSUME NEW dir \in Directory, NEW new \in Directory, DOMAIN new = DOMAIN dir,
         \A i \in DOMAIN dir : new[i].start = dir[i].start, NEW t
  PROVE  /\ Apart(dir, t) => Apart(new, t)
         /\ FreeUnlinked(dir, t) => FreeUnlinked(new, t)
<1>1. dir \in Seq(FileRecord) /\ new \in Seq(FileRecord)
  BY DirectoryFacts
<1>2. \A c : c \in InUse(dir, t) <=> c \in InUse(new, t)
  BY <1>1, InUseFacts
<1>3. QED
  BY <1>2 DEF Apart, FreeUnlinked

\* Descriptors that go away, or stay at their files, take no property along.
LEMMA FewerDescriptors ==
  ASSUME NEW table, NEW new, \A p \in Proc : \A d \in new[p] : d.file = Terminal \/ d \in table[p],
         Single(table), ReadOrWrite(table)
  PROVE  /\ Single(new) /\ ReadOrWrite(new)
         /\ \A dir, t, dt : Writers(dir, t, dt, table) => Writers(dir, t, dt, new)
<1>1. Single(new)
  BY DEF Single
<1>2. ReadOrWrite(new)
  BY DEF ReadOrWrite
<1>3. \A dir, t, dt : Writers(dir, t, dt, table) => Writers(dir, t, dt, new)
  BY DEF Writers
<1>4. QED
  BY <1>1, <1>2, <1>3


-------------------------------------------------------------------------------
(* One pass of k_write.                                                      *)

\* Positions in one block, and the position behind it.
LEMMA PositionFacts ==
  ASSUME NEW pos \in Nat, NEW n \in Nat
  PROVE  LET q == pos \div FAT_WIDTH
             off == pos % FAT_WIDTH
         IN  /\ off + n < FAT_WIDTH => (pos + n) \div FAT_WIDTH = q
             /\ off + n = FAT_WIDTH => (pos + n) \div FAT_WIDTH = q + 1
             /\ \A o \in 0 .. pos - 1 :
                  /\ o \div FAT_WIDTH \in 0 .. q
                  /\ o \div FAT_WIDTH = q => o % FAT_WIDTH < off
             /\ off + n <= FAT_WIDTH =>
                  \A o \in pos .. pos + n - 1 :
                    /\ o \div FAT_WIDTH = q
                    /\ o % FAT_WIDTH = off + (o - pos)
                    /\ o % FAT_WIDTH \in off .. off + n - 1
                    /\ pos - off + (o % FAT_WIDTH) = o
<1> DEFINE q == pos \div FAT_WIDTH
           off == pos % FAT_WIDTH
<1>1. /\ q \in Nat /\ off \in 0 .. FAT_WIDTH - 1 /\ pos = FAT_WIDTH * q + off
      /\ FAT_WIDTH \in Nat \ {0}
  BY DivMod, GeometryAssumption
<1> HIDE DEF q, off
<1>2. off + n < FAT_WIDTH => (pos + n) \div FAT_WIDTH = q
  <2>1. SUFFICES ASSUME off + n < FAT_WIDTH PROVE (pos + n) \div FAT_WIDTH = q
    OBVIOUS
  <2>2. off + n \in 0 .. FAT_WIDTH - 1 /\ pos + n = FAT_WIDTH * q + (off + n)
    BY <1>1, <2>1
  <2>3. QED
    BY <1>1, <2>2, DivModUnique
<1>3. off + n = FAT_WIDTH => (pos + n) \div FAT_WIDTH = q + 1
  <2>1. SUFFICES ASSUME off + n = FAT_WIDTH PROVE (pos + n) \div FAT_WIDTH = q + 1
    OBVIOUS
  <2>2. pos + n = FAT_WIDTH * (q + 1) + 0
    BY <1>1, <2>1
  <2>3. 0 \in 0 .. FAT_WIDTH - 1 /\ q + 1 \in Nat
    BY <1>1
  <2>4. QED
    BY <2>2, <2>3, DivModUnique
<1>4. ASSUME NEW o \in 0 .. pos - 1
      PROVE  /\ o \div FAT_WIDTH \in 0 .. q
             /\ o \div FAT_WIDTH = q => o % FAT_WIDTH < off
  <2> DEFINE k == o \div FAT_WIDTH
             r == o % FAT_WIDTH
  <2>1. k \in Nat /\ r \in 0 .. FAT_WIDTH - 1 /\ o = FAT_WIDTH * k + r
    BY DivMod
  <2> HIDE DEF k, r
  <2>2. o \in Nat /\ o < pos
    BY <1>1
  <2>3. k = q => r < off
    BY <1>1, <2>1, <2>2
  <2>4. k <= q
    <3>1. SUFFICES ASSUME k >= q + 1 PROVE FALSE
      BY <1>1, <2>1
    <3>2. PICK e \in Nat : k = q + 1 + e
      <4>1. k - (q + 1) \in Nat /\ k = q + 1 + (k - (q + 1))
        BY <3>1, <1>1, <2>1
      <4>2. QED
        BY <4>1
    <3>3. FAT_WIDTH * k = FAT_WIDTH * q + FAT_WIDTH + FAT_WIDTH * e
      BY <3>2, <1>1
    <3>4. FAT_WIDTH * e >= 0 /\ FAT_WIDTH * q \in Nat
      BY <3>2, <1>1
    <3>5. QED
      BY <3>3, <3>4, <1>1, <2>1, <2>2, <3>2
  <2>5. QED
    BY <2>1, <2>3, <2>4, <1>1 DEF k, r
<1>5. ASSUME off + n <= FAT_WIDTH, NEW o \in pos .. pos + n - 1
      PROVE  /\ o \div FAT_WIDTH = q
             /\ o % FAT_WIDTH = off + (o - pos)
             /\ o % FAT_WIDTH \in off .. off + n - 1
             /\ pos - off + (o % FAT_WIDTH) = o
  <2>1. off + (o - pos) \in 0 .. FAT_WIDTH - 1 /\ o = FAT_WIDTH * q + (off + (o - pos))
    BY <1>1, <1>5
  <2>2. o \div FAT_WIDTH = q /\ o % FAT_WIDTH = off + (o - pos)
    BY <1>1, <2>1, DivModUnique
  <2>3. QED
    BY <1>1, <1>5, <2>1, <2>2
<1>6. QED
  BY <1>2, <1>3, <1>4, <1>5 DEF q, off

\* A pass fills the block it is at from its position on: the bytes before stay,
\* and those after the position are there.
LEMMA FillBlock ==
  ASSUME NEW t, NEW dt, NEW f, NEW s, NEW pos \in Nat, NEW n \in Nat, NEW a,
         NEW du, NEW m \in Nat, m <= pos + n,
         ~Cyclic(t, s), BytesUpTo(t, dt, f, s, pos),
         a = Walk(t, s, pos \div FAT_WIDTH), a \in Block,
         (pos % FAT_WIDTH) + n <= FAT_WIDTH,
         \A o \in 0 .. FAT_WIDTH - 1 :
           du[a][o] = IF o \in (pos % FAT_WIDTH) .. (pos % FAT_WIDTH) + n - 1
                        THEN <<f, pos - (pos % FAT_WIDTH) + o>> ELSE dt[a][o],
         \A c \in Block : c # a => du[c] = dt[c]
  PROVE  BytesUpTo(t, du, f, s, m)
<1> DEFINE q == pos \div FAT_WIDTH
           off == pos % FAT_WIDTH
<1>1. q \in Nat /\ off \in 0 .. FAT_WIDTH - 1
  BY DivMod
<1>2. \A c \in Block : c # a => du[c] = dt[c]
  OBVIOUS
<1>3. /\ \A o \in 0 .. pos - 1 : /\ o \div FAT_WIDTH \in 0 .. q
                                 /\ o \div FAT_WIDTH = q => o % FAT_WIDTH < off
      /\ \A o \in pos .. pos + n - 1 : /\ o \div FAT_WIDTH = q
                                       /\ o % FAT_WIDTH \in off .. off + n - 1
                                       /\ pos - off + (o % FAT_WIDTH) = o
  BY PositionFacts
<1>4. ASSUME NEW o \in 0 .. m - 1
      PROVE  /\ Walk(t, s, o \div FAT_WIDTH) \in Block
             /\ du[Walk(t, s, o \div FAT_WIDTH)][o % FAT_WIDTH] = <<f, o>>
  <2>1. o \div FAT_WIDTH \in Nat /\ o % FAT_WIDTH \in 0 .. FAT_WIDTH - 1
    BY DivMod
  <2>2. CASE o < pos
    <3>1. o \in 0 .. pos - 1
      BY <2>2
    <3>2. /\ Walk(t, s, o \div FAT_WIDTH) \in Block
          /\ dt[Walk(t, s, o \div FAT_WIDTH)][o % FAT_WIDTH] = <<f, o>>
      BY <3>1 DEF BytesUpTo
    <3>3. CASE o \div FAT_WIDTH = q
      <4>1. Walk(t, s, o \div FAT_WIDTH) = a
        BY <3>3
      <4>2. o % FAT_WIDTH < off
        BY <3>1, <3>3, <1>3
      <4> HIDE DEF off
      <4>3. o % FAT_WIDTH \notin off .. off + n - 1
        BY <1>1, <2>1, <4>2
      <4>4. du[a][o % FAT_WIDTH] = dt[a][o % FAT_WIDTH]
        BY <2>1, <4>3 DEF off
      <4>5. QED
        BY <1>2, <3>2, <4>1, <4>4
    <3>4. CASE o \div FAT_WIDTH # q
      <4>1. Walk(t, s, o \div FAT_WIDTH) # a
        BY <3>4, <3>2, <2>1, <1>1, ChainInjective
      <4>2. QED
        BY <1>2, <3>2, <4>1
    <3>5. QED
      BY <3>3, <3>4
  <2>3. CASE o >= pos
    <3>1. o \in pos .. pos + n - 1
      BY <2>3
    <3>2. o \div FAT_WIDTH = q /\ o % FAT_WIDTH \in off .. off + n - 1
          /\ pos - off + (o % FAT_WIDTH) = o
      BY <3>1, <1>3
    <3>3. du[a][o % FAT_WIDTH] = <<f, o>>
      BY <2>1, <3>2
    <3>4. QED
      BY <1>2, <3>2, <3>3
  <2>4. o < pos \/ o >= pos
    OBVIOUS
  <2>5. QED
    BY <2>2, <2>3, <2>4, Zenon
<1>5. QED
  BY <1>4 DEF BytesUpTo


-------------------------------------------------------------------------------
(* k_write keeps the image of the disk.                                      *)

\* The next byte of file number i has a block, or there is none to have.
HasRoom(i, w) ==
  \/ Walk(w.fat, files[i].start, w.pos \div FAT_WIDTH) \in Block
  \/ w.size = w.pos /\ Block \subseteq InUse(files, w.fat)

\* What holds between two passes of k_write on file number i.
Between(i, total, w) ==
  /\ w \in WriteRecord /\ w.fat \in Table
  /\ w.pos + w.left = total
  /\ Apart(files, w.fat) /\ FreeUnlinked(files, w.fat)
  /\ \A j \in DOMAIN files : j # i =>
       SameChain(fat, data, w.fat, w.data, files[j].start)
  /\ BytesUpTo(w.fat, w.data, files[i].name, files[i].start, w.pos)
  /\ LastAt(w.fat, files[i].start, w.pos)
  /\ files[i].size <= w.size /\ w.size <= w.pos
  /\ HasRoom(i, w)
  /\ ~w.done /\ w.harm = "none" =>
       w.at = Walk(w.fat, files[i].start, w.pos \div FAT_WIDTH)

\* Bytes change in block a alone; the files but number i are as before.
OnlyAt(a, dt, du) == \A c \in Block : c # a => du[c] = dt[c]
OthersSame(i, t, dt) ==
  \A j \in DOMAIN files : j # i => SameChain(fat, data, t, dt, files[j].start)

\* Bytes that go to a block of one file leave the others alone.
LEMMA OthersKeepBytes ==
  ASSUME NEW t, NEW dt, NEW i \in DOMAIN files, NEW a, a \in Chain(t, files[i].start),
         NEW du, OnlyAt(a, dt, du),
         Apart(files, t), Apart(files, fat), OthersSame(i, t, dt)
  PROVE  OthersSame(i, t, du)
<1>1. ASSUME NEW j \in DOMAIN files, j # i
      PROVE  SameChain(fat, data, t, du, files[j].start)
  <2>1. PICK s : s = files[j].start
    OBVIOUS
  <2>2. ~Cyclic(fat, s) /\ SameChain(fat, data, t, dt, s)
    BY <1>1, <2>1 DEF Apart, OthersSame
  <2>3. Chain(t, s) = Chain(fat, s)
    <3>1. \A c \in Chain(fat, s) : t[c] = fat[c]
      BY <2>2 DEF SameChain
    <3>2. QED
      BY <2>2, <3>1, SameLinksSameChain, Zenon
  <2>4. a \notin Chain(fat, s)
    BY <1>1, <2>1, <2>3 DEF Apart
  <2>5. \A c \in Chain(fat, s) : c \in Block /\ c # a
    BY <2>4 DEF Chain
  <2>6. QED
    BY <2>1, <2>2, <2>5 DEF SameChain, OnlyAt
<1>2. QED
  BY <1>1 DEF OthersSame

\* Linking a free block behind the last block of a file keeps the chains apart
\* and the free blocks unlinked.
LEMMA LinkKeeps ==
  ASSUME files \in Directory, NEW t \in Table, NEW i \in DOMAIN files,
         Apart(files, t), FreeUnlinked(files, t),
         NEW m \in Nat, NEW a \in Block, a = Walk(t, files[i].start, m), t[a] = END,
         NEW b \in Block, b \notin InUse(files, t),
         NEW u \in Table, u[a] = b, \A c \in Block : c # a => u[c] = t[c]
  PROVE  /\ Apart(files, u) /\ FreeUnlinked(files, u)
         /\ \A k \in 0 .. m : Walk(u, files[i].start, k) = Walk(t, files[i].start, k)
         /\ Walk(u, files[i].start, m + 1) = b /\ u[b] = END
         /\ \A j \in DOMAIN files : j # i => \A c \in Chain(t, files[j].start) : u[c] = t[c]
<1>1. PICK s : s = files[i].start
  OBVIOUS
<1>2. files \in Seq(FileRecord)
  BY DirectoryFacts
<1>3. /\ b \notin Chain(t, 0)
      /\ \A j \in DOMAIN files : b \notin Chain(t, files[j].start)
  BY <1>2, InUseFacts
<1>4. t[b] = END
  BY DEF FreeUnlinked
<1>5. ~Cyclic(t, s) /\ a = Walk(t, s, m) /\ b \notin Chain(t, s)
  BY <1>1, <1>3 DEF Apart
<1>6. /\ \A k \in 0 .. m : Walk(u, s, k) = Walk(t, s, k)
      /\ Walk(u, s, m + 1) = b
      /\ ~Cyclic(u, s)
      /\ Chain(u, s) = Chain(t, s) \cup {b}
  BY <1>4, <1>5, LinkedChain
<1>7. a \in Chain(t, s) /\ a # b
  BY <1>5, ChainIsWalk
<1>8. \A c \in Block : c # a => u[c] = t[c]
  OBVIOUS
<1>9. \A r : ~Cyclic(t, r) /\ a \notin Chain(t, r) =>
              /\ ~Cyclic(u, r) /\ Chain(u, r) = Chain(t, r)
              /\ \A c \in Chain(t, r) : u[c] = t[c]
  <2>1. ASSUME NEW r, ~Cyclic(t, r), a \notin Chain(t, r)
        PROVE  /\ ~Cyclic(u, r) /\ Chain(u, r) = Chain(t, r)
               /\ \A c \in Chain(t, r) : u[c] = t[c]
    <3>1. \A c \in Chain(t, r) : u[c] = t[c]
      BY <2>1, <1>8 DEF Chain
    <3>2. ~Cyclic(t, r)
      BY <2>1
    <3>3. ~Cyclic(u, r) /\ Chain(u, r) = Chain(t, r)
      BY ONLY <3>1, <3>2, SameLinksSameChain
    <3>4. QED
      BY <3>1, <3>3
  <2>2. QED
    BY <2>1
<1>10. ~Cyclic(t, 0) /\ a \notin Chain(t, 0)
  BY <1>1, <1>7 DEF Apart
<1>11. ~Cyclic(u, 0) /\ Chain(u, 0) = Chain(t, 0)
  BY <1>9, <1>10
<1>12. \A j \in DOMAIN files : j # i =>
         /\ ~Cyclic(u, files[j].start) /\ Chain(u, files[j].start) = Chain(t, files[j].start)
         /\ \A c \in Chain(t, files[j].start) : u[c] = t[c]
  <2>1. ASSUME NEW j \in DOMAIN files, j # i
        PROVE  ~Cyclic(t, files[j].start) /\ a \notin Chain(t, files[j].start)
    BY <2>1, <1>1, <1>7 DEF Apart
  <2>2. QED
    BY <2>1, <1>9
<1>13. Apart(files, u)
  <2>1. \A j \in DOMAIN files :
          /\ ~Cyclic(u, files[j].start)
          /\ Chain(u, files[j].start) =
               IF j = i THEN Chain(t, s) \cup {b} ELSE Chain(t, files[j].start)
    BY <1>1, <1>6, <1>12
  <2>2. \A j \in DOMAIN files : Chain(u, files[j].start) \cap Chain(u, 0) = {}
    BY <2>1, <1>1, <1>3, <1>11 DEF Apart
  <2>3. ASSUME NEW j \in DOMAIN files, NEW k \in DOMAIN files, j # k
        PROVE  Chain(u, files[j].start) \cap Chain(u, files[k].start) = {}
    <3>1. Chain(t, files[j].start) \cap Chain(t, files[k].start) = {}
      BY <2>3 DEF Apart
    <3>2. QED
      BY <3>1, <2>1, <2>3, <1>1, <1>3
  <2>4. QED
    BY <2>1, <2>2, <2>3, <1>11 DEF Apart
<1>14. FreeUnlinked(files, u)
  <2>1. ASSUME NEW c \in Block, c \notin InUse(files, u)
        PROVE  u[c] = END
    <3>1. c \notin Chain(u, 0) /\ \A j \in DOMAIN files : c \notin Chain(u, files[j].start)
      BY <2>1, <1>2, InUseFacts
    <3>2. c \notin Chain(t, 0) /\ \A j \in DOMAIN files : c \notin Chain(t, files[j].start)
      BY <3>1, <1>1, <1>6, <1>11, <1>12
    <3>3. t[c] = END
      BY <3>2, <1>2, InUseFacts DEF FreeUnlinked
    <3>4. c # a
      BY <3>2, <1>1, <1>7
    <3>5. QED
      BY <3>3, <3>4, <1>8
  <2>2. QED
    BY <2>1 DEF FreeUnlinked
<1>15. u[b] = END
  BY <1>4, <1>7, <1>8
<1>16. QED
  BY <1>1, <1>6, <1>12, <1>13, <1>14, <1>15


\* What every pass that writes does with the bytes: those of the file are there
\* up to the new position, and the other files' stay.
LEMMA PassFills ==
  ASSUME files \in Directory, Apart(files, fat), NEW i \in DOMAIN files,
         NEW total \in Nat, total <= MaxSize, NEW w, Between(i, total, w),
         w.at \in Block, w.left > 0, ~w.done, w.harm = "none",
         NEW du, du[w.at] = Put(files[i].name, w, Portion(w)),
         \A c \in Block : c # w.at => du[c] = w.data[c],
         NEW m \in Nat, m <= w.pos + Portion(w)
  PROVE  /\ BytesUpTo(w.fat, du, files[i].name, files[i].start, m)
         /\ \A j \in DOMAIN files : j # i =>
              SameChain(fat, data, w.fat, du, files[j].start)
<1> DEFINE s == files[i].start
           f == files[i].name
           t == w.fat
           dt == w.data
           a == w.at
           pos == w.pos
           n == Portion(w)
<1>1. /\ w \in WriteRecord /\ pos \in Nat /\ w.left \in Nat
      /\ t \in Table /\ dt \in Bytes /\ a \in Block /\ pos <= MaxSize
      /\ Apart(files, t) /\ a = Walk(t, s, pos \div FAT_WIDTH)
      /\ BytesUpTo(t, dt, f, s, pos)
  BY LengthsAssumption DEF Between, WriteRecord
<1>2. n \in 1 .. w.left /\ (pos % FAT_WIDTH) + n <= FAT_WIDTH
  BY <1>1, PortionFacts
<1>3. n \in Nat /\ pos \div FAT_WIDTH \in Nat /\ f \in Name
  <2>1. n \in Nat
    BY <1>1, <1>2
  <2>2. QED
    BY <2>1, <1>1, DivMod, DirectoryFacts
<1>4. /\ \A c \in Block : c # a => du[c] = dt[c]
      /\ \A o \in 0 .. FAT_WIDTH - 1 :
           du[a][o] = IF o \in (pos % FAT_WIDTH) .. (pos % FAT_WIDTH) + n - 1
                        THEN <<f, pos - (pos % FAT_WIDTH) + o>> ELSE dt[a][o]
  <2>1. du[a] = Put(f, w, n) /\ \A c \in Block : c # a => du[c] = dt[c]
    OBVIOUS
  <2>2. QED
    BY <2>1 DEF Put
<1>5. \A j \in DOMAIN files : j # i => SameChain(fat, data, t, dt, files[j].start)
  BY DEF Between
<1>6. m <= pos + n
  OBVIOUS
<1> HIDE DEF t, dt, a, pos, n, f
<1>7. ~Cyclic(t, s) /\ a \in Chain(t, s)
  BY <1>1, <1>3, ChainIsWalk DEF Apart
<1>8. \A j \in DOMAIN files : j # i => SameChain(fat, data, t, du, files[j].start)
  <2>1. a \in Chain(t, files[i].start) /\ Apart(files, t)
    BY <1>1, <1>7
  <2>2. OnlyAt(a, dt, du) /\ OthersSame(i, t, dt)
    BY <1>4, <1>5 DEF OnlyAt, OthersSame
  <2>3. OthersSame(i, t, du)
    BY <2>1, <2>2, OthersKeepBytes
  <2>4. QED
    BY <2>3 DEF OthersSame
<1> HIDE DEF s
<1>9. BytesUpTo(t, du, f, s, m)
  BY <1>1, <1>2, <1>3, <1>6, <1>4, <1>7, FillBlock
<1>10. QED
  BY <1>8, <1>9 DEF t, s, f

LEMMA PassWrites ==
  ASSUME files \in Directory, Apart(files, fat), NEW i \in DOMAIN files,
         NEW total \in Nat, total <= MaxSize, NEW w, Between(i, total, w),
         w.at \in Block, w.left > 0, ~w.done, w.harm = "none",
         NEW v, v.data = [w.data EXCEPT ![w.at] = Put(files[i].name, w, Portion(w))],
         v.pos \in Nat, v.pos = w.pos + Portion(w)
  PROVE  /\ v.data \in Bytes
         /\ BytesUpTo(w.fat, v.data, files[i].name, files[i].start, v.pos)
         /\ \A j \in DOMAIN files : j # i =>
              SameChain(fat, data, w.fat, v.data, files[j].start)
<1>1. w \in WriteRecord /\ w.data \in Bytes /\ w.pos \in Nat /\ w.left \in Nat
      /\ w.pos <= MaxSize
  BY LengthsAssumption DEF Between, WriteRecord
<1>2. Portion(w) \in Nat
  <2>1. Portion(w) \in 1 .. w.left
    BY <1>1, PortionFacts
  <2>2. QED
    BY <2>1, <1>1
<1>3. v.data \in Bytes
  BY <1>1, <1>2, PutType, DirectoryFacts
<1>4. /\ v.data[w.at] = Put(files[i].name, w, Portion(w))
      /\ \A c \in Block : c # w.at => v.data[c] = w.data[c]
  BY <1>1 DEF Bytes
<1>5. v.pos <= w.pos + Portion(w)
  BY <1>1, <1>2
<1>6. QED
  BY <1>3, <1>4, <1>5, PassFills, Zenon

\* k_determineBlock gives up only when every block is in use.
LEMMA FullFacts ==
  ASSUME NEW dir \in Seq(FileRecord), NEW t, DetermineBlock(dir, t) = MEMFULL
  PROVE  Block \subseteq InUse(dir, t)
<1> DEFINE T == Block \ InUse(dir, t)
<1>1. SUFFICES ASSUME ~(Block \subseteq InUse(dir, t)) PROVE FALSE
  OBVIOUS
<1>2. T \in SUBSET Nat /\ T # {}
  BY <1>1, BlockFacts
<1>3. \E b \in T : \A c \in T : b <= c
  BY <1>2, LeastNat
<1>4. DetermineBlock(dir, t) = CHOOSE b \in T : \A c \in T : b <= c
  BY <1>1 DEF DetermineBlock
<1> HIDE DEF T
<1>5. MEMFULL \in T
  BY <1>3, <1>4
<1>6. QED
  BY <1>5, BlockFacts DEF T

\* The pass that ends a call: it leaves the table, and the position is at the
\* end of the file.
LEMMA EndsCallKeeps ==
  ASSUME files \in Directory, Apart(files, fat), NEW i \in DOMAIN files,
         NEW total \in Nat, total <= MaxSize, NEW w, Between(i, total, w),
         NEW v, Shape(v), EndsCall(files[i].name, w, v)
  PROVE  Between(i, total, v)
<1> DEFINE s == files[i].start
           f == files[i].name
           q == w.pos \div FAT_WIDTH
           off == w.pos % FAT_WIDTH
           n == Portion(w)
<1>1. /\ w \in WriteRecord /\ w.pos \in Nat /\ w.left \in Nat /\ w.size \in Nat
      /\ w.fat \in Table
      /\ w.pos + w.left = total /\ w.at \in Block /\ w.left > 0 /\ ~w.done /\ w.harm = "none"
      /\ Apart(files, w.fat) /\ FreeUnlinked(files, w.fat) /\ LastAt(w.fat, s, w.pos)
      /\ w.at = Walk(w.fat, s, q) /\ files[i].size <= w.size /\ w.size <= w.pos
  BY DEF Between, EndsCall, WriteRecord
<1>2. /\ v.fat = w.fat /\ v.at = w.at
      /\ v.data = [w.data EXCEPT ![w.at] = Put(f, w, n)]
      /\ v.pos = w.pos + n /\ v.left = w.left - n
      /\ v.size = IF v.pos > w.size THEN v.pos ELSE w.size
      /\ v.done = TRUE /\ v.harm \in Harms
  BY DEF EndsCall
<1>3. /\ n \in 1 .. w.left /\ off \in 0 .. FAT_WIDTH - 1
      /\ Fits(w) => off + n < FAT_WIDTH
      /\ ~Fits(w) => off + n = FAT_WIDTH
  BY <1>1, PortionFacts
<1>4. q \in Nat /\ n \in Nat
  BY <1>1, <1>3, DivMod
<1>5. files[i].name \in Name /\ files[i].size \in Nat
  BY DirectoryFacts, LengthsAssumption
<1>6. v.pos = w.pos + n /\ v.pos \in Nat /\ v.left \in Nat /\ v.pos + v.left = total
      /\ v.size = v.pos
  <2> HIDE DEF n
  <2>1. QED
    BY <1>1, <1>2, <1>3
<1>7. /\ v.data \in Bytes
      /\ BytesUpTo(w.fat, v.data, f, s, v.pos)
      /\ \A j \in DOMAIN files : j # i =>
           SameChain(fat, data, w.fat, v.data, files[j].start)
  BY <1>1, <1>2, <1>4, <1>5, <1>6, PassWrites
<1> HIDE DEF s, f, q, off, n
<1>8. LastAt(v.fat, s, v.pos)
  <2>1. CASE Fits(w)
    <3>1. v.pos \div FAT_WIDTH = q
      BY <2>1, <1>1, <1>3, <1>4, <1>6, PositionFacts DEF q, off
    <3>2. QED
      BY <3>1, <1>1, <1>2 DEF LastAt, q
  <2>2. CASE ~Fits(w)
    <3>1. v.pos \div FAT_WIDTH = q + 1
      BY <2>2, <1>1, <1>3, <1>4, <1>6, PositionFacts DEF q, off
    <3>2. w.fat[w.at] = END
      BY <1>1 DEF LastAt, q
    <3>3. Walk(w.fat, s, q + 1) = END
      BY <3>2, <1>1, <1>4, WalkNext
    <3>4. QED
      BY <3>1, <3>3, <1>2, BlockFacts DEF LastAt
  <2>3. QED
    BY <2>1, <2>2
<1>9. v \in WriteRecord
  BY <1>1, <1>2, <1>7, <1>6 DEF Shape, WriteRecord
<1>10. Apart(files, v.fat) /\ FreeUnlinked(files, v.fat) /\ v.done = TRUE
       /\ files[i].size <= v.size /\ v.size <= v.pos /\ v.fat \in Table
  BY <1>1, <1>2, <1>5, <1>6
<1>11. HasRoom(i, v)
  <2>1. CASE Fits(w)
    <3>1. v.pos \div FAT_WIDTH = q
      BY <2>1, <1>1, <1>3, <1>4, <1>6, PositionFacts DEF q, off
    <3>2. QED
      BY <3>1, <1>1, <1>2 DEF HasRoom, s
  <2>2. CASE ~Fits(w)
    <3>1. DetermineBlock(files, w.fat) = MEMFULL
      BY <2>2 DEF EndsCall
    <3>2. Block \subseteq InUse(files, w.fat)
      BY <3>1, FullFacts, DirectoryFacts
    <3>3. QED
      BY <3>2, <1>2, <1>6 DEF HasRoom
  <2>3. QED
    BY <2>1, <2>2
<1>12. QED
  BY <1>2, <1>7, <1>6, <1>8, <1>9, <1>10, <1>11 DEF Between, s, f

\* A pass that links the next block: the chain grows by a block of no chain.
LEMMA LinksNextKeeps ==
  ASSUME files \in Directory, Apart(files, fat), NEW i \in DOMAIN files,
         NEW total \in Nat, total <= MaxSize, NEW w, Between(i, total, w),
         NEW v, Shape(v), LinksNext(files[i].name, w, v)
  PROVE  Between(i, total, v)
<1> DEFINE s == files[i].start
           f == files[i].name
           q == w.pos \div FAT_WIDTH
           off == w.pos % FAT_WIDTH
           n == Portion(w)
           new == DetermineBlock(files, w.fat)
<1>1. /\ w \in WriteRecord /\ w.pos \in Nat /\ w.left \in Nat /\ w.size \in Nat
      /\ w.fat \in Table /\ w.done \in BOOLEAN
      /\ w.pos + w.left = total /\ w.at \in Block /\ w.left > 0 /\ ~w.done /\ w.harm = "none"
      /\ Apart(files, w.fat) /\ FreeUnlinked(files, w.fat) /\ LastAt(w.fat, s, w.pos)
      /\ w.at = Walk(w.fat, s, q) /\ files[i].size <= w.size /\ w.size <= w.pos
  BY DEF Between, LinksNext, WriteRecord
<1>2. /\ v.fat = [w.fat EXCEPT ![w.at] = new] /\ v.at = new
      /\ v.data = [w.data EXCEPT ![w.at] = Put(f, w, n)]
      /\ v.pos = w.pos + n /\ v.left = w.left - n
      /\ v.size = w.size /\ v.done = w.done /\ v.harm \in Harms
      /\ new # MEMFULL /\ ~Fits(w)
  BY DEF LinksNext
<1>3. n \in 1 .. w.left /\ off \in 0 .. FAT_WIDTH - 1 /\ off + n = FAT_WIDTH
  BY <1>1, <1>2, PortionFacts
<1>4. q \in Nat /\ n \in Nat
  BY <1>1, <1>3, DivMod
<1>5. new \in Block /\ new \notin InUse(files, w.fat)
  BY <1>2, DirectoryFacts, DetermineBlockFacts
<1>6. /\ v.fat \in Table /\ v.fat[w.at] = new
      /\ \A c \in Block : c # w.at => v.fat[c] = w.fat[c]
  BY <1>1, <1>2, <1>5 DEF Table
<1>7. w.fat[w.at] = END
  BY <1>1 DEF LastAt
<1>8. v.pos = w.pos + n /\ v.pos \in Nat /\ v.left \in Nat /\ v.pos + v.left = total
      /\ w.size <= v.pos /\ v.pos \div FAT_WIDTH = q + 1
  <2>1. v.pos \div FAT_WIDTH = q + 1
    BY <1>1, <1>2, <1>3, <1>4, PositionFacts
  <2> HIDE DEF n, q
  <2>2. QED
    BY <2>1, <1>1, <1>2, <1>3
<1>9. /\ v.data \in Bytes
      /\ BytesUpTo(w.fat, v.data, f, s, v.pos)
      /\ \A j \in DOMAIN files : j # i =>
           SameChain(fat, data, w.fat, v.data, files[j].start)
  BY <1>1, <1>2, <1>4, <1>8, PassWrites
<1> DEFINE t == w.fat
           u == v.fat
           a == w.at
<1>10. /\ t \in Table /\ Apart(files, t) /\ FreeUnlinked(files, t) /\ a \in Block
       /\ a = Walk(t, files[i].start, q) /\ t[a] = END /\ new \notin InUse(files, t)
       /\ u \in Table /\ u[a] = new /\ \A c \in Block : c # a => u[c] = t[c]
  BY <1>1, <1>5, <1>6, <1>7
<1> HIDE DEF t, u, a, q, new
<1>11. /\ Apart(files, u) /\ FreeUnlinked(files, u)
       /\ \A k \in 0 .. q : Walk(u, files[i].start, k) = Walk(t, files[i].start, k)
       /\ Walk(u, files[i].start, q + 1) = new /\ u[new] = END
       /\ \A j \in DOMAIN files : j # i => \A c \in Chain(t, files[j].start) : u[c] = t[c]
  BY <1>4, <1>5, <1>10, LinkKeeps DEF t
<1>12. BytesUpTo(u, v.data, f, s, v.pos)
  <2>1. ASSUME NEW o \in 0 .. v.pos - 1
        PROVE  o \div FAT_WIDTH \in 0 .. q
    <3>1. PICK pos \in Nat : pos = w.pos
      BY <1>1
    <3>2. o \in 0 .. (pos + n) - 1 /\ (pos % FAT_WIDTH) + n <= FAT_WIDTH
          /\ pos \div FAT_WIDTH = q
      BY <1>3, <1>8, <3>1, GeometryAssumption DEF q
    <3>3. CASE o < pos
      BY <3>2, <3>3, <3>1, <1>4, PositionFacts
    <3>4. CASE o >= pos
      <4>1. o \in pos .. pos + n - 1
        BY <3>2, <3>4, <3>1, <1>4
      <4>2. o \div FAT_WIDTH = q
        BY <4>1, <3>2, <3>1, <1>4, PositionFacts
      <4>3. QED
        BY <4>2, <1>4
    <3>5. QED
      BY <3>1, <3>3, <3>4
  <2>2. BytesUpTo(t, v.data, f, s, v.pos)
    BY <1>9 DEF t
  <2>3. QED
    BY <2>1, <2>2, <1>11 DEF BytesUpTo
<1>13. \A j \in DOMAIN files : j # i => SameChain(fat, data, u, v.data, files[j].start)
  <2>1. ASSUME NEW j \in DOMAIN files, j # i
        PROVE  SameChain(fat, data, u, v.data, files[j].start)
    <3>1. PICK r : r = files[j].start
      OBVIOUS
    <3>2. ~Cyclic(fat, r) /\ SameChain(fat, data, t, v.data, r)
      BY <2>1, <3>1, <1>9 DEF Apart, t
    <3>3. Chain(t, r) = Chain(fat, r)
      <4>1. \A c \in Chain(fat, r) : t[c] = fat[c]
        BY <3>2 DEF SameChain
      <4>2. QED
        BY <3>2, <4>1, SameLinksSameChain, Zenon
    <3>4. \A c \in Chain(t, r) : u[c] = t[c]
      BY <2>1, <3>1, <1>11
    <3>5. QED
      BY <3>1, <3>2, <3>3, <3>4 DEF SameChain
  <2>2. QED
    BY <2>1
<1>14. LastAt(u, s, v.pos)
  BY <1>8, <1>11 DEF LastAt
<1>15. v \in WriteRecord
  <2>1. v.fat \in Links
    BY <1>6, KindFacts DEF Table, Links
  <2>2. QED
    BY <2>1, <1>1, <1>2, <1>5, <1>9, <1>6, <1>8 DEF Shape, WriteRecord
<1>16. v.at = Walk(u, s, v.pos \div FAT_WIDTH) /\ v.size <= v.pos /\ files[i].size <= v.size
  BY <1>1, <1>2, <1>8, <1>11
<1>17. HasRoom(i, v)
  BY <1>5, <1>8, <1>11 DEF HasRoom, u
<1>18. QED
  BY <1>6, <1>8, <1>11, <1>12, <1>13, <1>14, <1>15, <1>16, <1>17 DEF Between, u


\* What f_write leaves: the image with the new bytes, up to the new position.
LEMMA KWriteImage ==
  ASSUME CallInv, Image(files, fat, data), NEW i \in DOMAIN files,
         NEW pos \in Nat, NEW numb \in Nat, pos + numb <= MaxSize, fat \in Table,
         WalkEnd(files[i].name, pos) \in Block, AtEnd(fat, data, files[i], pos)
  PROVE  Between(i, pos + numb, KWrite(files[i].name, pos, numb))
<1> DEFINE f == files[i].name
           I == {w \in WriteRecord : Between(i, pos + numb, w)}
<1>1. /\ files \in Directory /\ GoodDirectory(files) /\ fat \in Links /\ data \in Bytes
      /\ Apart(files, fat) /\ FreeUnlinked(files, fat)
  BY KindFacts DEF CallInv, GoodDirectory, Image
<1>2. Entry(f) = files[i]
  <2>1. f \in NamesOf(files)
    BY DEF NamesOf
  <2>2. First(f) \in DOMAIN files /\ files[First(f)].name = f /\ Entry(f) = files[First(f)]
    BY <1>1, <2>1, EntryFacts
  <2>3. First(f) = i
    BY <1>1, <2>2 DEF GoodDirectory
  <2>4. QED
    BY <2>2, <2>3
<1>3. FirstPass(f, pos, numb) \in I
  <2> DEFINE w == FirstPass(f, pos, numb)
  <2>1. /\ w.fat = fat /\ w.data = data /\ w.size = files[i].size /\ w.pos = pos
        /\ w.left = numb /\ w.done = FALSE /\ w.harm = "none"
        /\ w.at = Walk(fat, files[i].start, pos \div FAT_WIDTH) /\ w.at \in Block
        /\ w = [fat |-> fat, data |-> data, size |-> files[i].size,
                pos |-> pos, left |-> numb, done |-> FALSE, harm |-> "none", at |-> w.at]
    BY <1>2 DEF FirstPass, WalkEnd
  <2>2. files[i].size \in Nat
    BY <1>1, DirectoryFacts, LengthsAssumption
  <2> HIDE DEF w
  <2>3. w \in WriteRecord
    BY <1>1, <2>1, <2>2 DEF WriteRecord, Harms
  <2>4. \A j \in DOMAIN files : SameChain(fat, data, w.fat, w.data, files[j].start)
    BY <2>1 DEF SameChain
  <2>5. /\ BytesUpTo(w.fat, w.data, f, files[i].start, w.pos)
        /\ LastAt(w.fat, files[i].start, w.pos) /\ files[i].size <= w.pos
        /\ HasRoom(i, w)
    BY <2>1 DEF AtEnd, HasRoom
  <2>6. Between(i, pos + numb, w)
    BY <1>1, <2>1, <2>2, <2>3, <2>4, <2>5 DEF Between
  <2>7. QED
    BY <2>3, <2>6 DEF w
<1>4. ASSUME NEW w \in I PROVE WritePass(f, w) \in I
  <2>1. w \in WriteRecord /\ Between(i, pos + numb, w)
    OBVIOUS
  <2>2. PICK v : v = WritePass(f, w)
    OBVIOUS
  <2>3. /\ Shape(v)
        /\ \/ v = w
           \/ EndsCall(f, w, v)
           \/ LinksNext(f, w, v)
    BY <2>1, <2>2, PassCases, Zenon
  <2>4. pos + numb \in Nat
    OBVIOUS
  <2> HIDE DEF I
  <2>5. Between(i, pos + numb, v)
    <3>1. CASE v = w
      BY <3>1, <2>1
    <3>2. CASE EndsCall(f, w, v)
      BY <3>2, <1>1, <2>1, <2>3, <2>4, EndsCallKeeps
    <3>3. CASE LinksNext(f, w, v)
      BY <3>3, <1>1, <2>1, <2>3, <2>4, LinksNextKeeps
    <3>4. QED
      BY <2>3, <3>1, <3>2, <3>3
  <2>6. QED
    BY <2>2, <2>5 DEF I, Between
<1>5. KWrite(f, pos, numb) \in I
  <2> HIDE DEF I
  <2>1. QED
    BY <1>3, <1>4, KWriteInduction
<1>6. QED
  BY <1>5


-------------------------------------------------------------------------------
(* The calls keep the invariant.                                             *)

LEMMA FilesFacts ==
  ASSUME FilesInv
  PROVE  /\ CallInv /\ Image(files, fat, data) /\ Apart(files, fat) /\ FreeUnlinked(files, fat)
         /\ files \in Directory /\ GoodDirectory(files) /\ files \in Seq(FileRecord)
         /\ fat \in Table /\ data \in Bytes /\ fds \in Tables /\ Live(files, fds)
         /\ Writers(files, fat, data, fds) /\ Single(fds) /\ ReadOrWrite(fds)
         /\ OnDisk(stored, files) /\ ~Spilled /\ Begun(files, harm)
<1>1. CallInv /\ ~Spilled /\ Begun(files, harm) /\ Image(files, fat, data) /\ Writers(files, fat, data, fds)
      /\ Single(fds) /\ ReadOrWrite(fds) /\ OnDisk(stored, files)
  BY DEF FilesInv
<1>2. files \in Directory /\ GoodDirectory(files) /\ Live(files, fds)
      /\ fat \in Table /\ data \in Bytes /\ fds \in Tables
  BY <1>1 DEF CallInv, GoodDirectory, Tables, TableKind, GoodTables
<1>3. Apart(files, fat) /\ FreeUnlinked(files, fat)
  BY <1>1 DEF Image
<1>4. files \in Seq(FileRecord)
  BY <1>2, DirectoryFacts
<1>5. QED
  BY <1>1, <1>2, <1>3, <1>4

\* A directory just stored lists the files.
LEMMA StoredOnDisk ==
  ASSUME NEW dir \in Directory
  PROVE  OnDisk(dir, dir)
<1>1. \A i \in DOMAIN dir : dir[i].size \in Nat
  BY DirectoryFacts, LengthsAssumption
<1>2. QED
  BY <1>1 DEF OnDisk

\* As long as no file is without a block to start in, all of them have one.
LEMMA BegunKept ==
  ASSUME Begun(files, harm), harm # "astray", NEW dir, NEW h,
         \A i \in DOMAIN dir : dir[i].start \in Block \/
                              \E j \in DOMAIN files : dir[i].start = files[j].start
  PROVE  Begun(dir, h)
BY DEF Begun

\* u has the links of t but on the chain from s.
OffChain(t, u, s) == \A c \in Block \ Chain(t, s) : u[c] = t[c]

\* A chain that does not meet the one whose links are cleared stays.
LEMMA OffChainKeeps ==
  ASSUME NEW t, NEW u, NEW s, NEW r, OffChain(t, u, s),
         ~Cyclic(t, r), Chain(t, r) \cap Chain(t, s) = {}
  PROVE  /\ ~Cyclic(u, r) /\ Chain(u, r) = Chain(t, r)
         /\ \A c \in Chain(t, r) : u[c] = t[c]
<1>1. \A c \in Chain(t, r) : u[c] = t[c]
  BY DEF Chain, OffChain
<1>2. QED
  BY <1>1, SameLinksSameChain

\* k_cleanFat on the chain of file number i leaves the other files alone.
LEMMA CleanKeeps ==
  ASSUME files \in Directory, fat \in Table, Apart(files, fat), FreeUnlinked(files, fat),
         NEW i \in DOMAIN files, NEW u, u = CleanFat(fat, files[i].start)
  PROVE  /\ Apart(files, u) /\ FreeUnlinked(files, u) /\ u \in Table
         /\ OthersSame(i, u, data)
         /\ files[i].start \in Block => u[files[i].start] = END
         /\ \A c \in Chain(u, files[i].start) : u[c] = END
<1> DEFINE s == files[i].start
<1>1. files \in Seq(FileRecord)
  BY DirectoryFacts
<1>2. /\ u \in Table
      /\ \A c \in Chain(fat, s) : u[c] = END
      /\ \A c \in Block \ Chain(fat, s) : u[c] = fat[c]
      /\ s \in Block => Chain(u, s) = {s} /\ ~Cyclic(u, s) /\ u[s] = END
  BY CleanFatFacts
<1>3. s \notin Block => Chain(u, s) = {} /\ ~Cyclic(u, s)
  BY NoChain
<1> HIDE DEF s
<1>4. \A r : ~Cyclic(fat, r) /\ Chain(fat, r) \cap Chain(fat, s) = {} =>
               /\ ~Cyclic(u, r) /\ Chain(u, r) = Chain(fat, r)
               /\ \A c \in Chain(fat, r) : u[c] = fat[c]
  <2>1. OffChain(fat, u, s)
    BY <1>2 DEF OffChain
  <2>2. ASSUME NEW r, ~Cyclic(fat, r), Chain(fat, r) \cap Chain(fat, s) = {}
        PROVE  /\ ~Cyclic(u, r) /\ Chain(u, r) = Chain(fat, r)
               /\ \A c \in Chain(fat, r) : u[c] = fat[c]
    BY <2>1, <2>2, OffChainKeeps
  <2>3. QED
    BY <2>2
<1>5. ~Cyclic(u, 0) /\ Chain(u, 0) = Chain(fat, 0)
  BY <1>4 DEF Apart, s
<1>6. \A j \in DOMAIN files : j # i =>
        /\ ~Cyclic(u, files[j].start) /\ Chain(u, files[j].start) = Chain(fat, files[j].start)
        /\ \A c \in Chain(fat, files[j].start) : u[c] = fat[c]
  BY <1>4 DEF Apart, s
<1>7. ~Cyclic(u, s) /\ Chain(u, s) \subseteq Chain(fat, s) /\ \A c \in Chain(u, s) : u[c] = END
  <2>1. CASE s \in Block
    BY <2>1, <1>2, ChainHead
  <2>2. CASE s \notin Block
    BY <2>2, <1>3
  <2>3. QED
    BY <2>1, <2>2
<1>8. Apart(files, u)
  <2>1. \A j \in DOMAIN files : /\ ~Cyclic(u, files[j].start)
                                /\ Chain(u, files[j].start) \subseteq Chain(fat, files[j].start)
    BY <1>6, <1>7 DEF s
  <2>2. \A j \in DOMAIN files : Chain(u, files[j].start) \cap Chain(u, 0) = {}
    BY <2>1, <1>5 DEF Apart
  <2>3. \A j, k \in DOMAIN files :
          j # k => Chain(u, files[j].start) \cap Chain(u, files[k].start) = {}
    BY <2>1 DEF Apart
  <2>4. QED
    BY <2>1, <2>2, <2>3, <1>5 DEF Apart
<1>9. FreeUnlinked(files, u)
  <2>1. ASSUME NEW c \in Block, c \notin InUse(files, u)
        PROVE  u[c] = END
    <3>1. c \notin Chain(u, 0) /\ \A j \in DOMAIN files : c \notin Chain(u, files[j].start)
      BY <2>1, <1>1, InUseFacts
    <3>2. CASE c \in Chain(fat, s)
      BY <3>2, <1>2
    <3>3. CASE c \notin Chain(fat, s)
      <4>1. c \notin Chain(fat, 0) /\ \A j \in DOMAIN files : c \notin Chain(fat, files[j].start)
        BY <3>1, <3>3, <1>5, <1>6 DEF s
      <4>2. c \notin InUse(files, fat)
        BY <4>1, <1>1, InUseFacts
      <4>3. QED
        BY <4>2, <3>3, <1>2 DEF FreeUnlinked
    <3>4. QED
      BY <3>2, <3>3
  <2>2. QED
    BY <2>1 DEF FreeUnlinked
<1>10. OthersSame(i, u, data)
  BY <1>6 DEF OthersSame, SameChain
<1>11. QED
  BY <1>2, <1>7, <1>8, <1>9, <1>10 DEF s

\* An entry whose chain and bytes are as before.
LEMMA EntryKept ==
  ASSUME FilesInv, NEW i, NEW u, NEW du, OthersSame(i, u, du),
         NEW j \in DOMAIN files, j # i
  PROVE  /\ BytesUpTo(u, du, files[j].name, files[j].start, files[j].size)
         /\ \A pos \in Nat : AtEnd(fat, data, files[j], pos) => AtEnd(u, du, files[j], pos)
<1>1. ~Cyclic(fat, files[j].start) /\ SameChain(fat, data, u, du, files[j].start)
  BY FilesFacts DEF Apart, OthersSame
<1>2. BytesUpTo(fat, data, files[j].name, files[j].start, files[j].size)
      /\ files[j].size \in Nat
  BY FilesFacts, DirectoryFacts, LengthsAssumption DEF Image
<1>3. QED
  BY <1>1, <1>2, SameBytes, SameAtEnd

\* A file opened where no descriptor was on it has one then.
LEMMA OpenedAlone ==
  ASSUME fds \in Tables, Single(fds), ReadOrWrite(fds), NEW p \in Proc, NEW f, NEW mode,
         NEW pos, mode \in {"F_READ", "F_WRITE"},
         MayOpen(p, f, mode), OpenDescriptor(p, f, mode, pos), FilesUse
  PROVE  /\ Single(fds') /\ ReadOrWrite(fds')
         /\ \A q \in Proc : \A d \in fds'[q] :
              \/ d \in fds[q] /\ d.file # f
              \/ d.file = f /\ d.mode = mode /\ d.pos = pos
<1> DEFINE new == [number |-> NextNumber(p), file |-> f, mode |-> mode, pos |-> pos]
<1>1. new.file = f /\ new.mode = mode /\ new.pos = pos
  OBVIOUS
<1>2. fds' = [fds EXCEPT ![p] = @ \cup {new}]
  BY DEF OpenDescriptor
<1> HIDE DEF new
<1>3. \A q \in Proc : \A d \in fds[q] : d.file # f
  BY DEF MayOpen, OpenOn, FilesUse
<1>4. \A q \in Proc : \A d \in fds'[q] : d \in fds[q] \/ (q = p /\ d = new)
  BY <1>2 DEF Tables
<1>5. Single(fds')
  BY <1>1, <1>3, <1>4 DEF Single
<1>6. ReadOrWrite(fds')
  BY <1>1, <1>4 DEF ReadOrWrite
<1>7. QED
  BY <1>1, <1>3, <1>4, <1>5, <1>6

\* At the start of a file there is nothing before the position.
LEMMA AtStart ==
  ASSUME NEW t, NEW dt, NEW e, e.size = 0, e.start \in Block => t[e.start] = END
  PROVE  AtEnd(t, dt, e, 0)
<1>1. 0 \div FAT_WIDTH = 0
  BY GeometryAssumption
<1>2. Walk(t, e.start, 0) = e.start
  BY WalkZero
<1>3. QED
  BY <1>1, <1>2 DEF AtEnd, BytesUpTo, LastAt


\* A restart: the directory that block 0 holds has the files, of which no more
\* is counted than was written.
LEMMA BootKeepsFiles ==
  ASSUME FilesInv, Boot
  PROVE  FilesInv'
<1>1. CallInv'
  BY FilesFacts, BootKeeps
<1>2. /\ files' = stored /\ fds' = [p \in Proc |-> NewTable]
      /\ fat' = fat /\ data' = data /\ stored' = stored
  BY DEF Boot
<1>3. /\ stored \in Directory /\ files \in Directory /\ OnDisk(stored, files)
      /\ Image(files, fat, data)
  BY FilesFacts DEF CallInv, GoodDirectory, FilesInv
<1>4. DOMAIN files = DOMAIN stored
  BY <1>3, DirectoryFacts DEF OnDisk
<1>5. \A i \in DOMAIN files : /\ stored[i].name = files[i].name
                              /\ stored[i].start = files[i].start
                              /\ stored[i].size <= files[i].size
  BY <1>3 DEF OnDisk
<1>6. Apart(stored, fat) /\ FreeUnlinked(stored, fat)
  BY <1>3, <1>4, <1>5, SameStarts DEF Image
<1>7. ASSUME NEW i \in DOMAIN stored
      PROVE  BytesUpTo(fat, data, stored[i].name, stored[i].start, stored[i].size)
  <2>1. BytesUpTo(fat, data, stored[i].name, stored[i].start, files[i].size)
    BY <1>3, <1>4, <1>5 DEF Image
  <2>2. stored[i].size <= files[i].size /\ stored[i].size \in Nat /\ files[i].size \in Nat
    BY <1>3, <1>4, <1>5, DirectoryFacts, LengthsAssumption
  <2>3. QED
    BY <2>1, <2>2 DEF BytesUpTo
<1>8. Image(files', fat', data')
  BY <1>2, <1>6, <1>7 DEF Image
<1>9. Writers(files', fat', data', fds') /\ Single(fds') /\ ReadOrWrite(fds')
  BY <1>2, NewTableFacts DEF Writers, Single, ReadOrWrite
<1>10. OnDisk(stored', files')
  BY <1>2, <1>3, StoredOnDisk
<1>11. ~Spilled' /\ Begun(files', harm')
  <2>1. Begun(files, harm) /\ harm # "astray" /\ ~Spilled
    BY FilesFacts DEF Boot
  <2>2. Begun(files', harm')
    BY <2>1, <1>2, <1>4, <1>5, BegunKept
  <2>3. QED
    BY <2>1, <2>2, <1>2, KindKept
<1>12. QED
  BY <1>1, <1>8, <1>9, <1>10, <1>11 DEF FilesInv

LEMMA RespawnKeepsFiles ==
  ASSUME FilesInv, NEW p \in Proc, Respawn(p)
  PROVE  FilesInv'
<1>1. CallInv'
  BY FilesFacts, RespawnKeeps
<1>2. fds' = [fds EXCEPT ![p] = NewTable] /\ UNCHANGED <<files, fat, data, stored, harm>>
  BY DEF Respawn
<1>3. \A q \in Proc : \A d \in fds'[q] : d.file = Terminal \/ d \in fds[q]
  BY <1>2, FilesFacts, NewTableFacts DEF Tables
<1>4. Single(fds') /\ ReadOrWrite(fds') /\ Writers(files, fat, data, fds')
  BY <1>3, FilesFacts, FewerDescriptors
<1>5. ~Spilled' /\ Begun(files', harm')
  BY <1>2, FilesFacts, KindKept
<1>6. QED
  BY <1>1, <1>2, <1>4, <1>5 DEF FilesInv

LEMMA FCloseKeepsFiles ==
  ASSUME FilesInv, harm = "none", NEW p \in Proc, NEW n, FClose(p, n)
  PROVE  FilesInv'
<1>1. CallInv'
  BY FilesFacts, FCloseKeeps
<1>2. PICK hit : fds' = [fds EXCEPT ![p] = @ \ hit]
  BY DEF FClose
<1>3. UNCHANGED <<files, fat, data>> /\ (stored' = files \/ stored' = stored)
  BY DEF FClose
<1>4. \A q \in Proc : \A d \in fds'[q] : d.file = Terminal \/ d \in fds[q]
  BY <1>2, FilesFacts DEF Tables
<1>5. Single(fds') /\ ReadOrWrite(fds') /\ Writers(files, fat, data, fds')
  BY <1>4, FilesFacts, FewerDescriptors
<1>6. OnDisk(stored', files)
  BY <1>3, FilesFacts, StoredOnDisk
<1>7. ~Spilled' /\ Begun(files', harm')
  BY <1>3, FilesFacts, KindKept DEF Begun
<1>8. QED
  BY <1>1, <1>3, <1>5, <1>6, <1>7 DEF FilesInv

\* A descriptor that moves stays the only one of its file.
LEMMA MovedAlone ==
  ASSUME fds \in Tables, Single(fds), ReadOrWrite(fds),
         NEW p \in Proc, NEW d \in fds[p], d.file # Terminal, NEW pos
  PROVE  /\ Single(Moved(p, d, pos)) /\ ReadOrWrite(Moved(p, d, pos))
         /\ \A q \in Proc : \A e \in Moved(p, d, pos)[q] :
              \/ e \in fds[q] /\ e.file # d.file
              \/ e.file = d.file /\ e.mode = d.mode /\ e.pos = pos
<1> DEFINE new == [d EXCEPT !.pos = pos]
<1>1. new.file = d.file /\ new.mode = d.mode /\ new.pos = pos
  BY DEF Tables, DescriptorRecord
<1>2. Moved(p, d, pos) = [fds EXCEPT ![p] = (@ \ {d}) \cup {new}]
  BY DEF Moved
<1> HIDE DEF new
<1>3. \A q \in Proc : \A e \in Moved(p, d, pos)[q] :
        \/ e \in fds[q] /\ (e = d => q # p)
        \/ e = new /\ q = p
  BY <1>2 DEF Tables
<1>4. \A q \in Proc : \A e \in Moved(p, d, pos)[q] :
        \/ e \in fds[q] /\ e.file # d.file
        \/ e = new /\ q = p
  BY <1>3 DEF Single
<1>5. Single(Moved(p, d, pos))
  BY <1>1, <1>4 DEF Single
<1>6. ReadOrWrite(Moved(p, d, pos))
  BY <1>1, <1>4 DEF ReadOrWrite
<1>7. QED
  BY <1>1, <1>4, <1>5, <1>6

\* Where every file has a block to start in, a walk leads to a block or the end.
LEMMA WalkEndFacts ==
  ASSUME FilesInv, harm = "none", NEW f, f \in NamesOf(files), NEW pos \in Nat
  PROVE  WalkEnd(f, pos) \in Block \cup {END}
<1>1. PICK s : s = Entry(f).start
  OBVIOUS
<1>2. s \in Block
  <2>1. First(f) \in DOMAIN files /\ Entry(f) = files[First(f)]
    BY FilesFacts, EntryFacts
  <2>2. QED
    BY <1>1, <2>1, FilesFacts DEF Begun
<1>3. pos \div FAT_WIDTH \in Nat
  BY DivMod
<1>4. Walk(fat, s, pos \div FAT_WIDTH) \in Block \cup {END, s}
  BY <1>3, WalkTyped, FilesFacts
<1>5. QED
  BY <1>1, <1>2, <1>4 DEF WalkEnd

\* A read gets all it asked for, and changes no size.
LEMMA FReadLeaves ==
  ASSUME FilesInv, harm = "none", FilesUse, NEW p \in Proc, NEW d \in FileDescriptors(p),
         NEW numb \in Lengths, NEW n, FRead(p, d, numb, n)
  PROVE  d.mode = "F_READ" /\ UNCHANGED <<files, fat, data, stored>>
<1>1. d.mode = "F_READ"
  BY DEF FRead, FilesUse
<1>2. d.file \in NamesOf(files) /\ d.pos \in Nat /\ numb \in Nat
      /\ Entry(d.file).size \in 0 .. MaxSize
  BY FilesFacts, FileDescriptorFacts, LengthsAssumption
<1> DEFINE r == ReadLength(d.file, d.pos, numb)
<1>3. r \in Nat
  BY <1>2 DEF ReadLength
<1>4. n \in 0 .. r /\ (n = r \/ WalkEnd(d.file, d.pos + n) \notin Block \cup {END})
  BY DEF FRead, Reads
<1>5. /\ files' = IF (d.pos + n) \div FAT_WIDTH < (d.pos + r) \div FAT_WIDTH
                       /\ Entry(d.file).size < d.pos + n
                    THEN Resized(d.file, d.pos + n) ELSE files
      /\ UNCHANGED <<fat, data, stored>>
  BY DEF FRead
<1> HIDE DEF r
<1>6. n = r
  <2>1. d.pos + n \in Nat
    BY <1>2, <1>3, <1>4
  <2>2. QED
    BY <2>1, <1>2, <1>4, WalkEndFacts
<1>7. ~((d.pos + r) \div FAT_WIDTH < (d.pos + r) \div FAT_WIDTH)
  <2>1. (d.pos + r) \div FAT_WIDTH \in Nat
    BY <1>2, <1>3, DivMod
  <2>2. QED
    BY <2>1
<1>8. QED
  BY <1>1, <1>5, <1>6, <1>7

LEMMA FReadKeepsFiles ==
  ASSUME FilesInv, harm = "none", FilesUse, NEW p \in Proc, NEW d \in FileDescriptors(p),
         NEW numb \in Lengths, NEW n, FRead(p, d, numb, n)
  PROVE  FilesInv'
<1>1. CallInv'
  BY FilesFacts, FReadKeeps, LengthsAssumption
<1>2. PICK pos : fds' = Moved(p, d, pos)
  BY DEF FRead
<1>3. d.mode = "F_READ" /\ UNCHANGED <<files, fat, data, stored>>
  BY FReadLeaves
<1>4. d \in fds[p] /\ d.file # Terminal
  BY DEF FileDescriptors
<1>5. /\ Single(fds') /\ ReadOrWrite(fds')
      /\ \A q \in Proc : \A e \in fds'[q] : e \in fds[q] \/ e.mode = "F_READ"
  BY <1>2, <1>3, <1>4, FilesFacts, MovedAlone
<1>6. Writers(files, fat, data, fds')
  BY <1>5, FilesFacts DEF Writers
<1>7. ~Spilled' /\ Begun(files', harm')
  BY <1>3, FilesFacts, KindKept DEF Begun
<1>8. QED
  BY <1>1, <1>3, <1>5, <1>6, <1>7 DEF FilesInv

LEMMA InitFiles == Init => FilesInv
<1>1. SUFFICES ASSUME Init PROVE FilesInv
  OBVIOUS
<1>2. /\ files = << >> /\ stored = << >> /\ fat = EmptyFat
      /\ fds = [p \in Proc |-> NewTable] /\ DOMAIN files = {}
  BY <1>1 DEF Init
<1>3. CallInv
  BY <1>1, InitCallInv
<1>4. fat[0] = END /\ \A b \in Block : fat[b] = END
  BY <1>2, BlockFacts DEF EmptyFat
<1>5. ~Cyclic(fat, 0)
  BY <1>4, BlockFacts, AloneChain
<1>6. Image(files, fat, data)
  BY <1>2, <1>4, <1>5 DEF Image, Apart, FreeUnlinked
<1>7. Writers(files, fat, data, fds) /\ Single(fds) /\ ReadOrWrite(fds)
  BY <1>2, NewTableFacts DEF Writers, Single, ReadOrWrite
<1>8. OnDisk(stored, files)
  BY <1>2 DEF OnDisk
<1>9. ~Spilled /\ Begun(files, harm)
  <2>1. \A o \in 0 .. FAT_WIDTH - 1 : data[END][o] = Blank
    BY <1>1 DEF Init
  <2>2. QED
    BY <2>1, <1>2 DEF Spilled, Begun
<1>10. QED
  BY <1>3, <1>6, <1>7, <1>8, <1>9 DEF FilesInv


\* File number i has new bytes or none, up to pos: the image that f_write and
\* f_open with F_WRITE leave.
LEMMA ResizedImage ==
  ASSUME FilesInv, NEW i \in DOMAIN files, NEW f, f = files[i].name,
         NEW u, NEW du, Apart(files, u), FreeUnlinked(files, u), OthersSame(i, u, du),
         NEW n \in 0 .. MaxSize, NEW pos \in 0 .. MaxSize, n <= pos,
         BytesUpTo(u, du, f, files[i].start, pos), LastAt(u, files[i].start, pos),
         Walk(u, files[i].start, pos \div FAT_WIDTH) \notin Block => n = pos,
         NEW table,
         \A q \in Proc : \A e \in table[q] :
           \/ e \in fds[q] /\ e.file # f
           \/ e.file = f /\ e.pos = pos
  PROVE  Image(Resized(f, n), u, du) /\ Writers(Resized(f, n), u, du, table)
<1> DEFINE new == Resized(f, n)
<1>1. /\ files \in Directory /\ fds \in Tables
      /\ Writers(files, fat, data, fds)
      /\ \A j \in DOMAIN files : files[j].name = f => j = i
  BY FilesFacts DEF GoodDirectory
<1>2. /\ new \in Directory /\ DOMAIN new = DOMAIN files
      /\ \A j \in DOMAIN files : /\ new[j].name = files[j].name
                                 /\ new[j].start = files[j].start
                                 /\ new[j].size = IF files[j].name = f THEN n ELSE files[j].size
  BY <1>1, ResizedFacts
<1> HIDE DEF new
<1>3. Apart(new, u) /\ FreeUnlinked(new, u)
  BY <1>1, <1>2, SameStarts
<1>4. \A j \in DOMAIN new : BytesUpTo(u, du, new[j].name, new[j].start, new[j].size)
  <2>1. ASSUME NEW j \in DOMAIN files, j # i
        PROVE  BytesUpTo(u, du, new[j].name, new[j].start, new[j].size)
    <3>1. BytesUpTo(u, du, files[j].name, files[j].start, files[j].size)
      BY <2>1, EntryKept
    <3>2. QED
      BY <2>1, <3>1, <1>1, <1>2
  <2>2. BytesUpTo(u, du, new[i].name, new[i].start, new[i].size)
    <3>1. BytesUpTo(u, du, f, files[i].start, n)
      BY LengthsAssumption DEF BytesUpTo
    <3>2. QED
      BY <3>1, <1>2
  <2>3. QED
    BY <2>1, <2>2, <1>2
<1>5. ASSUME NEW q \in Proc, NEW e \in table[q], e.file # Terminal, e.mode = "F_WRITE",
             NEW j \in DOMAIN new, new[j].name = e.file
      PROVE  AtEnd(u, du, new[j], e.pos)
  <2>1. CASE e.file = f /\ e.pos = pos
    <3>1. j = i /\ new[j].size = n /\ new[j].name = f /\ new[j].start = files[i].start
      BY <2>1, <1>1, <1>2, <1>5
    <3>2. QED
      BY <2>1, <3>1 DEF AtEnd
  <2>2. CASE e \in fds[q] /\ e.file # f
    <3>1. /\ j \in DOMAIN files /\ j # i /\ files[j].name = e.file
          /\ new[j].size = files[j].size /\ new[j].name = files[j].name
          /\ new[j].start = files[j].start
      BY <2>2, <1>2, <1>5
    <3>2. e.pos \in Nat
      BY <2>2, <1>1, LengthsAssumption DEF Tables, DescriptorRecord
    <3>3. AtEnd(fat, data, files[j], e.pos)
      BY <2>2, <3>1, <1>1, <1>5 DEF Writers
    <3>4. AtEnd(u, du, files[j], e.pos)
      BY <3>1, <3>2, <3>3, EntryKept
    <3>5. QED
      BY <3>1, <3>4 DEF AtEnd
  <2>3. QED
    BY <2>1, <2>2
<1>6. QED
  BY <1>3, <1>4, <1>5 DEF Image, Writers, new

\* The number of the file that a descriptor is on.
LEMMA DescriptorEntry ==
  ASSUME CallInv, NEW f, f \in NamesOf(files)
  PROVE  \E i \in DOMAIN files : files[i].name = f /\ First(f) = i /\ Entry(f) = files[i]
<1>1. First(f) \in DOMAIN files /\ files[First(f)].name = f /\ Entry(f) = files[First(f)]
  BY EntryFacts DEF CallInv, GoodDirectory
<1>2. QED
  BY <1>1

\* What a write leaves unless it goes over the table: all as it was, or the bytes
\* in the blocks of the file.
WritesInChain(d, numb, i, w) ==
  /\ files[i].name = d.file /\ AtEnd(fat, data, files[i], d.pos)
  /\ w = KWrite(d.file, d.pos, numb) /\ Between(i, d.pos + numb, w)
  /\ w.size \in 0 .. MaxSize /\ w.pos \in 0 .. MaxSize /\ w.data[END] = data[END]
  /\ WalkEnd(d.file, d.pos) \in Block

LEMMA FWriteLeaves ==
  ASSUME FilesInv, harm = "none", NEW p \in Proc, NEW d \in FileDescriptors(p),
         NEW numb \in Lengths, FWrite(p, d, numb)
  PROVE  \/ Spilled' /\ \E i \in DOMAIN files : Walk(fat, files[i].start, files[i].size \div FAT_WIDTH) \notin Block
         \/ UNCHANGED <<files, fat, data, fds>> /\ stored' = files
         \/ \E i \in DOMAIN files, w \in WriteRecord :
              WritesInChain(d, numb, i, w) /\ WritesAll(p, d, w) /\ stored' = files
<1>1. /\ CallInv /\ Image(files, fat, data) /\ Writers(files, fat, data, fds)
      /\ files \in Directory /\ fat \in Table /\ data \in Bytes /\ fat \in TableKind
      /\ ReadOrWrite(fds)
  BY FilesFacts DEF CallInv
<1>2. d \in fds[p] /\ d.file # Terminal /\ d.file \in NamesOf(files) /\ d.pos \in Nat
  BY <1>1, FileDescriptorFacts, LengthsAssumption DEF FileDescriptors
<1>3. numb \in Nat \ {0} /\ d.mode = "F_WRITE"
  BY <1>1, <1>2, FWriteCases, LengthsAssumption DEF ReadOrWrite
<1>4. WritePosition(d) = d.pos
  BY <1>3 DEF WritePosition
<1>5. PICK i \in DOMAIN files : files[i].name = d.file /\ Entry(d.file) = files[i]
  BY <1>1, <1>2, DescriptorEntry
<1>6. AtEnd(fat, data, files[i], d.pos)
  BY <1>1, <1>2, <1>3, <1>5 DEF Writers
<1>7. d.pos + numb <= MaxSize /\ stored' = files
  BY <1>4, FWriteCases
<1>8. WalkEnd(d.file, d.pos) \in Block \cup {END}
  BY <1>2, WalkEndFacts
<1>9. CASE StaysIn(d.file, d.pos) /\ WalkEnd(d.file, d.pos) \in Block
  <2>1. PICK w : w = KWrite(d.file, d.pos, numb)
    OBVIOUS
  <2>2. WritesAll(p, d, w)
    BY <1>4, <1>9, <2>1, FWriteCases, BlockFacts, Zenon
  <2>3. Between(i, d.pos + numb, w)
    BY <1>1, <1>2, <1>3, <1>5, <1>6, <1>7, <1>9, <2>1, KWriteImage
  <2>4. w.size \in 0 .. MaxSize /\ w.pos \in 0 .. MaxSize /\ w.data[END] = data[END]
    BY <1>1, <1>2, <1>3, <1>7, <1>9, <2>1, KWriteTypes
  <2>5. w \in WriteRecord
    BY <2>3 DEF Between
  <2>6. WritesInChain(d, numb, i, w)
    BY <1>5, <1>6, <1>9, <2>1, <2>3, <2>4 DEF WritesInChain
  <2>7. QED
    BY <1>7, <2>2, <2>5, <2>6
<1>10. CASE StaysIn(d.file, d.pos) /\ WalkEnd(d.file, d.pos) = END
  <2>1. Spilled'
    BY <1>1, <1>3, <1>4, <1>10, FWriteKeeps
  <2>2. Walk(fat, files[i].start, d.pos \div FAT_WIDTH) \notin Block
    BY <1>5, <1>10, BlockFacts DEF WalkEnd
  <2>3. files[i].size = d.pos
    BY <2>2, <1>6 DEF AtEnd
  <2>4. QED
    BY <2>1, <2>2, <2>3
<1>11. CASE ~StaysIn(d.file, d.pos)
  <2>1. UNCHANGED <<files, fat, data, fds>>
    BY <1>4, <1>11, FWriteCases, Zenon
  <2>2. QED
    BY <2>1, <1>7
<1>12. QED
  BY <1>8, <1>9, <1>10, <1>11

LEMMA FWriteKeepsFiles ==
  ASSUME FilesInv, harm = "none", NEW p \in Proc, NEW d \in FileDescriptors(p),
         NEW numb \in Lengths, FWrite(p, d, numb)
  PROVE  Spilled' \/ FilesInv'
<1>1. CallInv'
  BY FilesFacts, FWriteKeeps, LengthsAssumption
<1>2. /\ CallInv /\ Image(files, fat, data) /\ Writers(files, fat, data, fds)
      /\ files \in Directory /\ fds \in Tables /\ fat \in Table /\ data \in Bytes
      /\ Single(fds) /\ ReadOrWrite(fds) /\ Begun(files, harm)
  BY FilesFacts
<1>3. d \in fds[p] /\ d.file # Terminal
  BY DEF FileDescriptors
<1>4. CASE UNCHANGED <<files, fat, data, fds>> /\ stored' = files
  <2>1. OnDisk(stored', files')
    BY <1>2, <1>4, StoredOnDisk
  <2>2. ~Spilled' /\ Begun(files', harm')
    BY <1>2, <1>4, FilesFacts, KindKept DEF Begun
  <2>3. QED
    BY <2>1, <2>2, <1>1, <1>2, <1>4 DEF FilesInv
<1>5. ASSUME NEW i \in DOMAIN files, NEW w \in WriteRecord,
             WritesInChain(d, numb, i, w), WritesAll(p, d, w), stored' = files
      PROVE  FilesInv'
  <2>1. /\ fat' = w.fat /\ data' = w.data
        /\ files' = Resized(d.file, w.size) /\ fds' = Moved(p, d, w.pos)
        /\ stored' = files
    BY <1>5 DEF WritesAll
  <2>2. /\ files[i].name = d.file /\ Between(i, d.pos + numb, w)
        /\ w.size \in 0 .. MaxSize /\ w.pos \in 0 .. MaxSize /\ w.data[END] = data[END]
    BY <1>5 DEF WritesInChain
  <2>3. /\ Apart(files, w.fat) /\ FreeUnlinked(files, w.fat) /\ OthersSame(i, w.fat, w.data)
        /\ BytesUpTo(w.fat, w.data, d.file, files[i].start, w.pos)
        /\ LastAt(w.fat, files[i].start, w.pos)
        /\ files[i].size <= w.size /\ w.size <= w.pos
        /\ Walk(w.fat, files[i].start, w.pos \div FAT_WIDTH) \notin Block => w.size = w.pos
    BY <2>2 DEF Between, OthersSame, HasRoom
  <2>4. /\ Single(fds') /\ ReadOrWrite(fds')
        /\ \A q \in Proc : \A e \in fds'[q] :
             \/ e \in fds[q] /\ e.file # d.file
             \/ e.file = d.file /\ e.pos = w.pos
    BY <1>2, <1>3, <2>1, MovedAlone
  <2>5. Image(files', fat', data') /\ Writers(files', fat', data', fds')
    BY <2>1, <2>2, <2>3, <2>4, ResizedImage
  <2>6. /\ Len(files') = Len(files) /\ DOMAIN files' = DOMAIN files
        /\ \A j \in DOMAIN files :
             /\ files'[j].name = files[j].name
             /\ files'[j].start = files[j].start
             /\ files'[j].size = IF files[j].name = d.file THEN w.size ELSE files[j].size
    BY <1>2, <2>1, <2>2, ResizedFacts
  <2>7. OnDisk(stored', files')
    <3>1. \A j \in DOMAIN files : files[j].name = d.file => j = i
      BY <1>2, <2>2 DEF CallInv, GoodDirectory
    <3>2. \A j \in DOMAIN files : files[j].size \in Nat
      BY <1>2, DirectoryFacts, LengthsAssumption
    <3>3. \A j \in DOMAIN files : files[j].size <= files'[j].size
      BY <3>1, <3>2, <2>3, <2>6
    <3>4. QED
      BY <3>3, <2>1, <2>6 DEF OnDisk
  <2>8. Begun(files', harm')
    BY <1>2, <2>6, BegunKept
  <2>9. ~Spilled'
    BY <2>1, <2>2, FilesFacts, KindKept
  <2>10. QED
    BY <1>1, <2>4, <2>5, <2>7, <2>8, <2>9 DEF FilesInv
<1>6. QED
  BY <1>4, <1>5, FWriteLeaves

LEMMA OpenOldKeepsFiles ==
  ASSUME FilesInv, harm = "none", FilesUse, NEW p \in Proc, NEW f \in Name, NEW mode,
         OpenOld(p, f, mode)
  PROVE  FilesInv'
<1>1. CallInv'
  BY FilesFacts, OpenOldKeeps
<1>2. /\ CallInv /\ Image(files, fat, data) /\ Writers(files, fat, data, fds)
      /\ files \in Directory /\ fds \in Tables /\ fat \in Table
      /\ Apart(files, fat) /\ FreeUnlinked(files, fat) /\ Single(fds) /\ ReadOrWrite(fds)
      /\ Begun(files, harm)
  BY FilesFacts
<1>3. mode \in {"F_READ", "F_WRITE"} /\ MayOpen(p, f, mode) /\ OpenDescriptor(p, f, mode, 0)
  BY DEF OpenOld, MayOpen, FilesUse
<1>4. /\ Single(fds') /\ ReadOrWrite(fds')
      /\ \A q \in Proc : \A e \in fds'[q] :
           \/ e \in fds[q] /\ e.file # f
           \/ e.file = f /\ e.mode = mode /\ e.pos = 0
  BY <1>2, <1>3, OpenedAlone
<1>5. stored' = files' /\ data' = data /\ f \in NamesOf(files)
  BY NamedFacts DEF OpenOld, StoreDirectory
<1>6. OnDisk(stored', files')
  BY <1>1, <1>5, StoredOnDisk DEF CallInv, GoodDirectory
<1>7. CASE mode = "F_READ"
  <2>1. files' = files /\ fat' = fat
    BY <1>7 DEF OpenOld
  <2>2. Writers(files, fat, data, fds')
    BY <1>2, <1>4, <1>7 DEF Writers
  <2>3. ~Spilled' /\ Begun(files', harm')
    BY <1>2, <1>5, <2>1, FilesFacts, KindKept DEF Begun
  <2>4. QED
    BY <2>1, <2>2, <2>3, <1>1, <1>2, <1>4, <1>5, <1>6 DEF FilesInv
<1>8. CASE mode = "F_WRITE"
  <2>1. PICK i \in DOMAIN files : files[i].name = f /\ Entry(f) = files[i]
    BY <1>2, <1>5, DescriptorEntry
  <2>2. fat' = CleanFat(fat, files[i].start) /\ files' = Resized(f, 0)
    BY <1>8, <2>1 DEF OpenOld
  <2>3. /\ Apart(files, fat') /\ FreeUnlinked(files, fat') /\ OthersSame(i, fat', data)
        /\ files[i].start \in Block => fat'[files[i].start] = END
    BY <2>2, <1>2, CleanKeeps
  <2>4. /\ BytesUpTo(fat', data, f, files[i].start, 0)
        /\ LastAt(fat', files[i].start, 0)
    <3>1. [size |-> 0, start |-> files[i].start, name |-> f].size = 0
      OBVIOUS
    <3>2. AtEnd(fat', data, [size |-> 0, start |-> files[i].start, name |-> f], 0)
      BY <2>3, AtStart
    <3>3. QED
      BY <3>2 DEF AtEnd
  <2>5. 0 \in 0 .. MaxSize
    BY LengthsAssumption
  <2>6. Image(files', fat', data') /\ Writers(files', fat', data', fds')
    BY <2>1, <2>2, <2>3, <2>4, <2>5, <1>4, <1>5, ResizedImage
  <2>7. Begun(files', harm')
    <3>1. /\ DOMAIN files' = DOMAIN files
          /\ \A j \in DOMAIN files : files'[j].start = files[j].start
      BY <1>2, <2>2, <2>5, ResizedFacts
    <3>2. QED
      BY <3>1, <1>2, BegunKept
  <2>8. ~Spilled'
    BY <1>5, FilesFacts, KindKept
  <2>9. QED
    BY <2>6, <2>7, <2>8, <1>1, <1>4, <1>6 DEF FilesInv
<1>9. QED
  BY <1>3, <1>7, <1>8


\* The directory with a new file, which starts in a block of no chain, or in
\* none when the table is full.
LEMMA AddedApart ==
  ASSUME files \in Directory, fat \in Table, Apart(files, fat), FreeUnlinked(files, fat),
         NEW f \in Name
  PROVE  /\ Apart(AddFile(f), fat) /\ FreeUnlinked(AddFile(f), fat)
         /\ DetermineBlock(files, fat) \in Block =>
              /\ fat[DetermineBlock(files, fat)] = END
              /\ \A c \in Chain(fat, DetermineBlock(files, fat)) : fat[c] = END
<1> DEFINE b == DetermineBlock(files, fat)
           new == AddFile(f)
           k == Len(files) + 1
<1>1. /\ files \in Directory /\ files \in Seq(FileRecord) /\ fat \in Table
      /\ Apart(files, fat) /\ FreeUnlinked(files, fat)
  BY DirectoryFacts
<1>2. /\ Len(files) \in Nat /\ DOMAIN files = 1 .. Len(files)
      /\ new \in Directory /\ DOMAIN new = 1 .. k
      /\ \A i \in DOMAIN files : i \in DOMAIN new /\ new[i] = files[i]
      /\ new[k] = [name |-> f, start |-> b, size |-> 0]
  BY <1>1, DirectoryFacts, AddFileFacts
<1>3. b = MEMFULL \/ b \in Block \ InUse(files, fat)
  BY <1>1, DetermineBlockFacts
<1>4. new[k].start = b /\ new[k].name = f /\ new[k].size = 0 /\ k \in DOMAIN new
  BY <1>2
<1> HIDE DEF b, new
<1>5. b \in Block => fat[b] = END
  BY <1>1, <1>3, BlockFacts DEF FreeUnlinked
<1>6. ~Cyclic(fat, b) /\ Chain(fat, b) \subseteq {b}
  BY <1>3, <1>5, AloneChain, NoChain, BlockFacts
<1>7. \A i \in DOMAIN new : i = k \/ (i \in DOMAIN files /\ i # k /\ new[i] = files[i])
  BY <1>2
<1>8. /\ Chain(fat, b) \cap Chain(fat, 0) = {}
      /\ \A i \in DOMAIN files : Chain(fat, b) \cap Chain(fat, files[i].start) = {}
  <2>1. \A c \in Chain(fat, b) : c \notin InUse(files, fat)
    BY <1>3, <1>6, BlockFacts DEF Chain
  <2>2. QED
    BY <2>1, <1>1, InUseFacts
<1>9. Apart(new, fat)
  <2>1. ASSUME NEW i \in DOMAIN new
        PROVE  ~Cyclic(fat, new[i].start) /\ Chain(fat, new[i].start) \cap Chain(fat, 0) = {}
    BY <1>1, <1>4, <1>6, <1>7, <1>8 DEF Apart
  <2>2. ASSUME NEW i \in DOMAIN new, NEW j \in DOMAIN new, i # j
        PROVE  Chain(fat, new[i].start) \cap Chain(fat, new[j].start) = {}
    <3>1. CASE i = k
      BY <3>1, <2>2, <1>4, <1>7, <1>8
    <3>2. CASE j = k
      BY <3>2, <2>2, <1>4, <1>7, <1>8
    <3>3. CASE i # k /\ j # k
      BY <3>3, <2>2, <1>1, <1>7 DEF Apart
    <3>4. QED
      BY <3>1, <3>2, <3>3
  <2>3. QED
    BY <2>1, <2>2, <1>1 DEF Apart
<1>10. FreeUnlinked(new, fat)
  <2>1. new \in Seq(FileRecord)
    BY <1>2, DirectoryFacts
  <2>2. \A c : c \in InUse(files, fat) => c \in InUse(new, fat)
    BY <2>1, <1>1, <1>2, InUseFacts
  <2>3. QED
    BY <2>2, <1>1 DEF FreeUnlinked
<1>11. QED
  BY <1>5, <1>6, <1>9, <1>10 DEF b, new

LEMMA AddedImage ==
  ASSUME FilesInv, NEW f \in Name
  PROVE  /\ Image(AddFile(f), fat, data)
         /\ DetermineBlock(files, fat) \in Block =>
              /\ fat[DetermineBlock(files, fat)] = END
              /\ \A c \in Chain(fat, DetermineBlock(files, fat)) : fat[c] = END
<1> DEFINE new == AddFile(f)
           k == Len(files) + 1
<1>1. /\ files \in Directory /\ fat \in Table /\ Image(files, fat, data)
      /\ Apart(files, fat) /\ FreeUnlinked(files, fat)
  BY FilesFacts DEF FilesInv
<1>2. /\ DOMAIN files = 1 .. Len(files) /\ Len(files) \in Nat
      /\ DOMAIN new = 1 .. k
      /\ \A i \in DOMAIN files : new[i] = files[i]
      /\ new[k] = [name |-> f, start |-> DetermineBlock(files, fat), size |-> 0]
  BY <1>1, DirectoryFacts, AddFileFacts
<1>3. new[k].size = 0
  BY <1>2
<1> HIDE DEF new
<1>4. \A i \in DOMAIN new : BytesUpTo(fat, data, new[i].name, new[i].start, new[i].size)
  <2>1. BytesUpTo(fat, data, new[k].name, new[k].start, new[k].size)
    BY <1>3 DEF BytesUpTo
  <2>2. \A i \in DOMAIN new : i = k \/ (i \in DOMAIN files /\ new[i] = files[i])
    BY <1>2
  <2>3. QED
    BY <2>1, <2>2, <1>1 DEF Image
<1>5. QED
  BY <1>1, <1>4, AddedApart DEF Image, new

\* The search for a free block comes round no cycle.
LEMMA SearchEnds ==
  ASSUME NEW dir \in Directory, NEW t, Apart(dir, t)
  PROVE  SearchHarm(dir, t) \in {"none", "astray"}
<1> DEFINE harmed == {i \in DOMAIN Starts(dir) : ChainHarm(t, Starts(dir)[i]) # "none"}
           k == FirstHarmed(dir, t)
<1>1. \A i \in DOMAIN Starts(dir) : ~Cyclic(t, Starts(dir)[i])
  BY ApartSays
<1>2. DOMAIN Starts(dir) \subseteq Nat
  BY StartsFacts, DirectoryFacts
<1>3. k = 0 \/ k \in DOMAIN Starts(dir)
  <2>1. CASE harmed = {}
    BY <2>1 DEF FirstHarmed
  <2>2. CASE harmed # {}
    <3>1. harmed \in SUBSET Nat
      BY <1>2
    <3>2. \E i \in harmed : \A j \in harmed : i <= j
      BY <2>2, <3>1, LeastNat
    <3>3. k = CHOOSE i \in harmed : \A j \in harmed : i <= j
      BY <2>2 DEF FirstHarmed
    <3> HIDE DEF k
    <3>4. k \in harmed
      BY <3>2, <3>3
    <3>5. QED
      BY <3>4
  <2>3. QED
    BY <2>1, <2>2
<1>4. SearchHarm(dir, t) = "none" \/ (k # 0 /\ SearchHarm(dir, t) = ChainHarm(t, Starts(dir)[k]))
  BY DEF SearchHarm
<1> HIDE DEF k
<1>5. k # 0 => ChainHarm(t, Starts(dir)[k]) \in {"none", "astray"}
  BY <1>1, <1>3 DEF ChainHarm
<1>6. QED
  BY <1>4, <1>5

\* A file for which no block is left to start in is not a file that a program
\* gets to write: f_open with F_WRITE reads the table at MEMFULL.
LEMMA OpenNewAstray ==
  ASSUME files \in Directory, Apart(files, fat), NEW p, NEW f, OpenNew(p, f, "F_WRITE"),
         DetermineBlock(files, fat) = MEMFULL
  PROVE  harm' = "astray"
<1>1. SearchHarm(files, fat) \in {"none", "astray"}
  BY SearchEnds
<1>2. harm' = IF SearchHarm(files, fat) = "none" THEN CleanHarm(MEMFULL)
              ELSE SearchHarm(files, fat)
  BY DEF OpenNew
<1>3. CleanHarm(MEMFULL) = "astray"
  <2>1. Walk(fat, MEMFULL, 0) = MEMFULL /\ 0 \in 0 .. NUM_BLOCKS
    BY WalkZero, BlockFacts
  <2>2. Strays(fat, MEMFULL)
    BY <2>1, BlockFacts DEF Strays
  <2>3. QED
    BY <2>2 DEF CleanHarm
<1>4. QED
  BY <1>1, <1>2, <1>3

LEMMA OpenNewKeepsFiles ==
  ASSUME FilesInv, harm = "none", FilesUse, NEW p \in Proc, NEW f \in Name, NEW mode,
         OpenNew(p, f, mode)
  PROVE  FilesInv'
<1> DEFINE b == DetermineBlock(files, fat)
           k == Len(files) + 1
<1>1. CallInv'
  BY FilesFacts, OpenNewKeeps
<1>2. /\ CallInv /\ Writers(files, fat, data, fds)
      /\ files \in Directory /\ fds \in Tables /\ fat \in Table
      /\ Single(fds) /\ ReadOrWrite(fds) /\ Live(files, fds)
  BY FilesFacts
<1>3. mode = "F_WRITE" /\ MayOpen(p, f, mode) /\ OpenDescriptor(p, f, mode, 0)
  BY DEF OpenNew, MayOpen, FilesUse
<1>4. /\ Single(fds') /\ ReadOrWrite(fds')
      /\ \A q \in Proc : \A e \in fds'[q] :
           \/ e \in fds[q] /\ e.file # f
           \/ e.file = f /\ e.mode = mode /\ e.pos = 0
  BY <1>2, <1>3, OpenedAlone
<1>5. /\ stored' = files' /\ data' = data /\ files' = AddFile(f) /\ f \notin NamesOf(files)
      /\ fat' = fat \/ fat' = CleanFat(fat, b)
  BY NamedFacts DEF OpenNew, StoreDirectory
<1>6. OnDisk(stored', files')
  BY <1>1, <1>5, StoredOnDisk DEF CallInv, GoodDirectory
<1>7. /\ Image(AddFile(f), fat, data)
      /\ b \in Block => fat[b] = END /\ \A c \in Chain(fat, b) : fat[c] = END
  BY <1>5, AddedImage
<1>8. /\ DOMAIN files' = 1 .. k /\ DOMAIN files = 1 .. Len(files) /\ Len(files) \in Nat
      /\ \A i \in DOMAIN files : files'[i] = files[i]
      /\ files'[k].name = f /\ files'[k].start = b /\ files'[k].size = 0
  <2>1. /\ DOMAIN AddFile(f) = 1 .. k
        /\ \A i \in DOMAIN files : AddFile(f)[i] = files[i]
        /\ AddFile(f)[k] = [name |-> f, start |-> b, size |-> 0]
    BY <1>2, AddFileFacts
  <2>2. DOMAIN files = 1 .. Len(files) /\ Len(files) \in Nat
    BY <1>2, DirectoryFacts
  <2> HIDE DEF b, k
  <2>3. QED
    BY <2>1, <2>2, <1>5
<1> HIDE DEF b
<1>9. fat' = fat
  <2>1. CASE fat' = CleanFat(fat, b)
    <3>1. \A c \in Chain(fat, b) : fat[c] = END
      <4>1. b \notin Block => Chain(fat, b) = {}
        BY NoChain
      <4>2. QED
        BY <4>1, <1>7
    <3>2. CleanFat(fat, b) \in Table /\ \A c \in Block : CleanFat(fat, b)[c] = fat[c]
      BY <3>1, <1>2, CleanFatFacts
    <3>3. QED
      BY <2>1, <3>2, <1>2 DEF Table
  <2>2. QED
    BY <2>1, <1>5
<1>10. Writers(files', fat, data, fds')
  <2>1. ASSUME NEW q \in Proc, NEW e \in fds'[q], e.file # Terminal, e.mode = "F_WRITE",
               NEW i \in DOMAIN files', files'[i].name = e.file
        PROVE  AtEnd(fat, data, files'[i], e.pos)
    <3>1. CASE e \in fds[q] /\ e.file # f
      <4>1. i \in DOMAIN files /\ files'[i] = files[i]
        BY <3>1, <2>1, <1>8
      <4>2. QED
        BY <3>1, <4>1, <2>1, <1>2 DEF Writers
    <3>2. CASE e.file = f /\ e.pos = 0
      <4>1. i = k
        BY <3>2, <2>1, <1>5, <1>8 DEF NamesOf
      <4>2. QED
        BY <3>2, <4>1, <1>7, <1>8, AtStart
    <3>3. QED
      BY <3>1, <3>2, <1>4
  <2>2. QED
    BY <2>1 DEF Writers
<1>11. Begun(files', harm')
  <2>1. CASE b = MEMFULL
    BY <2>1, <1>2, <1>3, FilesFacts, OpenNewAstray DEF Begun, b
  <2>2. CASE b # MEMFULL
    <3>1. b \in Block
      BY <2>2, <1>2, DirectoryFacts, DetermineBlockFacts DEF b
    <3>2. \A i \in DOMAIN files' : i = k \/ i \in DOMAIN files
      BY <1>8
    <3>3. QED
      BY <3>1, <3>2, <1>8, FilesFacts DEF Begun
  <2>3. QED
    BY <2>1, <2>2
<1>12. ~Spilled'
  BY <1>5, FilesFacts, KindKept
<1>13. QED
  BY <1>1, <1>4, <1>5, <1>6, <1>7, <1>9, <1>10, <1>11, <1>12 DEF FilesInv

\* The entries that stay when number k leaves the list.
LEMMA RemovedEntries ==
  ASSUME files \in Directory, NEW k \in DOMAIN files, NEW new, new = RemoveAt(files, k)
  PROVE  /\ \A i \in DOMAIN new : \E j \in DOMAIN files : j # k /\ new[i] = files[j]
         /\ \A j \in DOMAIN files : j # k => \E i \in DOMAIN new : new[i] = files[j]
         /\ \A i, j \in DOMAIN new : i # j =>
              \E m, n \in DOMAIN files :
                m # k /\ n # k /\ m # n /\ new[i] = files[m] /\ new[j] = files[n]
<1> DEFINE old(i) == IF i < k THEN i ELSE i + 1
<1>1. /\ Len(files) \in Nat /\ DOMAIN files = 1 .. Len(files)
      /\ DOMAIN new = 1 .. Len(files) - 1
      /\ \A i \in DOMAIN new : new[i] = IF i < k THEN files[i] ELSE files[i + 1]
  BY DirectoryFacts, RemovedFacts
<1>2. \A i \in DOMAIN new : old(i) \in DOMAIN files /\ old(i) # k /\ new[i] = files[old(i)]
  BY <1>1
<1>3. \A i, j \in DOMAIN new : i # j => old(i) # old(j)
  BY <1>1
<1>4. \A j \in DOMAIN files : j # k =>
        \E i \in DOMAIN new : new[i] = files[j]
  <2>1. ASSUME NEW j \in DOMAIN files, j < k
        PROVE  j \in DOMAIN new /\ new[j] = files[j]
    BY <2>1, <1>1
  <2>2. ASSUME NEW j \in DOMAIN files, j > k
        PROVE  j - 1 \in DOMAIN new /\ new[j - 1] = files[j]
    <3>1. j - 1 \in 1 .. Len(files) - 1 /\ ~(j - 1 < k) /\ (j - 1) + 1 = j
      BY <2>2, <1>1
    <3>2. QED
      BY <3>1, <1>1
  <2>3. \A j \in DOMAIN files : j # k => j < k \/ j > k
    BY <1>1
  <2>4. QED
    BY <2>1, <2>2, <2>3, Zenon
<1> HIDE DEF old
<1>5. \A i \in DOMAIN new : \E j \in DOMAIN files : j # k /\ new[i] = files[j]
  BY <1>2
<1>6. ASSUME NEW i \in DOMAIN new, NEW j \in DOMAIN new, i # j
      PROVE  \E m, n \in DOMAIN files :
               m # k /\ n # k /\ m # n /\ new[i] = files[m] /\ new[j] = files[n]
  <2>1. old(i) \in DOMAIN files /\ old(i) # k /\ new[i] = files[old(i)]
    BY <1>2
  <2>2. old(j) \in DOMAIN files /\ old(j) # k /\ new[j] = files[old(j)]
    BY <1>2
  <2>3. old(i) # old(j)
    BY <1>3, <1>6
  <2>4. QED
    BY <2>1, <2>2, <2>3
<1>7. QED
  BY <1>4, <1>5, <1>6

\* The directory without number k, and the table without the links of its chain.
LEMMA RemovedApart ==
  ASSUME files \in Directory, fat \in Table, Apart(files, fat), FreeUnlinked(files, fat),
         NEW k \in DOMAIN files, NEW new, new = RemoveAt(files, k),
         NEW u, u = CleanFat(fat, files[k].start)
  PROVE  Apart(new, u) /\ FreeUnlinked(new, u)
<1>1. /\ Apart(files, u) /\ FreeUnlinked(files, u)
      /\ \A c \in Chain(u, files[k].start) : u[c] = END
  BY CleanKeeps
<1>2. /\ \A i \in DOMAIN new : \E j \in DOMAIN files : j # k /\ new[i] = files[j]
      /\ \A j \in DOMAIN files : j # k => \E i \in DOMAIN new : new[i] = files[j]
      /\ \A i, j \in DOMAIN new : i # j =>
           \E m, n \in DOMAIN files :
             m # k /\ n # k /\ m # n /\ new[i] = files[m] /\ new[j] = files[n]
  BY RemovedEntries
<1>3. files \in Seq(FileRecord) /\ new \in Seq(FileRecord)
  BY RemovedFacts, DirectoryFacts
<1>4. Apart(new, u)
  <2>1. \A i \in DOMAIN new : /\ ~Cyclic(u, new[i].start)
                               /\ Chain(u, new[i].start) \cap Chain(u, 0) = {}
    BY <1>1, <1>2 DEF Apart
  <2>2. ASSUME NEW i \in DOMAIN new, NEW j \in DOMAIN new, i # j
        PROVE  Chain(u, new[i].start) \cap Chain(u, new[j].start) = {}
    <3>1. PICK m \in DOMAIN files, n \in DOMAIN files :
                 m # n /\ new[i] = files[m] /\ new[j] = files[n]
      BY <2>2, <1>2
    <3>2. QED
      BY <3>1, <1>1 DEF Apart
  <2>3. QED
    BY <2>1, <2>2, <1>1 DEF Apart
<1>5. FreeUnlinked(new, u)
  <2>1. ASSUME NEW c \in Block, c \notin InUse(new, u)
        PROVE  u[c] = END
    <3>1. /\ c \notin Chain(u, 0)
          /\ \A j \in DOMAIN files : j # k => c \notin Chain(u, files[j].start)
      BY <2>1, <1>2, <1>3, InUseFacts
    <3>2. CASE c \in Chain(u, files[k].start)
      BY <3>2, <1>1
    <3>3. CASE c \notin Chain(u, files[k].start)
      <4>1. c \notin InUse(files, u)
        BY <3>1, <3>3, <1>3, InUseFacts
      <4>2. QED
        BY <4>1, <1>1 DEF FreeUnlinked
    <3>4. QED
      BY <3>2, <3>3
  <2>2. QED
    BY <2>1 DEF FreeUnlinked
<1>6. QED
  BY <1>4, <1>5

\* f_unlink: the blocks of the file become free, and the others keep theirs.
LEMMA FUnlinkKeepsFiles ==
  ASSUME FilesInv, harm = "none", NEW p \in Proc, NEW f \in Name, FUnlink(p, f)
  PROVE  FilesInv'
<1>1. CallInv'
  BY FilesFacts, FUnlinkKeeps
<1>2. /\ CallInv /\ Image(files, fat, data) /\ Writers(files, fat, data, fds)
      /\ files \in Directory /\ files \in Seq(FileRecord) /\ fds \in Tables /\ fat \in Table
      /\ Apart(files, fat) /\ FreeUnlinked(files, fat) /\ Single(fds) /\ ReadOrWrite(fds)
      /\ OnDisk(stored, files)
  BY FilesFacts
<1>3. data' = data /\ ~Spilled' /\ Begun(files, harm)
  BY FilesFacts, KindKept DEF FUnlink, Unlinked
<1>4. CASE UNCHANGED <<files, fat, fds>> /\ (stored' = files' \/ stored' = stored)
  <2>1. OnDisk(stored', files')
    BY <1>2, <1>4, StoredOnDisk
  <2>2. Begun(files', harm')
    BY <1>3, <1>4 DEF Begun
  <2>3. QED
    BY <2>1, <2>2, <1>1, <1>2, <1>3, <1>4 DEF FilesInv
<1>5. CASE ~(UNCHANGED <<files, fat, fds>> /\ (stored' = files' \/ stored' = stored))
  <2>1. /\ f \in NamesOf(files)
        /\ files' = RemoveAt(files, First(f))
        /\ fat' = CleanFat(fat, Entry(f).start)
        /\ fds' = [Forget(f) EXCEPT ![p] = @ \ Dropped(p, f)]
        /\ stored' = files'
    BY <1>5, NamedFacts DEF FUnlink, Unlinked, StoreDirectory
  <2>2. PICK k \in DOMAIN files : files[k].name = f /\ First(f) = k /\ Entry(f) = files[k]
    BY <2>1, <1>2, DescriptorEntry
  <2>3. fat' = CleanFat(fat, files[k].start) /\ files' = RemoveAt(files, k)
    BY <2>1, <2>2
  <2>4. /\ Apart(files, fat') /\ FreeUnlinked(files, fat') /\ OthersSame(k, fat', data)
        /\ \A c \in Chain(fat', files[k].start) : fat'[c] = END
    BY <2>3, <1>2, CleanKeeps
  <2>5. /\ \A i \in DOMAIN files' : \E j \in DOMAIN files : j # k /\ files'[i] = files[j]
        /\ \A j \in DOMAIN files : j # k => \E i \in DOMAIN files' : files'[i] = files[j]
        /\ \A i, j \in DOMAIN files' : i # j =>
             \E m, n \in DOMAIN files :
               m # k /\ n # k /\ m # n /\ files'[i] = files[m] /\ files'[j] = files[n]
    BY <2>3, <1>2, RemovedEntries
  <2>6. files' \in Directory /\ files' \in Seq(FileRecord) /\ OnDisk(stored', files')
    BY <2>1, <1>1, StoredOnDisk, DirectoryFacts DEF CallInv, GoodDirectory
  <2>7. Apart(files', fat') /\ FreeUnlinked(files', fat')
    <3>1. PICK new, u : new = files' /\ u = fat'
      OBVIOUS
    <3>2. Apart(new, u) /\ FreeUnlinked(new, u)
      BY <2>3, <3>1, <1>2, RemovedApart
    <3>3. QED
      BY <3>1, <3>2
  <2>8. \A i \in DOMAIN files' :
          BytesUpTo(fat', data, files'[i].name, files'[i].start, files'[i].size)
    <3>1. ASSUME NEW j \in DOMAIN files, j # k
          PROVE  BytesUpTo(fat', data, files[j].name, files[j].start, files[j].size)
      BY <3>1, <2>4, EntryKept
    <3>2. QED
      BY <3>1, <2>5
  <2>9. \A q \in Proc : \A e \in fds'[q] : e \in fds[q]
    BY <2>1, <1>2 DEF Forget
  <2>10. Single(fds') /\ ReadOrWrite(fds')
    BY <2>9, <1>2, FewerDescriptors
  <2>11. Writers(files', fat', data, fds')
    <3>1. ASSUME NEW q \in Proc, NEW e \in fds'[q], e.file # Terminal, e.mode = "F_WRITE",
                 NEW i \in DOMAIN files', files'[i].name = e.file
          PROVE  AtEnd(fat', data, files'[i], e.pos)
      <4>1. PICK j \in DOMAIN files : j # k /\ files'[i] = files[j]
        BY <2>5
      <4>2. e.pos \in Nat
        BY <2>9, <1>2, LengthsAssumption DEF Tables, DescriptorRecord
      <4>3. AtEnd(fat, data, files[j], e.pos)
        BY <3>1, <4>1, <2>9, <1>2 DEF Writers
      <4>4. AtEnd(fat', data, files[j], e.pos)
        BY <4>1, <4>2, <4>3, <2>4, EntryKept
      <4>5. QED
        BY <4>1, <4>4
    <3>2. QED
      BY <3>1 DEF Writers
  <2>12. Image(files', fat', data')
    BY <2>7, <2>8, <1>3 DEF Image
  <2>13. Begun(files', harm')
    BY <2>5, <1>3, BegunKept
  <2>14. QED
    BY <2>6, <2>10, <2>11, <2>12, <2>13, <1>1, <1>3 DEF FilesInv
<1>6. QED
  BY <1>4, <1>5

-------------------------------------------------------------------------------
(* When a file gets roomless.                                                *)

LEMMA RoomSays ==
  ASSUME NEW new, NEW u,
         \A i \in DOMAIN new :
           \/ Walk(u, new[i].start, new[i].size \div FAT_WIDTH) \in Block
           \/ \E j \in DOMAIN files :
                /\ new[i].name = files[j].name
                /\ Walk(u, new[i].start, new[i].size \div FAT_WIDTH) =
                     Walk(fat, files[j].start, files[j].size \div FAT_WIDTH)
  PROVE  Roomless(new, u) \subseteq Roomless(files, fat)
BY Zenon DEF Roomless

LEMMA OtherRoom ==
  ASSUME FilesInv, NEW i, NEW u, NEW du, OthersSame(i, u, du),
         NEW j \in DOMAIN files, j # i
  PROVE  Walk(u, files[j].start, files[j].size \div FAT_WIDTH) =
           Walk(fat, files[j].start, files[j].size \div FAT_WIDTH)
<1>1. PICK s : s = files[j].start
  OBVIOUS
<1>2. ~Cyclic(fat, s) /\ \A c \in Chain(fat, s) : u[c] = fat[c]
  BY <1>1, FilesFacts DEF Apart, OthersSame, SameChain
<1>3. \A k \in Nat : Walk(u, s, k) = Walk(fat, s, k)
  BY <1>2, SameLinksSameChain
<1>4. files[j].size \div FAT_WIDTH \in Nat
  <2>1. files[j].size \in Nat
    BY FilesFacts, DirectoryFacts, LengthsAssumption
  <2>2. QED
    BY <2>1, DivMod
<1>5. QED
  BY <1>1, <1>3, <1>4

\* What a step does that does not go over the table.
RoomKept ==
  Roomless(files', fat') \subseteq Roomless(files, fat) \/ Block \subseteq InUse(files', fat')

LEMMA SameRoom ==
  ASSUME files' = files, fat' = fat
  PROVE  RoomKept
BY DEF RoomKept

\* At a position before the size there is a byte, in a block.
LEMMA ByteHasBlock ==
  ASSUME NEW t, NEW dt, NEW f, NEW s, NEW n \in Nat, BytesUpTo(t, dt, f, s, n),
         NEW k \in Nat, k < n
  PROVE  Walk(t, s, k \div FAT_WIDTH) \in Block
<1>1. k \in 0 .. n - 1
  OBVIOUS
<1>2. QED
  BY <1>1 DEF BytesUpTo

LEMMA BootRoom ==
  ASSUME FilesInv, Boot
  PROVE  RoomKept
<1>1. /\ files' = stored /\ fat' = fat /\ OnDisk(stored, files) /\ Image(files, fat, data)
      /\ files \in Directory /\ stored \in Directory
  BY FilesFacts DEF Boot, CallInv, GoodDirectory
<1>2. DOMAIN files = DOMAIN stored
  BY <1>1, DirectoryFacts DEF OnDisk
<1>3. ASSUME NEW i \in DOMAIN stored
      PROVE  \/ Walk(fat, stored[i].start, stored[i].size \div FAT_WIDTH) \in Block
             \/ /\ i \in DOMAIN files /\ stored[i].name = files[i].name
                /\ Walk(fat, stored[i].start, stored[i].size \div FAT_WIDTH) =
                     Walk(fat, files[i].start, files[i].size \div FAT_WIDTH)
  <2>1. /\ stored[i].name = files[i].name /\ stored[i].start = files[i].start
        /\ stored[i].size <= files[i].size /\ i \in DOMAIN files
        /\ stored[i].size \in Nat /\ files[i].size \in Nat
    BY <1>1, <1>2, DirectoryFacts, LengthsAssumption DEF OnDisk
  <2>2. CASE stored[i].size = files[i].size
    BY <2>1, <2>2
  <2>3. CASE stored[i].size < files[i].size
    <3>1. BytesUpTo(fat, data, files[i].name, files[i].start, files[i].size)
      BY <1>1, <2>1 DEF Image
    <3>2. QED
      BY <2>1, <2>3, <3>1, ByteHasBlock
  <2>4. QED
    BY <2>1, <2>2, <2>3
<1>4. Roomless(stored, fat) \subseteq Roomless(files, fat)
  BY <1>3, RoomSays
<1>5. QED
  BY <1>1, <1>4 DEF RoomKept

LEMMA OpenOldRoom ==
  ASSUME FilesInv, harm = "none", FilesUse, NEW p \in Proc, NEW f \in Name, NEW mode,
         OpenOld(p, f, mode)
  PROVE  RoomKept
<1>1. CASE mode # "F_WRITE"
  BY <1>1, SameRoom DEF OpenOld
<1>2. CASE mode = "F_WRITE"
  <2>1. /\ CallInv /\ files \in Directory /\ fat \in Table /\ f \in NamesOf(files)
        /\ Apart(files, fat) /\ FreeUnlinked(files, fat) /\ Begun(files, harm)
        /\ GoodDirectory(files)
    BY FilesFacts, NamedFacts DEF OpenOld
  <2>2. PICK i \in DOMAIN files : files[i].name = f /\ Entry(f) = files[i]
    BY <2>1, DescriptorEntry
  <2>3. fat' = CleanFat(fat, files[i].start) /\ files' = Resized(f, 0)
    BY <1>2, <2>2 DEF OpenOld
  <2>4. OthersSame(i, fat', data)
    BY <2>1, <2>3, CleanKeeps
  <2>5. 0 \in 0 .. MaxSize
    BY LengthsAssumption
  <2>6. /\ DOMAIN files' = DOMAIN files
        /\ \A j \in DOMAIN files :
             /\ files'[j].name = files[j].name
             /\ files'[j].start = files[j].start
             /\ files'[j].size = IF files[j].name = f THEN 0 ELSE files[j].size
    BY <2>1, <2>3, <2>5, ResizedFacts
  <2>7. ASSUME NEW j \in DOMAIN files'
        PROVE  \/ Walk(fat', files'[j].start, files'[j].size \div FAT_WIDTH) \in Block
               \/ /\ j \in DOMAIN files /\ files'[j].name = files[j].name
                  /\ Walk(fat', files'[j].start, files'[j].size \div FAT_WIDTH) =
                       Walk(fat, files[j].start, files[j].size \div FAT_WIDTH)
    <3>1. CASE j = i
      <4>1. files'[j].size = 0 /\ files'[j].start \in Block
        BY <2>1, <2>2, <2>6, <3>1 DEF Begun
      <4>2. 0 \div FAT_WIDTH = 0
        BY GeometryAssumption
      <4>3. QED
        BY <4>1, <4>2, WalkZero
    <3>2. CASE j # i
      <4>1. files[j].name # f /\ j \in DOMAIN files
        BY <2>1, <2>2, <2>6, <3>2 DEF GoodDirectory
      <4>2. QED
        BY <2>4, <2>6, <3>2, <4>1, OtherRoom
    <3>3. QED
      BY <3>1, <3>2
  <2>8. Roomless(files', fat') \subseteq Roomless(files, fat)
    <3>1. PICK new, u : new = files' /\ u = fat'
      OBVIOUS
    <3>2. Roomless(new, u) \subseteq Roomless(files, fat)
      BY <2>7, <3>1, RoomSays
    <3>3. QED
      BY <3>1, <3>2
  <2>9. QED
    BY <2>8 DEF RoomKept
<1>3. QED
  BY <1>1, <1>2

LEMMA OpenNewRoom ==
  ASSUME FilesInv, harm = "none", FilesUse, NEW p \in Proc, NEW f \in Name, NEW mode,
         OpenNew(p, f, mode)
  PROVE  RoomKept
<1> DEFINE b == DetermineBlock(files, fat)
           k == Len(files) + 1
<1>1. /\ files \in Directory /\ files \in Seq(FileRecord) /\ fat \in Table
  BY FilesFacts
<1>2. files' = AddFile(f) /\ (fat' = fat \/ fat' = CleanFat(fat, b))
  BY DEF OpenNew
<1>3. b \in Block => \A c \in Chain(fat, b) : fat[c] = END
  BY AddedImage
<1>4. fat' = fat
  <2>1. \A c \in Chain(fat, b) : fat[c] = END
    <3>1. b \notin Block => Chain(fat, b) = {}
      BY NoChain
    <3>2. QED
      BY <3>1, <1>3
  <2>2. CleanFat(fat, b) \in Table /\ \A c \in Block : CleanFat(fat, b)[c] = fat[c]
    BY <2>1, <1>1, CleanFatFacts
  <2>3. QED
    BY <1>1, <1>2, <2>2 DEF Table
<1>5. /\ DOMAIN files = 1 .. Len(files) /\ Len(files) \in Nat
      /\ files' \in Directory /\ DOMAIN files' = 1 .. k
      /\ \A i \in DOMAIN files : i \in DOMAIN files' /\ files'[i] = files[i]
      /\ files'[k] = [name |-> f, start |-> b, size |-> 0]
  BY <1>1, <1>2, DirectoryFacts, AddFileFacts
<1> HIDE DEF b
<1>6. CASE b = MEMFULL
  <2>1. Block \subseteq InUse(files, fat)
    BY <1>1, <1>6, FullFacts DEF b
  <2>2. files' \in Seq(FileRecord)
    BY <1>5, DirectoryFacts
  <2>3. \A c : c \in InUse(files, fat) => c \in InUse(files', fat)
    BY <1>1, <1>5, <2>2, InUseFacts
  <2>4. QED
    BY <1>4, <2>1, <2>3 DEF RoomKept
<1>7. CASE b # MEMFULL
  <2>1. b \in Block
    BY <1>1, <1>7, DetermineBlockFacts DEF b
  <2>2. files'[k].size = 0 /\ files'[k].start = b /\ 0 \div FAT_WIDTH = 0
    BY <1>5, GeometryAssumption
  <2>3. Walk(fat, files'[k].start, files'[k].size \div FAT_WIDTH) \in Block
    BY <2>1, <2>2, WalkZero
  <2>4. \A i \in DOMAIN files' : i = k \/ i \in DOMAIN files
    BY <1>5
  <2>5. Roomless(files', fat) \subseteq Roomless(files, fat)
    <3>1. PICK new : new = files'
      OBVIOUS
    <3>2. Roomless(new, fat) \subseteq Roomless(files, fat)
      BY <1>5, <2>3, <2>4, <3>1, RoomSays
    <3>3. QED
      BY <3>1, <3>2
  <2>6. QED
    BY <1>4, <2>5 DEF RoomKept
<1>8. QED
  BY <1>6, <1>7

LEMMA FUnlinkRoom ==
  ASSUME FilesInv, NEW p \in Proc, NEW f \in Name, FUnlink(p, f)
  PROVE  RoomKept
<1>1. CASE files' = files /\ fat' = fat
  BY <1>1, SameRoom
<1>2. CASE ~(files' = files /\ fat' = fat)
  <2>1. /\ f \in NamesOf(files) /\ files' = RemoveAt(files, First(f))
        /\ fat' = CleanFat(fat, Entry(f).start)
    BY <1>2, NamedFacts DEF FUnlink, Unlinked
  <2>2. /\ CallInv /\ files \in Directory /\ fat \in Table
        /\ Apart(files, fat) /\ FreeUnlinked(files, fat)
    BY FilesFacts
  <2>3. PICK k \in DOMAIN files : First(f) = k /\ Entry(f) = files[k]
    BY <2>1, <2>2, DescriptorEntry
  <2>4. OthersSame(k, fat', data)
    BY <2>1, <2>2, <2>3, CleanKeeps
  <2>5. \A i \in DOMAIN files' : \E j \in DOMAIN files : j # k /\ files'[i] = files[j]
    BY <2>1, <2>2, <2>3, RemovedEntries
  <2>6. PICK new, u : new = files' /\ u = fat'
    OBVIOUS
  <2>7. ASSUME NEW i \in DOMAIN new
        PROVE  \E j \in DOMAIN files :
                 /\ new[i].name = files[j].name
                 /\ Walk(u, new[i].start, new[i].size \div FAT_WIDTH) =
                      Walk(fat, files[j].start, files[j].size \div FAT_WIDTH)
    <3>1. PICK j \in DOMAIN files : j # k /\ new[i] = files[j]
      BY <2>5, <2>6
    <3>2. Walk(u, files[j].start, files[j].size \div FAT_WIDTH) =
            Walk(fat, files[j].start, files[j].size \div FAT_WIDTH)
      BY <2>4, <2>6, <3>1, OtherRoom
    <3>3. QED
      BY <3>1, <3>2
  <2>8. Roomless(new, u) \subseteq Roomless(files, fat)
    BY <2>7, RoomSays
  <2>9. QED
    BY <2>6, <2>8 DEF RoomKept
<1>3. QED
  BY <1>1, <1>2

\* A write leaves the file room for the next byte, unless it has taken the last
\* block there was.
LEMMA FWriteRoom ==
  ASSUME FilesInv, harm = "none", NEW p \in Proc, NEW d \in FileDescriptors(p),
         NEW numb \in Lengths, FWrite(p, d, numb)
  PROVE  IF Spilled' THEN Roomless(files, fat) # {} ELSE RoomKept
<1>1. CASE /\ Spilled'
           /\ \E i \in DOMAIN files :
                Walk(fat, files[i].start, files[i].size \div FAT_WIDTH) \notin Block
  BY <1>1 DEF Roomless
<1>2. CASE UNCHANGED <<files, fat, data, fds>>
  <2>1. ~Spilled' /\ RoomKept
    BY <1>2, FilesFacts, KindKept, SameRoom
  <2>2. QED
    BY <2>1
<1>3. ASSUME NEW i \in DOMAIN files, NEW w \in WriteRecord,
             WritesInChain(d, numb, i, w), WritesAll(p, d, w)
      PROVE  ~Spilled' /\ RoomKept
  <2>1. /\ files[i].name = d.file /\ Between(i, d.pos + numb, w)
        /\ w.size \in 0 .. MaxSize /\ w.data[END] = data[END]
        /\ fat' = w.fat /\ data' = w.data /\ files' = Resized(d.file, w.size)
    BY <1>3 DEF WritesInChain, WritesAll
  <2>2. ~Spilled'
    BY <2>1, FilesFacts, KindKept
  <2>3. files \in Directory /\ GoodDirectory(files)
    BY FilesFacts
  <2>4. /\ DOMAIN files' = DOMAIN files /\ files' \in Directory
        /\ \A j \in DOMAIN files :
             /\ files'[j].name = files[j].name
             /\ files'[j].start = files[j].start
             /\ files'[j].size = IF files[j].name = d.file THEN w.size ELSE files[j].size
    BY <2>1, <2>3, ResizedFacts
  <2>5. /\ HasRoom(i, w) /\ OthersSame(i, w.fat, w.data) /\ w.size <= w.pos
        /\ BytesUpTo(w.fat, w.data, files[i].name, files[i].start, w.pos)
        /\ w.size \in Nat /\ w.pos \in Nat
    BY <2>1 DEF Between, OthersSame, WriteRecord
  <2>6. CASE w.size = w.pos /\ Block \subseteq InUse(files, w.fat)
    <3>1. files \in Seq(FileRecord) /\ files' \in Seq(FileRecord)
      BY <2>3, <2>4, DirectoryFacts
    <3>2. \A c : c \in InUse(files, w.fat) => c \in InUse(files', w.fat)
      BY <2>4, <3>1, InUseFacts
    <3>3. QED
      BY <2>1, <2>2, <2>6, <3>2 DEF RoomKept
  <2>7. CASE Walk(w.fat, files[i].start, w.pos \div FAT_WIDTH) \in Block
    <3>1. Walk(w.fat, files[i].start, w.size \div FAT_WIDTH) \in Block
      <4>1. CASE w.size = w.pos
        BY <2>7, <4>1
      <4>2. CASE w.size < w.pos
        BY <2>5, <4>2, ByteHasBlock
      <4>3. QED
        BY <2>5, <4>1, <4>2
    <3>2. PICK new, u : new = files' /\ u = w.fat
      OBVIOUS
    <3>3. ASSUME NEW j \in DOMAIN new
          PROVE  \/ Walk(u, new[j].start, new[j].size \div FAT_WIDTH) \in Block
                 \/ /\ j \in DOMAIN files /\ new[j].name = files[j].name
                    /\ Walk(u, new[j].start, new[j].size \div FAT_WIDTH) =
                         Walk(fat, files[j].start, files[j].size \div FAT_WIDTH)
      <4>1. CASE j = i
        BY <2>1, <2>4, <3>1, <3>2, <4>1
      <4>2. CASE j # i
        <5>1. files[j].name # d.file /\ j \in DOMAIN files
          BY <2>1, <2>3, <2>4, <3>2, <4>2 DEF GoodDirectory
        <5>2. QED
          BY <2>4, <2>5, <3>2, <4>2, <5>1, OtherRoom
      <4>3. QED
        BY <4>1, <4>2
    <3>4. Roomless(new, u) \subseteq Roomless(files, fat)
      BY <3>3, RoomSays
    <3>5. QED
      BY <2>1, <2>2, <3>2, <3>4 DEF RoomKept
  <2>8. QED
    BY <2>5, <2>6, <2>7 DEF HasRoom
<1>4. QED
  BY <1>1, <1>2, <1>3, FWriteLeaves

-------------------------------------------------------------------------------
(* The theorems.                                                             *)

\* Bytes once written over the table stay there.
LEMMA SpillStays ==
  ASSUME CallInv, Spilled, [Next]_vars
  PROVE  Spilled'
<1>1. CASE \E p \in Proc : Call(p)
  <2>1. PICK p \in Proc : Call(p)
    BY <1>1
  <2>2. CASE \E d \in FileDescriptors(p), numb \in Lengths : FWrite(p, d, numb)
    <3>1. PICK d \in FileDescriptors(p), numb \in Lengths : FWrite(p, d, numb)
      BY <2>2
    <3>2. numb \in Nat \ {0}
      BY LengthsAssumption
    <3>3. Spilled' \/ data'[END] = data[END]
      BY <3>1, <3>2, FWriteKeeps
    <3>4. QED
      BY <3>3, KindKept
  <2>3. CASE data' = data
    BY <2>3, KindKept
  <2>4. QED
    BY <2>1, <2>2, <2>3, Zenon
      DEF Call, OpenOld, OpenNew, FRead, FLseek, FClose, FUnlink, Unlinked, FDup
<1>2. CASE data' = data
  BY <1>2, KindKept
<1>3. QED
  BY <1>1, <1>2, Zenon DEF Next, Respawn, Defragment, Boot, vars

\* What a step leaves: a table written over, because a file had no room; or the
\* files whole, and no file without room but on a full disc.
CallResult == IF Spilled' THEN Roomless(files, fat) # {} ELSE FilesInv' /\ RoomKept

LEMMA FilesStay ==
  ASSUME FilesInv', RoomKept
  PROVE  CallResult
BY DEF CallResult, FilesInv

LEMMA CallKeepsFiles ==
  ASSUME FilesInv, harm = "none", FilesUse, NEW p \in Proc, Call(p)
  PROVE  CallResult
<1>1. CASE \E f \in Name, m \in Modes : OpenOld(p, f, m)
  BY <1>1, OpenOldKeepsFiles, OpenOldRoom, FilesStay
<1>2. CASE \E f \in Name, m \in Modes : OpenNew(p, f, m)
  BY <1>2, OpenNewKeepsFiles, OpenNewRoom, FilesStay
<1>3. CASE \E d \in FileDescriptors(p), n \in Lengths : FWrite(p, d, n)
  <2>1. Spilled' \/ FilesInv'
    BY <1>3, FWriteKeepsFiles
  <2>2. IF Spilled' THEN Roomless(files, fat) # {} ELSE RoomKept
    BY <1>3, FWriteRoom
  <2>3. QED
    BY <2>1, <2>2 DEF CallResult
<1>4. CASE \E d \in FileDescriptors(p), n \in Lengths : \E k \in 0 .. n : FRead(p, d, n, k)
  BY <1>4, FReadKeepsFiles, FReadLeaves, SameRoom, FilesStay
<1>5. CASE \E d \in FileDescriptors(p), pos \in 0 .. MaxSize : FLseek(p, d, pos)
  BY <1>5 DEF FLseek, FilesUse
<1>6. CASE \E n \in 2 .. MaxNumber : FClose(p, n)
  <2>1. RoomKept
    BY <1>6, SameRoom DEF FClose
  <2>2. QED
    BY <1>6, <2>1, FCloseKeepsFiles, FilesStay
<1>7. CASE \E f \in Name : FUnlink(p, f)
  BY <1>7, FUnlinkKeepsFiles, FUnlinkRoom, FilesStay
<1>8. CASE \E n \in {0, 1}, f \in Name : FDup(p, n, f)
  BY <1>8 DEF FDup, FilesUse
<1>9. QED
  BY <1>1, <1>2, <1>3, <1>4, <1>5, <1>6, <1>7, <1>8, Zenon DEF Call

LEMMA NextFiles ==
  ASSUME FilesInv, FilesUse, [Next]_vars
  PROVE  CallResult
<1>1. CASE harm = "none" /\ \E p \in Proc : Call(p)
  BY <1>1, CallKeepsFiles
<1>2. CASE \E p \in Proc : Respawn(p)
  <2>1. RoomKept
    BY <1>2, SameRoom DEF Respawn
  <2>2. QED
    BY <1>2, <2>1, RespawnKeepsFiles, FilesStay
<1>3. CASE Defragment
  BY <1>3 DEF Defragment, FilesUse
<1>4. CASE Boot
  BY <1>4, BootKeepsFiles, BootRoom, FilesStay
<1>5. CASE UNCHANGED vars
  <2>1. CallInv'
    BY <1>5, FilesFacts, NextCallInv
  <2>2. ~Spilled' /\ Begun(files', harm') /\ RoomKept
    BY <1>5, FilesFacts, KindKept, SameRoom DEF vars
  <2>3. FilesInv'
    BY <2>1, <2>2, <1>5 DEF vars, FilesInv
  <2>4. QED
    BY <2>2, <2>3 DEF CallResult
<1>6. QED
  BY <1>1, <1>2, <1>3, <1>4, <1>5, Zenon DEF Next

LEMMA FilesInvariant ==
  ASSUME FilesUse
  PROVE  Spec => [](CallInv /\ (Spilled \/ FilesInv))
<1>1. Init => CallInv /\ (Spilled \/ FilesInv)
  BY InitFiles, InitCallInv
<1>2. CallInv /\ (Spilled \/ FilesInv) /\ [Next]_vars => (CallInv /\ (Spilled \/ FilesInv))'
  BY NextCallInv, NextFiles, SpillStays DEF CallResult
<1>3. QED
  BY <1>1, <1>2, PTL DEF Spec

LEMMA FilesSpilledSays ==
  Spilled \/ FilesInv => ChainsDisjoint /\ FreeBlocksUnlinked /\ BytesInPlace
<1>1. Spilled => ChainsDisjoint /\ FreeBlocksUnlinked /\ BytesInPlace
  BY DEF ChainsDisjoint, FreeBlocksUnlinked, BytesInPlace
<1>2. QED
  BY <1>1, FilesInvSays

\* Used as the programs of the shell use it, the file system never gives a block
\* to two files and never makes a cycle of a chain, so f_open and f_write end,
\* until a write goes over the table; restarts and full discs do not change that.
THEOREM FilesShareNoBlock ==
  ASSUME FilesUse
  PROVE  Spec => []ChainsDisjoint
BY FilesInvariant, FilesSpilledSays, PTL

\* Until then what k_determineBlock hands out is one block, never the rest of an
\* old chain.
THEOREM FreeBlocksAreSingle ==
  ASSUME FilesUse
  PROVE  Spec => []FreeBlocksUnlinked
BY FilesInvariant, FilesSpilledSays, PTL

\* Until then every byte of every file stays where it was written until the file
\* is truncated or unlinked, over writes cut short by a full disc and restarts.
THEOREM FilesKeepTheirBytes ==
  ASSUME FilesUse
  PROVE  Spec => []BytesInPlace
BY FilesInvariant, FilesSpilledSays, PTL

\* And how far `until then' is: a write goes over the table only when some file
\* has no block for its next byte, and a file comes to that only when the disc
\* is full.
THEOREM TableOutlivesRoom ==
  ASSUME FilesUse
  PROVE  Spec => SpilledWhenFull
<1>1. CallInv /\ (Spilled \/ FilesInv) /\ [Next]_vars =>
        [~Spilled =>
           /\ Spilled' => Roomless(files, fat) # {}
           /\ ~Spilled' /\ ~ Roomless(files', fat') \subseteq Roomless(files, fat)
                => Block \subseteq InUse(files', fat')]_vars
  BY NextFiles DEF CallResult, RoomKept
<1>2. QED
  BY <1>1, FilesInvariant, PTL DEF Spec, SpilledWhenFull

-------------------------------------------------------------------------------
(* The copy of the directory on disk.                                        *)

\* A file that grows counts no fewer bytes than the disk says of it.
LEMMA GrownOnDisk ==
  ASSUME CallInv, NEW disk, OnDisk(disk, files), NEW f, f \in NamesOf(files),
         NEW n \in 0 .. MaxSize, Entry(f).size <= n, NEW dir, dir = Resized(f, n),
         disk \in Directory
  PROVE  OnDisk(disk, dir)
<1>1. files \in Directory /\ GoodDirectory(files)
  BY DEF CallInv, GoodDirectory
<1>2. PICK i \in DOMAIN files : files[i].name = f /\ Entry(f) = files[i]
  BY DescriptorEntry
<1>3. /\ Len(dir) = Len(files) /\ DOMAIN dir = DOMAIN files
      /\ \A j \in DOMAIN files :
           /\ dir[j].name = files[j].name
           /\ dir[j].start = files[j].start
           /\ dir[j].size = IF files[j].name = f THEN n ELSE files[j].size
  BY <1>1, ResizedFacts
<1>4. DOMAIN disk = DOMAIN files
  BY <1>1, DirectoryFacts DEF OnDisk
<1>5. \A j \in DOMAIN files : disk[j].size \in Nat /\ files[j].size \in Nat
  BY <1>1, <1>4, DirectoryFacts, LengthsAssumption
<1>6. \A j \in DOMAIN files : files[j].name = f => j = i
  BY <1>1, <1>2 DEF GoodDirectory
<1>7. n \in Nat
  BY LengthsAssumption
<1>8. \A j \in DOMAIN files : disk[j].size <= dir[j].size
  BY <1>2, <1>3, <1>5, <1>6, <1>7 DEF OnDisk
<1>9. QED
  BY <1>3, <1>8 DEF OnDisk

LEMMA CallKeepsDisk ==
  ASSUME CallInv, OnDisk(stored, files), "dup" \notin Calls, NEW p \in Proc, Call(p)
  PROVE  OnDisk(stored', files')
<1>1. CallInv' /\ files' \in Directory /\ files \in Directory /\ stored \in Directory
  BY CallKeeps DEF CallInv, GoodDirectory
<1>2. CASE stored' = files'
  BY <1>1, <1>2, StoredOnDisk
<1>3. CASE files' = files /\ stored' = stored
  BY <1>3
<1>4. CASE \E d \in FileDescriptors(p), numb \in Lengths : FWrite(p, d, numb)
  <2>1. PICK d \in FileDescriptors(p), numb \in Lengths : FWrite(p, d, numb)
    BY <1>4
  <2>2. stored' = files /\ d.file \in NamesOf(files) /\ numb \in Nat \ {0}
    BY <2>1, FWriteCases, FileDescriptorFacts, LengthsAssumption
  <2>3. OnDisk(files, files)
    BY <1>1, StoredOnDisk
  <2>4. \/ files' = files
        \/ \E n \in 0 .. MaxSize : files' = Resized(d.file, n) /\ Entry(d.file).size <= n
    BY <2>1, <2>2, FWriteKeeps
  <2>5. QED
    BY <1>1, <2>2, <2>3, <2>4, GrownOnDisk
<1>5. CASE \E d \in FileDescriptors(p), n \in Lengths : \E k \in 0 .. n : FRead(p, d, n, k)
  <2>1. PICK d \in FileDescriptors(p), n \in Lengths :
               \E k \in 0 .. n : FRead(p, d, n, k)
    BY <1>5
  <2>2. PICK k \in 0 .. n : FRead(p, d, n, k)
    BY <2>1
  <2>3. stored' = stored /\ d.file \in NamesOf(files) /\ n \in Nat
    BY <2>2, <2>1, FileDescriptorFacts, LengthsAssumption DEF FRead
  <2>4. \/ files' = files
        \/ \E m \in 0 .. MaxSize : files' = Resized(d.file, m) /\ Entry(d.file).size <= m
    BY <2>2, <2>3, FReadKeeps
  <2>5. QED
    BY <1>1, <2>3, <2>4, GrownOnDisk
<1>6. ASSUME NEW f \in Name, FUnlink(p, f)
      PROVE  stored' = files' \/ (files' = files /\ stored' = stored)
  BY <1>6 DEF FUnlink, Unlinked, StoreDirectory
<1>7. ASSUME NEW n, FClose(p, n)
      PROVE  stored' = files' \/ (files' = files /\ stored' = stored)
  BY <1>7 DEF FClose
<1>8. QED
  BY <1>2, <1>3, <1>4, <1>5, <1>6, <1>7, Zenon
    DEF Call, OpenOld, OpenNew, StoreDirectory, FLseek, FDup

LEMMA NextKeepsDisk ==
  ASSUME CallInv, OnDisk(stored, files), "dup" \notin Calls, [Next]_vars
  PROVE  OnDisk(stored', files')
<1>1. stored \in Directory
  BY DEF CallInv, GoodDirectory
<1>2. CASE \E p \in Proc : Call(p)
  BY <1>2, CallKeepsDisk
<1>3. CASE Boot
  BY <1>1, <1>3, StoredOnDisk DEF Boot
<1>4. CASE files' = files /\ stored' = stored
  BY <1>4
<1>5. QED
  BY <1>2, <1>3, <1>4, Zenon DEF Next, Respawn, Defragment, vars

\* A restart at any moment finds every file in the directory on disk, with the
\* block it starts in and no more bytes than were written, whatever calls were
\* made but f_dup, and even when the table has been written over.
THEOREM RestartLosesNoFile ==
  ASSUME "dup" \notin Calls
  PROVE  Spec => []DiskListsFiles
<1>1. Init => OnDisk(stored, files)
  BY DEF Init, OnDisk
<1>2. CallInv /\ OnDisk(stored, files) /\ [Next]_vars => OnDisk(stored, files)'
  BY NextKeepsDisk
<1>3. OnDisk(stored, files) => DiskListsFiles
  BY DEF OnDisk, DiskListsFiles
<1>4. QED
  BY <1>1, <1>2, <1>3, CallInvariant, PTL DEF Spec
===============================================================================
