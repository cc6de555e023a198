------------------------------- MODULE MCFlatFat -------------------------------
(* The instances of FlatFat that TLC checks. *)
EXTENDS FlatFat, TLC

CONSTANTS p1, p2  \* model values

Both == {p1, p2}
One == {p1}
Symmetry == Permutations(Both)

\* cp names its copy by a character more: one name begins with the other.
LongerName == {<<"ab", "a">>}

\* No guard reads the bytes: where no property does either, states that differ
\* only in them are taken as one, but for whether the table was written over.
WithoutBytes == <<files, fat, fds, stored, harm, Spilled>>

\* Bytes that read as the end of a chain (two of 255), or as no block at all (most).
Entries == {[b \in Block |-> v] : v \in {END, MEMFULL}}

\* Enough for one file at neighbouring numbers of a process and in another's table.
FewOpen ==
  LET open == UNION {{<<p, d>> : d \in FileDescriptors(p)} : p \in Proc}
  IN  Cardinality(open) <= 3

\* Once the table is written over no property of the run looks at the bytes.
BytesOfFiles == IF Spilled THEN WithoutBytes ELSE vars

===============================================================================
