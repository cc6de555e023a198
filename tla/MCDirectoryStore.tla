--------------------------- MODULE MCDirectoryStore ---------------------------
(****************************************************************************)
(* An instance of DirectoryStore: names of one, two and three characters.   *)
(* With root, the first two fill block 0 to its last byte, the first and    *)
(* the third but for the zero, and the second makes the third cross: what   *)
(* is left of it in the buffer then follows the first.                      *)
(****************************************************************************)
EXTENDS DirectoryStore

Lengths == [f \in Name \cup {"root"} |->
              CASE f = "root" -> 4 [] f = "a" -> 1 [] f = "sh" -> 2 [] f = "log" -> 3]

\* The blocks outside the directory's chain are written before they are read.
DirectoryBlocks ==
  <<files, fat, [b \in Chain(fat, 0) |-> bytes[b]], stored, status, harm>>
===============================================================================
