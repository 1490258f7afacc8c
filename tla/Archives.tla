------------------------------ MODULE Archives ------------------------------
(***************************************************************************)
(* What SafeUnpack (internal/transfer/transfer.go) does with one entry of  *)
(* an archive, given the entries before it, and what                       *)
(* VerifyAgainstManifest asks of the files it has written.                 *)
(*                                                                         *)
(* An entry is a record [abs, path, type, size, sha]: a path is the        *)
(* sequence of its elements, a digest stands for the bytes it is the       *)
(* digest of.  A file on disk is a record [path, bytes, sha].              *)
(***************************************************************************)
EXTENDS Integers, Sequences, SequencesExt, FiniteSetsExt

CONSTANTS
  MaxTotalBytes,  \* UnpackOptions; 0 means no limit
  MaxFileBytes,
  MaxEntries

ASSUME LimitsOK == {MaxTotalBytes, MaxFileBytes, MaxEntries} \subseteq Nat

\* filepath.Clean of a path without "..".
Clean(path) ==
  FoldLeft(LAMBDA kept, element : IF element = "." THEN kept ELSE Append(kept, element),
           <<>>, path)

\* The uncompressed bytes of the regular files among the first n entries.
BytesOf(entries, n) ==
  LET total[k \in 0 .. Len(entries)] ==
        IF k = 0 THEN 0
        ELSE total[k - 1] + (IF entries[k].type = "file" THEN entries[k].size ELSE 0)
  IN  total[n]

Escapes(entry) == entry.abs \/ ".." \in ToSet(entry.path)

Repeated(entries, i) ==
  \E k \in 1 .. i - 1 : Clean(entries[k].path) = Clean(entries[i].path)

\* Rejected before anything is written for it.  (The prefix test of the joined
\* path cannot fail any more once Escapes is false.)
Rejected(entries, i) ==
  \/ MaxEntries > 0 /\ i > MaxEntries
  \/ Escapes(entries[i])
  \/ entries[i].type \notin {"dir", "file"}
  \/ Repeated(entries, i)
  \/ /\ entries[i].type = "file"
     /\ MaxFileBytes > 0
     /\ entries[i].size > MaxFileBytes

\* A parent is a file, or a file is to replace a directory: MkdirAll or the
\* exclusive open fails.
Clashes(entries, i) ==
  \E k \in 1 .. i - 1 :
    LET before == Clean(entries[k].path)
        path   == Clean(entries[i].path)
    IN  \/ entries[k].type = "file" /\ IsStrictPrefix(before, path)
        \/ entries[i].type = "file" /\ IsStrictPrefix(path, before)

\* A file that is there already is in the way of entry i: where the entry is to
\* be, above it or below it.
Obstructed(entries, i, files) ==
  LET path == Clean(entries[i].path)
  IN  \E file \in files : \/ IsPrefix(file.path, path)
                          \/ entries[i].type = "file" /\ IsStrictPrefix(path, file.path)

\* What writeFileWithHash is told is left of the total; negative without one.
Remaining(entries, i) == MaxTotalBytes - BytesOf(entries, i - 1)

\* The bytes that reach the disk: the reader stops one byte past the smaller
\* limit, and a remainder of 0 is no limit.
Written(entries, i) ==
  LET left == Remaining(entries, i)
      caps == {limit \in {MaxFileBytes, left} : limit > 0}
  IN  IF caps = {} THEN entries[i].size
                   ELSE Min({entries[i].size, Min(caps) + 1})

\* Mutant: the sum of all files is left to writeFileWithHash.
OverrunsItsCap(entries, i) ==
  LET left == Remaining(entries, i)
  IN  /\ entries[i].type = "file"
      /\ \/ MaxFileBytes > 0 /\ Written(entries, i) > MaxFileBytes
         \/ left > 0 /\ Written(entries, i) > left

\* Found out only after writing.
Overruns(entries, i) ==
  LET left == Remaining(entries, i)
  IN  /\ entries[i].type = "file"
      /\ \/ MaxFileBytes > 0 /\ Written(entries, i) > MaxFileBytes
         \/ left > 0 /\ Written(entries, i) > left
         \/ /\ MaxTotalBytes > 0
            /\ BytesOf(entries, i - 1) + Written(entries, i) > MaxTotalBytes

\* The file that entry i leaves on the disk; none for a directory.
FileOf(entries, i) ==
  LET size == Written(entries, i)
  IN  IF entries[i].type = "dir" THEN {}
      ELSE {[path  |-> Clean(entries[i].path),
             bytes |-> size,
             sha   |-> IF size = entries[i].size THEN entries[i].sha ELSE "truncated"]}

\* Every declared file with its size and digest, the instrument's file if one
\* is named, and nothing else.
VerifyAgainstManifest(extracted, m) ==
  /\ \A declared \in ToSet(m.files) :
       \E file \in extracted : /\ file.path = declared.name
                               /\ file.bytes = declared.bytes
                               /\ file.sha = declared.sha
  /\ m.instrument # <<>> => \E file \in extracted : file.path = m.instrument
  /\ \A file \in extracted :
       \E declared \in ToSet(m.files) : declared.name = file.path
=============================================================================
