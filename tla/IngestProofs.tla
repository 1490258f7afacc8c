---------------------------- MODULE IngestProofs -----------------------------
(***************************************************************************)
(* Theorems about Ingest, for any manifests, archives, limits and number   *)
(* of workers, attempts and crashes.                                       *)
(***************************************************************************)
EXTENDS Ingest, SequenceTheorems, FiniteSetTheorems, WellFoundedInduction, TLAPS

\* What a handler has loaded.
Loaded == [loaded: RunState \cup {"undeclared"}, manifest: Manifest \cup {None},
           opened: Archive \cup {None}, entry: Nat]

\* The rows: a run is declared with its first manifest and has a pull job only
\* after that; every manifest of it has passed the contract.
RowsTyped ==
  /\ state \in RunState \cup {"undeclared"}
  /\ manifests \in Seq(Manifest) /\ IsInjective(manifests)
  /\ \A m \in Recorded : ValidateAt(Body[m])
  /\ state = "undeclared" <=> manifests = <<>>
  /\ pull \in JobRecord
  /\ posting \/ pull.state # "absent" => manifests # <<>>
  /\ parse \in BOOLEAN /\ posting \in BOOLEAN
  /\ crashes \in 0 .. MaxCrashes

FilesTyped ==
  /\ runFiles \subseteq File
  /\ archive \in Archive \cup {None}
  /\ staged \subseteq File /\ raw \subseteq File
  /\ sealed \in BOOLEAN
  /\ ignored \in 0 .. MaxIgnored

\* A handler past its first step has loaded a manifest of the run, the archive it
\* looks at is there, and it unpacks the entries of one archive in order.
Placed(h) ==
  /\ pc[h] # "idle" => pull.state # "absent"
  /\ pc[h] \notin {"idle", "load"} => local[h].manifest \in Recorded
  /\ pc[h] \in {"hash", "clear"} => archive # None
  /\ pc[h] = "extract" => /\ local[h].opened \in Archive
                          /\ local[h].entry \in 1 .. Len(Entries[local[h].opened]) + 1

HandlersTyped ==
  /\ pc \in [Handler -> Position]
  /\ local \in [Handler -> Loaded]
  /\ \A h \in Handler : Placed(h)

Typed == RowsTyped /\ FilesTyped /\ HandlersTyped

\* With locks that last, one handler executes the pull job at a time.
Alone ==
  \A h \in Handler :
    pc[h] # "idle" => /\ pull.state = "running"
                      /\ \A g \in Handler \ {h} : pc[g] = "idle"

\* Archive a has nothing to stop SafeUnpack among its first n entries.
Passed(a, n) ==
  \A i \in 1 .. n :
    ~Rejected(Entries[a], i) /\ ~Clashes(Entries[a], i) /\ ~Overruns(Entries[a], i)

\* The archive of a manifest is safe and unpacks to what the manifest declares.
Sound(m) == DeclaredFiles(m) = FilesIn(Body[m].archive) /\ Safe(Body[m].archive)

\* A directory holds the files, and nothing else unless an error was passed over.
Keeps(directory, files) ==
  files \subseteq directory /\ (ignored = 0 => directory = files)

\* How far a handler has come, and what the run and the disk look like then.
Reached(h) ==
  LET m == local[h].manifest
      a == local[h].opened
  IN  /\ pc[h] = "begin" /\ local[h].loaded = "pulling" => state = "pulling"
      /\ pc[h] \in {"fetch", "hash", "clear", "extract"} => state = "pulling"
      /\ pc[h] = "verify" => state = "unpacked"
      /\ pc[h] \in {"promote", "seal", "record"} => state = "verified"
      /\ pc[h] = "clear" => archive = Body[m].archive
      /\ pc[h] \in {"extract", "verify", "promote"} => a = Body[m].archive
      /\ pc[h] = "extract" => /\ Keeps(staged, FilesUpTo(a, local[h].entry - 1))
                              /\ Passed(a, local[h].entry - 1)
      /\ pc[h] = "verify" => Passed(a, Len(Entries[a]))
      /\ pc[h] \in {"verify", "promote"} => Keeps(staged, FilesIn(a))
      /\ pc[h] \in {"promote", "seal", "record"} => Sound(m)
      /\ pc[h] \in {"seal", "record"} => raw # {}
      /\ pc[h] \in {"handoff", "done"} => runFiles # {}

\* The states of a run that has been recorded as promoted.
Ingested == PastIngest \cup {"parser_failed", "quarantined"}

Recording ==
  /\ runFiles # {} <=> state \in Ingested
  /\ runFiles # {} => /\ raw # {}
                      /\ \E m \in Recorded : runFiles = DeclaredFiles(m) /\ Sound(m)
  /\ pull.state = "succeeded" => runFiles # {}
  /\ parse => runFiles # {} /\ Described(Head(manifests))

Stored == raw # {} => \E m \in Recorded : Keeps(raw, DeclaredFiles(m)) /\ Sound(m)

\* Whatever is in a directory of the run comes from an archive declared for it.
Sourced == staged \cup raw \subseteq UNION {FilesIn(Body[m].archive) : m \in Recorded}

\* Without a crash no attempt leaves a promotion half done.
Tidy ==
  crashes = 0 =>
    /\ raw # {} /\ runFiles = {} => \E h \in Handler : pc[h] \in {"seal", "record"}
    /\ \A h \in Handler :
         /\ pc[h] \in {"seal", "record"} => Keeps(raw, DeclaredFiles(local[h].manifest))
         /\ pc[h] = "record" /\ ignored = 0 => sealed
    /\ runFiles # {} =>
         /\ Keeps(raw, runFiles) /\ (ignored = 0 => sealed)
         /\ \/ parse \/ ~Described(Head(manifests))
            \/ \E h \in Handler : pc[h] = "handoff"

Undisturbed ==
  /\ Timely
  /\ Alone
  /\ \A h \in Handler : Reached(h)
  /\ Recording
  /\ Stored
  /\ Sourced
  /\ Tidy

Inv == Typed /\ Undisturbed

-----------------------------------------------------------------------------
(***************************************************************************)
(* Induction over the natural numbers, and the total of an archive.        *)
(***************************************************************************)

LEMMA NatWellFounded == IsWellFoundedOn({p \in Nat \X Nat : p[1] < p[2]}, Nat)
BY NatLessThanWellFounded DEF OpToRel

\* A nonempty set of numbers has a least element, by WFMin.
LEMMA Least ==
  ASSUME NEW T \in SUBSET Nat, T # {}
  PROVE  \E n \in T : \A m \in T : n <= m
<1> DEFINE R == {p \in Nat \X Nat : p[1] < p[2]}
<1>1. IsWellFoundedOn(R, Nat)
  BY NatWellFounded
<1>2. \E n \in T : \A m \in T : <<m, n>> \notin R
  BY <1>1, WFMin
<1>3. \A m, n \in Nat : m < n => <<m, n>> \in R
  <2>1. TAKE m, n \in Nat
  <2>2. HAVE m < n
  <2>3. <<m, n>> \in Nat \X Nat /\ <<m, n>>[1] < <<m, n>>[2]
    BY <2>2
  <2>4. QED
    BY <2>3
<1> HIDE DEF R
<1>4. PICK n \in T : \A m \in T : <<m, n>> \notin R
  BY <1>2
<1>5. ASSUME NEW m \in T PROVE n <= m
  <2>1. m \in Nat /\ n \in Nat /\ <<m, n>> \notin R
    BY <1>4
  <2>2. QED
    BY <1>3, <2>1
<1>6. QED
  BY <1>4, <1>5

\* Induction for a set, which needs no operator as a parameter.
LEMMA SetInduction ==
  ASSUME NEW S, 0 \in S, \A n \in Nat : n \in S => n + 1 \in S
  PROVE  Nat \subseteq S
<1>1. SUFFICES ASSUME Nat \ S # {} PROVE FALSE
  OBVIOUS
<1>2. PICK n \in Nat \ S : \A m \in Nat \ S : n <= m
  BY <1>1, Least
<1>3. n - 1 \in Nat /\ n - 1 \in S
  BY <1>2
<1>4. QED
  BY <1>2, <1>3

\* f[k] is the sum of the first k of the numbers size[1], size[2], ...
Sums(f, size, n) ==
  /\ f \in [0 .. n -> Nat]
  /\ f[0] = 0
  /\ \A k \in 1 .. n : f[k] = f[k - 1] + size[k]

LEMMA SumsExist ==
  ASSUME NEW n \in Nat, NEW size \in [1 .. n -> Nat]
  PROVE  \E f : Sums(f, size, n)
<1> DEFINE S == {m \in Nat : m <= n => \E f : Sums(f, size, m)}
<1>1. 0 \in S
  <2>1. Sums([k \in 0 .. 0 |-> 0], size, 0)
    BY DEF Sums
  <2>2. QED
    BY <2>1
<1>2. ASSUME NEW m \in Nat, m \in S
      PROVE  m + 1 \in S
  <2>1. SUFFICES ASSUME m + 1 <= n PROVE \E g : Sums(g, size, m + 1)
    OBVIOUS
  <2>2. PICK f : Sums(f, size, m)
    BY <1>2, <2>1
  <2>3. m + 1 \in 1 .. n /\ size[m + 1] \in Nat /\ f \in [0 .. m -> Nat] /\ f[m] \in Nat
    BY <2>1, <2>2 DEF Sums
  <2> DEFINE g == [k \in 0 .. (m + 1) |-> IF k = m + 1 THEN f[m] + size[m + 1] ELSE f[k]]
  <2>4. \A k \in 0 .. m : k \in 0 .. (m + 1) /\ k # m + 1 /\ g[k] = f[k]
    OBVIOUS
  <2>5. g[m + 1] = f[m] + size[m + 1]
    OBVIOUS
  <2>6. g \in [0 .. (m + 1) -> Nat]
    BY <2>3
  <2> HIDE DEF g
  <2>7. ASSUME NEW k \in 1 .. (m + 1)
        PROVE  g[k] = g[k - 1] + size[k]
    <3>1. CASE k = m + 1
      BY <2>4, <2>5, <3>1
    <3>2. CASE k # m + 1
      <4>1. k \in 1 .. m /\ k \in 0 .. m /\ k - 1 \in 0 .. m
        BY <3>2
      <4>2. QED
        BY <2>2, <2>4, <4>1 DEF Sums
    <3>3. QED
      BY <3>1, <3>2
  <2>8. g[0] = 0
    BY <2>2, <2>4 DEF Sums
  <2>9. Sums(g, size, m + 1)
    BY <2>6, <2>7, <2>8 DEF Sums
  <2>10. QED
    BY <2>9
<1>3. Nat \subseteq S
  <2> HIDE DEF S
  <2>1. QED
    BY <1>1, <1>2, SetInduction
<1>4. QED
  BY <1>3

Entry == [abs: BOOLEAN, path: Seq(STRING), type: STRING, size: Nat, sha: STRING]

\* What an entry adds to the total.
Size(entry) == IF entry.type = "file" THEN entry.size ELSE 0

\* The total is what its recursive definition says.
LEMMA BytesSteps ==
  ASSUME NEW entries \in Seq(Entry)
  PROVE  /\ BytesOf(entries, 0) = 0
         /\ \A k \in 1 .. Len(entries) :
              BytesOf(entries, k) = BytesOf(entries, k - 1) + Size(entries[k])
         /\ \A k \in 0 .. Len(entries) : BytesOf(entries, k) \in Nat
<1> DEFINE Total ==
             CHOOSE total :
               total = [k \in 0 .. Len(entries) |->
                         IF k = 0 THEN 0
                         ELSE total[k - 1]
                              + (IF entries[k].type = "file" THEN entries[k].size ELSE 0)]
<1>1. \A n : BytesOf(entries, n) = Total[n]
  BY DEF BytesOf
<1> DEFINE size == [k \in 1 .. Len(entries) |-> Size(entries[k])]
<1>2. Len(entries) \in Nat /\ size \in [1 .. Len(entries) -> Nat]
  <2>1. \A k \in 1 .. Len(entries) : entries[k] \in Entry
    OBVIOUS
  <2>2. \A k \in 1 .. Len(entries) : Size(entries[k]) \in Nat
    BY <2>1 DEF Size, Entry
  <2>3. QED
    BY <2>2
<1>3. PICK f : Sums(f, size, Len(entries))
  BY <1>2, SumsExist
<1>4. f = [k \in 0 .. Len(entries) |->
            IF k = 0 THEN 0
            ELSE f[k - 1] + (IF entries[k].type = "file" THEN entries[k].size ELSE 0)]
  <2>1. ASSUME NEW k \in 0 .. Len(entries)
        PROVE  f[k] = IF k = 0 THEN 0
                      ELSE f[k - 1]
                           + (IF entries[k].type = "file" THEN entries[k].size ELSE 0)
    BY <1>3 DEF Sums, Size
  <2>2. f \in [0 .. Len(entries) -> Nat]
    BY <1>3 DEF Sums
  <2>3. QED
    BY <2>1, <2>2
<1>5. Total = [k \in 0 .. Len(entries) |->
                IF k = 0 THEN 0
                ELSE Total[k - 1]
                     + (IF entries[k].type = "file" THEN entries[k].size ELSE 0)]
  BY <1>4
<1> HIDE DEF Total
<1>6. Total[0] = 0 /\ \A k \in 1 .. Len(entries) : Total[k] = Total[k - 1] + Size(entries[k])
  BY <1>2, <1>5 DEF Size
<1>7. \A k \in 0 .. Len(entries) : Total[k] \in Nat
  <2> DEFINE S == {k \in Nat : k <= Len(entries) => Total[k] \in Nat}
  <2>1. 0 \in S
    BY <1>6
  <2>2. ASSUME NEW k \in Nat, k \in S
        PROVE  k + 1 \in S
    <3>1. SUFFICES ASSUME k + 1 <= Len(entries) PROVE Total[k + 1] \in Nat
      OBVIOUS
    <3>2. k + 1 \in 1 .. Len(entries) /\ (k + 1) - 1 = k /\ Total[k] \in Nat
      BY <1>2, <2>2, <3>1
    <3>3. size[k + 1] \in Nat /\ size[k + 1] = Size(entries[k + 1])
      BY <1>2, <3>2
    <3>4. QED
      BY <1>6, <3>2, <3>3
  <2> HIDE DEF S
  <2>3. Nat \subseteq S
    BY <2>1, <2>2, SetInduction
  <2>4. QED
    BY <2>3 DEF S
<1>8. QED
  BY <1>1, <1>6, <1>7

LEMMA MinOf ==
  ASSUME NEW x \in Int, NEW y \in Int
  PROVE  /\ Min({x, y}) \in {x, y} /\ Min({x, y}) <= x /\ Min({x, y}) <= y
         /\ Min({x}) = x
<1>1. \E z \in {x, y} : \A u \in {x, y} : z <= u
  OBVIOUS
<1>2. Min({x, y}) \in {x, y} /\ \A u \in {x, y} : Min({x, y}) <= u
  BY <1>1 DEF Min
<1>3. Min({x}) = x
  BY DEF Min
<1>4. QED
  BY <1>2, <1>3

\* A file that does not overrun its limits is written in full.
LEMMA WrittenInFull ==
  ASSUME NEW a \in Archive, NEW i \in 1 .. Len(Entries[a]),
         Entries[a][i].type = "file", ~Overruns(Entries[a], i)
  PROVE  Written(Entries[a], i) = Entries[a][i].size
<1> DEFINE entries == Entries[a]
           left == Remaining(entries, i)
           size == entries[i].size
           caps == {limit \in {MaxFileBytes, left} : limit > 0}
<1>1. entries \in Seq(Entry) /\ entries[i] \in Entry /\ size \in Nat
  <2>1. entries \in Seq(Entry)
    BY IngestConstantsOK DEF Entry, Archive
  <2>2. entries[i] \in Entry
    BY <2>1
  <2>3. QED
    BY <2>1, <2>2 DEF Entry
<1>2. left \in Int /\ MaxFileBytes \in Nat
  <2>1. i - 1 \in 0 .. Len(entries)
    BY <1>1
  <2>2. BytesOf(entries, i - 1) \in Nat
    BY <1>1, <2>1, BytesSteps
  <2>3. QED
    BY <2>2, LimitsOK DEF Remaining
<1>3. /\ Written(entries, i) = IF caps = {} THEN size ELSE Min({size, Min(caps) + 1})
      /\ ~(MaxFileBytes > 0 /\ Written(entries, i) > MaxFileBytes)
      /\ ~(left > 0 /\ Written(entries, i) > left)
  BY DEF Written, Overruns
<1> HIDE DEF left, size, entries
<1>4. CASE caps = {}
  BY <1>3, <1>4 DEF size, entries
<1>5. CASE caps # {}
  <2>1. \E x, y \in Int : caps = {x, y}
    <3>1. caps = {MaxFileBytes, left} \/ caps = {MaxFileBytes, MaxFileBytes} \/ caps = {left, left}
      BY <1>2, <1>5
    <3>2. QED
      BY <1>2, <3>1
  <2>2. Min(caps) \in caps /\ Min(caps) \in {MaxFileBytes, left} /\ Min(caps) > 0
    <3>1. \A limit \in caps : limit \in {MaxFileBytes, left} /\ limit > 0
      OBVIOUS
    <3> HIDE DEF caps
    <3>2. PICK x \in Int, y \in Int : caps = {x, y}
      BY <2>1
    <3>3. Min({x, y}) \in {x, y}
      BY MinOf
    <3>4. QED
      BY <3>1, <3>2, <3>3
  <2> HIDE DEF caps
  <2>3. Min({size, Min(caps) + 1}) \in {size, Min(caps) + 1}
    <3>1. size \in Int /\ Min(caps) + 1 \in Int
      BY <1>1, <1>2, <2>2
    <3>2. \A x, y \in Int : Min({x, y}) \in {x, y}
      BY MinOf
    <3>3. QED
      BY <3>1, <3>2, Zenon
  <2>4. Written(entries, i) # Min(caps) + 1
    BY <1>2, <1>3, <2>2
  <2>5. QED
    BY <1>3, <1>5, <2>3, <2>4 DEF size, entries
<1>6. QED
  BY <1>4, <1>5

\* Entries that have not stopped SafeUnpack are within the total.
LEMMA WithinTotal ==
  ASSUME NEW a \in Archive, NEW n \in 0 .. Len(Entries[a]), Passed(a, n), MaxTotalBytes > 0
  PROVE  BytesOf(Entries[a], n) <= MaxTotalBytes
<1> DEFINE entries == Entries[a]
           S == {i \in Nat : i <= n => BytesOf(entries, i) <= MaxTotalBytes}
<1>1. entries \in Seq(Entry) /\ Len(entries) \in Nat /\ n \in Nat
  BY IngestConstantsOK DEF Entry, Archive
<1>2. 0 \in S
  BY <1>1, BytesSteps, LimitsOK
<1>3. ASSUME NEW i \in Nat, i \in S
      PROVE  i + 1 \in S
  <2>1. SUFFICES ASSUME i + 1 <= n PROVE BytesOf(entries, i + 1) <= MaxTotalBytes
    OBVIOUS
  <2>2. /\ i + 1 \in 1 .. n /\ i + 1 \in 1 .. Len(entries) /\ i \in 0 .. Len(entries)
        /\ (i + 1) - 1 = i /\ BytesOf(entries, i) <= MaxTotalBytes
    BY <1>1, <1>3, <2>1
  <2>3. /\ BytesOf(entries, i + 1) = BytesOf(entries, i) + Size(entries[i + 1])
        /\ BytesOf(entries, i) \in Nat /\ entries[i + 1].size \in Nat
    <3>1. entries[i + 1] \in Entry
      BY <1>1, <2>2
    <3>2. QED
      BY <1>1, <2>2, <3>1, BytesSteps DEF Entry
  <2>4. ~Overruns(entries, i + 1)
    BY <2>2 DEF Passed
  <2>5. CASE entries[i + 1].type = "file"
    <3>1. Written(entries, i + 1) = entries[i + 1].size
      BY <2>2, <2>4, <2>5, WrittenInFull
    <3>2. ~(BytesOf(entries, (i + 1) - 1) + Written(entries, i + 1) > MaxTotalBytes)
      BY <2>4, <2>5 DEF Overruns
    <3>3. QED
      BY <2>2, <2>3, <2>5, <3>1, <3>2, LimitsOK DEF Size
  <2>6. CASE entries[i + 1].type # "file"
    BY <2>2, <2>3, <2>6 DEF Size
  <2>7. QED
    BY <2>5, <2>6
<1> HIDE DEF S
<1>4. Nat \subseteq S
  BY <1>2, <1>3, SetInduction
<1>5. QED
  BY <1>1, <1>4 DEF S

\* An archive that has nothing to stop SafeUnpack is safe, and its files have
\* different paths.
LEMMA PassedIsSafe ==
  ASSUME NEW a \in Archive, Passed(a, Len(Entries[a]))
  PROVE  /\ Safe(a)
         /\ \A f, g \in FilesIn(a) : f.path = g.path => f = g
<1> DEFINE entries == Entries[a]
           n == Len(entries)
<1>1. entries \in Seq(Entry) /\ n \in Nat /\ DOMAIN entries = 1 .. n
  BY IngestConstantsOK DEF Entry, Archive
<1>2. \A i \in 1 .. n : entries[i] \in Entry
  BY <1>1
<1>3. \A i \in 1 .. n : /\ ~Rejected(entries, i) /\ ~Overruns(entries, i)
  BY DEF Passed
<1>4. \A i \in 1 .. n : /\ entries[i].type \in {"dir", "file"}
                        /\ ~entries[i].abs /\ ".." \notin ToSet(entries[i].path)
                        /\ ~(MaxEntries > 0 /\ i > MaxEntries)
                        /\ ~Repeated(entries, i)
                        /\ entries[i].type = "file" =>
                             MaxFileBytes = 0 \/ entries[i].size <= MaxFileBytes
  BY <1>2, <1>3, LimitsOK DEF Rejected, Escapes, Entry
<1>5. \A i, k \in 1 .. n : Clean(entries[k].path) = Clean(entries[i].path) => k = i
  <2>1. ASSUME NEW i \in 1 .. n, NEW k \in 1 .. n, k < i
        PROVE  Clean(entries[k].path) # Clean(entries[i].path)
    <3>1. k \in 1 .. i - 1
      BY <2>1
    <3>2. ~Repeated(entries, i)
      BY <1>4
    <3>3. QED
      BY <3>1, <3>2 DEF Repeated
  <2>2. QED
    BY <2>1
<1>6. MaxTotalBytes > 0 => BytesOf(entries, n) <= MaxTotalBytes
  BY <1>1, WithinTotal
<1>7. MaxEntries > 0 => n <= MaxEntries
  <2>1. CASE n = 0
    BY <2>1, LimitsOK
  <2>2. CASE n # 0
    <3>1. n \in 1 .. n
      BY <1>1, <2>2
    <3>2. ~(MaxEntries > 0 /\ n > MaxEntries)
      BY <1>4, <3>1
    <3>3. QED
      BY <1>1, <3>2, LimitsOK
  <2>3. QED
    BY <2>1, <2>2
<1>8. BytesOf(entries, n) \in Nat
  BY <1>1, BytesSteps
<1> HIDE DEF n
<1>9. Safe(a)
  <2>1. \A entry \in ToSet(entries) : \E i \in 1 .. n : entry = entries[i]
    BY <1>1 DEF ToSet
  <2>2. \A entry \in ToSet(entries) :
          /\ entry.type \in {"dir", "file"}
          /\ ~entry.abs /\ ".." \notin ToSet(entry.path)
          /\ entry.type = "file" => MaxFileBytes = 0 \/ entry.size <= MaxFileBytes
    <3>1. TAKE entry \in ToSet(entries)
    <3>2. PICK i \in 1 .. n : entry = entries[i]
      BY <2>1
    <3>3. QED
      BY <1>4, <3>2
  <2>3. IsInjective([i \in DOMAIN entries |-> Clean(entries[i].path)])
    BY <1>1, <1>5 DEF IsInjective
  <2>4. /\ MaxEntries = 0 \/ n <= MaxEntries
        /\ MaxTotalBytes = 0 \/ BytesOf(entries, n) <= MaxTotalBytes
    BY <1>6, <1>7, LimitsOK
  <2>5. QED
    BY <2>2, <2>3, <2>4 DEF Safe, n
<1>10. ASSUME NEW f \in FilesIn(a), NEW g \in FilesIn(a), f.path = g.path
       PROVE  f = g
  <2>1. PICK i \in 1 .. n : f \in FileOf(entries, i)
    BY DEF FilesIn, FilesUpTo, n
  <2>2. PICK k \in 1 .. n : g \in FileOf(entries, k)
    BY DEF FilesIn, FilesUpTo, n
  <2>3. f.path = Clean(entries[i].path) /\ g.path = Clean(entries[k].path)
    BY <2>1, <2>2 DEF FileOf
  <2>4. i = k
    BY <1>5, <1>10, <2>3
  <2>5. QED
    BY <2>1, <2>2, <2>4 DEF FileOf
<1>11. QED
  BY <1>9, <1>10

\* What VerifyAgainstManifest lets through is what the manifest declares: every
\* file of it, and no other.
LEMMA VerifiedIsSound ==
  ASSUME NEW m \in Manifest, Passed(Body[m].archive, Len(Entries[Body[m].archive])),
         VerifyAgainstManifest(FilesIn(Body[m].archive), Body[m])
  PROVE  Sound(m)
<1> DEFINE a == Body[m].archive
           files == FilesIn(a)
<1>1. a \in Archive
  BY IngestConstantsOK DEF Archive
<1>2. Safe(a) /\ \A f, g \in files : f.path = g.path => f = g
  BY <1>1, PassedIsSafe
<1>3. \A f \in files : f = [path |-> f.path, bytes |-> f.bytes, sha |-> f.sha]
  <2>1. ASSUME NEW f \in files
        PROVE  f = [path |-> f.path, bytes |-> f.bytes, sha |-> f.sha]
    <3>1. PICK i \in 1 .. Len(Entries[a]) : f \in FileOf(Entries[a], i)
      BY DEF FilesIn, FilesUpTo
    <3>2. QED
      BY <3>1 DEF FileOf
  <2>2. QED
    BY <2>1
<1>4. \A d \in ToSet(Body[m].files) :
        \E f \in files : f.path = d.name /\ f.bytes = d.bytes /\ f.sha = d.sha
  BY DEF VerifyAgainstManifest
<1>5. \A f \in files : \E d \in ToSet(Body[m].files) : d.name = f.path
  BY DEF VerifyAgainstManifest
<1> HIDE DEF files
<1>6. \A d \in ToSet(Body[m].files) :
        [path |-> d.name, bytes |-> d.bytes, sha |-> d.sha] \in files
  BY <1>3, <1>4
<1>7. DeclaredFiles(m) \subseteq files
  BY <1>6 DEF DeclaredFiles
<1>8. ASSUME NEW f \in files
      PROVE  f \in DeclaredFiles(m)
  <2>1. PICK d \in ToSet(Body[m].files) : d.name = f.path
    BY <1>5
  <2>2. PICK g \in files : g.path = d.name /\ g.bytes = d.bytes /\ g.sha = d.sha
    BY <1>4
  <2>3. f = g
    BY <1>2, <2>1, <2>2
  <2>4. f = [path |-> d.name, bytes |-> d.bytes, sha |-> d.sha]
    BY <1>3, <2>2, <2>3
  <2>5. QED
    BY <2>4 DEF DeclaredFiles
<1>9. QED
  BY <1>2, <1>7, <1>8 DEF Sound, files

\* A manifest that has passed the contract declares a file.
LEMMA ValidDeclares ==
  ASSUME NEW m \in Manifest, ValidateAt(Body[m])
  PROVE  DeclaredFiles(m) # {}
<1>1. "files" \notin FieldErrors(Body[m])
  BY DEF ValidateAt
<1>2. Body[m].files # <<>>
  BY <1>1 DEF FieldErrors
<1>3. Body[m].files[1] \in ToSet(Body[m].files)
  BY <1>2, IngestConstantsOK DEF ToSet
<1>4. QED
  BY <1>3 DEF DeclaredFiles

\* A path of one element is clean already.
LEMMA OneElement ==
  ASSUME NEW e, e # "."
  PROVE  Clean(<<e>>) = <<e>>
<1> DEFINE kept == [s \in SUBSET {1} |-> IF s = {} THEN <<>> ELSE <<e>>]
           iter == CHOOSE it :
                     it = [s \in SUBSET (DOMAIN <<e>>) |->
                            IF s = {} THEN <<>>
                            ELSE IF <<e>>[Max(s)] = "." THEN it[s \ {Max(s)}]
                                 ELSE Append(it[s \ {Max(s)}], <<e>>[Max(s)])]
<1>1. DOMAIN <<e>> = {1} /\ <<e>>[1] = e
  OBVIOUS
<1>2. Max({1}) = 1
  BY DEF Max
<1>3. Clean(<<e>>) = iter[DOMAIN <<e>>]
  BY DEF Clean, FoldLeft, MapThenFoldSet
<1>4. kept = [s \in SUBSET (DOMAIN <<e>>) |->
               IF s = {} THEN <<>>
               ELSE IF <<e>>[Max(s)] = "." THEN kept[s \ {Max(s)}]
                    ELSE Append(kept[s \ {Max(s)}], <<e>>[Max(s)])]
  <2>1. SUBSET {1} = {{}, {1}} /\ {1} \ {1} = {}
    OBVIOUS
  <2>2. kept[{}] = <<>> /\ kept[{1}] = <<e>>
    BY <2>1
  <2>3. Append(<<>>, e) = <<e>>
    OBVIOUS
  <2>4. kept = [s \in SUBSET {1} |-> kept[s]]
    OBVIOUS
  <2> HIDE DEF kept
  <2>5. ASSUME NEW s \in SUBSET {1}
        PROVE  kept[s] = IF s = {} THEN <<>>
                         ELSE IF <<e>>[Max(s)] = "." THEN kept[s \ {Max(s)}]
                              ELSE Append(kept[s \ {Max(s)}], <<e>>[Max(s)])
    <3>1. CASE s = {}
      BY <2>2, <3>1
    <3>2. CASE s # {}
      <4>1. s = {1}
        BY <2>1, <3>2
      <4>2. Max(s) = 1 /\ <<e>>[Max(s)] = e /\ s \ {Max(s)} = {}
        BY <1>1, <1>2, <2>1, <4>1
      <4>3. QED
        BY <2>2, <2>3, <3>2, <4>1, <4>2
    <3>3. QED
      BY <3>1, <3>2
  <2>6. QED
    BY <1>1, <2>4, <2>5
<1>5. iter = [s \in SUBSET (DOMAIN <<e>>) |->
               IF s = {} THEN <<>>
               ELSE IF <<e>>[Max(s)] = "." THEN iter[s \ {Max(s)}]
                    ELSE Append(iter[s \ {Max(s)}], <<e>>[Max(s)])]
  BY <1>4
<1> HIDE DEF iter
<1>6. iter[{}] = <<>> /\ iter[{1}] = <<e>>
  <2>1. {} \in SUBSET {1} /\ {1} \in SUBSET {1} /\ {1} \ {1} = {} /\ {1} # {}
    OBVIOUS
  <2>2. iter[{}] = <<>>
    BY <1>1, <1>5, <2>1
  <2>3. iter[{1}] = Append(<<>>, e)
    BY <1>1, <1>2, <1>5, <2>1, <2>2
  <2>4. QED
    BY <2>2, <2>3
<1>7. QED
  BY <1>1, <1>3, <1>6

\* What the contract asks of the names of files.
LEMMA ValidNames ==
  ASSUME NEW m \in Manifest, ValidateAt(Body[m])
  PROVE  /\ \A i, k \in DOMAIN Body[m].files :
              Body[m].files[i].name = Body[m].files[k].name => i = k
         /\ \A i \in DOMAIN Body[m].files :
              \E e : Body[m].files[i].name = <<e>> /\ e \notin {".", ".."}
         /\ Body[m].instrument # <<>> =>
              \E i \in DOMAIN Body[m].files : Body[m].files[i].name = Body[m].instrument
<1> DEFINE files == Body[m].files
           names == NamesOf(Body[m])
<1>1. "files" \notin FieldErrors(Body[m]) /\ "instrument_json" \notin FieldErrors(Body[m])
  BY DEF ValidateAt
<1>2. /\ IsInjective(names)
      /\ \A file \in ToSet(files) : ~Unsound(file.name)
      /\ ~Unlisted(Body[m])
  BY <1>1 DEF FieldErrors
<1>3. files \in Seq([name: Seq(STRING), bytes: Int, sha: STRING])
  BY IngestConstantsOK
<1>4. DOMAIN names = DOMAIN files /\ \A i \in DOMAIN files : names[i] = files[i].name
  BY DEF NamesOf
<1>5. \A i, k \in DOMAIN files : files[i].name = files[k].name => i = k
  BY <1>2, <1>4 DEF IsInjective
<1>6. ASSUME NEW i \in DOMAIN files
      PROVE  \E e : files[i].name = <<e>> /\ e \notin {".", ".."}
  <2>1. files[i].name \in Seq(STRING) /\ files[i] \in ToSet(files)
    <3>1. files[i] \in [name: Seq(STRING), bytes: Int, sha: STRING]
      <4>1. DOMAIN files = 1 .. Len(files)
        BY <1>3
      <4> HIDE DEF files
      <4>2. QED
        BY <1>3, <4>1, ElementOfSeq
    <3>2. files[i] \in ToSet(files)
      BY DEF ToSet
    <3>3. QED
      BY <3>1, <3>2
  <2>2. Len(files[i].name) = 1 /\ files[i].name \notin {<<".">>, <<"..">>}
    BY <1>2, <2>1 DEF Unsound
  <2>3. files[i].name = <<files[i].name[1]>>
    BY <2>1, <2>2
  <2>4. QED
    BY <2>2, <2>3
<1>7. ASSUME Body[m].instrument # <<>>
      PROVE  \E i \in DOMAIN files : files[i].name = Body[m].instrument
  BY <1>2, <1>4, <1>7 DEF Unlisted, ToSet
<1>8. QED
  BY <1>5, <1>6, <1>7

\* A manifest that has passed the contract can be ingested.
LEMMA ValidIsSatisfiable ==
  ASSUME NEW m \in Manifest, ValidateAt(Body[m]),
         NEW packed,
         packed = [i \in DOMAIN Body[m].files |->
                    [abs  |-> FALSE, path |-> Body[m].files[i].name,
                     type |-> "file", size |-> 0, sha |-> Body[m].files[i].sha]]
  PROVE  /\ VerifyAgainstManifest(DeclaredFiles(m), Body[m])
         /\ \A i \in DOMAIN packed :
              ~Escapes(packed[i]) /\ ~Repeated(packed, i) /\ ~Clashes(packed, i)
<1> DEFINE files == Body[m].files
           row(f) == [path |-> f.name, bytes |-> f.bytes, sha |-> f.sha]
<1>1. files \in Seq([name: Seq(STRING), bytes: Int, sha: STRING])
  BY IngestConstantsOK
<1>2. VerifyAgainstManifest(DeclaredFiles(m), Body[m])
  <2>1. \A f \in ToSet(files) : row(f) \in DeclaredFiles(m)
    BY DEF DeclaredFiles
  <2>2. \A file \in DeclaredFiles(m) : \E f \in ToSet(files) : f.name = file.path
    BY DEF DeclaredFiles
  <2>3. ASSUME Body[m].instrument # <<>>
        PROVE  \E file \in DeclaredFiles(m) : file.path = Body[m].instrument
    <3>1. PICK i \in DOMAIN files : files[i].name = Body[m].instrument
      BY <2>3, ValidNames
    <3>2. files[i] \in ToSet(files)
      BY <1>1, <3>1 DEF ToSet
    <3>3. row(files[i]) \in DeclaredFiles(m) /\ row(files[i]).path = Body[m].instrument
      BY <2>1, <3>1, <3>2
    <3>4. QED
      BY <3>3
  <2>4. ASSUME NEW f \in ToSet(files)
        PROVE  \E file \in DeclaredFiles(m) :
                 file.path = f.name /\ file.bytes = f.bytes /\ file.sha = f.sha
    <3>1. row(f).path = f.name /\ row(f).bytes = f.bytes /\ row(f).sha = f.sha
      OBVIOUS
    <3>2. QED
      BY <2>1, <3>1
  <2>5. QED
    BY <2>2, <2>3, <2>4 DEF VerifyAgainstManifest
<1>3. ASSUME NEW i \in DOMAIN packed
      PROVE  ~Escapes(packed[i]) /\ ~Repeated(packed, i) /\ ~Clashes(packed, i)
  <2>1. /\ DOMAIN packed = DOMAIN files
        /\ \A k \in DOMAIN files : packed[k].path = files[k].name /\ ~packed[k].abs
        /\ 1 .. i - 1 \subseteq DOMAIN files /\ \A k \in 1 .. i - 1 : k # i
    BY <1>1
  <2>2. ASSUME NEW k \in DOMAIN files
        PROVE  \E e : packed[k].path = <<e>> /\ e # ".." /\ Clean(packed[k].path) = <<e>>
    <3>1. PICK e : files[k].name = <<e>> /\ e \notin {".", ".."}
      BY ValidNames
    <3>2. QED
      BY <2>1, <3>1, OneElement
  <2>3. PICK e : packed[i].path = <<e>> /\ e # ".." /\ Clean(packed[i].path) = <<e>>
    BY <2>1, <2>2
  <2>4. ~Escapes(packed[i])
    <3>1. ToSet(<<e>>) = {e} /\ packed[i].abs = FALSE
      BY <1>3 DEF ToSet
    <3>2. QED
      BY <2>3, <3>1 DEF Escapes
  <2>5. ASSUME NEW k \in 1 .. i - 1
        PROVE  \E d : Clean(packed[k].path) = <<d>> /\ d # e
    <3>1. PICK d : packed[k].path = <<d>> /\ Clean(packed[k].path) = <<d>>
      BY <2>1, <2>2
    <3>2. files[k].name # files[i].name
      <4>1. i \in DOMAIN files /\ k \in DOMAIN files /\ k # i
        BY <1>3, <2>1
      <4>2. QED
        BY <4>1, ValidNames
    <3>3. <<d>> # <<e>>
      BY <1>3, <2>1, <2>3, <3>1, <3>2
    <3>4. QED
      BY <3>1, <3>3
  <2>6. ASSUME NEW k \in 1 .. i - 1
        PROVE  /\ Clean(packed[k].path) # Clean(packed[i].path)
               /\ ~IsStrictPrefix(Clean(packed[k].path), Clean(packed[i].path))
               /\ ~IsStrictPrefix(Clean(packed[i].path), Clean(packed[k].path))
    <3>1. PICK d : Clean(packed[k].path) = <<d>> /\ d # e
      BY <2>5
    <3>2. <<d>> # <<e>>
      BY <3>1
    <3>3. /\ Len(<<d>>) = 1 /\ Len(<<e>>) = 1
          /\ SubSeq(<<d>>, 1, 1) = <<d>> /\ SubSeq(<<e>>, 1, 1) = <<e>>
      <4>1. <<d>> \in Seq({d}) /\ <<e>> \in Seq({e}) /\ Len(<<d>>) = 1 /\ Len(<<e>>) = 1
        OBVIOUS
      <4>2. SubSeq(<<d>>, 1, Len(<<d>>)) = <<d>> /\ SubSeq(<<e>>, 1, Len(<<e>>)) = <<e>>
        BY <4>1, SubSeqFull
      <4>3. QED
        BY <4>1, <4>2
    <3>4. ~IsStrictPrefix(<<d>>, <<e>>) /\ ~IsStrictPrefix(<<e>>, <<d>>)
      BY <3>2, <3>3 DEF IsStrictPrefix, IsPrefix
    <3>5. QED
      BY <2>3, <3>1, <3>2, <3>4
  <2>7. QED
    BY <2>4, <2>6 DEF Repeated, Clashes
<1>4. QED
  BY <1>2, <1>3

-----------------------------------------------------------------------------
(***************************************************************************)
(* What the steps do to the rows, whoever takes them.                      *)
(***************************************************************************)

LEMMA Edges ==
  ASSUME NEW from, NEW to, CanTransition(from, to)
  PROVE  from \in RunState /\ to \in RunState
BY SMTT(60) DEF CanTransition, Allowed, RunState

\* A step of HandlePullRun takes one handler to a later position.
LEMMA WorkSteps ==
  ASSUME Typed, NEW h \in Handler, Work(h)
  PROVE  /\ UNCHANGED <<manifests, pull, posting>>
         /\ state' = state \/ state' \in RunState
         /\ parse' \in BOOLEAN /\ crashes' \in 0 .. MaxCrashes /\ crashes' >= crashes
         /\ pc[h] # "idle"
         /\ pc' \in [Handler -> Position] /\ pc'[h] \notin {"idle", "load"}
         /\ \A g \in Handler \ {h} : pc'[g] = pc[g] /\ local'[g] = local[g]
<1> USE IngestConstantsOK
<1>0. /\ pc \in [Handler -> Position] /\ local \in [Handler -> Loaded]
      /\ crashes \in 0 .. MaxCrashes /\ parse \in BOOLEAN
  BY DEF Typed, RowsTyped, HandlersTyped
<1> DEFINE Rows == /\ UNCHANGED <<manifests, pull, posting>>
                   /\ state' = state \/ state' \in RunState
                   /\ parse' \in BOOLEAN /\ crashes' \in 0 .. MaxCrashes /\ crashes' >= crashes
                   /\ pc[h] # "idle"
           Moved == \/ \E p \in Position \ {"idle", "load"} : pc' = [pc EXCEPT ![h] = p]
                    \/ UNCHANGED pc /\ pc[h] # "load"
           Kept == \A g \in Handler \ {h} : local'[g] = local[g]
<1>1. ASSUME NEW from, NEW to, FailTo(h, from, to)
      PROVE  Moved /\ (state' = state \/ state' \in RunState)
  BY <1>1, Edges DEF FailTo, Goto, Position
<1>2. ASSUME NEW from, NEW to, NEW next \in Position \ {"idle", "load"},
             Transition(h, from, to, next)
      PROVE  Moved /\ (state' = state \/ state' \in RunState)
  BY <1>2, Edges DEF Transition, Goto, Position
<1> HIDE DEF Moved
<1>3. ASSUME NEW next \in Position \ {"idle", "load"}, Goto(h, next)
      PROVE  Moved
  BY <1>3 DEF Goto, Moved
<1>4. UNCHANGED pc /\ pc[h] # "load" => Moved
  BY DEF Moved
<1>5. CASE Load(h)
  <2>1. Moved
    BY <1>3, <1>5 DEF Load, Position
  <2>2. Kept /\ Rows
    BY <1>0, <1>5 DEF Load, tables, disk, job
  <2>3. QED
    BY <1>0, <2>1, <2>2 DEF Moved
<1>6. CASE Begin(h) \/ Unpacked(h) \/ Verify(h)
  <2>1. Moved /\ (state' = state \/ state' \in RunState)
    BY <1>1, <1>2, <1>3, <1>6 DEF Begin, Unpacked, Verify, Position
  <2>2. Kept /\ Rows
    BY <1>0, <1>6, <2>1 DEF Begin, Unpacked, Verify, tables, disk, job
  <2>3. QED
    BY <1>0, <1>6, <2>1, <2>2 DEF Moved, Begin, Unpacked, Verify
<1>7. CASE Fetch(h) \/ ClearUnpackDir(h) \/ PromoteFiles(h) \/ Seal(h)
  <2>1. Moved
    BY <1>3, <1>7 DEF Fetch, ClearUnpackDir, PromoteFiles, Seal, Position
  <2>2. Kept /\ Rows
    BY <1>0, <1>7 DEF Fetch, ClearUnpackDir, PromoteFiles, Seal, tables, job
  <2>3. QED
    BY <1>0, <2>1, <2>2 DEF Moved
<1>8. CASE FetchFails(h) \/ CheckHash(h) \/ ExtractUnsafe(h) \/ ExtractFails(h)
  <2>1. Moved /\ (state' = state \/ state' \in RunState)
    BY <1>1, <1>3, <1>8 DEF FetchFails, CheckHash, ExtractUnsafe, ExtractFails, Position
  <2>2. Kept /\ Rows
    BY <1>0, <1>8, <2>1 DEF FetchFails, CheckHash, ExtractUnsafe, ExtractFails, tables, disk, job
  <2>3. QED
    BY <1>0, <1>8, <2>1, <2>2 DEF Moved
<1>9. CASE ExtractEntry(h)
  <2>1. Moved
    BY <1>4, <1>9 DEF ExtractEntry
  <2>2. Kept /\ Rows
    BY <1>0, <1>9 DEF ExtractEntry, tables, job
  <2>3. QED
    BY <1>0, <1>9, <2>1, <2>2 DEF Moved, ExtractEntry
<1>10. CASE Record(h)
  <2>1. Moved /\ (state' = state \/ state' \in RunState)
    BY <1>2, <1>10 DEF Record, Position
  <2>2. Kept /\ Rows
    BY <1>0, <1>10, <2>1 DEF Record, job
  <2>3. QED
    BY <1>0, <2>1, <2>2, ZenonT(40) DEF Moved
<1>11. CASE HandOff(h)
  <2>1. Moved
    BY <1>3, <1>11 DEF HandOff, Position
  <2>2. Kept /\ Rows
    <3>1. parse' \in BOOLEAN
      BY <1>0, <1>11 DEF HandOff
    <3>2. state' = state \/ state' = "needs_metadata"
      BY <1>11 DEF HandOff
    <3>3. "needs_metadata" \in RunState
      BY DEF RunState
    <3>4. QED
      BY <1>0, <1>11, <3>1, <3>2, <3>3 DEF HandOff, job
  <2>3. QED
    BY <1>0, <2>1, <2>2 DEF Moved
<1>12. CASE HandOffFails(h)
  <2>1. Moved
    BY <1>3, <1>12 DEF HandOffFails, Position
  <2>2. Kept /\ Rows
    BY <1>0, <1>12 DEF HandOffFails, tables
  <2>3. QED
    BY <1>0, <2>1, <2>2 DEF Moved
<1>13. QED
  BY <1>5, <1>6, <1>7, <1>8, <1>9, <1>10, <1>11, <1>12 DEF Work

LEMMA DownstreamSteps ==
  ASSUME Downstream
  PROVE  /\ state \in Ingested /\ state' \in Ingested
         /\ UNCHANGED <<pc, local, manifests, runFiles, parse, posting, archive, staged, raw,
                        sealed, pull, crashes, ignored>>
<1>1. PICK edge \in Driven : state = edge[1] /\ state' = edge[2]
  BY DEF Downstream
<1>2. edge[1] \in Ingested /\ edge[2] \in Ingested
  BY DEF Driven, Ingested, PastIngest
<1>3. QED
  BY <1>1, <1>2 DEF Downstream, tables, disk, job

LEMMA DeclareSteps ==
  ASSUME RowsTyped, NEW m \in Manifest, Declare(m)
  PROVE  /\ manifests' \in Seq(Manifest) /\ IsInjective(manifests') /\ manifests' # <<>>
         /\ ToSet(manifests') = ToSet(manifests) \cup {m}
         /\ manifests # <<>> => Head(manifests') = Head(manifests)
         /\ state' = IF state = "undeclared" THEN "declared" ELSE state
         /\ ValidateAt(Body[m]) /\ posting' = TRUE
         /\ UNCHANGED <<runFiles, parse, pc, local, pull, crashes, archive, staged, raw, sealed,
                        ignored>>
<1>1. manifests \in Seq(Manifest) /\ IsInjective(manifests)
  BY DEF RowsTyped
<1>2. CASE m \in ToSet(manifests)
  BY <1>1, <1>2 DEF Declare, job, disk, ToSet
<1>3. CASE m \notin ToSet(manifests)
  <2>1. manifests' = Append(manifests, m)
    BY <1>3 DEF Declare
  <2>2. /\ Append(manifests, m) \in Seq(Manifest)
        /\ Len(Append(manifests, m)) = Len(manifests) + 1
        /\ \A i \in 1 .. Len(manifests) : Append(manifests, m)[i] = manifests[i]
        /\ Append(manifests, m)[Len(manifests) + 1] = m
    BY <1>1
  <2>3. ToSet(manifests') = ToSet(manifests) \cup {m}
    BY <1>1, <2>1, <2>2 DEF ToSet
  <2>4. \A i \in 1 .. Len(manifests) : manifests[i] # m
    BY <1>1, <1>3 DEF ToSet
  <2>5. IsInjective(Append(manifests, m))
    BY <1>1, <2>2, <2>4 DEF IsInjective
  <2>6. manifests # <<>> => Head(Append(manifests, m)) = Head(manifests)
    BY <1>1, <2>2
  <2>7. QED
    BY <1>1, <2>1, <2>2, <2>3, <2>5, <2>6 DEF Declare, job, disk
<1>4. QED
  BY <1>2, <1>3

\* The pull job's row.
LEMMA PullSteps ==
  ASSUME RowsTyped
  PROVE  /\ Started(pull) \in JobRecord /\ Started(pull).state = "running"
         /\ /\ Enqueued(pull) \in JobRecord /\ Enqueued(pull).state # "absent"
            /\ pull.state # "absent" => Enqueued(pull) = pull
            /\ pull.state = "absent" => Enqueued(pull).state = "queued"
         /\ Succeeded(pull) \in JobRecord /\ Succeeded(pull).state = "succeeded"
         /\ \A seen : /\ Returned(pull, seen, MaxAttempts) \in JobRecord
                      /\ Returned(pull, seen, MaxAttempts).state \in {"queued", "dead"}
<1>1. pull \in JobRecord
  BY DEF RowsTyped
<1>2. QED
  BY <1>1 DEF JobRecord, Started, Enqueued, Succeeded, Returned

LEMMA RowsNext ==
  ASSUME Typed, Next
  PROVE  RowsTyped'
<1> USE IngestConstantsOK
<1>0. RowsTyped /\ HandlersTyped
  BY DEF Typed
<1>1. ASSUME NEW m \in Manifest, Declare(m)
      PROVE  RowsTyped'
  <2>1. state' \in RunState
    BY <1>0, <1>1, DeclareSteps DEF RowsTyped, RunState
  <2>2. \A n \in ToSet(manifests') : ValidateAt(Body[n])
    BY <1>0, <1>1, DeclareSteps DEF RowsTyped, Recorded
  <2>3. "undeclared" \notin RunState
    BY DEF RunState
  <2>4. QED
    BY <1>0, <1>1, <2>1, <2>2, <2>3, DeclareSteps DEF RowsTyped, Recorded
<1> DEFINE Unmoved == /\ state' \in RunState \cup {"undeclared"}
                      /\ manifests' \in Seq(Manifest) /\ IsInjective(manifests')
                      /\ \A m \in Recorded' : ValidateAt(Body[m])
                      /\ state' = "undeclared" <=> manifests' = <<>>
                      /\ parse' \in BOOLEAN
<1>2. ASSUME UNCHANGED <<manifests, parse>>,
             state' = state \/ (state' \in RunState /\ manifests # <<>>)
      PROVE  Unmoved
  <2>1. "undeclared" \notin RunState
    BY DEF RunState
  <2>2. QED
    BY <1>0, <1>2, <2>1 DEF RowsTyped, Recorded
<1> HIDE DEF Unmoved
<1>3. ASSUME EnqueuePull \/ PostLost
      PROVE  RowsTyped'
  <2>1. UNCHANGED <<manifests, parse, state>> /\ posting' = FALSE
    BY <1>3 DEF EnqueuePull, PostLost
  <2>2. crashes' \in 0 .. MaxCrashes
    BY <1>0, <1>3 DEF EnqueuePull, PostLost, RowsTyped
  <2>3. posting /\ pull' \in {Enqueued(pull), pull}
    BY <1>3 DEF EnqueuePull, PostLost
  <2>4. pull' \in JobRecord
    BY <1>0, <2>3, PullSteps DEF RowsTyped
  <2>5. manifests # <<>>
    BY <1>0, <2>3 DEF RowsTyped
  <2>6. Unmoved
    BY <1>2, <2>1
  <2>7. QED
    BY <2>1, <2>2, <2>4, <2>5, <2>6 DEF RowsTyped, Unmoved
<1>4. ASSUME Reclaim \/ \E h \in Handler : Claim(h) \/ Complete(h) \/ Fail(h) \/ Crash(h)
      PROVE  RowsTyped'
  <2>1. UNCHANGED <<manifests, parse, state, posting>> /\ crashes' \in 0 .. MaxCrashes
    BY <1>0, <1>4 DEF Claim, Complete, Fail, Crash, Reclaim, RowsTyped, tables
  <2>2. \/ pull' = pull
        \/ pull.state = "queued" /\ pull' = Started(pull)
        \/ /\ pull.state # "absent"
           /\ pull' = Succeeded(pull) \/ \E seen : pull' = Returned(pull, seen, MaxAttempts)
    BY <1>0, <1>4 DEF Claim, Complete, Fail, Crash, Reclaim, HandlersTyped, Placed
  <2>3. manifests # <<>> \/ pull' = pull
    BY <1>0, <2>2 DEF RowsTyped
  <2>4. pull' \in JobRecord
    BY <1>0, <2>2, PullSteps DEF RowsTyped
  <2>5. Unmoved
    BY <1>2, <2>1
  <2>6. posting' \/ pull'.state # "absent" => manifests # <<>>
    BY <1>0, <2>1, <2>3 DEF RowsTyped
  <2>7. posting' \in BOOLEAN
    BY <1>0, <2>1 DEF RowsTyped
  <2>8. QED
    BY <2>1, <2>4, <2>5, <2>6, <2>7 DEF RowsTyped, Unmoved
<1>5. ASSUME NEW h \in Handler, Work(h)
      PROVE  RowsTyped'
  <2>1. /\ UNCHANGED <<manifests, pull, posting>>
        /\ state' = state \/ state' \in RunState
        /\ parse' \in BOOLEAN /\ crashes' \in 0 .. MaxCrashes
        /\ pc[h] # "idle"
    BY <1>5, WorkSteps
  <2>2. manifests # <<>>
    BY <1>0, <2>1 DEF RowsTyped, HandlersTyped, Placed
  <2>3. "undeclared" \notin RunState
    BY DEF RunState
  <2>4. QED
    BY <1>0, <2>1, <2>2, <2>3 DEF RowsTyped, Recorded
<1>6. ASSUME Downstream
      PROVE  RowsTyped'
  <2>1. /\ state \in Ingested /\ state' \in Ingested
        /\ UNCHANGED <<manifests, parse, posting, pull, crashes>>
    BY <1>6, DownstreamSteps
  <2>2. Ingested \subseteq RunState /\ "undeclared" \notin RunState
    BY DEF Ingested, PastIngest, RunState
  <2>3. manifests # <<>>
    BY <1>0, <2>1, <2>2 DEF RowsTyped
  <2>4. Unmoved
    BY <1>2, <2>1, <2>2, <2>3
  <2>5. /\ posting' \in BOOLEAN /\ crashes' \in 0 .. MaxCrashes
        /\ pull' \in JobRecord
    BY <1>0, <2>1 DEF RowsTyped
  <2>6. manifests' # <<>>
    BY <2>1, <2>3
  <2>7. QED
    BY <2>4, <2>5, <2>6 DEF RowsTyped, Unmoved
<1>7. QED
  BY <1>1, <1>3, <1>4, <1>5, <1>6 DEF Next

\* What an entry unpacks to is among the files of its archive.
LEMMA FileFacts ==
  /\ \A a \in Archive : \A i \in 1 .. Len(Entries[a]) : FileOf(Entries[a], i) \subseteq File
  /\ \A m \in Manifest : DeclaredFiles(m) \subseteq File /\ Body[m].archive \in Archive
  /\ \A a \in Archive : /\ Len(Entries[a]) \in Nat
                         /\ FilesUpTo(a, 0) = {}
                         /\ FilesUpTo(a, Len(Entries[a])) = FilesIn(a)
  /\ \A a \in Archive : \A i \in 1 .. Len(Entries[a]) :
       FilesUpTo(a, i) = FilesUpTo(a, i - 1) \cup FileOf(Entries[a], i)
  /\ Damaged \in Archive
<1>1. \A a \in Archive : Entries[a] \in Seq(Entry)
  BY IngestConstantsOK DEF Archive, Entry
<1>2. \A a \in Archive : FilesIn(a) \subseteq File
  BY DEF File
<1>3. \A a \in Archive : \A i \in 1 .. Len(Entries[a]) : FileOf(Entries[a], i) \subseteq FilesIn(a)
  BY DEF FilesIn, FilesUpTo
<1>4. \A m \in Manifest : DeclaredFiles(m) \subseteq File /\ Body[m].archive \in Archive
  BY IngestConstantsOK DEF File, Archive
<1>5. \A a \in Archive : /\ Len(Entries[a]) \in Nat
                         /\ FilesUpTo(a, 0) = {}
                         /\ FilesUpTo(a, Len(Entries[a])) = FilesIn(a)
  BY <1>1 DEF FilesUpTo, FilesIn
<1>6. ASSUME NEW a \in Archive, NEW i \in 1 .. Len(Entries[a])
      PROVE  FilesUpTo(a, i) = FilesUpTo(a, i - 1) \cup FileOf(Entries[a], i)
  <2>1. 1 .. i = (1 .. i - 1) \cup {i}
    BY <1>5
  <2>2. QED
    BY <2>1 DEF FilesUpTo
<1>7. Damaged \in Archive
  BY IngestConstantsOK DEF Archive
<1>8. QED
  BY <1>2, <1>3, <1>4, <1>5, <1>6, <1>7

LEMMA FilesNext ==
  ASSUME Typed, Next
  PROVE  FilesTyped'
<1>0. FilesTyped /\ HandlersTyped
  BY DEF Typed
<1>1. ASSUME UNCHANGED <<runFiles, archive, staged, raw, sealed, ignored>>
      PROVE  FilesTyped'
  BY <1>0, <1>1 DEF FilesTyped
<1>2. ASSUME NEW h \in Handler,
             \/ Load(h) \/ Begin(h) \/ FetchFails(h) \/ CheckHash(h)
             \/ ExtractFails(h) \/ Unpacked(h) \/ Verify(h) \/ HandOff(h) \/ HandOffFails(h)
             \/ Claim(h) \/ Complete(h) \/ Fail(h) \/ Crash(h)
      PROVE  FilesTyped'
  BY <1>1, <1>2 DEF Load, Begin, FetchFails, CheckHash, ExtractFails, Unpacked, Verify, HandOff,
                    HandOffFails, Claim, Complete, Fail, Crash, tables, disk
<1>3. ASSUME \E m \in Manifest : Declare(m)
      PROVE  FilesTyped'
  BY <1>1, <1>3 DEF Declare, disk
<1>4. ASSUME EnqueuePull \/ PostLost \/ Reclaim \/ Downstream
      PROVE  FilesTyped'
  BY <1>1, <1>4 DEF EnqueuePull, PostLost, Reclaim, Downstream, disk, tables
<1>5. ASSUME NEW h \in Handler, Fetch(h)
      PROVE  FilesTyped'
  <2>1. local[h].manifest \in Recorded
    BY <1>0, <1>5 DEF Fetch, HandlersTyped, Placed
  <2>2. local[h].manifest \in Manifest
    BY <2>1 DEF Typed, RowsTyped, Recorded, ToSet
  <2>3. archive' \in Archive
    BY <1>5, <2>2, FileFacts DEF Fetch
  <2>4. QED
    BY <1>0, <1>5, <2>3 DEF Fetch, FilesTyped, tables
<1>6. ASSUME NEW h \in Handler, ClearUnpackDir(h) \/ PromoteFiles(h) \/ Seal(h)
      PROVE  FilesTyped'
  <2>1. runFiles' \subseteq File /\ archive' \in Archive \cup {None} /\ sealed' \in BOOLEAN
    BY <1>0, <1>6 DEF ClearUnpackDir, PromoteFiles, Seal, FilesTyped, tables
  <2>2. staged' \subseteq File /\ raw' \subseteq File
    BY <1>0, <1>6 DEF ClearUnpackDir, PromoteFiles, Seal, FilesTyped
  <2>3. ignored' = ignored \/ (ignored < MaxIgnored /\ ignored' = ignored + 1)
    BY <1>6 DEF ClearUnpackDir, PromoteFiles, Seal, Ignored
  <2>4. ignored' \in 0 .. MaxIgnored
    BY <1>0, <2>3, IngestConstantsOK DEF FilesTyped
  <2>5. QED
    BY <2>1, <2>2, <2>4 DEF FilesTyped
<1>7. ASSUME NEW h \in Handler, ExtractEntry(h) \/ ExtractUnsafe(h)
      PROVE  FilesTyped'
  <2>1. local[h].opened \in Archive
        /\ local[h].entry \in 1 .. Len(Entries[local[h].opened]) + 1
    BY <1>0, <1>7 DEF ExtractEntry, ExtractUnsafe, HandlersTyped, Placed
  <2>2. local[h].entry <= Len(Entries[local[h].opened])
    BY <1>7 DEF ExtractEntry, ExtractUnsafe
  <2>3. local[h].entry \in 1 .. Len(Entries[local[h].opened])
    BY <2>1, <2>2, FileFacts
  <2>4. FileOf(Entries[local[h].opened], local[h].entry) \subseteq File
    BY <2>1, <2>3, FileFacts
  <2>5. staged' \subseteq File
    BY <1>0, <1>7, <2>4 DEF ExtractEntry, ExtractUnsafe, FilesTyped
  <2>6. QED
    BY <1>0, <1>7, <2>5 DEF ExtractEntry, ExtractUnsafe, FilesTyped, tables
<1>8. ASSUME NEW h \in Handler, Record(h)
      PROVE  FilesTyped'
  <2>1. local[h].manifest \in Recorded
    BY <1>0, <1>8 DEF Record, HandlersTyped, Placed
  <2>2. local[h].manifest \in Manifest
    BY <2>1 DEF Typed, RowsTyped, Recorded, ToSet
  <2>3. runFiles' \subseteq File
    BY <1>0, <1>8, <2>2, FileFacts DEF Record, FilesTyped
  <2>4. QED
    BY <1>0, <1>8, <2>3 DEF Record, FilesTyped, disk
<1>9. QED
  BY <1>2, <1>3, <1>4, <1>5, <1>6, <1>7, <1>8 DEF Next, Work

LEMMA HandlersNext ==
  ASSUME Typed, Next
  PROVE  HandlersTyped'
<1>0. /\ RowsTyped /\ FilesTyped
      /\ pc \in [Handler -> Position] /\ local \in [Handler -> Loaded]
      /\ \A g \in Handler : Placed(g)
  BY DEF Typed, HandlersTyped
\* The placement of a handler that does not move.
<1>1. ASSUME NEW g \in Handler, pc'[g] = pc[g], local'[g] = local[g],
             pull.state # "absent" => pull'.state # "absent",
             Recorded \subseteq Recorded', archive # None => archive' # None
      PROVE  Placed(g)'
  BY <1>0, <1>1 DEF Placed
<1>2. ASSUME UNCHANGED <<pc, local>>,
             pull.state # "absent" => pull'.state # "absent",
             Recorded \subseteq Recorded', archive # None => archive' # None
      PROVE  HandlersTyped'
  BY <1>0, <1>1, <1>2 DEF HandlersTyped
<1>3. ASSUME \E m \in Manifest : Declare(m)
      PROVE  HandlersTyped'
  BY <1>0, <1>2, <1>3, DeclareSteps DEF Recorded
<1>4. ASSUME EnqueuePull \/ PostLost \/ Reclaim \/ Downstream
      PROVE  HandlersTyped'
  <2>1. UNCHANGED <<pc, local, manifests, archive>>
    BY <1>4 DEF EnqueuePull, PostLost, Reclaim, Downstream, disk, tables
  <2>2. \/ pull' \in {pull, Enqueued(pull)}
        \/ \E seen : pull' = Returned(pull, seen, MaxAttempts)
    BY <1>4 DEF EnqueuePull, PostLost, Reclaim, Downstream, job
  <2>3. pull'.state # "absent" \/ pull' = pull
    BY <1>0, <2>2, PullSteps
  <2>4. QED
    BY <1>2, <2>1, <2>3 DEF Recorded
<1>5. ASSUME NEW h \in Handler, Claim(h)
      PROVE  HandlersTyped'
  <2>1. /\ pc' = [pc EXCEPT ![h] = "load"]
        /\ pull' = Started(pull) /\ pull.state = "queued"
        /\ UNCHANGED <<local, manifests, archive>>
    BY <1>5 DEF Claim, Goto, tables, disk
  <2>2. pull'.state = "running"
    BY <1>0, <2>1, PullSteps
  <2>3. pc' \in [Handler -> Position] /\ pc'[h] = "load"
    BY <1>0, <2>1 DEF Position
  <2>4. Placed(h)'
    BY <2>2, <2>3 DEF Placed
  <2>5. \A g \in Handler \ {h} : Placed(g)'
    BY <1>0, <1>1, <2>1, <2>2 DEF Recorded
  <2>6. QED
    BY <1>0, <2>1, <2>3, <2>4, <2>5 DEF HandlersTyped
<1>6. ASSUME NEW h \in Handler, Complete(h) \/ Fail(h) \/ Crash(h)
      PROVE  HandlersTyped'
  <2>1. /\ pc' = [pc EXCEPT ![h] = "idle"] /\ local' = [local EXCEPT ![h] = NothingLoaded]
        /\ \/ pull' \in {pull, Succeeded(pull)}
           \/ \E seen : pull' = Returned(pull, seen, MaxAttempts)
        /\ UNCHANGED <<manifests, archive>>
    BY <1>6 DEF Complete, Fail, Crash, Leave, Goto, tables, disk, job
  <2>2. pull'.state # "absent" \/ pull' = pull
    BY <1>0, <2>1, PullSteps
  <2>3. NothingLoaded \in Loaded
    BY DEF NothingLoaded, Loaded
  <2>4. pc' \in [Handler -> Position] /\ pc'[h] = "idle" /\ local' \in [Handler -> Loaded]
    BY <1>0, <2>1, <2>3 DEF Position
  <2>5. Placed(h)'
    BY <2>4 DEF Placed
  <2>6. \A g \in Handler \ {h} : Placed(g)'
    BY <1>0, <1>1, <2>1, <2>2 DEF Recorded
  <2>7. QED
    BY <2>4, <2>5, <2>6 DEF HandlersTyped
<1>7. ASSUME NEW h \in Handler, Work(h)
      PROVE  HandlersTyped'
  <2>1. /\ UNCHANGED <<manifests, pull>> /\ pc[h] # "idle"
        /\ pc' \in [Handler -> Position] /\ pc'[h] \notin {"idle", "load"}
        /\ \A g \in Handler \ {h} : pc'[g] = pc[g] /\ local'[g] = local[g]
    BY <1>7, WorkSteps
  <2>2. pull.state # "absent" /\ manifests # <<>> /\ manifests \in Seq(Manifest)
    BY <1>0, <2>1 DEF Placed, RowsTyped
  <2>3. Last(manifests) \in Recorded /\ Recorded \subseteq Manifest
    BY <2>2 DEF Last, Recorded, ToSet
  <2>4. archive # None => archive' # None
    <3>1. archive' \in Archive \/ archive' = archive
      <4>1. ASSUME Fetch(h)
            PROVE  archive' \in Archive
        <5>1. local[h].manifest \in Manifest
          BY <1>0, <2>3, <4>1 DEF Fetch, Placed
        <5>2. QED
          BY <4>1, <5>1, FileFacts DEF Fetch
      <4>2. QED
        BY <1>7, <4>1 DEF Work, Load, Begin, FetchFails, CheckHash, ClearUnpackDir, ExtractEntry,
                          ExtractUnsafe, ExtractFails, Unpacked, Verify, PromoteFiles, Seal, Record,
                          HandOff, HandOffFails, disk
    <3>2. None \notin Archive
      BY IngestConstantsOK DEF Archive
    <3>3. QED
      BY <3>1, <3>2
  <2>5. \A g \in Handler \ {h} : Placed(g)'
    BY <1>1, <2>1, <2>4 DEF Recorded
  <2>6. local[h] \in Loaded /\ Placed(h)
    BY <1>0
  <2>7. ASSUME local' \in [Handler -> Loaded], local'[h].manifest \in Recorded,
               pc'[h] \in {"hash", "clear"} => archive' # None,
               pc'[h] = "extract" => /\ local'[h].opened \in Archive
                                     /\ local'[h].entry \in 1 .. Len(Entries[local'[h].opened]) + 1
        PROVE  HandlersTyped'
    <3>1. Placed(h)'
      BY <2>1, <2>2, <2>7 DEF Placed, Recorded
    <3>2. QED
      BY <2>1, <2>5, <2>7, <3>1 DEF HandlersTyped
  <2>8. CASE Load(h)
    <3>1. local' = [local EXCEPT ![h].loaded = state, ![h].manifest = Last(manifests)]
          /\ pc'[h] \notin {"hash", "clear", "extract"}
      BY <1>0, <2>8 DEF Load, Goto
    <3>2. local' = [local EXCEPT ![h] = [local[h] EXCEPT !.loaded = state,
                                                        !.manifest = Last(manifests)]]
      BY <1>0, <3>1
    <3>3. local' \in [Handler -> Loaded] /\ local'[h].manifest = Last(manifests)
      BY <1>0, <2>3, <2>6, <3>2 DEF Loaded, RowsTyped
    <3>4. QED
      BY <2>3, <2>7, <3>1, <3>3
  <2>9. CASE ClearUnpackDir(h)
    <3>1. local' = [local EXCEPT ![h].opened = archive, ![h].entry = 1] /\ pc[h] = "clear"
          /\ pc'[h] = "extract"
      BY <1>0, <2>9 DEF ClearUnpackDir, Goto
    <3>2. local' = [local EXCEPT ![h] = [local[h] EXCEPT !.opened = archive, !.entry = 1]]
      BY <1>0, <3>1
    <3>3. archive \in Archive /\ local[h].manifest \in Recorded
      BY <1>0, <2>6, <3>1 DEF FilesTyped, Placed
    <3>4. /\ local' \in [Handler -> Loaded] /\ local'[h].manifest = local[h].manifest
          /\ local'[h].opened = archive /\ local'[h].entry = 1
      BY <1>0, <2>6, <3>2, <3>3 DEF Loaded
    <3>5. 1 \in 1 .. Len(Entries[archive]) + 1
      BY <3>3, FileFacts
    <3>6. QED
      BY <2>7, <3>1, <3>3, <3>4, <3>5
  <2>10. CASE ExtractEntry(h)
    <3> DEFINE i == local[h].entry
               a == local[h].opened
    <3>1. /\ local' = [local EXCEPT ![h].entry = i + 1] /\ pc[h] = "extract" /\ UNCHANGED pc
          /\ i <= Len(Entries[a])
      BY <2>10 DEF ExtractEntry
    <3>2. local' = [local EXCEPT ![h] = [local[h] EXCEPT !.entry = i + 1]]
      BY <1>0, <3>1
    <3>3. a \in Archive /\ i \in 1 .. Len(Entries[a]) + 1 /\ local[h].manifest \in Recorded
      BY <2>6, <3>1 DEF Placed
    <3>4. i + 1 \in 1 .. Len(Entries[a]) + 1 /\ i + 1 \in Nat
      BY <3>1, <3>3, FileFacts
    <3>5. /\ local' \in [Handler -> Loaded] /\ local'[h].manifest = local[h].manifest
          /\ local'[h].opened = a /\ local'[h].entry = i + 1
      BY <1>0, <2>6, <3>2, <3>4 DEF Loaded
    <3>6. QED
      BY <2>7, <3>1, <3>3, <3>4, <3>5
  <2>11. CASE \/ Begin(h) \/ Fetch(h) \/ FetchFails(h) \/ CheckHash(h)
              \/ ExtractUnsafe(h) \/ ExtractFails(h) \/ Unpacked(h)
              \/ Verify(h) \/ PromoteFiles(h) \/ Seal(h) \/ Record(h)
              \/ HandOff(h) \/ HandOffFails(h)
    <3>1. UNCHANGED local /\ pc[h] \notin {"idle", "load"}
      BY <2>11 DEF Begin, Fetch, FetchFails, CheckHash, ExtractUnsafe, ExtractFails, Unpacked,
                   Verify, PromoteFiles, Seal, Record, HandOff, HandOffFails
    <3>2. local[h].manifest \in Recorded
      BY <2>6, <3>1 DEF Placed
    <3>3. ASSUME Fetch(h) \/ CheckHash(h)
          PROVE  archive' # None /\ pc'[h] # "extract"
      <4>1. CASE Fetch(h)
        <5>1. archive' \in Archive /\ pc'[h] = "hash"
          BY <1>0, <2>3, <3>2, <4>1, FileFacts DEF Fetch, Goto
        <5>2. QED
          BY <5>1, IngestConstantsOK DEF Archive
      <4>2. CASE CheckHash(h)
        <5>1. UNCHANGED archive /\ archive # None /\ pc'[h] \in {"clear", "failed"}
          BY <1>0, <2>6, <4>2 DEF CheckHash, FailTo, Goto, disk, Placed
        <5>2. QED
          BY <5>1
      <4>3. QED
        BY <3>3, <4>1, <4>2
    <3>4. ASSUME ~Fetch(h), ~CheckHash(h)
          PROVE  pc'[h] \notin {"hash", "clear", "extract"}
      BY <1>0, <2>11, <3>4 DEF Begin, FetchFails, ExtractUnsafe, ExtractFails, Unpacked, Verify,
                              PromoteFiles, Seal, Record, HandOff, HandOffFails, FailTo,
                              Transition, Goto
    <3>5. QED
      BY <1>0, <2>7, <3>1, <3>2, <3>3, <3>4
  <2>12. QED
    BY <1>7, <2>8, <2>9, <2>10, <2>11 DEF Work
<1>8. QED
  BY <1>3, <1>4, <1>5, <1>6, <1>7 DEF Next

LEMMA TypedInit ==
  ASSUME Init
  PROVE  Typed
<1> USE IngestConstantsOK DEF Init
<1>1. RowsTyped
  <2>1. manifests \in Seq(Manifest) /\ IsInjective(manifests) /\ Recorded = {}
    BY DEF Recorded, ToSet, IsInjective
  <2>2. NoJob \in JobRecord /\ NoJob.state = "absent"
    BY DEF NoJob, JobRecord
  <2>3. crashes \in 0 .. MaxCrashes
    OBVIOUS
  <2>4. QED
    BY <2>1, <2>2, <2>3 DEF RowsTyped
<1>2. FilesTyped
  <2>1. ignored \in 0 .. MaxIgnored
    OBVIOUS
  <2>2. QED
    BY <2>1 DEF FilesTyped
<1>3. HandlersTyped
  BY DEF HandlersTyped, Placed, NothingLoaded, Loaded, Position
<1>4. QED
  BY <1>1, <1>2, <1>3 DEF Typed

LEMMA TypedNext ==
  ASSUME Typed, [Next]_vars
  PROVE  Typed'
<1>1. CASE Next
  BY <1>1, RowsNext, FilesNext, HandlersNext DEF Typed
<1>2. CASE UNCHANGED vars
  BY <1>2 DEF vars, Typed, RowsTyped, FilesTyped, HandlersTyped, Placed, Recorded
<1>3. QED
  BY <1>1, <1>2

LEMMA TypedAlways == Spec => []Typed
BY TypedInit, TypedNext, PTL DEF Spec

\* The tables, the directories and what the handlers have loaded are well formed
\* whatever overlaps and crashes; in particular a manifest is recorded once,
\* however often it is posted (Repo.Create).
THEOREM TypeCorrect == Spec => []TypeOK
<1>1. Typed => TypeOK
  BY DEF Typed, RowsTyped, FilesTyped, HandlersTyped, Loaded, TypeOK
<1>2. QED
  BY <1>1, TypedAlways, PTL

\* ValidateAt refuses every manifest whose own fields contradict each other: for
\* any manifests and limits, an agent that packs what it has declared passes the
\* path checks of SafeUnpack and VerifyAgainstManifest.  (It does not cover
\* archive.name, of which the contract asks less than openTarReader does.)
THEOREM ManifestsSatisfiable == Spec => []ManifestsAreSatisfiable
<1>1. Typed => ManifestsAreSatisfiable
  <2>1. SUFFICES ASSUME Typed, NEW m \in Recorded
                 PROVE  LET packed == [i \in DOMAIN Body[m].files |->
                                        [abs  |-> FALSE, path |-> Body[m].files[i].name,
                                         type |-> "file", size |-> 0,
                                         sha |-> Body[m].files[i].sha]]
                        IN  /\ VerifyAgainstManifest(DeclaredFiles(m), Body[m])
                            /\ \A i \in DOMAIN packed :
                                 ~Escapes(packed[i]) /\ ~Repeated(packed, i)
                                 /\ ~Clashes(packed, i)
    BY DEF ManifestsAreSatisfiable
  <2>2. m \in Manifest /\ ValidateAt(Body[m])
    BY <2>1 DEF Typed, RowsTyped, Recorded, ToSet
  <2>3. QED
    BY <2>2, ValidIsSatisfiable
<1>2. QED
  BY <1>1, TypedAlways, PTL

\* Promote refuses to replace a directory that is there, and nothing else writes
\* to the raw store: promoted files never change.
THEOREM RawNeverChanges == Spec => RawImmutable
<1>1. [Next]_vars => [raw # {} => raw' = raw]_vars
  BY ZenonT(60) DEF Next, Work, Declare, EnqueuePull, PostLost, Claim, Complete, Fail, Crash, Reclaim,
         Downstream, Load, Begin, Fetch, FetchFails, CheckHash, ClearUnpackDir, ExtractEntry,
         ExtractUnsafe, ExtractFails, Unpacked, Verify, PromoteFiles, Seal, Record, HandOff,
         HandOffFails, Ignored, disk, tables
<1>2. QED
  BY <1>1, PTL DEF Spec, RawImmutable

-----------------------------------------------------------------------------
(***************************************************************************)
(* With locks that last, every step keeps Undisturbed.                     *)
(***************************************************************************)

LEMMA StateFacts ==
  /\ \A from : CanTransition(from, "pulling") => from \notin Ingested
  /\ {"undeclared", "declared", "pulling", "unpacked", "verified", "transfer_failed",
       "manifest_mismatch", "unsafe_archive"} \cap Ingested = {}
  /\ "promoted" \in Ingested /\ "needs_metadata" \in Ingested /\ PastIngest \subseteq Ingested
  /\ CanTransition("verified", "promoted")
<1>1. \A from : CanTransition(from, "pulling") => from \notin Ingested
  BY SMTT(60) DEF CanTransition, Allowed, RunState, Ingested, PastIngest
<1>2. CanTransition("verified", "promoted")
  BY SMTT(60) DEF CanTransition, Allowed, RunState
<1>3. QED
  BY <1>1, <1>2 DEF Ingested, PastIngest

LEMMA AloneNext ==
  ASSUME Typed, Undisturbed, Next
  PROVE  Alone'
<1>0. /\ Timely /\ Alone /\ RowsTyped /\ pc \in [Handler -> Position]
      /\ \A g \in Handler : Placed(g)
  BY DEF Typed, HandlersTyped, Undisturbed
<1>1. ASSUME \A g \in Handler : pc[g] = "idle", UNCHANGED pc
      PROVE  Alone'
  BY <1>1 DEF Alone
<1>2. ASSUME UNCHANGED <<pc, pull>>
      PROVE  Alone'
  BY <1>0, <1>2 DEF Alone
<1>3. CASE (\E m \in Manifest : Declare(m)) \/ PostLost \/ Downstream
  BY <1>2, <1>3 DEF Declare, PostLost, Downstream, job
<1>4. CASE EnqueuePull
  <2>1. CASE pull.state = "absent"
    BY <1>0, <1>1, <1>4, <2>1 DEF EnqueuePull, Placed
  <2>2. CASE pull.state # "absent"
    BY <1>0, <1>2, <1>4, <2>2, PullSteps DEF EnqueuePull
  <2>3. QED
    BY <2>1, <2>2
<1>5. CASE Reclaim
  BY <1>0, <1>1, <1>5 DEF Reclaim
<1>6. ASSUME NEW h \in Handler, Claim(h)
      PROVE  Alone'
  <2>1. pull.state = "queued" /\ pull' = Started(pull) /\ pc' = [pc EXCEPT ![h] = "load"]
    BY <1>6 DEF Claim, Goto
  <2>2. \A g \in Handler : pc[g] = "idle"
    BY <1>0, <2>1 DEF Alone
  <2>3. pull'.state = "running"
    BY <1>0, <2>1, PullSteps
  <2>4. QED
    BY <1>0, <2>1, <2>2, <2>3 DEF Alone
<1>7. ASSUME NEW h \in Handler, Complete(h) \/ Fail(h) \/ Crash(h)
      PROVE  Alone'
  <2>1. pc[h] # "idle" /\ pc' = [pc EXCEPT ![h] = "idle"]
    BY <1>7 DEF Complete, Fail, Crash, Leave, Goto
  <2>2. \A g \in Handler : pc'[g] = "idle"
    BY <1>0, <2>1 DEF Alone
  <2>3. QED
    BY <2>2 DEF Alone
<1>8. ASSUME NEW h \in Handler, Work(h)
      PROVE  Alone'
  <2>1. /\ UNCHANGED pull /\ pc[h] # "idle"
        /\ \A g \in Handler \ {h} : pc'[g] = pc[g]
    BY <1>8, WorkSteps
  <2>2. QED
    BY <1>0, <2>1 DEF Alone
<1>9. QED
  BY <1>3, <1>4, <1>5, <1>6, <1>7, <1>8 DEF Next

\* The count of the errors passed over only grows.
LEMMA IgnoredGrows ==
  ASSUME Typed, Next
  PROVE  ignored \in Nat /\ ignored' \in Nat /\ ignored' >= ignored
<1>1. ignored \in Nat
  BY IngestConstantsOK DEF Typed, FilesTyped
<1>2. ignored' = ignored \/ ignored' = ignored + 1
  BY ZenonT(60) DEF Next, Work, Declare, EnqueuePull, PostLost, Claim, Complete, Fail, Crash, Reclaim,
         Downstream, Load, Begin, Fetch, FetchFails, CheckHash, ClearUnpackDir, ExtractEntry,
         ExtractUnsafe, ExtractFails, Unpacked, Verify, PromoteFiles, Seal, Record, HandOff,
         HandOffFails, Ignored, disk
<1>3. QED
  BY <1>1, <1>2

LEMMA SourcedNext ==
  ASSUME Typed, Undisturbed, Next
  PROVE  Sourced'
<1> DEFINE Source == UNION {FilesIn(Body[m].archive) : m \in Recorded}
<1>0. Sourced /\ HandlersTyped /\ RowsTyped
  BY DEF Typed, Undisturbed
<1>1. Recorded \subseteq Recorded'
  <2>1. CASE \E m \in Manifest : Declare(m)
    BY <1>0, <2>1, DeclareSteps DEF Recorded
  <2>2. CASE UNCHANGED manifests
    BY <2>2 DEF Recorded
  <2>3. UNCHANGED manifests \/ \E m \in Manifest : Declare(m)
    BY WorkSteps DEF Next, EnqueuePull, PostLost, Claim, Complete, Fail, Crash, Reclaim,
                     Downstream, tables
  <2>4. QED
    BY <2>1, <2>2, <2>3
<1>2. Source \subseteq Source'
  BY <1>1
<1>3. ASSUME staged' \cup raw' \subseteq Source
      PROVE  Sourced'
  BY <1>2, <1>3 DEF Sourced
<1>4. ASSUME NEW h \in Handler, ExtractEntry(h) \/ ExtractUnsafe(h)
      PROVE  Sourced'
  <2> DEFINE a == local[h].opened
             i == local[h].entry
  <2>1. /\ pc[h] = "extract" /\ i <= Len(Entries[a]) /\ UNCHANGED raw
        /\ staged' \subseteq staged \cup FileOf(Entries[a], i)
    BY <1>4 DEF ExtractEntry, ExtractUnsafe
  <2>2. a \in Archive /\ i \in 1 .. Len(Entries[a]) + 1 /\ local[h].manifest \in Recorded
    BY <1>0, <2>1 DEF HandlersTyped, Placed
  <2>3. a = Body[local[h].manifest].archive
    BY <2>1 DEF Undisturbed, Reached
  <2>4. FileOf(Entries[a], i) \subseteq FilesIn(a)
    <3>1. i \in 1 .. Len(Entries[a])
      BY <2>1, <2>2, FileFacts
    <3>2. QED
      BY <3>1 DEF FilesIn, FilesUpTo
  <2>5. FilesIn(a) \subseteq Source
    BY <2>2, <2>3
  <2>6. QED
    BY <1>0, <1>3, <2>1, <2>4, <2>5 DEF Sourced
<1>5. ASSUME staged' \subseteq staged, raw' \in {raw, staged}
      PROVE  Sourced'
  BY <1>0, <1>3, <1>5 DEF Sourced
<1>6. \/ staged' \subseteq staged /\ raw' \in {raw, staged}
      \/ \E h \in Handler : ExtractEntry(h) \/ ExtractUnsafe(h)
  BY DEF Next, Work, Declare, EnqueuePull, PostLost, Claim, Complete, Fail, Crash, Reclaim,
         Downstream, Load, Begin, Fetch, FetchFails, CheckHash, ClearUnpackDir,
         ExtractFails, Unpacked, Verify, PromoteFiles, Seal, Record, HandOff,
         HandOffFails, disk, tables
<1>7. QED
  BY <1>4, <1>5, <1>6

LEMMA ReachedNothing ==
  ASSUME NEW h \in Handler, pc'[h] \in {"idle", "load", "failed"}
  PROVE  Reached(h)'
BY DEF Reached

\* A step of handler h that leaves the promoted files and their record alone.
LEMMA BeforePromotion ==
  ASSUME Undisturbed, NEW h \in Handler,
         pc[h] \notin {"seal", "record", "handoff"}, pc'[h] \notin {"seal", "record"},
         \A g \in Handler \ {h} : pc'[g] = pc[g] /\ local'[g] = local[g],
         UNCHANGED <<runFiles, raw, sealed, parse, manifests, pull>>,
         state' \in Ingested <=> state \in Ingested,
         crashes \in Nat, crashes' >= crashes, crashes' \in Nat,
         ignored' = 0 => ignored = 0
  PROVE  Recording' /\ Stored' /\ Tidy'
<1>1. Recording'
  BY DEF Undisturbed, Recording, Recorded
<1>2. Stored'
  BY DEF Undisturbed, Stored, Keeps, Recorded
<1>3. ASSUME crashes' = 0
      PROVE  /\ raw # {} /\ runFiles = {} => \E g \in Handler : pc'[g] \in {"seal", "record"}
             /\ \A g \in Handler :
                  /\ pc'[g] \in {"seal", "record"} => Keeps(raw, DeclaredFiles(local'[g].manifest))
                  /\ pc'[g] = "record" /\ ignored = 0 => sealed
             /\ runFiles # {} =>
                  /\ Keeps(raw, runFiles) /\ (ignored = 0 => sealed)
                  /\ \/ parse \/ ~Described(Head(manifests))
                     \/ \E g \in Handler : pc'[g] = "handoff"
  <2>1. crashes = 0
    BY <1>3
  <2>2. /\ raw # {} /\ runFiles = {} => \E g \in Handler : pc[g] \in {"seal", "record"}
        /\ \A g \in Handler :
             /\ pc[g] \in {"seal", "record"} => Keeps(raw, DeclaredFiles(local[g].manifest))
             /\ pc[g] = "record" /\ ignored = 0 => sealed
        /\ runFiles # {} =>
             /\ Keeps(raw, runFiles) /\ (ignored = 0 => sealed)
             /\ \/ parse \/ ~Described(Head(manifests))
                \/ \E g \in Handler : pc[g] = "handoff"
    BY <2>1 DEF Undisturbed, Tidy
  <2>3. QED
    BY <2>2
<1>4. Tidy'
  BY <1>3 DEF Tidy, Keeps
<1>5. QED
  BY <1>1, <1>2, <1>4

\* The steps of HandlePullRun up to promotion.
LEMMA PullingSteps ==
  ASSUME Typed, Undisturbed, NEW h \in Handler,
         \/ Load(h) \/ Begin(h) \/ Fetch(h) \/ FetchFails(h) \/ CheckHash(h)
         \/ ClearUnpackDir(h) \/ ExtractEntry(h) \/ ExtractUnsafe(h) \/ ExtractFails(h)
         \/ Unpacked(h) \/ Verify(h)
  PROVE  Reached(h)' /\ Recording' /\ Stored' /\ Tidy'
<1>0. /\ RowsTyped /\ FilesTyped /\ crashes \in Nat
      /\ pc \in [Handler -> Position] /\ local \in [Handler -> Loaded]
      /\ local[h] \in Loaded /\ Placed(h) /\ Reached(h) /\ Recording
  BY IngestConstantsOK DEF Typed, RowsTyped, HandlersTyped, Undisturbed
<1>1. /\ UNCHANGED <<manifests, pull>> /\ crashes' >= crashes /\ crashes' \in Nat
      /\ \A g \in Handler \ {h} : pc'[g] = pc[g] /\ local'[g] = local[g]
  BY IngestConstantsOK, WorkSteps DEF Work
<1>2. UNCHANGED <<runFiles, raw, sealed, parse>>
  BY DEF Load, Begin, Fetch, FetchFails, CheckHash, ClearUnpackDir, ExtractEntry, ExtractUnsafe,
         ExtractFails, Unpacked, Verify, disk, tables
<1>3. ASSUME pc[h] \notin {"seal", "record", "handoff"}, pc'[h] \notin {"seal", "record"},
             state' \in Ingested <=> state \in Ingested
      PROVE  Recording' /\ Stored' /\ Tidy'
  <2>1. ignored' = 0 => ignored = 0
    BY IgnoredGrows DEF Next, Work
  <2>2. QED
    BY <1>0, <1>1, <1>2, <1>3, <2>1, BeforePromotion
<1>4. local[h].manifest \in Manifest \/ pc[h] = "load" \/ pc[h] = "idle"
  BY <1>0 DEF Placed, RowsTyped, Recorded, ToSet
<1>5. CASE Load(h)
  <2>1. /\ pc[h] = "load" /\ UNCHANGED state
        /\ pc'[h] \in {"done", "failed", "begin"}
        /\ pc'[h] = "done" => state \in PastIngest
        /\ local'[h].loaded = state
    BY <1>0, <1>5 DEF Load, Goto, Loaded
  <2>2. Recording' /\ Stored' /\ Tidy'
    BY <1>3, <2>1
  <2>3. pc'[h] = "done" => runFiles # {}
    BY <1>0, <2>1, StateFacts DEF Recording
  <2>4. Reached(h)'
    BY <1>2, <2>1, <2>3 DEF Reached
  <2>5. QED
    BY <2>2, <2>4
<1>6. CASE Begin(h)
  <2>1. \/ pc'[h] = "failed" /\ UNCHANGED state
        \/ pc'[h] = "fetch" /\ state = "pulling" /\ UNCHANGED state
        \/ pc'[h] = "fetch" /\ state' = "pulling" /\ CanTransition(state, "pulling")
    BY <1>0, <1>6 DEF Begin, Transition, Goto, Reached
  <2>2. pc[h] = "begin"
    BY <1>6 DEF Begin
  <2>3. Recording' /\ Stored' /\ Tidy'
    BY <1>3, <2>1, <2>2, StateFacts
  <2>4. Reached(h)'
    BY <2>1 DEF Reached
  <2>5. QED
    BY <2>3, <2>4
<1>7. CASE Fetch(h)
  <2>1. pc[h] = "fetch" /\ pc'[h] = "hash" /\ UNCHANGED state
    BY <1>0, <1>7 DEF Fetch, Goto
  <2>2. Recording' /\ Stored' /\ Tidy'
    BY <1>3, <2>1
  <2>3. Reached(h)'
    BY <1>0, <2>1 DEF Reached
  <2>4. QED
    BY <2>2, <2>3
<1>8. CASE FetchFails(h) \/ ExtractUnsafe(h) \/ ExtractFails(h)
  <2>1. /\ pc[h] \in {"fetch", "extract"} /\ pc'[h] = "failed"
        /\ \/ state' = state
           \/ state = "pulling" /\ state' \in {"transfer_failed", "unsafe_archive"}
    BY <1>0, <1>8 DEF FetchFails, ExtractUnsafe, ExtractFails, FailTo, Goto
  <2>2. Recording' /\ Stored' /\ Tidy'
    BY <1>3, <2>1, StateFacts
  <2>3. QED
    BY <2>1, <2>2, ReachedNothing
<1>9. CASE CheckHash(h)
  <2>1. /\ pc[h] = "hash" /\ UNCHANGED <<archive, local>>
        /\ \/ pc'[h] = "clear" /\ archive = Body[local[h].manifest].archive /\ UNCHANGED state
           \/ /\ pc'[h] = "failed"
              /\ \/ state' = state
                 \/ state = "pulling" /\ state' = "transfer_failed"
    BY <1>0, <1>9 DEF CheckHash, FailTo, Goto, disk
  <2>2. Recording' /\ Stored' /\ Tidy'
    BY <1>3, <2>1, StateFacts
  <2>3. Reached(h)'
    BY <1>0, <2>1 DEF Reached
  <2>4. QED
    BY <2>2, <2>3
<1>10. CASE ClearUnpackDir(h)
  <2>1. /\ pc[h] = "clear" /\ pc'[h] = "extract" /\ UNCHANGED state
        /\ (staged' = {} \/ ignored' # 0)
        /\ local' = [local EXCEPT ![h].opened = archive, ![h].entry = 1]
    <3>1. pc[h] = "clear" /\ pc'[h] = "extract" /\ UNCHANGED state
          /\ local' = [local EXCEPT ![h].opened = archive, ![h].entry = 1]
      BY <1>0, <1>10 DEF ClearUnpackDir, Goto
    <3>2. staged' = {} \/ ignored' = ignored + 1
      BY <1>10 DEF ClearUnpackDir, Ignored
    <3>3. ignored \in Nat
      BY <1>0, IngestConstantsOK DEF FilesTyped
    <3>4. QED
      BY <3>1, <3>2, <3>3
  <2>2. local' = [local EXCEPT ![h] = [local[h] EXCEPT !.opened = archive, !.entry = 1]]
    BY <1>0, <2>1
  <2>3. /\ local'[h].manifest = local[h].manifest
        /\ local'[h].opened = archive /\ local'[h].entry = 1
    BY <1>0, <2>2 DEF Loaded
  <2>4. archive \in Archive
    BY <1>0, <2>1 DEF Placed, FilesTyped
  <2>5. /\ FilesUpTo(archive, 1 - 1) = {} /\ Passed(archive, 1 - 1)
        /\ ignored' = 0 => staged' = FilesUpTo(archive, 1 - 1)
    <3>1. FilesUpTo(archive, 1 - 1) = {}
      BY <2>4, FileFacts
    <3>2. Passed(archive, 1 - 1)
      BY DEF Passed
    <3>3. QED
      BY <2>1, <3>1, <3>2
  <2>6. archive = Body[local[h].manifest].archive /\ state = "pulling"
    BY <1>0, <2>1 DEF Reached
  <2>7. Recording' /\ Stored' /\ Tidy'
    BY <1>3, <2>1
  <2>8. Reached(h)'
    BY <2>1, <2>3, <2>5, <2>6 DEF Reached, Keeps
  <2>9. QED
    BY <2>7, <2>8
<1>11. CASE ExtractEntry(h)
  <2> DEFINE i == local[h].entry
             a == local[h].opened
  <2>1. /\ pc[h] = "extract" /\ UNCHANGED <<pc, state, ignored>>
        /\ local' = [local EXCEPT ![h].entry = i + 1]
        /\ i <= Len(Entries[a])
        /\ staged' = staged \cup FileOf(Entries[a], i)
        /\ ~Rejected(Entries[a], i) /\ ~Clashes(Entries[a], i) /\ ~Overruns(Entries[a], i)
    BY <1>11 DEF ExtractEntry
  <2>2. local' = [local EXCEPT ![h] = [local[h] EXCEPT !.entry = i + 1]]
    BY <1>0, <2>1
  <2>3. /\ local'[h].manifest = local[h].manifest
        /\ local'[h].opened = a /\ local'[h].entry = i + 1
    BY <1>0, <2>2 DEF Loaded
  <2>4. a \in Archive /\ i \in 1 .. Len(Entries[a]) + 1
    BY <1>0, <2>1 DEF Placed
  <2>5. i \in 1 .. Len(Entries[a]) /\ i \in Nat /\ (i + 1) - 1 = i
    BY <2>1, <2>4, FileFacts
  <2>6. /\ Keeps(staged, FilesUpTo(a, i - 1)) /\ Passed(a, i - 1)
        /\ a = Body[local[h].manifest].archive /\ state = "pulling"
    BY <1>0, <2>1 DEF Reached
  <2>7. FilesUpTo(a, i) \subseteq staged' /\ (ignored = 0 => staged' = FilesUpTo(a, i))
    <3> HIDE DEF a, i
    <3>1. FilesUpTo(a, i) = FilesUpTo(a, i - 1) \cup FileOf(Entries[a], i)
      BY <2>4, <2>5, FileFacts
    <3>2. staged' = staged \cup FileOf(Entries[a], i)
      BY <2>1
    <3>3. FilesUpTo(a, i - 1) \subseteq staged
          /\ (ignored = 0 => staged = FilesUpTo(a, i - 1))
      BY <2>6 DEF Keeps
    <3>4. QED
      BY <3>1, <3>2, <3>3
  <2>8. Passed(a, i)
    <3>1. \A j \in 1 .. i : j \in 1 .. i - 1 \/ j = i
      BY <2>5
    <3>2. QED
      BY <2>1, <2>6, <3>1 DEF Passed
  <2>9. Recording' /\ Stored' /\ Tidy'
    BY <1>3, <2>1
  <2>10. Reached(h)'
    <3> HIDE DEF a, i
    <3>1. QED
      BY <2>1, <2>3, <2>5, <2>6, <2>7, <2>8 DEF Reached, Keeps
  <2>11. QED
    BY <2>9, <2>10
<1>12. CASE Unpacked(h)
  <2>1. /\ pc[h] = "extract" /\ UNCHANGED <<local, staged, ignored>>
        /\ local[h].entry > Len(Entries[local[h].opened])
        /\ \/ pc'[h] = "failed" /\ UNCHANGED state
           \/ pc'[h] = "verify" /\ state = "pulling" /\ state' = "unpacked"
    BY <1>0, <1>12 DEF Unpacked, Transition, Goto, disk
  <2>2. local[h].opened \in Archive
        /\ local[h].entry \in 1 .. Len(Entries[local[h].opened]) + 1
    BY <1>0, <2>1 DEF Placed
  <2>3. local[h].entry - 1 = Len(Entries[local[h].opened])
    BY <2>1, <2>2, FileFacts
  <2>4. /\ Keeps(staged, FilesIn(local[h].opened))
        /\ Passed(local[h].opened, Len(Entries[local[h].opened]))
        /\ local[h].opened = Body[local[h].manifest].archive
    BY <1>0, <2>1, <2>2, <2>3, FileFacts DEF Reached
  <2>5. Recording' /\ Stored' /\ Tidy'
    BY <1>3, <2>1, StateFacts
  <2>6. Reached(h)'
    BY <2>1, <2>4 DEF Reached, Keeps
  <2>7. QED
    BY <2>5, <2>6
<1>13. CASE Verify(h)
  <2>1. /\ pc[h] = "verify" /\ UNCHANGED <<local, staged, ignored>>
        /\ \/ /\ pc'[h] = "failed"
              /\ state' = state \/ (state = "unpacked" /\ state' = "manifest_mismatch")
           \/ /\ pc'[h] = "promote" /\ state = "unpacked" /\ state' = "verified"
              /\ VerifyAgainstManifest(FilesIn(local[h].opened), Body[local[h].manifest])
    BY <1>0, <1>13 DEF Verify, Transition, FailTo, Goto, disk
  <2>2. /\ Keeps(staged, FilesIn(local[h].opened))
        /\ Passed(local[h].opened, Len(Entries[local[h].opened]))
        /\ local[h].opened = Body[local[h].manifest].archive
    BY <1>0, <2>1 DEF Reached
  <2>3. pc'[h] = "promote" => Sound(local[h].manifest)
    BY <1>4, <2>1, <2>2, VerifiedIsSound
  <2>4. Recording' /\ Stored' /\ Tidy'
    BY <1>3, <2>1, StateFacts
  <2>5. Reached(h)'
    BY <2>1, <2>2, <2>3 DEF Reached, Keeps
  <2>6. QED
    BY <2>4, <2>5
<1>14. QED
  BY <1>5, <1>6, <1>7, <1>8, <1>9, <1>10, <1>11, <1>12, <1>13

\* Promotion, its record and the hand-off.
LEMMA PromotionSteps ==
  ASSUME Typed, Undisturbed, NEW h \in Handler,
         PromoteFiles(h) \/ Seal(h) \/ Record(h) \/ HandOff(h) \/ HandOffFails(h)
  PROVE  Reached(h)' /\ Recording' /\ Stored' /\ Tidy'
<1> DEFINE m == local[h].manifest
<1>0. /\ crashes \in Nat /\ ignored \in Nat /\ pc \in [Handler -> Position]
      /\ Placed(h) /\ Alone /\ Reached(h) /\ Recording /\ Stored /\ Tidy
  BY IngestConstantsOK DEF Typed, RowsTyped, FilesTyped, HandlersTyped, Undisturbed
<1>1. /\ UNCHANGED <<manifests, pull, local>> /\ pc[h] \notin {"idle", "load"}
      /\ \A g \in Handler \ {h} : pc[g] = "idle" /\ pc'[g] = "idle"
  <2>1. UNCHANGED <<manifests, pull, local>> /\ pc[h] \notin {"idle", "load"}
    BY DEF PromoteFiles, Seal, Record, HandOff, HandOffFails, tables, job
  <2>2. \A g \in Handler \ {h} : pc[g] = "idle"
    BY <1>0, <2>1 DEF Alone
  <2>3. \A g \in Handler \ {h} : pc'[g] = pc[g]
    BY WorkSteps DEF Work
  <2>4. QED
    BY <2>1, <2>2, <2>3
<1>2. m \in Recorded /\ m \in Manifest /\ DeclaredFiles(m) # {} /\ pull.state = "running"
  <2>1. m \in Recorded /\ pull.state = "running"
    BY <1>0, <1>1 DEF Placed, Alone
  <2>2. m \in Manifest /\ ValidateAt(Body[m])
    BY <2>1 DEF Typed, RowsTyped, Recorded, ToSet
  <2>3. QED
    BY <2>1, <2>2, ValidDeclares
<1>3. \A g \in Handler : pc[g] # "idle" => g = h
  BY <1>1
<1>4. \A g \in Handler : pc'[g] # "idle" => g = h
  BY <1>1
<1>5. "verified" \notin Ingested
  BY StateFacts
<1>6. CASE PromoteFiles(h)
  <2>1. /\ pc[h] = "promote" /\ UNCHANGED <<state, runFiles, parse, sealed, crashes, ignored>>
        /\ \/ raw = {} /\ staged # {} /\ pc'[h] = "seal" /\ raw' = staged
           \/ raw # {} /\ pc'[h] = "record" /\ raw' = raw
           \/ raw = {} /\ pc'[h] = "failed" /\ raw' = raw
    BY <1>0, <1>6 DEF PromoteFiles, Goto, tables, job
  <2>2. /\ state = "verified" /\ Sound(m) /\ Keeps(staged, DeclaredFiles(m))
        /\ runFiles = {}
    BY <1>0, <1>5, <2>1 DEF Reached, Sound, Recording
  <2>3. Reached(h)'
    BY <1>1, <2>1, <2>2 DEF Reached
  <2>4. Recording'
    BY <1>0, <1>1, <2>1, <2>2 DEF Recording, Recorded
  <2>5. Stored'
    BY <1>0, <1>1, <1>2, <2>1, <2>2 DEF Stored, Keeps, Recorded
  <2>6. raw # {} => crashes # 0
    BY <1>0, <1>3, <2>1, <2>2 DEF Tidy
  <2>7. Tidy'
    BY <1>1, <1>4, <2>1, <2>2, <2>6 DEF Tidy, Keeps
  <2>8. QED
    BY <2>3, <2>4, <2>5, <2>7
<1>7. CASE Seal(h)
  <2>1. /\ pc[h] = "seal" /\ pc'[h] = "record"
        /\ ignored' = 0 => ignored = 0 /\ sealed'
        /\ UNCHANGED <<state, runFiles, parse, raw, crashes>>
    BY <1>0, <1>7 DEF Seal, Ignored, Goto, tables, job
  <2>2. state = "verified" /\ Sound(m) /\ raw # {} /\ runFiles = {}
    BY <1>0, <1>5, <2>1 DEF Reached, Recording
  <2>3. Reached(h)'
    BY <1>1, <2>1, <2>2 DEF Reached
  <2>4. Recording'
    BY <1>0, <1>1, <2>1 DEF Recording, Recorded
  <2>5. Stored'
    BY <1>0, <1>1, <2>1 DEF Stored, Keeps, Recorded
  <2>6. crashes = 0 => Keeps(raw, DeclaredFiles(m))
    BY <1>0, <2>1 DEF Tidy
  <2>7. Tidy'
    BY <1>1, <1>4, <2>1, <2>2, <2>6 DEF Tidy, Keeps
  <2>8. QED
    BY <2>3, <2>4, <2>5, <2>7
<1>8. CASE Record(h)
  <2>1. pc[h] = "record" /\ UNCHANGED <<parse, raw, sealed, crashes, ignored>>
    BY <1>8 DEF Record, disk, job
  <2>2. state = "verified" /\ Sound(m) /\ raw # {} /\ runFiles = {}
    BY <1>0, <1>5, <2>1 DEF Reached, Recording
  <2>3. pc'[h] = "handoff" /\ state' = "promoted" /\ runFiles' = DeclaredFiles(m)
    BY <1>0, <1>8, <2>2, StateFacts DEF Record, Transition, Goto
  <2>4. Reached(h)'
    BY <1>2, <2>3 DEF Reached
  <2>5. Recording'
    <3>1. ~parse /\ state' \in Ingested /\ pull.state # "succeeded"
      BY <1>0, <1>2, <2>2, <2>3, StateFacts DEF Recording
    <3>2. QED
      BY <1>1, <1>2, <2>1, <2>2, <2>3, <3>1 DEF Recording, Recorded
  <2>6. Stored'
    BY <1>0, <1>1, <2>1 DEF Stored, Keeps, Recorded
  <2>7. crashes = 0 => Keeps(raw, DeclaredFiles(m)) /\ (ignored = 0 => sealed)
    BY <1>0, <2>1 DEF Tidy
  <2>8. Tidy'
    BY <1>1, <1>2, <1>4, <2>1, <2>3, <2>7 DEF Tidy, Keeps
  <2>9. QED
    BY <2>4, <2>5, <2>6, <2>8
<1>9. CASE HandOff(h)
  <2>1. /\ pc[h] = "handoff" /\ pc'[h] = "done"
        /\ UNCHANGED <<runFiles, raw, sealed, crashes, ignored>>
        /\ \/ parse' = TRUE /\ UNCHANGED state /\ Described(Head(manifests))
           \/ /\ state' = state \/ (state = "promoted" /\ state' = "needs_metadata")
              /\ UNCHANGED parse /\ ~Described(Head(manifests))
    BY <1>0, <1>9 DEF HandOff, Goto, disk, job
  <2>2. runFiles # {} /\ state \in Ingested /\ state' \in Ingested
    BY <1>0, <2>1, StateFacts DEF Reached, Recording
  <2>3. Reached(h)'
    BY <2>1, <2>2 DEF Reached
  <2>4. Recording'
    BY <1>0, <1>1, <2>1, <2>2 DEF Recording, Recorded
  <2>5. Stored'
    BY <1>0, <1>1, <2>1 DEF Stored, Keeps, Recorded
  <2>6. crashes = 0 => Keeps(raw, runFiles) /\ (ignored = 0 => sealed)
    BY <1>0, <2>2 DEF Tidy
  <2>7. Tidy'
    BY <1>1, <1>4, <2>1, <2>2, <2>6 DEF Tidy, Keeps
  <2>8. QED
    BY <2>3, <2>4, <2>5, <2>7
<1>10. CASE HandOffFails(h)
  <2>1. /\ pc[h] = "handoff" /\ pc'[h] = "done" /\ crashes' = crashes + 1
        /\ UNCHANGED <<state, runFiles, parse, raw, sealed, ignored>>
    BY <1>0, <1>10 DEF HandOffFails, Goto, disk, tables
  <2>2. runFiles # {}
    BY <1>0, <2>1 DEF Reached
  <2>3. Reached(h)'
    BY <2>1, <2>2 DEF Reached
  <2>4. Recording' /\ Stored'
    BY <1>0, <1>1, <2>1 DEF Recording, Stored, Keeps, Recorded
  <2>5. Tidy'
    BY <1>0, <2>1 DEF Tidy
  <2>6. QED
    BY <2>3, <2>4, <2>5
<1>11. QED
  BY <1>6, <1>7, <1>8, <1>9, <1>10

\* The POST, and the life of the pull job around its handler.
LEMMA OutsideSteps ==
  ASSUME Typed, Undisturbed,
         \/ \E m \in Manifest : Declare(m)
         \/ EnqueuePull \/ PostLost \/ Reclaim \/ Downstream
  PROVE  (\A h \in Handler : Reached(h)') /\ Recording' /\ Stored' /\ Tidy'
<1>0. /\ RowsTyped /\ crashes \in Nat
      /\ \A h \in Handler : Placed(h) /\ Reached(h)
      /\ Timely /\ Alone /\ Recording /\ Stored /\ Tidy
  BY IngestConstantsOK DEF Typed, RowsTyped, HandlersTyped, Undisturbed
<1>1. ASSUME NEW m \in Manifest, Declare(m)
      PROVE  (\A h \in Handler : Reached(h)') /\ Recording' /\ Stored' /\ Tidy'
  <2>1. /\ Recorded' = Recorded \cup {m}
        /\ manifests # <<>> => Head(manifests') = Head(manifests)
        /\ state' = IF state = "undeclared" THEN "declared" ELSE state
        /\ UNCHANGED <<runFiles, parse, pc, local, pull, crashes, archive, staged, raw, sealed,
                       ignored>>
    BY <1>0, <1>1, DeclareSteps DEF Recorded
  <2>2. state' \in Ingested <=> state \in Ingested
    BY <2>1, StateFacts
  <2>3. runFiles # {} => Head(manifests') = Head(manifests)
    BY <1>0, <2>1, StateFacts DEF Recording, RowsTyped
  <2>4. state = "undeclared" => \A h \in Handler : pc[h] = "idle"
    BY <1>0 DEF RowsTyped, Placed
  <2>5. \A h \in Handler : Reached(h)'
    <3>1. CASE state = "undeclared"
      BY <2>1, <2>4, <3>1, ReachedNothing
    <3>2. CASE state # "undeclared"
      BY <1>0, <2>1, <3>2 DEF Reached, Keeps
    <3>3. QED
      BY <3>1, <3>2
  <2>6. Recording'
    BY <1>0, <2>1, <2>2, <2>3 DEF Recording
  <2>7. Stored'
    BY <1>0, <2>1 DEF Stored, Keeps
  <2>8. Tidy'
    BY <1>0, <2>1, <2>3 DEF Tidy, Keeps
  <2>9. QED
    BY <2>5, <2>6, <2>7, <2>8
<1>2. CASE EnqueuePull \/ PostLost \/ Reclaim
  <2>1. /\ UNCHANGED <<state, manifests, runFiles, parse, pc, local, archive, staged, raw, sealed,
                       ignored>>
        /\ crashes' \in {crashes, crashes + 1}
    BY <1>2 DEF EnqueuePull, PostLost, Reclaim, disk, tables
  <2>2. pull'.state = "succeeded" => pull.state = "succeeded"
    BY <1>0, <1>2, PullSteps DEF EnqueuePull, PostLost, Reclaim
  <2>3. \A h \in Handler : Reached(h)'
    BY <1>0, <2>1 DEF Reached, Keeps
  <2>4. Recording'
    BY <1>0, <2>1, <2>2 DEF Recording, Recorded
  <2>5. Stored'
    BY <1>0, <2>1 DEF Stored, Keeps, Recorded
  <2>6. Tidy'
    BY <1>0, <2>1 DEF Tidy, Keeps
  <2>7. QED
    BY <2>3, <2>4, <2>5, <2>6
<1>3. CASE Downstream
  <2>1. /\ state \in Ingested /\ state' \in Ingested
        /\ UNCHANGED <<pc, local, manifests, runFiles, parse, posting, archive, staged, raw,
                       sealed, pull, crashes, ignored>>
    BY <1>3, DownstreamSteps
  <2>2. \A h \in Handler : Reached(h)'
    BY <1>0, <2>1, StateFacts DEF Reached, Keeps
  <2>3. Recording' /\ Stored'
    BY <1>0, <2>1 DEF Recording, Stored, Keeps, Recorded
  <2>4. Tidy'
    BY <1>0, <2>1 DEF Tidy, Keeps
  <2>5. QED
    BY <2>2, <2>3, <2>4
<1>4. QED
  BY <1>1, <1>2, <1>3

\* The worker around HandlePullRun.
LEMMA WorkerSteps ==
  ASSUME Typed, Undisturbed, NEW h \in Handler,
         Claim(h) \/ Complete(h) \/ Fail(h) \/ Crash(h)
  PROVE  (\A g \in Handler : Reached(g)') /\ Recording' /\ Stored' /\ Tidy'
<1>0. /\ RowsTyped /\ crashes \in Nat
      /\ \A g \in Handler : Placed(g) /\ Reached(g)
      /\ pc \in [Handler -> Position] /\ Timely /\ Alone /\ Recording /\ Stored /\ Tidy
  BY IngestConstantsOK DEF Typed, RowsTyped, HandlersTyped, Undisturbed
<1>1. UNCHANGED <<state, manifests, runFiles, parse, archive, staged, raw, sealed, ignored>>
  BY DEF Claim, Complete, Fail, Crash, disk, tables
<1>2. \A g \in Handler : pc'[g] \in {"idle", "load"}
  <2>1. CASE Claim(h)
    <3>1. pull.state = "queued" /\ pc' = [pc EXCEPT ![h] = "load"]
      BY <2>1 DEF Claim, Goto
    <3>2. \A g \in Handler : pc[g] = "idle"
      BY <1>0, <3>1 DEF Alone
    <3>3. QED
      BY <1>0, <3>1, <3>2
  <2>2. CASE Complete(h) \/ Fail(h) \/ Crash(h)
    <3>1. pc[h] # "idle" /\ pc' = [pc EXCEPT ![h] = "idle"]
      BY <2>2 DEF Complete, Fail, Crash, Leave, Goto
    <3>2. QED
      BY <1>0, <3>1 DEF Alone
  <2>3. QED
    BY <2>1, <2>2
<1>3. \A g \in Handler : Reached(g)'
  BY <1>2, ReachedNothing
<1>4. pull'.state = "succeeded" => pull.state = "succeeded" \/ Complete(h)
  BY <1>0, PullSteps DEF Claim, Fail, Crash
<1>5. Complete(h) => runFiles # {}
  BY <1>0 DEF Complete, Reached
<1>6. Recording' /\ Stored'
  BY <1>0, <1>1, <1>4, <1>5 DEF Recording, Stored, Keeps, Recorded
<1>7. Tidy'
  <2>1. CASE Crash(h)
    <3>1. crashes' = crashes + 1
      BY <2>1 DEF Crash
    <3>2. QED
      BY <1>0, <3>1 DEF Tidy
  <2>2. CASE Claim(h) \/ Complete(h) \/ Fail(h)
    <3>1. pc[h] \in {"idle", "done", "failed"} /\ UNCHANGED crashes
      BY <2>2 DEF Claim, Complete, Fail
    <3>2. \A g \in Handler : pc[g] \notin {"seal", "record", "handoff"}
      <4>1. CASE Claim(h)
        BY <1>0, <4>1 DEF Claim, Alone
      <4>2. CASE Complete(h) \/ Fail(h)
        BY <1>0, <4>2 DEF Complete, Fail, Alone
      <4>3. QED
        BY <2>2, <4>1, <4>2
    <3>3. QED
      BY <1>0, <1>1, <1>2, <3>1, <3>2 DEF Tidy, Keeps
  <2>3. QED
    BY <2>1, <2>2
<1>8. QED
  BY <1>3, <1>6, <1>7

LEMMA UndisturbedNext ==
  ASSUME Typed, Undisturbed, Next
  PROVE  Undisturbed'
<1>1. Timely /\ Alone'
  BY AloneNext DEF Undisturbed
<1>2. ASSUME NEW h \in Handler, Work(h)
      PROVE  (\A g \in Handler : Reached(g)') /\ Recording' /\ Stored' /\ Tidy'
  <2>1. Reached(h)' /\ Recording' /\ Stored' /\ Tidy'
    BY <1>2, PullingSteps, PromotionSteps DEF Work
  <2>2. ASSUME NEW g \in Handler, g # h
        PROVE  Reached(g)'
    <3>1. pc[g] = "idle" /\ pc'[g] = pc[g]
      BY <1>2, <2>2, WorkSteps DEF Undisturbed, Alone
    <3>2. QED
      BY <3>1, ReachedNothing
  <2>3. QED
    BY <2>1, <2>2
<1>3. (\A g \in Handler : Reached(g)') /\ Recording' /\ Stored' /\ Tidy'
  BY <1>2, OutsideSteps, WorkerSteps DEF Next
<1>4. QED
  BY <1>1, <1>3, SourcedNext DEF Undisturbed

LEMMA InvInit ==
  ASSUME Timely, Init
  PROVE  Inv
<1>1. Alone /\ \A h \in Handler : Reached(h)
  BY DEF Init, Alone, Reached
<1>2. Recording /\ Stored /\ Sourced /\ Tidy
  BY DEF Init, Recording, Stored, Sourced, Tidy, NoJob, Ingested, PastIngest
<1>3. QED
  BY <1>1, <1>2, TypedInit DEF Inv, Undisturbed

LEMMA InvNext ==
  ASSUME Inv, [Next]_vars
  PROVE  Inv'
<1>1. Typed'
  BY TypedNext DEF Inv
<1>2. CASE Next
  BY <1>1, <1>2, UndisturbedNext DEF Inv
<1>3. CASE UNCHANGED vars
  <2>1. Alone' /\ \A h \in Handler : Reached(h)'
    BY <1>3 DEF Inv, Undisturbed, vars, Alone, Reached, Keeps
  <2>2. Recording' /\ Stored' /\ Sourced' /\ Tidy'
    BY <1>3 DEF Inv, Undisturbed, vars, Recording, Stored, Sourced, Tidy, Keeps, Recorded
  <2>3. QED
    BY <1>1, <2>1, <2>2 DEF Inv, Undisturbed
<1>4. QED
  BY <1>2, <1>3

LEMMA Invariance == Timely /\ Spec => []Inv
<1>1. Timely /\ Init => Inv
  BY InvInit
<1>2. Inv /\ [Next]_vars => Inv'
  BY InvNext
<1>3. QED
  BY <1>1, <1>2, PTL DEF Spec

\* While locks outlive their handlers, and however attempts crash and manifests
\* arrive meanwhile: the raw directory holds what one recorded manifest declares,
\* out of an archive that is safe (HandlePullRun, SafeUnpack, Promote).  Unless an
\* error of RemoveAll or lockDown was passed over it holds nothing else; else what
\* is too much has come from the archives of recorded manifests.
THEOREM RawVerified == Timely /\ Spec => []RawIsVerified
<1>1. Inv => RawIsVerified
  <2>1. SUFFICES ASSUME Inv, raw # {}
                 PROVE  /\ \E m \in Recorded :
                             /\ DeclaredFiles(m) = FilesIn(Body[m].archive)
                             /\ Safe(Body[m].archive)
                             /\ DeclaredFiles(m) \subseteq raw
                             /\ ignored = 0 => raw = DeclaredFiles(m)
                        /\ raw \subseteq UNION {FilesIn(Body[m].archive) : m \in Recorded}
    BY DEF RawIsVerified
  <2>2. PICK m \in Recorded : Keeps(raw, DeclaredFiles(m)) /\ Sound(m)
    BY <2>1 DEF Inv, Undisturbed, Stored
  <2>3. raw \subseteq UNION {FilesIn(Body[n].archive) : n \in Recorded}
    BY <2>1 DEF Inv, Undisturbed, Sourced
  <2>4. QED
    BY <2>2, <2>3 DEF Sound, Keeps
<1>2. QED
  BY <1>1, Invariance, PTL

\* "Files first, DB last": under the same condition the rows that make a run
\* promoted, and the success of its pull job, follow the verified bytes.
THEOREM FilesComeFirst == Timely /\ Spec => []FilesFirst
<1>1. Inv => FilesFirst
  <2>1. SUFFICES ASSUME Inv PROVE FilesFirst
    OBVIOUS
  <2>2. Recording
    BY <2>1 DEF Inv, Undisturbed
  <2>3. QED
    BY <2>2, StateFacts DEF Recording, Sound, FilesFirst
<1>2. QED
  BY <1>1, Invariance, PTL

\* The metadata gate: under the same condition only a run with verified bytes
\* that its first manifest describes is ever parsed, whatever later ones say.
THEOREM GateHolds == Timely /\ Spec => []MetadataGate
<1>1. Inv => MetadataGate
  BY DEF Inv, Undisturbed, Recording, MetadataGate
<1>2. QED
  BY <1>1, Invariance, PTL

\* Under the same condition only a lost process or statement can keep a recorded
\* file out of the raw store or the run from being handed on; and only such a loss,
\* or an error of RemoveAll or lockDown that is passed over, can leave more files
\* there than are recorded, or the tree writable.
THEOREM FaultsAlone == Timely /\ Spec => []OnlyFaultsDiverge
<1>1. Inv => OnlyFaultsDiverge
  <2>1. SUFFICES ASSUME Inv, crashes = 0
                 PROVE  /\ runFiles \subseteq raw
                        /\ HandedOff
                        /\ ignored = 0 => RecordMatchesRaw /\ PromotedIsSealed
    BY DEF OnlyFaultsDiverge
  <2>2. Tidy /\ Recording /\ Alone
    BY <2>1 DEF Inv, Undisturbed
  <2>3. runFiles \subseteq raw /\ (ignored = 0 => RecordMatchesRaw)
    BY <2>1, <2>2 DEF Tidy, Keeps, RecordMatchesRaw
  <2>4. ignored = 0 => PromotedIsSealed
    BY <2>1, <2>2, StateFacts DEF Tidy, Recording, PromotedIsSealed
  <2>5. HandedOff
    BY <2>1, <2>2 DEF Tidy, Recording, Alone, HandedOff
  <2>6. QED
    BY <2>3, <2>4, <2>5
<1>2. QED
  BY <1>1, Invariance, PTL

-----------------------------------------------------------------------------
(***************************************************************************)
(* The size of the staging directory: lemmas about sums over finite sets,  *)
(* then what an archive can leave there.                                   *)
(***************************************************************************)

\* The bytes that a set of files takes.
BytesIn(files) == MapThenSumSet(LAMBDA file : file.bytes, files)

First(T) == CHOOSE file \in T : TRUE

\* f[T] is the sum over T, taken in the order in which CHOOSE finds the files.
Adds(f, Dom) ==
  f = [T \in Dom |-> IF T = {} THEN 0 ELSE First(T).bytes + f[T \ {First(T)}]]

Weighs(f, S) == Adds(f, SUBSET S)

\* The subsets of S with at most n elements.
Small(S, n) == {T \in SUBSET S : Cardinality(T) <= n}

LEMMA FirstOf ==
  ASSUME NEW S, IsFiniteSet(S), NEW n \in Nat, NEW T \in Small(S, n + 1), T # {}
  PROVE  /\ First(T) \in T
         /\ \A file \in T : T \ {file} \in Small(S, n)
<1>1. First(T) \in T
  BY DEF First
<1>2. ASSUME NEW file \in T PROVE T \ {file} \in Small(S, n)
  <2>1. IsFiniteSet(T) /\ T \subseteq S /\ Cardinality(T) \in Nat /\ Cardinality(T) <= n + 1
    BY FS_Subset, FS_CardinalityType DEF Small
  <2>2. Cardinality(T \ {file}) = Cardinality(T) - 1
    BY <2>1, FS_RemoveElement
  <2>3. QED
    BY <2>1, <2>2 DEF Small
<1>3. QED
  BY <1>1, <1>2

LEMMA SmallIsAll ==
  ASSUME NEW S, IsFiniteSet(S)
  PROVE  /\ \E n \in Nat : Small(S, n) = SUBSET S
         /\ Small(S, 0) = {{}}
<1>1. \A T \in SUBSET S : IsFiniteSet(T) /\ Cardinality(T) \in Nat /\ Cardinality(T) <= Cardinality(S)
  BY FS_Subset, FS_CardinalityType
<1>2. Cardinality(S) \in Nat /\ Small(S, Cardinality(S)) = SUBSET S
  BY <1>1, FS_CardinalityType DEF Small
<1>3. ASSUME NEW T \in Small(S, 0) PROVE T = {}
  <2>1. IsFiniteSet(T) /\ Cardinality(T) = 0
    BY <1>1 DEF Small
  <2>2. QED
    BY <2>1, FS_EmptySet
<1>4. {} \in Small(S, 0)
  BY FS_EmptySet DEF Small
<1>5. QED
  BY <1>2, <1>3, <1>4

LEMMA WeightsExist ==
  ASSUME NEW S, IsFiniteSet(S)
  PROVE  \E f : Weighs(f, S)
<1> DEFINE N == {n \in Nat : \E f : Adds(f, Small(S, n))}
<1>1. 0 \in N
  <2> DEFINE f == [T \in {{}} |-> 0]
  <2>1. Adds(f, {{}})
    BY DEF Weighs, Adds
  <2>2. QED
    BY <2>1, SmallIsAll
<1>2. ASSUME NEW n \in Nat, n \in N
      PROVE  n + 1 \in N
  <2>1. PICK f : Adds(f, Small(S, n))
    BY <1>2
  <2> DEFINE g == [T \in Small(S, n + 1) |->
                     IF T = {} THEN 0 ELSE First(T).bytes + f[T \ {First(T)}]]
  <2>2. ASSUME NEW T \in Small(S, n)
        PROVE  f[T] = g[T]
    <3>1. T \in Small(S, n + 1)
      <4>1. IsFiniteSet(T) /\ Cardinality(T) \in Nat /\ Cardinality(T) <= n
        BY FS_Subset, FS_CardinalityType DEF Small
      <4>2. QED
        BY <4>1 DEF Small
    <3>2. QED
      BY <2>1, <3>1 DEF Weighs, Adds
  <2>3. ASSUME NEW T \in Small(S, n + 1)
        PROVE  g[T] = IF T = {} THEN 0 ELSE First(T).bytes + g[T \ {First(T)}]
    <3>1. CASE T = {}
      BY <3>1
    <3>2. CASE T # {}
      <4>1. T \ {First(T)} \in Small(S, n)
        BY <3>2, FirstOf
      <4>2. f[T \ {First(T)}] = g[T \ {First(T)}]
        BY <2>2, <4>1
      <4>3. g[T] = First(T).bytes + f[T \ {First(T)}]
        BY <3>2
      <4> HIDE DEF g
      <4>4. QED
        BY <3>2, <4>2, <4>3
    <3>3. QED
      BY <3>1, <3>2
  <2>4. Adds(g, Small(S, n + 1))
    <3>1. g = [T \in Small(S, n + 1) |-> g[T]]
      OBVIOUS
    <3> HIDE DEF g
    <3>2. QED
      BY <2>3, <3>1 DEF Weighs, Adds
  <2>5. QED
    BY <2>4
<1> HIDE DEF N
<1>3. Nat \subseteq N
  BY <1>1, <1>2, SetInduction
<1>4. PICK n \in Nat : Small(S, n) = SUBSET S
  BY SmallIsAll
<1>5. \E f : Adds(f, Small(S, n))
  BY <1>3 DEF N
<1>6. QED
  BY <1>4, <1>5 DEF Weighs

\* The order does not matter.
LEMMA AnyOrder ==
  ASSUME NEW S, IsFiniteSet(S), \A file \in S : file.bytes \in Nat,
         NEW f, Weighs(f, S)
  PROVE  \A T \in SUBSET S :
           /\ f[T] \in Nat
           /\ \A file \in T : f[T] = file.bytes + f[T \ {file}]
<1> DEFINE Fine(T) == /\ f[T] \in Nat
                      /\ \A file \in T : f[T] = file.bytes + f[T \ {file}]
           N == {n \in Nat : \A T \in Small(S, n) : Fine(T)}
<1>0. \A T \in SUBSET S : f[T] = IF T = {} THEN 0 ELSE First(T).bytes + f[T \ {First(T)}]
  BY DEF Weighs, Adds
<1>1. Fine({})
  <2>1. f[{}] = 0
    BY <1>0
  <2>2. QED
    BY <2>1
<1>2. 0 \in N
  <2>1. \A T \in Small(S, 0) : T = {}
    BY SmallIsAll
  <2> HIDE DEF Fine
  <2>2. QED
    BY <1>1, <2>1
<1>3. ASSUME NEW n \in Nat, n \in N
      PROVE  n + 1 \in N
  <2>1. ASSUME NEW T \in Small(S, n + 1), T # {}
        PROVE  Fine(T)
    <3>1. First(T) \in T /\ T \subseteq S /\ \A file \in T : T \ {file} \in Small(S, n)
      BY <2>1, FirstOf DEF Small
    <3>2. \A file \in T : Fine(T \ {file})
      BY <1>3, <3>1
    <3>3. PICK p \in T : f[T] = p.bytes + f[T \ {p}]
      BY <1>0, <2>1, <3>1
    <3>4. f[T] \in Nat
      BY <3>1, <3>2, <3>3
    <3>5. ASSUME NEW y \in T, y # p
          PROVE  f[T] = y.bytes + f[T \ {y}]
      <4>1. y \in T \ {p} /\ p \in T \ {y} /\ (T \ {p}) \ {y} = (T \ {y}) \ {p}
        BY <3>5
      <4>2. f[T \ {p}] = y.bytes + f[(T \ {p}) \ {y}] /\ f[T \ {p}] \in Nat
        BY <3>2, <4>1
      <4>3. f[T \ {y}] = p.bytes + f[(T \ {y}) \ {p}] /\ f[T \ {y}] \in Nat
        BY <3>2, <4>1
      <4>4. p.bytes \in Nat /\ y.bytes \in Nat /\ f[(T \ {p}) \ {y}] \in Int
        <5>1. p.bytes \in Nat /\ y.bytes \in Nat
          BY <3>1
        <5>2. (T \ {p}) \ {y} \in Small(S, n)
          <6>1. T \ {p} \in Small(S, n) /\ IsFiniteSet(T \ {p})
            BY <3>1, FS_Subset
          <6>2. Cardinality((T \ {p}) \ {y}) \in Nat /\ Cardinality(T \ {p}) \in Nat
                /\ Cardinality((T \ {p}) \ {y}) <= Cardinality(T \ {p})
            BY <6>1, FS_Subset, FS_CardinalityType
          <6>3. QED
            BY <6>1, <6>2 DEF Small
        <5>3. QED
          BY <1>3, <5>1, <5>2
      <4>5. PICK a \in Nat, b \in Nat, c \in Int :
               a = p.bytes /\ b = y.bytes /\ c = f[(T \ {p}) \ {y}]
        BY <4>4
      <4>6. f[T] = a + (b + c)
        BY <3>3, <4>2, <4>5, Zenon
      <4>7. f[T \ {y}] = a + c
        BY <4>1, <4>3, <4>5, Zenon
      <4>8. a + (b + c) = b + (a + c)
        BY <4>5
      <4>9. QED
        BY <4>5, <4>6, <4>7, <4>8, Zenon
    <3>6. QED
      BY <3>3, <3>4, <3>5
  <2> HIDE DEF Fine
  <2>2. \A T \in Small(S, n + 1) : Fine(T)
    BY <1>1, <2>1
  <2>3. QED
    BY <2>2
<1>4. Nat \subseteq N
  <2> HIDE DEF N
  <2>1. QED
    BY <1>2, <1>3, SetInduction
<1>5. PICK n \in Nat : Small(S, n) = SUBSET S
  BY SmallIsAll
<1>6. \A T \in Small(S, n) : Fine(T)
  BY <1>4
<1>7. QED
  BY <1>5, <1>6

LEMMA SameWeights ==
  ASSUME NEW S, NEW R \in SUBSET S, NEW f, NEW g, IsFiniteSet(S),
         Weighs(f, R), Weighs(g, S)
  PROVE  \A T \in SUBSET R : f[T] = g[T]
<1> DEFINE N == {n \in Nat : \A T \in Small(R, n) : f[T] = g[T]}
<1>0. /\ \A T \in SUBSET R : f[T] = IF T = {} THEN 0 ELSE First(T).bytes + f[T \ {First(T)}]
      /\ \A T \in SUBSET R : g[T] = IF T = {} THEN 0 ELSE First(T).bytes + g[T \ {First(T)}]
      /\ IsFiniteSet(R)
  BY FS_Subset DEF Weighs, Adds
<1>1. 0 \in N
  BY <1>0, SmallIsAll
<1>2. ASSUME NEW n \in Nat, n \in N
      PROVE  n + 1 \in N
  <2>1. ASSUME NEW T \in Small(R, n + 1), T # {}
        PROVE  f[T] = g[T]
    <3>1. T \subseteq R /\ f[T \ {First(T)}] = g[T \ {First(T)}]
      BY <1>0, <1>2, <2>1, FirstOf DEF Small
    <3>2. QED
      BY <1>0, <2>1, <3>1
  <2>2. f[{}] = g[{}]
    BY <1>0
  <2>3. \A T \in Small(R, n + 1) : f[T] = g[T]
    BY <2>1, <2>2
  <2>4. QED
    BY <2>3
<1>3. Nat \subseteq N
  <2> HIDE DEF N
  <2>1. QED
    BY <1>1, <1>2, SetInduction
<1>4. QED
  BY <1>0, <1>3, SmallIsAll

\* BytesIn is such a sum, over the set itself.
LEMMA BytesAreSums ==
  ASSUME NEW S, IsFiniteSet(S)
  PROVE  \E f : Weighs(f, S) /\ BytesIn(S) = f[S]
<1> DEFINE Sum == CHOOSE f : f = [T \in SUBSET S |->
                    IF T = {} THEN 0
                    ELSE (CHOOSE x \in T : TRUE).bytes + f[T \ {CHOOSE x \in T : TRUE}]]
<1>1. BytesIn(S) = Sum[S]
  BY DEF BytesIn, MapThenSumSet, MapThenFoldSet
<1>2. \E f : f = [T \in SUBSET S |->
                    IF T = {} THEN 0
                    ELSE (CHOOSE x \in T : TRUE).bytes + f[T \ {CHOOSE x \in T : TRUE}]]
  BY WeightsExist DEF Weighs, Adds, First
<1>3. Weighs(Sum, S)
  BY <1>2 DEF Weighs, Adds, First
<1>4. QED
  BY <1>1, <1>3

LEMMA BytesOfNone == BytesIn({}) = 0
<1>1. IsFiniteSet({})
  BY FS_EmptySet
<1>2. PICK f : Weighs(f, {}) /\ BytesIn({}) = f[{}]
  BY <1>1, BytesAreSums
<1>3. QED
  BY <1>2 DEF Weighs, Adds

LEMMA BytesAreNat ==
  ASSUME NEW S, IsFiniteSet(S), \A file \in S : file.bytes \in Nat
  PROVE  BytesIn(S) \in Nat
<1>1. PICK f : Weighs(f, S) /\ BytesIn(S) = f[S]
  BY BytesAreSums
<1>2. QED
  BY <1>1, AnyOrder

\* Of fewer files there are no more bytes.
LEMMA FewerBytes ==
  ASSUME NEW S, IsFiniteSet(S), \A file \in S : file.bytes \in Nat, NEW R \in SUBSET S
  PROVE  /\ BytesIn(R) \in Nat /\ BytesIn(S) \in Nat
         /\ BytesIn(R) <= BytesIn(S)
<1>1. PICK f : Weighs(f, S) /\ BytesIn(S) = f[S]
  BY BytesAreSums
<1>2. PICK g : Weighs(g, R) /\ BytesIn(R) = g[R]
  BY FS_Subset, BytesAreSums
<1>3. g[R] = f[R]
  <2>1. \A T \in SUBSET R : g[T] = f[T]
    BY <1>1, <1>2, SameWeights
  <2>2. R \in SUBSET R
    OBVIOUS
  <2>3. QED
    BY <2>1, <2>2, Zenon
<1>4. \A T \in SUBSET S : /\ f[T] \in Nat
                         /\ \A file \in T : f[T] = file.bytes + f[T \ {file}]
  BY <1>1, AnyOrder
<1> DEFINE N == {n \in Nat : \A T \in SUBSET S :
                   R \subseteq T /\ Cardinality(T \ R) <= n => f[R] <= f[T]}
<1>5. \A T \in SUBSET S : IsFiniteSet(T \ R) /\ Cardinality(T \ R) \in Nat
  BY FS_Subset, FS_CardinalityType
<1>6. 0 \in N
  <2>1. ASSUME NEW T \in SUBSET S, R \subseteq T, Cardinality(T \ R) <= 0
        PROVE  f[R] <= f[T]
    <3>1. T \ R = {}
      BY <1>5, <2>1, FS_EmptySet
    <3>2. T = R
      BY <2>1, <3>1
    <3>3. QED
      BY <1>4, <3>2
  <2>2. QED
    BY <2>1
<1>7. ASSUME NEW n \in Nat, n \in N
      PROVE  n + 1 \in N
  <2>1. ASSUME NEW T \in SUBSET S, R \subseteq T, Cardinality(T \ R) <= n + 1
        PROVE  f[R] <= f[T]
    <3>1. CASE T = R
      BY <1>4, <3>1
    <3>2. CASE T # R
      <4>1. PICK file \in T \ R : TRUE
        BY <2>1, <3>2
      <4>2. /\ T \ {file} \in SUBSET S /\ R \subseteq T \ {file}
            /\ (T \ {file}) \ R = (T \ R) \ {file}
        BY <2>1, <4>1
      <4>3. Cardinality((T \ R) \ {file}) = Cardinality(T \ R) - 1
        BY <1>5, <4>1, FS_RemoveElement
      <4>4. Cardinality((T \ {file}) \ R) <= n
        <5>1. PICK c \in Nat : c = Cardinality(T \ R)
          BY <1>5
        <5>2. c <= n + 1 /\ Cardinality((T \ {file}) \ R) = c - 1
          BY <2>1, <4>2, <4>3, <5>1
        <5>3. QED
          BY <5>2
      <4>5. f[R] <= f[T \ {file}]
        BY <1>7, <4>2, <4>4
      <4>6. f[T] = file.bytes + f[T \ {file}] /\ f[T \ {file}] \in Nat
        BY <1>4, <4>1, <4>2
      <4>7. file.bytes \in Nat /\ f[R] \in Nat /\ f[T] \in Nat
        BY <1>4, <4>1
      <4>8. PICK a \in Nat, b \in Nat, c \in Nat :
               a = file.bytes /\ b = f[T \ {file}] /\ c = f[R]
        BY <4>6, <4>7
      <4>9. f[T] = a + b /\ c <= b
        BY <4>5, <4>6, <4>8, Zenon
      <4>10. c <= a + b
        BY <4>8, <4>9
      <4>11. QED
        BY <4>8, <4>9, <4>10, Zenon
    <3>3. QED
      BY <3>1, <3>2
  <2>2. QED
    BY <2>1
<1>8. Nat \subseteq N
  <2> HIDE DEF N
  <2>1. QED
    BY <1>6, <1>7, SetInduction
<1>9. f[R] <= f[S]
  <2>1. S \in SUBSET S
    OBVIOUS
  <2>2. PICK c \in Nat : c = Cardinality(S \ R)
    BY <1>5, <2>1
  <2>3. c \in N
    <3> HIDE DEF N
    <3>1. QED
      BY <1>8
  <2>4. \A T \in SUBSET S : R \subseteq T /\ Cardinality(T \ R) <= c => f[R] <= f[T]
    BY <2>3
  <2>5. R \subseteq S /\ Cardinality(S \ R) <= c
    <3>1. c <= c
      OBVIOUS
    <3>2. QED
      BY <2>2, <3>1, Zenon
  <2>6. QED
    BY <2>1, <2>4, <2>5, Zenon
<1>10. QED
  BY <1>1, <1>2, <1>3, <1>4, <1>9

\* A file more, of which the set may hold a copy already.
LEMMA OneMore ==
  ASSUME NEW S, IsFiniteSet(S), \A file \in S : file.bytes \in Nat,
         NEW new, new.bytes \in Nat
  PROVE  /\ BytesIn(S \cup {new}) \in Nat
         /\ BytesIn(S \cup {new}) <= BytesIn(S) + new.bytes
<1>1. PICK f : Weighs(f, S) /\ BytesIn(S) = f[S]
  BY BytesAreSums
<1>2. BytesIn(S) \in Nat
  BY <1>1, AnyOrder
<1>3. CASE new \in S
  <2>1. S \cup {new} = S
    BY <1>3
  <2>2. \A a, b \in Nat : a <= a + b
    OBVIOUS
  <2>3. QED
    BY <1>2, <2>1, <2>2
<1>4. CASE new \notin S
  <2> DEFINE W == S \cup {new}
  <2>1. IsFiniteSet(W) /\ (\A file \in W : file.bytes \in Nat) /\ S \subseteq W
        /\ new \in W /\ W \ {new} = S
    BY <1>4, FS_AddElement
  <2> HIDE DEF W
  <2>2. PICK g : Weighs(g, W) /\ BytesIn(W) = g[W]
    BY <2>1, BytesAreSums
  <2>3. g[W] = new.bytes + g[S]
    <3>1. \A file \in W : g[W] = file.bytes + g[W \ {file}]
      BY <2>1, <2>2, AnyOrder
    <3>2. QED
      BY <2>1, <3>1
  <2>4. f[S] = g[S]
    <3>1. Weighs(f, S) /\ Weighs(g, W) /\ IsFiniteSet(W) /\ S \in SUBSET W
      BY <1>1, <2>1, <2>2
    <3>2. \A T \in SUBSET S : f[T] = g[T]
      BY <3>1, SameWeights
    <3>3. S \in SUBSET S
      OBVIOUS
    <3>4. QED
      BY <3>2, <3>3, Zenon
  <2>5. BytesIn(W) = BytesIn(S) + new.bytes
    BY <1>1, <1>2, <2>2, <2>3, <2>4
  <2>6. QED
    BY <1>2, <2>5 DEF W
<1>5. QED
  BY <1>3, <1>4

LEMMA OneFile ==
  ASSUME NEW entries, NEW i, entries[i].type # "dir"
  PROVE  \E new : FileOf(entries, i) = {new} /\ new.bytes = Written(entries, i)
<1> DEFINE new == [path  |-> Clean(entries[i].path),
                   bytes |-> Written(entries, i),
                   sha   |-> IF Written(entries, i) = entries[i].size
                             THEN entries[i].sha ELSE "truncated"]
<1>1. FileOf(entries, i) = {new}
  BY DEF FileOf
<1>2. new.bytes = Written(entries, i)
  OBVIOUS
<1>3. QED
  BY <1>1, <1>2, Zenon

\* A regular file that is not rejected is within its own limit.
LEMMA CappedSize ==
  ASSUME NEW a \in Archive, NEW i \in 1 .. Len(Entries[a]), ~Rejected(Entries[a], i),
         Entries[a][i].type # "dir", MaxFileBytes > 0
  PROVE  Entries[a][i].size <= MaxFileBytes
<1>1. Entries[a][i].type = "file"
  BY DEF Rejected
<1>2. ~(Entries[a][i].size > MaxFileBytes)
  BY <1>1 DEF Rejected
<1>3. Entries[a][i].size \in Nat
  <2>1. Entries[a] \in Seq(Entry)
    BY IngestConstantsOK DEF Entry, Archive
  <2>2. Entries[a][i] \in Entry
    BY <2>1
  <2>3. QED
    BY <2>2 DEF Entry
<1>4. QED
  BY <1>2, <1>3, LimitsOK

\* No more of a file is written than there is of it.
LEMMA WrittenAtMost ==
  ASSUME NEW a \in Archive, NEW i \in 1 .. Len(Entries[a])
  PROVE  /\ Written(Entries[a], i) \in Nat
         /\ Written(Entries[a], i) <= Entries[a][i].size
         /\ Entries[a][i].size \in Nat
<1> DEFINE size == Entries[a][i].size
           left == Remaining(Entries[a], i)
           caps == {limit \in {MaxFileBytes, left} : limit > 0}
<1>1. size \in Nat /\ left \in Int /\ MaxFileBytes \in Int
  <2>1. Entries[a] \in Seq(Entry)
    BY IngestConstantsOK DEF Entry, Archive
  <2>2. Entries[a][i] \in Entry /\ i - 1 \in 0 .. Len(Entries[a])
    BY <2>1
  <2>3. BytesOf(Entries[a], i - 1) \in Nat
    BY <2>1, <2>2, BytesSteps
  <2>4. QED
    BY <2>2, <2>3, LimitsOK DEF Entry, Remaining
<1>2. Written(Entries[a], i) = IF caps = {} THEN size ELSE Min({size, Min(caps) + 1})
  BY DEF Written
<1>3. ASSUME caps # {}
      PROVE  Min(caps) \in Int /\ Min(caps) > 0
  <2>1. \A limit \in caps : limit \in {MaxFileBytes, left} /\ limit > 0
    OBVIOUS
  <2>2. caps = {MaxFileBytes, left} \/ caps = {MaxFileBytes, MaxFileBytes} \/ caps = {left, left}
    BY <1>3
  <2> HIDE DEF caps, left
  <2>3. PICK x \in {MaxFileBytes, left}, y \in {MaxFileBytes, left} : caps = {x, y}
    BY <2>2
  <2>4. Min({x, y}) \in {x, y}
    BY <1>1, MinOf
  <2>5. QED
    BY <1>1, <2>1, <2>3, <2>4
<1> HIDE DEF caps, size
<1>4. CASE caps = {}
  BY <1>1, <1>2, <1>4 DEF size
<1>5. CASE caps # {}
  <2>1. PICK cap \in Int : cap = Min(caps) + 1 /\ cap > 0
    BY <1>3, <1>5
  <2>2. Written(Entries[a], i) = Min({size, cap})
    BY <1>2, <1>5, <2>1
  <2>3. Min({size, cap}) \in {size, cap} /\ Min({size, cap}) <= size
    <3>1. size \in Int /\ cap \in Int
      BY <1>1, <2>1 DEF size
    <3>2. \A x, y \in Int : Min({x, y}) \in {x, y} /\ Min({x, y}) <= x
      BY MinOf
    <3>3. QED
      BY <3>1, <3>2, Zenon
  <2>4. QED
    BY <1>1, <2>1, <2>2, <2>3 DEF size
<1>6. QED
  BY <1>4, <1>5

\* What an archive can leave in the staging directory.
Room == MaxTotalBytes + MaxFileBytes

\* Every error of RemoveAll that was passed over has let an archive's worth pile
\* up; on top of that there is what the attempt under way has written.
Weighed ==
  /\ IsFiniteSet(staged) /\ \A file \in staged : file.bytes \in Nat
  /\ MaxTotalBytes > 0 /\ MaxFileBytes > 0 =>
       /\ BytesIn(staged) <= (1 + ignored) * Room
       /\ \A h \in Handler :
            pc[h] = "extract" =>
              BytesIn(staged) <= ignored * Room
                                 + BytesOf(Entries[local[h].opened], local[h].entry - 1)

LEMMA Products ==
  ASSUME NEW n \in Nat
  PROVE  /\ n * Room \in Nat /\ Room \in Nat
         /\ (1 + n) * Room = n * Room + Room
         /\ (1 + (n + 1)) * Room = (n + 1) * Room + Room
         /\ (n + 1) * Room = n * Room + Room
<1>1. Room \in Nat
  BY LimitsOK DEF Room
<1> HIDE DEF Room
<1>2. n * Room \in Nat
  BY <1>1
<1>3. QED
  BY <1>1, <1>2

\* A step that leaves the files alone, and at which no handler starts to unpack.
LEMMA WeighedStill ==
  ASSUME Weighed, UNCHANGED staged, ignored \in Nat, ignored' \in {ignored, ignored + 1},
         \A h \in Handler : pc'[h] = "extract" =>
           pc[h] = "extract" /\ local'[h] = local[h] /\ ignored' = ignored
  PROVE  Weighed'
<1>1. ASSUME MaxTotalBytes > 0, MaxFileBytes > 0
      PROVE  BytesIn(staged) <= (1 + ignored') * Room
  <2>1. BytesIn(staged) <= (1 + ignored) * Room /\ BytesIn(staged) \in Nat
    BY <1>1, BytesAreNat DEF Weighed
  <2>2. CASE ignored' = ignored
    BY <2>1, <2>2
  <2>3. CASE ignored' = ignored + 1
    <3>1. PICK p \in Nat, r \in Nat : p = ignored * Room /\ r = Room
      BY Products
    <3>2. (1 + ignored) * Room = p + r /\ (1 + ignored') * Room = p + r + r
      BY <2>3, <3>1, Products
    <3>3. QED
      BY <2>1, <3>1, <3>2
  <2>4. QED
    BY <2>2, <2>3
<1>2. QED
  BY <1>1 DEF Weighed

\* The step of SafeUnpack that writes a file.
LEMMA WeighedFile ==
  ASSUME Inv, Weighed, NEW h \in Handler, ExtractEntry(h) \/ ExtractUnsafe(h)
  PROVE  Weighed'
<1> DEFINE a == local[h].opened
           i == local[h].entry
           entries == Entries[a]
<1>1. /\ pc[h] = "extract" /\ i <= Len(entries) /\ UNCHANGED ignored
      /\ ExtractEntry(h) => staged' = staged \cup FileOf(entries, i)
      /\ \/ UNCHANGED staged
         \/ ~Rejected(entries, i) /\ staged' = staged \cup FileOf(entries, i)
  BY DEF ExtractEntry, ExtractUnsafe
<1>2. a \in Archive /\ i \in 1 .. Len(entries) + 1 /\ i \in Nat
  BY <1>1 DEF Inv, Typed, HandlersTyped, Placed, Loaded
<1>3. i \in 1 .. Len(entries) /\ i - 1 \in 0 .. Len(entries) /\ i \in 0 .. Len(entries)
  BY <1>1, <1>2, FileFacts
<1>4. Passed(a, i - 1)
  BY <1>1 DEF Inv, Undisturbed, Reached
<1>5. /\ BytesOf(entries, i) = BytesOf(entries, i - 1) + Size(entries[i])
      /\ BytesOf(entries, i - 1) \in Nat /\ entries[i].size \in Nat
  <2>1. entries \in Seq(Entry)
    BY <1>2, IngestConstantsOK DEF Entry, Archive
  <2>2. entries[i] \in Entry
    BY <1>3, <2>1
  <2>3. QED
    BY <1>3, <2>1, <2>2, BytesSteps DEF Entry
<1>6. /\ IsFiniteSet(staged) /\ \A file \in staged : file.bytes \in Nat
      /\ BytesIn(staged) \in Nat /\ ignored \in Nat
  BY BytesAreNat, IngestConstantsOK DEF Weighed, Inv, Typed, FilesTyped
\* What it adds is a file of the size that was written.
<1>7. \/ staged' = staged
      \/ /\ entries[i].type # "dir" /\ ~Rejected(entries, i)
         /\ \E new : staged' = staged \cup {new} /\ new.bytes = Written(entries, i)
  <2>1. CASE entries[i].type = "dir"
    BY <1>1, <2>1 DEF FileOf
  <2>2. CASE entries[i].type # "dir"
    BY <1>1, <2>2, OneFile
  <2>3. QED
    BY <2>1, <2>2
<1>8. /\ Written(entries, i) \in Nat /\ Written(entries, i) <= entries[i].size
  BY <1>2, <1>3, WrittenAtMost
<1>9. /\ IsFiniteSet(staged') /\ \A file \in staged' : file.bytes \in Nat
      /\ BytesIn(staged') \in Nat
      /\ BytesIn(staged') <= BytesIn(staged) + Written(entries, i)
  <2>1. CASE staged' = staged
    BY <1>6, <1>8, <2>1
  <2>2. CASE \E new : staged' = staged \cup {new} /\ new.bytes = Written(entries, i)
    <3>1. PICK new : staged' = staged \cup {new} /\ new.bytes = Written(entries, i)
      BY <2>2
    <3>2. IsFiniteSet(staged \cup {new})
      BY <1>6, FS_AddElement
    <3>3. BytesIn(staged \cup {new}) \in Nat
          /\ BytesIn(staged \cup {new}) <= BytesIn(staged) + new.bytes
      BY <1>6, <1>8, <3>1, OneMore
    <3>4. QED
      BY <1>6, <1>8, <3>1, <3>2, <3>3
  <2>3. QED
    BY <1>7, <2>1, <2>2
<1>10. \A g \in Handler : pc[g] # "idle" => g = h
  BY <1>1 DEF Inv, Undisturbed, Alone
<1>11. \A g \in Handler \ {h} : pc'[g] = "idle"
  BY <1>10, WorkSteps DEF Inv, Work
<1> HIDE DEF entries, a, i
<1>12. ASSUME MaxTotalBytes > 0, MaxFileBytes > 0
       PROVE  /\ BytesIn(staged') <= (1 + ignored') * Room
              /\ pc'[h] = "extract" =>
                   BytesIn(staged') <= ignored' * Room
                                       + BytesOf(Entries[local'[h].opened], local'[h].entry - 1)
  <2>1. BytesIn(staged) <= ignored * Room + BytesOf(entries, i - 1)
    BY <1>1, <1>12 DEF Weighed, entries, a, i
  <2>2. PICK p \in Nat, r \in Nat, b \in Nat :
          p = ignored * Room /\ r = Room /\ b = BytesOf(entries, i - 1)
    BY <1>5, <1>6, Products
  <2>3. (1 + ignored') * Room = p + r /\ ignored' * Room = p /\ r = MaxTotalBytes + MaxFileBytes
    BY <1>1, <1>6, <2>2, Products DEF Room
  <2>4. b <= MaxTotalBytes
    BY <1>2, <1>3, <1>4, <1>12, <2>2, WithinTotal DEF entries
  <2>5. CASE ExtractEntry(h)
    <3>1. /\ ~Overruns(entries, i) /\ ~Rejected(entries, i) /\ ~Clashes(entries, i)
          /\ UNCHANGED pc
          /\ local' = [local EXCEPT ![h].entry = i + 1]
      BY <2>5 DEF ExtractEntry, entries, a, i
    <3>2. local'[h].opened = a /\ local'[h].entry - 1 = i
      <4>1. local \in [Handler -> Loaded] /\ local[h] \in Loaded
        BY DEF Inv, Typed, HandlersTyped
      <4>2. local' = [local EXCEPT ![h] = [local[h] EXCEPT !.entry = i + 1]]
        BY <3>1, <4>1
      <4>3. local'[h].opened = local[h].opened /\ local'[h].entry = i + 1
        BY <4>1, <4>2 DEF Loaded
      <4>4. QED
        BY <1>2, <4>3 DEF a
    <3>3. Passed(a, i)
      <4>1. \A j \in 1 .. i : j \in 1 .. i - 1 \/ j = i
        BY <1>2
      <4>2. QED
        BY <1>4, <3>1, <4>1 DEF Passed, entries
    <3>4. BytesOf(entries, i) <= MaxTotalBytes
      BY <1>2, <1>3, <1>12, <3>3, WithinTotal DEF entries
    <3>5. BytesIn(staged') <= BytesIn(staged) + Size(entries[i])
      <4>1. CASE entries[i].type = "file"
        <5>1. Written(entries, i) = entries[i].size
          BY <1>2, <1>3, <3>1, <4>1, WrittenInFull DEF entries
        <5>2. QED
          BY <1>9, <4>1, <5>1 DEF Size
      <4>2. CASE entries[i].type # "file"
        <5>1. staged' = staged
          BY <1>7, <3>1, <4>2 DEF Rejected
        <5>2. QED
          BY <1>6, <4>2, <5>1 DEF Size
      <4>3. QED
        BY <4>1, <4>2
    <3>6. PICK s \in Nat : s = Size(entries[i])
      BY <1>5 DEF Size
    <3>7. BytesIn(staged') <= p + (b + s) /\ b + s <= MaxTotalBytes
      BY <1>5, <1>6, <1>9, <2>1, <2>2, <3>4, <3>5, <3>6
    <3>8. BytesIn(staged') <= p + r
      BY <1>9, <2>2, <2>3, <3>6, <3>7, LimitsOK
    <3>9. BytesIn(staged') <= p + BytesOf(entries, i)
      BY <1>5, <2>2, <3>6, <3>7
    <3>10. QED
      BY <2>3, <3>2, <3>8, <3>9 DEF entries
  <2>6. CASE ExtractUnsafe(h)
    <3>1. pc'[h] = "failed"
      <4>1. pc \in [Handler -> Position]
        BY DEF Inv, Typed, HandlersTyped
      <4>2. QED
        BY <2>6, <4>1 DEF ExtractUnsafe, FailTo, Goto
    <3>2. BytesIn(staged') <= BytesIn(staged) + MaxFileBytes
      <4>1. CASE staged' = staged
        BY <1>6, <4>1, LimitsOK
      <4>2. CASE entries[i].type # "dir" /\ ~Rejected(entries, i)
        <5>1. entries[i].size <= MaxFileBytes
          BY <1>2, <1>3, <1>12, <4>2, CappedSize DEF entries
        <5>2. QED
          BY <1>5, <1>6, <1>8, <1>9, <5>1, LimitsOK
      <4>3. QED
        BY <1>7, <4>1, <4>2
    <3>3. BytesIn(staged') <= p + r
      BY <1>6, <1>9, <2>1, <2>2, <2>3, <2>4, <3>2, LimitsOK
    <3>4. QED
      BY <2>3, <3>1, <3>3
  <2>7. QED
    BY <2>5, <2>6
<1>13. QED
  BY <1>9, <1>11, <1>12 DEF Weighed

LEMMA WeighedNext ==
  ASSUME Inv, Weighed, [Next]_vars
  PROVE  Weighed'
<1>0. /\ pc \in [Handler -> Position] /\ local \in [Handler -> Loaded] /\ ignored \in Nat
      /\ Alone /\ RowsTyped /\ Typed
      /\ IsFiniteSet(staged) /\ \A file \in staged : file.bytes \in Nat
  BY IngestConstantsOK DEF Inv, Typed, FilesTyped, HandlersTyped, Undisturbed, Weighed
<1>1. ASSUME NEW h \in Handler, ClearUnpackDir(h)
      PROVE  Weighed'
  <2>1. /\ pc[h] = "clear" /\ local' = [local EXCEPT ![h].opened = archive, ![h].entry = 1]
        /\ \/ staged' = {} /\ ignored' = ignored
           \/ staged' \subseteq staged /\ ignored' = ignored + 1
    BY <1>1 DEF ClearUnpackDir, Ignored
  <2>2. \A g \in Handler \ {h} : pc'[g] = "idle"
    <3>1. \A g \in Handler \ {h} : pc[g] = "idle"
      BY <1>0, <2>1 DEF Alone
    <3>2. QED
      BY <1>0, <1>1, <3>1, WorkSteps DEF Work
  <2>3. local'[h].opened = archive /\ local'[h].entry = 1
    <3>1. local' = [local EXCEPT ![h] = [local[h] EXCEPT !.opened = archive, !.entry = 1]]
      BY <1>0, <2>1
    <3>2. QED
      BY <1>0, <3>1 DEF Loaded
  <2>4. BytesOf(Entries[local'[h].opened], local'[h].entry - 1) = 0
    <3>1. archive \in Archive
      BY <1>0, <2>1 DEF Typed, FilesTyped, HandlersTyped, Placed
    <3>2. Entries[archive] \in Seq(Entry)
      BY <3>1, IngestConstantsOK DEF Entry, Archive
    <3>3. QED
      BY <2>3, <3>2, BytesSteps
  <2>5. IsFiniteSet(staged') /\ \A file \in staged' : file.bytes \in Nat
    BY <1>0, <2>1, FS_Subset, FS_EmptySet
  <2>6. ASSUME MaxTotalBytes > 0, MaxFileBytes > 0
        PROVE  BytesIn(staged') <= ignored' * Room
               /\ BytesIn(staged') <= (1 + ignored') * Room
    <3>1. PICK p \in Nat, r \in Nat : p = ignored * Room /\ r = Room
      BY <1>0, Products
    <3>2. /\ (1 + ignored) * Room = p + r /\ (ignored + 1) * Room = p + r
          /\ (1 + (ignored + 1)) * Room = p + r + r
      BY <1>0, <3>1, Products
    <3>3. CASE staged' = {} /\ ignored' = ignored
      BY <3>1, <3>2, <3>3, BytesOfNone
    <3>4. CASE staged' \subseteq staged /\ ignored' = ignored + 1
      <4>1. BytesIn(staged) <= p + r
        BY <2>6, <3>2 DEF Weighed
      <4>2. BytesIn(staged') \in Nat /\ BytesIn(staged) \in Nat
            /\ BytesIn(staged') <= BytesIn(staged)
        BY <1>0, <3>4, FewerBytes
      <4>3. QED
        BY <3>1, <3>2, <3>4, <4>1, <4>2
    <3>5. QED
      BY <2>1, <3>3, <3>4
  <2>7. ASSUME MaxTotalBytes > 0, MaxFileBytes > 0
        PROVE  BytesIn(staged') <= ignored' * Room
                 + BytesOf(Entries[local'[h].opened], local'[h].entry - 1)
    <3>1. ignored' \in Nat
      BY <1>0, <2>1
    <3>2. ignored' * Room \in Nat
      BY <3>1, Products
    <3>3. QED
      BY <2>4, <2>6, <2>7, <3>2
  <2>8. QED
    BY <2>2, <2>5, <2>6, <2>7 DEF Weighed
<1>2. ASSUME NEW h \in Handler, PromoteFiles(h)
      PROVE  Weighed'
  <2>1. /\ pc[h] = "promote" /\ UNCHANGED <<local, ignored>> /\ staged' \in {staged, {}}
        /\ pc'[h] # "extract"
    BY <1>0, <1>2 DEF PromoteFiles, Goto
  <2>2. \A g \in Handler : pc'[g] # "extract"
    <3>1. \A g \in Handler \ {h} : pc[g] = "idle"
      BY <1>0, <2>1 DEF Alone
    <3>2. QED
      BY <1>0, <1>2, <2>1, <3>1, WorkSteps DEF Work
  <2>3. CASE staged' = staged
    BY <1>0, <2>1, <2>2, <2>3, WeighedStill
  <2>4. CASE staged' = {}
    <3>1. BytesIn(staged') = 0 /\ IsFiniteSet(staged')
      BY <2>4, BytesOfNone, FS_EmptySet
    <3>2. 0 <= (1 + ignored') * Room
      <4>1. PICK p \in Nat, r \in Nat : p = ignored * Room /\ r = Room
        BY <1>0, Products
      <4>2. (1 + ignored') * Room = p + r
        BY <1>0, <2>1, <4>1, Products
      <4>3. QED
        BY <4>1, <4>2
    <3>3. QED
      BY <2>2, <2>4, <3>1, <3>2 DEF Weighed
  <2>5. QED
    BY <2>1, <2>3, <2>4
<1>3. ASSUME UNCHANGED staged,
             \A h \in Handler : ~ClearUnpackDir(h) /\ ~ExtractEntry(h) /\ ~ExtractUnsafe(h)
      PROVE  Weighed'
  <2>1. ignored' \in {ignored, ignored + 1}
    BY ZenonT(60) DEF Next, Work, Declare, EnqueuePull, PostLost, Claim, Complete, Fail, Crash,
         Reclaim, Downstream, Load, Begin, Fetch, FetchFails, CheckHash, ClearUnpackDir,
         ExtractEntry, ExtractUnsafe, ExtractFails, Unpacked, Verify, PromoteFiles, Seal, Record,
         HandOff, HandOffFails, Ignored, disk, vars
  <2>2. ASSUME NEW h \in Handler,
               \/ Load(h) \/ Begin(h) \/ Fetch(h) \/ FetchFails(h) \/ CheckHash(h)
               \/ ExtractFails(h) \/ Unpacked(h) \/ Verify(h) \/ PromoteFiles(h) \/ Seal(h)
               \/ Record(h) \/ HandOff(h) \/ HandOffFails(h)
        PROVE  \A g \in Handler : pc'[g] # "extract"
    <3>1. pc'[h] # "extract"
      BY <1>0, <2>2 DEF Load, Begin, Fetch, FetchFails, CheckHash, ExtractFails, Unpacked, Verify,
                        PromoteFiles, Seal, Record, HandOff, HandOffFails, FailTo, Transition, Goto
    <3>2. pc[h] # "idle" /\ \A g \in Handler \ {h} : pc'[g] = pc[g]
      BY <1>0, <2>2, WorkSteps DEF Work
    <3>3. QED
      BY <1>0, <3>1, <3>2 DEF Alone
  <2>3. ASSUME NEW h \in Handler, Claim(h) \/ Complete(h) \/ Fail(h) \/ Crash(h)
        PROVE  \A g \in Handler : pc'[g] = "extract" => pc[g] = "extract" /\ local'[g] = local[g]
    BY <1>0, <2>3 DEF Claim, Complete, Fail, Crash, Leave, Goto
  <2>4. CASE \E h \in Handler : Work(h)
    BY <1>0, <1>3, <2>1, <2>2, <2>4, WeighedStill DEF Work
  <2>5. CASE ~\E h \in Handler : Work(h)
    <3>1. /\ ignored' = ignored
          /\ \A g \in Handler : pc'[g] = "extract" => pc[g] = "extract" /\ local'[g] = local[g]
      <4>1. CASE \E h \in Handler : Claim(h) \/ Complete(h) \/ Fail(h) \/ Crash(h)
        BY <2>3, <4>1 DEF Claim, Complete, Fail, Crash, disk
      <4>2. CASE ~\E h \in Handler : Claim(h) \/ Complete(h) \/ Fail(h) \/ Crash(h)
        <5>1. UNCHANGED <<pc, local, ignored>>
          BY <2>5, <4>2 DEF Next, Declare, EnqueuePull, PostLost, Reclaim, Downstream, disk, vars
        <5>2. QED
          BY <5>1
      <4>3. QED
        BY <4>1, <4>2
    <3>2. QED
      BY <1>0, <1>3, <3>1, WeighedStill
  <2>6. QED
    BY <2>4, <2>5
<1>4. \/ UNCHANGED staged
      \/ \E h \in Handler : \/ ClearUnpackDir(h) \/ ExtractEntry(h) \/ ExtractUnsafe(h)
                            \/ PromoteFiles(h)
  BY ZenonT(60) DEF Next, Work, Declare, EnqueuePull, PostLost, Claim, Complete, Fail, Crash,
         Reclaim, Downstream, Load, Begin, Fetch, FetchFails, CheckHash,
         ExtractFails, Unpacked, Verify, Seal, Record, HandOff, HandOffFails, disk, tables, vars
<1>5. QED
  BY <1>1, <1>2, <1>3, <1>4, WeighedFile

\* However an attempt to unpack an archive ends, and however attempts crash and are
\* repeated while locks last, SafeUnpack leaves no more than the total limit and
\* one file beyond it in the staging directory, and as much again for every time
\* that RemoveAll failed to empty it and its error was ignored.
THEOREM StagingStaysBounded == Timely /\ Spec => []StagingIsBounded
<1>1. Timely /\ Init => Weighed
  <2>1. SUFFICES ASSUME Init PROVE Weighed
    OBVIOUS
  <2>2. BytesIn(staged) = 0 /\ IsFiniteSet(staged) /\ staged = {}
    BY <2>1, BytesOfNone, FS_EmptySet DEF Init
  <2>3. 0 <= (1 + ignored) * Room
    <3>1. ignored = 0 /\ Room \in Nat
      BY <2>1, LimitsOK DEF Init, Room
    <3>2. QED
      BY <3>1
  <2>4. \A h \in Handler : pc[h] # "extract"
    BY <2>1 DEF Init
  <2>5. QED
    BY <2>2, <2>3, <2>4 DEF Weighed
<1>2. Inv /\ Weighed /\ [Next]_vars => Weighed'
  BY WeighedNext
<1>3. Weighed => StagingIsBounded
  BY DEF Weighed, Room, StagingIsBounded, BytesIn
<1>4. QED
  BY <1>1, <1>2, <1>3, Invariance, PTL DEF Spec
=============================================================================
