------------------------------ MODULE Archive ------------------------------
(***************************************************************************)
(* Several files as one transfer: the ZIP of zip.ts is written while the    *)
(* files are read, and unzip.ts lists it from its tail and cuts each file   *)
(* out again.  Sizes and offsets are promised before the bytes are known,   *)
(* and a file may change on disk while the archive is being written.        *)
(*                                                                         *)
(* A byte is a record: the bytes of a fixed-width structure carry its       *)
(* fields, those of a file its contents.  A file may itself be an archive,  *)
(* so its bytes may look like the end record the reader searches for.       *)
(*                                                                         *)
(* A definition directly above one with the same parameters, and named for  *)
(* what it gets wrong, is a defect the properties are tried against.        *)
(***************************************************************************)
EXTENDS Integers, Sequences, FiniteSets, SequencesExt

CONSTANTS
    Names,       \* names of the files a user may select, see Name
    Lower(_),    \* toLowerCase of a part of a name
    MaxFiles,    \* files in a selection
    MaxSize,     \* bytes in a file
    MaxEntries,  \* MAX_ENTRIES of the reader
    CountWrap,   \* what the two bytes of a count hold: 65536
    Changes      \* whether a file may change while it is read

VARIABLES
    files,       \* the selection, in order
    disk,        \* how many bytes reading each file will give
    kept,        \* how many of them, from the first on, are as they were chosen
    out,         \* the archive so far
    index,       \* entries begun
    current,     \* <<>>, or the entry being read
    central,     \* entries finished
    stream       \* "open", "closed" or "error"

vars == <<files, disk, kept, out, index, current, central, stream>>

----------------------------------------------------------------------------
(* Names *)

\* `stem (m1) (m2).ext'; a file without a name is called after its number.
Name == [stem : STRING, number : 0..MaxFiles, marks : Seq(Nat), ext : STRING]

\* Sizes and offsets have four bytes and never wrap: both session functions
\* refuse a source longer than MAX_FILE_BYTES, which is 2 GiB.
ASSUME ArchiveAssumption ==
    /\ Names \subseteq Name
    /\ {MaxFiles, MaxSize, MaxEntries, CountWrap} \subseteq Nat
    /\ MaxEntries + 1 < CountWrap
    /\ Changes \in BOOLEAN

Nameless(n) == n.stem = "" /\ n.marks = <<>> /\ n.ext = ""

Base(n, i) ==
    IF Nameless(n) THEN [stem |-> "file", number |-> i, marks |-> <<>>, ext |-> ""] ELSE n

\* Names are compared without regard to case.
Key(n) == <<Lower(n.stem), n.number, n.marks, Lower(n.ext)>>

\* How many names before the i-th are the same.
Before(i) ==
    Cardinality({j \in 1..i - 1 : Key(Base(files[j].name, j)) = Key(Base(files[i].name, i))})

UniqueNameAsGiven(i) == Base(files[i].name, i)

UniqueName(i) ==
    LET base == Base(files[i].name, i)
    IN  IF Before(i) = 0 THEN base ELSE [base EXCEPT !.marks = Append(@, Before(i))]

----------------------------------------------------------------------------
(* Writing *)

LocalLen == 2
DescriptorLen == 1
CentralLen == 2
EndLen == 2

NameLen(n) == 1 + Len(n.marks)

Bytes(n, what) == [k \in 1..n |-> [at |-> k, what |-> what]]

\* What reading a file of n bytes gives; the files of a selection differ in every
\* byte, a byte that was written anew differs from the one that was chosen, and
\* the tail of one file looks like the end of an archive.
Contents(i, n) ==
    [k \in 1..n |-> IF i = 1 /\ k = n
                    THEN [at |-> 1, what |-> [kind |-> "end", count |-> 1, length |-> 1,
                                              offset |-> 0]]
                    ELSE [at |-> k, what |-> [kind |-> "file", file |-> i,
                                              as |-> IF k <= kept[i] THEN "chosen"
                                                     ELSE "rewritten"]]]

LocalHeader(name) ==
    Bytes(LocalLen + NameLen(name), [kind |-> "local", nameLen |-> NameLen(name)])

Descriptor(written) == Bytes(DescriptorLen, [kind |-> "descriptor", size |-> written])

CentralHeader(c) ==
    Bytes(CentralLen + NameLen(UniqueName(c.file)),
          [kind |-> "central", name |-> UniqueName(c.file), size |-> files[c.file].size,
           offset |-> c.offset])

Directory(cs) == FlattenSeq([j \in DOMAIN cs |-> CentralHeader(cs[j])])

EndRecord(cs, offset) ==
    Bytes(EndLen, [kind |-> "end", count |-> Len(cs) % CountWrap,
                   length |-> Len(Directory(cs)), offset |-> offset])

\* The length that is declared before a byte is read, entry by entry.
Sized[n \in 0..Len(files)] ==
    IF n = 0 THEN 0
    ELSE Sized[n - 1] + (LocalLen + NameLen(UniqueName(n)) + files[n].size + DescriptorLen)
                      + (CentralLen + NameLen(UniqueName(n)))

ZipSize == Sized[Len(files)] + EndLen

Init ==
    /\ files \in UNION {[1..n -> [name : Names, size : 0..MaxSize]] : n \in 2..MaxFiles}
    /\ disk = [i \in DOMAIN files |-> files[i].size]
    /\ kept = disk
    /\ out = <<>>
    /\ index = 0
    /\ current = <<>>
    /\ central = <<>>
    /\ stream = "open"

\* No file has been written to: one of them is, once.
Untouched == \A i \in DOMAIN files : disk[i] = files[i].size /\ kept[i] = files[i].size

\* A file is written anew while the bundle is made, and may keep its length; what
\* has been read of it was read before.
FileChanges ==
    /\ Changes /\ stream = "open" /\ Untouched
    /\ \E i \in DOMAIN files, n \in 0..MaxSize :
         /\ \/ index < i /\ kept' = [kept EXCEPT ![i] = 0]
            \/ /\ current # <<>> /\ current[1].file = i /\ current[1].written <= n
               /\ kept' = [kept EXCEPT ![i] = current[1].written]
         /\ disk' = [disk EXCEPT ![i] = n]
    /\ UNCHANGED <<files, out, index, current, central, stream>>

StartsEntry ==
    /\ stream = "open" /\ current = <<>> /\ index < Len(files)
    /\ index' = index + 1
    /\ current' = <<[file |-> index + 1, offset |-> Len(out), written |-> 0]>>
    /\ out' = out \o LocalHeader(UniqueName(index + 1))
    /\ UNCHANGED <<files, disk, kept, central, stream>>

ReadsPiece ==
    /\ stream = "open" /\ current # <<>>
    /\ LET c == current[1]
       IN  \E n \in c.written + 1..disk[c.file] :
             /\ out' = out \o SubSeq(Contents(c.file, disk[c.file]), c.written + 1, n)
             /\ current' = <<[c EXCEPT !.written = n]>>
    /\ UNCHANGED <<files, disk, kept, index, central, stream>>

SameSizeNotLooked(c) == TRUE

SameSize(c) == c.written = files[c.file].size

EndsEntry ==
    /\ stream = "open" /\ current # <<>>
    /\ LET c == current[1]
       IN  /\ c.written = disk[c.file]
           /\ IF SameSize(c)
              THEN /\ out' = out \o Descriptor(c.written)
                   /\ central' = Append(central, c)
                   /\ current' = <<>>
                   /\ UNCHANGED stream
              ELSE stream' = "error" /\ UNCHANGED <<out, central, current>>
    /\ UNCHANGED <<files, disk, kept, index>>

Finishes ==
    /\ stream = "open" /\ current = <<>> /\ index = Len(files)
    /\ out' = out \o Directory(central) \o EndRecord(central, Len(out))
    /\ stream' = "closed"
    /\ UNCHANGED <<files, disk, kept, index, current, central>>

Next == FileChanges \/ StartsEntry \/ ReadsPiece \/ EndsEntry \/ Finishes

Spec == Init /\ [][Next]_vars

----------------------------------------------------------------------------
(* Reading *)

Slice(from, length) == SubSeq(out, from + 1, from + length)

Is(offset, kind) == out[offset + 1].at = 1 /\ out[offset + 1].what.kind = kind

Ends(offset) == offset + EndLen <= Len(out) /\ Is(offset, "end")

\* The end record is looked for from the tail backwards.
LastEnd(E) == CHOOSE e \in E : \A f \in E : f <= e

EndsFound == {e \in 0..Len(out) - 1 : Ends(e)}

TheEnd == out[LastEnd(EndsFound) + 1].what

\* Where the k-th record of the directory begins.
Record[k \in 1..TheEnd.count] ==
    IF k = 1 THEN TheEnd.offset
    ELSE Record[k - 1] + CentralLen + NameLen(out[Record[k - 1] + 1].what.name)

Unreadable ==
    \/ EndsFound = {}
    \/ TheEnd.count \in {0, CountWrap - 1}
    \/ TheEnd.count > MaxEntries
    \/ TheEnd.offset + TheEnd.length > Len(out)
    \/ \E k \in 1..TheEnd.count :
         \/ Record[k] + CentralLen > TheEnd.offset + TheEnd.length
         \/ ~Is(Record[k], "central")

\* readZipIndex, in the order of the directory.
ZipIndex == [k \in 1..TheEnd.count |-> out[Record[k] + 1].what]

\* extractEntry: the data begins where the local header says.
Extracted(e) ==
    Slice(e.offset + LocalLen + out[e.offset + 1].what.nameLen, e.size)

----------------------------------------------------------------------------
(* Properties *)

TypeOK ==
    /\ \A i \in DOMAIN files : {files[i].size, disk[i], kept[i]} \subseteq 0..MaxSize
    /\ index \in 0..Len(files) /\ Len(current) <= 1 /\ Len(central) <= index
    /\ stream \in {"open", "closed", "error"}

\* An archive that was finished has the length that was declared, and lists
\* every selected file, each of which comes out as it was read and as long as it
\* was when it was chosen, even where a file looks like the end of an archive or
\* one of them was written to (zip.ts:117-130, 164-170, unzip.ts:50-57, 102-112).
\* So a file nobody wrote to comes out as it was chosen; one that was written
\* anew in the same length comes out changed, or half so, for nothing compares
\* more than the length.  One of more files than the reader lists is handed over
\* as it is, as long as their count fits.
ArchiveWhole ==
    stream = "closed" =>
        /\ Len(out) = ZipSize
        /\ Len(files) < CountWrap => (Unreadable <=> Len(files) > MaxEntries)
        /\ Len(files) <= MaxEntries =>
             /\ Len(ZipIndex) = Len(files)
             /\ \A i \in DOMAIN files :
                  /\ ZipIndex[i].name = UniqueName(i)
                  /\ Is(ZipIndex[i].offset, "local")
                  /\ Extracted(ZipIndex[i]) = Contents(i, files[i].size)

\* No two entries have names that differ in case only, as long as no selected
\* name ends in a number already: `a', `a' and `a (1)' become two `a (1)'.
NamesDiffer ==
    (\A i \in DOMAIN files : files[i].name.marks = <<>>) =>
        \A i, j \in DOMAIN files : i < j => Key(UniqueName(i)) # Key(UniqueName(j))

=============================================================================
