------------------------------ MODULE Gp4File -------------------------------
(***************************************************************************)
(* What a GP4 project says of one file of the inner PFS (gp4.c): whether   *)
(* it is compressed in the package, and the PlayGo chunks it belongs to.   *)
(* Neither is stored with the file.  Both follow from where its blocks lie *)
(* in the image file pfs_image.dat, which is itself a file, raw or         *)
(* compressed, of the outer PFS: here the open file of PfsRead.            *)
(*                                                                         *)
(* Places are counted from where the image begins in the package.  The     *)
(* text of the project, its meta data file, disc and layer numbers, and    *)
(* the files it never names are left out.                                  *)
(***************************************************************************)
EXTENDS InodeTable, SequencesExt

CONSTANTS InnerFiles,   \* bound: files of the inner PFS, [size, blocks]
          Playgos       \* bound: chunks, each with the ranges of its mchunks

\* What a query of a PFS's io gives.
None == [ok |-> FALSE, size |-> 0, packed |-> FALSE]
Takes(n, squeezed) == [ok |-> TRUE, size |-> n, packed |-> squeezed]

(***************************************************************************)
(* Where a file is, and what it takes                                      *)
(***************************************************************************)
\* pfs_file_get_offset_size_raw: block by block.  A block is asked for whole
\* as long as those before took less than they hold.  under is the query of the
\* io below.
RawSize(size, blocks, off, len, under) ==
    LET first == off \div BlockSize
        after[n \in 0 .. Up(len)] ==
            IF n = 0 THEN Takes(0, FALSE)
            ELSE LET was == after[n - 1]
                     cur == Min2(LbnToSize(size, first + n - 1), len - was.size)
                     real == under[blocks[first + n] * BlockSize + (off % BlockSize), cur]
                 IN  IF was.ok /\ real.ok
                     THEN Takes(was.size + real.size, was.packed \/ real.packed)
                     ELSE None
    IN  IF Up(len) > Len(blocks) THEN None ELSE after[Up(len)]

\* pfs_file_get_offset_size_compressed: the units, as the table has them.
UnitsSize(off, len) ==
    LET first == off \div Unit
        n == (len + Unit - 1) \div Unit
    IN  IF n > UnitCount THEN None
        ELSE Takes(blockOffsets[first + n + 1] - blockOffsets[first + 1], TRUE)

\* The callbacks: of the package, of the image file in it, and of a file there.
InPackage == [off \in Nat, len \in Nat |->
    IF off + len > Len(file.device) * BlockSize THEN None ELSE Takes(len, FALSE)]
InImage == [off \in Nat, len \in Nat |->
    IF off + len > fileSize THEN None
    ELSE IF file.compressed THEN UnitsSize(off, len)
    ELSE RawSize(fileSize, list, off, len, InPackage)]
SizeToRead(f) == RawSize(f.size, f.blocks, 0, f.size, InImage)

\* pfs_file_get_outer_location, of the file and then of the image file: the
\* block of the package in which it begins.
BlockOf(off) == list[off \div BlockSize + 1]
OuterLocation(f) ==
    LET off == f.blocks[1] * BlockSize
    IN  IF file.compressed THEN BlockOf(blockOffsets[off \div Unit + 1]) ELSE BlockOf(off)

(***************************************************************************)
(* The chunks                                                              *)
(***************************************************************************)
Covers(m, at) == m.at <= at /\ at < m.at + m.size
\* playgo_get_chunks: a chunk once for each of its mchunks, by its number, and
\* enum_pfs_entries_for_gp4_cb, which sorts them.
Chunks(plgo, at) ==
    LET of(i) == SelectSeq(plgo[i], LAMBDA m : Covers(m, at))
        numbers == FoldLeft(LAMBDA s, i : s \o [k \in DOMAIN of(i) |-> i - 1], <<>>,
                            [i \in DOMAIN plgo |-> i])
    IN  SortSeq(numbers, <)

\* The loop's locals and what it has printed: a number opens a range, "-" and a
\* number end it.
Opened(w, c) == [start |-> c, prev |-> c, said |-> Append(w.said, [from |-> c, to |-> c])]
Ended(w, c) == [w EXCEPT !.said[Len(w.said)].to = c]
\* Mutant: the last range is left open.
MutantSay(w, c, last) ==
    IF w.said # <<>> /\ c \in {w.prev, w.prev + 1} THEN [w EXCEPT !.prev = c]
    ELSE IF w.said # <<>> /\ w.prev - w.start >= 1 THEN Opened(Ended(w, w.prev), c)
    ELSE Opened(w, c)
Say(w, c, last) ==
    IF w.said # <<>> /\ c \in {w.prev, w.prev + 1}
    THEN [(IF last /\ c # w.prev THEN Ended(w, c) ELSE w) EXCEPT !.prev = c]
    ELSE IF w.said # <<>> /\ w.prev - w.start >= 1 THEN Opened(Ended(w, w.prev), c)
    ELSE Opened(w, c)
Ranges(chunks) ==
    IF chunks = <<0>> THEN <<>>             \* the default needs no attribute
    ELSE FoldLeft(LAMBDA w, k : Say(w, chunks[k], k = Len(chunks)),
                  [start |-> -1, prev |-> -1, said |-> <<>>],
                  [k \in DOMAIN chunks |-> k]).said

\* The file's line in the project; without one a warning is printed.
Line(f, plgo) ==
    LET s == SizeToRead(f)
    IN  [named |-> s.ok, packed |-> s.packed /\ f.size > s.size,
         chunks |-> Ranges(Chunks(plgo, OuterLocation(f) * BlockSize))]
-----------------------------------------------------------------------------
\* The blocks of the package that have the first cell of the file, or of the
\* unit it is in, and the cells that have any of it.
HasFirst(c, off) == \/ c.is = "data" /\ c.a = (IF file.compressed THEN (off \div Unit) * Unit
                                               ELSE off)
                    \/ c.is = "packed" /\ c.a = off \div Unit
                       /\ \A d \in {file.device[m][k] : m \in DOMAIN file.device, k \in 1 .. BlockSize} :
                             d.is = "packed" /\ d.a = c.a => d.b <= c.b
FirstBlocks(f) == {m - 1 : m \in {m \in DOMAIN file.device :
                      \E k \in 1 .. BlockSize : HasFirst(file.device[m][k], f.blocks[1] * BlockSize)}}
PackedCells(f) ==
    {<<m, k>> \in (DOMAIN file.device) \X (1 .. BlockSize) :
        \E b \in Range(f.blocks) : LET c == file.device[m][k]
                                   IN  \/ c.is = "data" /\ c.a \div BlockSize = b
                                       \/ c.is = "packed" /\ c.a = b}
Told(ranges) == UNION {r.from .. r.to : r \in Range(ranges)}

InsideImage(f) == f.size > 0 /\ \A k \in DOMAIN f.blocks :
                     f.blocks[k] * BlockSize + Min2(BlockSize, f.size - (k - 1) * BlockSize) <= fileSize
\* The mchunks of a chunk that have the block in which the file begins.
Hits(f, ms) == {k \in DOMAIN ms : \E b \in FirstBlocks(f) :
                                        b * BlockSize \in ms[k].at .. ms[k].at + ms[k].size - 1}
ChunksAreRight(f, plgo, told) ==
    LET hit == {i \in DOMAIN plgo : Hits(f, plgo[i]) # {}}
        numbers == {i - 1 : i \in hit}
        highest == CHOOSE i \in hit : \A j \in hit : j <= i
    IN  \/ told = numbers
        \/ numbers = {0} /\ told = {}
        \/ /\ hit # {} /\ Cardinality(Hits(f, plgo[highest])) > 1
           /\ \E c \in numbers : /\ c .. highest - 1 \subseteq numbers /\ c - 1 \notin numbers
                                 /\ told = {n \in numbers : n <= c}

\* The line of a file in the project is true, through two layers of PFS.  The
\* file is said to be compressed when it takes fewer cells of the package than
\* it has, and its ranges of chunks are the chunks that have the block of the
\* package in which it begins, all of them and no others; but the last
\* range is left with its first chunk alone when two mchunks of its last chunk
\* have the block.  A file has no line only when a compressed image ends within
\* its last block and the blocks before took less than they hold.
LineIsTrue ==
    phase = "ready" /\ Sound /\ (file.compressed => Unit = BlockSize) =>
        \A f \in InnerFiles, plgo \in Playgos :
            LET line == Line(f, plgo)
            IN  InsideImage(f) =>
                    /\ ~line.named => /\ file.compressed /\ fileSize % BlockSize # 0
                                       /\ Len(f.blocks) > 1
                    /\ line.named =>
                          (line.packed <=> file.compressed /\ Cardinality(PackedCells(f)) < f.size)
                    /\ ChunksAreRight(f, plgo, Told(line.chunks))
=============================================================================
