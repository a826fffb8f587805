----------------------------- MODULE SelfConvert -----------------------------
(***************************************************************************)
(* SELFConverter.swift: after an extraction, eboot.bin (a SELF) is put     *)
(* together again as eboot.elf.                                            *)
(*                                                                         *)
(* A SELF is a sequence of cells: its header, the extended header, one per *)
(* entry, the ELF header, one per program header, then data.  Cells are    *)
(* named by their position, so the output is a sequence of positions, 0    *)
(* where it was padded: e_phoff is one cell, sizeof(Elf64_Phdr) another.   *)
(* Offsets and sizes are unsigned 64-bit integers of the file; converting  *)
(* one to Int traps above IntMax, and padding up to one that memory has no *)
(* room for ends the process as well.                                      *)
(***************************************************************************)
EXTENDS Integers, Sequences, FiniteSets

CONSTANTS Selfs,    \* files that eboot.bin may be
          IntMax,   \* Int.max
          Room      \* bound: cells of output that memory has room for

Region == [off : Nat, size : Nat]
\* seg: the program header that the writer of the SELF made the entry for (the
\* number in its properties), 0 for digests; the converter does not look at it.
Entry == [off : Nat, size : Nat, seg : Nat]
Self == [len : Nat, magic : BOOLEAN, entries : Seq(Entry), phdrs : Seq(Region)]

ASSUME SelfsAssumption == Selfs \subseteq Self
ASSUME RoomAssumption == IntMax \in Nat /\ Room \in 0 .. IntMax

VARIABLES bin,      \* selfData
          pc,
          i,        \* loop variable of the entries, then of the program headers
          segments, \* data not yet used, [off, size] in the file
          last,     \* lastSegEnd
          output,
          elf       \* eboot.elf on disk, <<>> if there is none

vars == <<bin, pc, i, segments, last, output, elf>>

Running == {"header", "entries", "elf", "phdrs", "write"}
Ended == {"done", "failed", "skipped", "trapped"}

(***************************************************************************)
(* Positions in the SELF                                                   *)
(***************************************************************************)
EntryCount == Len(bin.entries)
PhNum == Len(bin.phdrs)
EntryCell(n) == 2 + n
EhdrCell == EntryCell(EntryCount) + 1
PhdrCell(n) == EhdrCell + n
Has(cell) == bin.len >= cell
Cells(s) == [k \in 1 .. s.size |-> s.off + k]
Zeros(n) == [k \in 1 .. n |-> 0]

Init == /\ bin \in Selfs /\ pc = "done"
        /\ i = 1 /\ segments = <<>> /\ last = 0 /\ output = <<>> /\ elf = <<>>

\* convertEBoot; reading the file may fail.
Convert ==
    /\ pc \in Ended \ {"trapped"}
    /\ bin' \in Selfs
    /\ pc' \in IF bin'.magic THEN {"header", "failed"} ELSE {"skipped"}
    /\ i' = 1 /\ segments' = <<>> /\ last' = 0 /\ output' = <<>>
    /\ UNCHANGED elf

(***************************************************************************)
(* Header, entries and what follows them                                   *)
(***************************************************************************)
\* Where the guards throw .truncated, and Int(...) traps.
EntryAt == bin.entries[i]
MoreEntries == pc = "entries" /\ i <= EntryCount
EntryEnd == EntryAt.off + EntryAt.size
EntryFits == EntryAt.off <= IntMax /\ EntryAt.size <= IntMax /\ EntryEnd <= IntMax

Header ==
    /\ pc = "header" /\ Has(2) /\ pc' = "entries"
    /\ UNCHANGED <<bin, i, segments, last, output, elf>>

ReadEntry ==
    /\ MoreEntries /\ Has(EntryCell(i)) /\ EntryFits /\ Has(EntryEnd)
    /\ segments' = Append(segments, [off |-> EntryAt.off, size |-> EntryAt.size])
    /\ last' = EntryEnd
    /\ i' = i + 1
    /\ UNCHANGED <<bin, pc, output, elf>>

\* What follows the last entry's data counts as a segment too.
Version == IF bin.len > last THEN <<[off |-> last, size |-> bin.len - last]>> ELSE <<>>
EntriesEnd ==
    /\ pc = "entries" /\ i > EntryCount
    /\ segments' = segments \o Version
    /\ pc' = "elf" /\ i' = 1
    /\ UNCHANGED <<bin, last, output, elf>>

ElfHeader ==
    /\ pc = "elf" /\ Has(EhdrCell)
    /\ pc' = "phdrs" /\ output' = <<EhdrCell>>
    /\ UNCHANGED <<bin, i, segments, last, elf>>

(***************************************************************************)
(* Program headers and their segments                                      *)
(***************************************************************************)
PhdrAt == bin.phdrs[i]
MorePhdrs == pc = "phdrs" /\ i <= PhNum
OfSize(n) == {k \in DOMAIN segments : segments[k].size = n}
\* Mutant: the last segment of the size instead of the first.
MutantFound == CHOOSE k \in OfSize(PhdrAt.size) : \A l \in OfSize(PhdrAt.size) : l <= k
Found == CHOOSE k \in OfSize(PhdrAt.size) : \A l \in OfSize(PhdrAt.size) : k <= l
Matched == PhdrAt.size > 0 /\ OfSize(PhdrAt.size) # {}
\* Mutant: the segment stays for the next program header of its size.
MutantWithout(s, k) == s
Without(s, k) == [n \in 1 .. Len(s) - 1 |-> IF n < k THEN s[n] ELSE s[n + 1]]

\* Grown with zeros where it is too short, then overwritten.
Written(o, off, cells) ==
    LET end == off + Len(cells)
        grown == IF Len(o) < end THEN o \o Zeros(end - Len(o)) ELSE o
    IN  [k \in DOMAIN grown |-> IF k \in off + 1 .. end THEN cells[k - off] ELSE grown[k]]

PlacePhdr ==
    /\ MorePhdrs /\ Has(PhdrCell(i)) /\ ~Matched
    /\ output' = Append(output, PhdrCell(i))
    /\ i' = i + 1
    /\ UNCHANGED <<bin, pc, segments, last, elf>>

PlaceSegment ==
    /\ MorePhdrs /\ Has(PhdrCell(i)) /\ Matched /\ PhdrAt.off + PhdrAt.size <= Room
    /\ output' = Written(Append(output, PhdrCell(i)), PhdrAt.off, Cells(segments[Found]))
    /\ segments' = Without(segments, Found)
    /\ i' = i + 1
    /\ UNCHANGED <<bin, pc, last, elf>>

PhdrsEnd ==
    /\ pc = "phdrs" /\ i > PhNum
    /\ pc' = "write"
    /\ UNCHANGED <<bin, i, segments, last, output, elf>>

\* Atomically, or not at all.
Write ==
    /\ pc = "write"
    /\ \/ pc' = "done" /\ elf' = output
       \/ pc' = "failed" /\ UNCHANGED elf
    /\ UNCHANGED <<bin, i, segments, last, output>>

\* Some guard finds the file too short.
CutShort == \/ pc = "header" /\ ~Has(2)
            \/ MoreEntries /\ (~Has(EntryCell(i)) \/ (EntryFits /\ ~Has(EntryEnd)))
            \/ pc = "elf" /\ ~Has(EhdrCell)
            \/ MorePhdrs /\ ~Has(PhdrCell(i))
Truncated ==
    /\ CutShort /\ pc' = "failed"
    /\ UNCHANGED <<bin, i, segments, last, output, elf>>

Trap ==
    /\ \/ MoreEntries /\ Has(EntryCell(i)) /\ ~EntryFits
       \/ MorePhdrs /\ Has(PhdrCell(i)) /\ Matched /\ PhdrAt.off + PhdrAt.size > Room
    /\ pc' = "trapped"
    /\ UNCHANGED <<bin, i, segments, last, output, elf>>

\* The user starts the application again.
Relaunch == pc = "trapped" /\ pc' = "failed"
            /\ UNCHANGED <<bin, i, segments, last, output, elf>>

Next == \/ Convert \/ Header \/ ReadEntry \/ EntriesEnd \/ ElfHeader
        \/ PlacePhdr \/ PlaceSegment \/ PhdrsEnd \/ Write \/ Truncated \/ Trap
        \/ Relaunch
Spec == Init /\ [][Next]_vars
-----------------------------------------------------------------------------
(***************************************************************************)
(* Properties                                                              *)
(***************************************************************************)
End(s) == s.off + s.size
Disjoint(s, t) == s.size = 0 \/ t.size = 0 \/ End(s) <= t.off \/ End(t) <= s.off

\* All data of the file: the entries', and what follows the last of them.
AllData == [k \in 1 .. EntryCount |-> bin.entries[k]]
           \o (LET end == IF EntryCount = 0 THEN 0 ELSE End(bin.entries[EntryCount])
               IN  IF bin.len > end THEN <<[off |-> end, size |-> bin.len - end, seg |-> 0]>>
                   ELSE <<>>)
\* How many of the first k have this size.
CountTo(s, n, k) == Cardinality({j \in 1 .. k : s[j].size = n})
\* Sizes tell segments apart: of the data of a size, the n-th was made for the
\* n-th program header of that size, as long as there are both; and no program
\* header has two entries of its size.
ToldApart ==
    /\ \A k \in DOMAIN AllData, l \in 1 .. PhNum :
          LET n == bin.phdrs[l].size
          IN  /\ n > 0 /\ AllData[k].size = n
              /\ CountTo(AllData, n, k - 1) = CountTo(bin.phdrs, n, l - 1)
              => AllData[k].seg = l
    /\ \A k, l \in 1 .. EntryCount :
          LET e == bin.entries[k]
          IN  e.seg \in 1 .. PhNum /\ e.seg = bin.entries[l].seg /\ e.size = bin.entries[l].size
              => k = l
\* The segments of the ELF do not overlap.
Layout == \A k, l \in 1 .. PhNum : k # l => Disjoint(bin.phdrs[k], bin.phdrs[l])

\* "segments are reassembled at their correct file offsets": when their sizes
\* tell them apart, every segment that the SELF has data for is at p_offset,
\* whatever the order of entries, program headers and offsets.
SegmentsInPlace ==
    pc = "write" /\ ToldApart /\ Layout =>
        \A e \in {bin.entries[k] : k \in 1 .. EntryCount} :
            e.seg \in 1 .. PhNum /\ e.size > 0 /\ bin.phdrs[e.seg].size = e.size =>
                SubSeq(output, bin.phdrs[e.seg].off + 1, End(bin.phdrs[e.seg])) = Cells(e)

\* The data of the SELF does not overlap, and begins behind its tables.
DataApart ==
    /\ \A k, l \in DOMAIN AllData : k # l => Disjoint(AllData[k], AllData[l])
    /\ \A k \in DOMAIN AllData : AllData[k].size > 0 => AllData[k].off >= PhdrCell(PhNum)
\* Matched by its size alone, a segment may go to the wrong program header, but
\* to one: no cell of the SELF is in the ELF twice, however many entries and
\* program headers share a size and wherever those have their segments.
NoDataTwice ==
    pc = "write" /\ DataApart =>
        \A j, k \in DOMAIN output : output[j] = output[k] /\ output[j] # 0 => j = k

\* Segments begin behind the ELF header and the program headers.
Behind == \A k \in 1 .. PhNum : bin.phdrs[k].size > 0 => bin.phdrs[k].off > PhNum
\* "producing a valid ELF binary readable by analysis tools": the program
\* headers are a table at e_phoff.
HeadersInPlace ==
    pc = "write" /\ ToldApart /\ Layout /\ Behind =>
        /\ Len(output) >= PhNum + 1
        /\ \A k \in 1 .. PhNum : output[k + 1] = PhdrCell(k)

TypeOK ==
    /\ bin \in Selfs /\ pc \in Running \cup Ended
    /\ i \in 1 .. EntryCount + PhNum + 1
    /\ segments \in Seq(Region) /\ last \in Nat
    /\ output \in Seq(0 .. bin.len) /\ Len(output) <= Room + PhNum + 1
    /\ elf \in Seq(Nat)
=============================================================================
