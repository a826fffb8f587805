------------------------------- MODULE PfsRead -------------------------------
(***************************************************************************)
(* One open file of a PFS image: how pfs_get_file finds the blocks of a    *)
(* dinode, loads the block table of a compressed (PFSC) file, and how      *)
(* pfs_file_read puts the contents of the file together.                   *)
(*                                                                         *)
(* A file is a sequence of cells, a block of BlockSize cells; a pointer,   *)
(* an entry of the PFSC table and a unit of data are one cell each.  The   *)
(* four dinode formats differ in the width of their fields only and are    *)
(* one format here.  tmp_block and work_data are buffers of the open file: *)
(* what an earlier read left in them is still there in the next.           *)
(*                                                                         *)
(* Decryption is left out (a block is read as its plain contents), and so  *)
(* is running out of memory.                                               *)
(***************************************************************************)
EXTENDS Integers, Sequences

CONSTANTS BlockSize,    \* basic_block_size, in cells
          DirectMax,    \* PFS_DIRECT_BLOCK_MAX_COUNT
          PerBlock,     \* indirect_ptrs_per_block
          WorkSize,     \* PFSC_WORK_DATA_SIZE / 2
          Grain, Lengths,   \* bound: offsets are multiples of Grain, and reads of
                        \* these lengths or up to the end of the file
          Contiguous,   \* 0xFFFFFFFF in a direct block: the rest follow the last
          Files         \* dinodes, with the device that holds them

Levels == 0 .. 2                                \* PFS_INDIRECT_BLOCK_MAX_COUNT
Cell == [is : {"data", "packed", "pointer", "offset", "header", "zero"},
         a : Nat, b : Nat]
Zero == [is |-> "zero", a |-> 0, b |-> 0]
Zeros(n) == [k \in 1 .. n |-> Zero]
File == [size : Nat,                            \* dinode.size
         full : Nat,                            \* dinode.size_uncompressed
         compressed : BOOLEAN,                  \* PFS_FILE_COMPRESSED
         inner : BOOLEAN,                       \* of an inner PFS
         direct : [1 .. DirectMax -> Nat],
         count : Nat,                           \* dinode.block_count
         indirect : [Levels -> Nat],
         device : Seq([1 .. BlockSize -> Cell]),
         header : [unit : Nat \ {0},            \* PFSC block_size
                   table : Nat,                 \* block_table_offset
                   rounded : Nat],              \* rounded_file_size
         blocks : Seq(Nat)]                     \* where its writer put it

ASSUME SizesAssumption == /\ BlockSize \in Nat \ {0} /\ DirectMax \in Nat \ {0}
                          /\ PerBlock \in 1 .. BlockSize /\ WorkSize \in Nat
                          /\ Grain \in Nat \ {0} /\ Lengths \subseteq Nat
                          /\ Contiguous \in Nat
\* A first block, and units of at most 64 KB, are taken for granted.
ASSUME FilesAssumption == \A f \in Files : /\ f \in File /\ f.direct[1] # Contiguous
                                           /\ f.header.unit <= WorkSize

VARIABLES
    file, phase,
    list,               \* block_list->blocks
    processed, contig,
    level, depth, idx, u,   \* loops over the indirect blocks and their buffers
    tmpBlock, fileSize, blockOffsets, workData,
    raw,                \* the locals of pfs_file_read_raw
    out,                \* what it has copied to its caller
    packed,             \* the locals of pfs_file_read_compressed
    request, data,      \* the caller's arguments and buffer
    status,
    broken              \* history: the device has failed this call

mapping == <<list, processed, contig, level, depth, idx, u>>
buffers == <<tmpBlock, workData>>
opened == <<fileSize, blockOffsets>>
copying == <<raw, out, packed>>
call == <<request, data, status, broken>>
vars == <<file, phase, mapping, buffers, opened, copying, call>>

Phases == {"closed", "direct", "contig", "prepare", "load", "indirect", "mapped",
           "raw", "packed", "inflate", "returned", "ready", "failed", "wild"}
Opening == {"direct", "contig", "prepare", "load", "indirect", "mapped"}

(***************************************************************************)
(* Blocks and sizes                                                        *)
(***************************************************************************)
Up(n) == (n + BlockSize - 1) \div BlockSize             \* align_up, in blocks
LbnToSize(size, lbn) ==
    IF lbn >= DirectMax \/ size >= (lbn + 1) * BlockSize THEN BlockSize
    ELSE Up(size % BlockSize) * BlockSize

Min2(m, n) == IF m <= n THEN m ELSE n
Overlay(buffer, cells) ==
    [k \in DOMAIN buffer |-> IF k <= Len(cells) THEN cells[k] ELSE buffer[k]]

\* pfs_read_blocks of n blocks from block b: the callbacks let a seek and a
\* read go no further than the image.
CanRead(b, n) == b + n <= Len(file.device)
Blocks(b, n) == IF n = 1 THEN file.device[b + 1]
                ELSE file.device[b + 1] \o file.device[b + 2]

(***************************************************************************)
(* Where the format has the blocks of a file                               *)
(***************************************************************************)
\* The dinode's list up to the sentinel, and the blocks that need no pointers:
\* with a sentinel as many as block_count says, if it says as many as there are.
Sentinels(f) == {k \in 1 .. DirectMax : f.direct[k] = Contiguous}
InDinode(f) == IF Sentinels(f) = {} THEN DirectMax
               ELSE (CHOOSE k \in Sentinels(f) : \A j \in Sentinels(f) : k <= j) - 1
InRun(f) == IF Sentinels(f) = {} THEN 0
            ELSE IF f.count >= InDinode(f) THEN f.count - InDinode(f) ELSE f.size + 1
Outright(f) == InDinode(f) + InRun(f)
\* What entry k of a block of pointers names.
Entry(f, block, k) == f.device[block + 1][k + 1].a
\* Block n of a file, through as many blocks of pointers as its level has.
BlockAt(f, n) ==
    LET once == n - Outright(f)
        twice == once - PerBlock
        thrice == twice - PerBlock * PerBlock
        One(k) == Entry(f, f.indirect[0], k)
        Two(j, k) == Entry(f, Entry(f, f.indirect[1], j), k)
        Three(i, j, k) == Entry(f, Entry(f, Entry(f, f.indirect[2], i), j), k)
    IN  IF n < DirectMax /\ \A k \in 1 .. n + 1 : f.direct[k] # Contiguous
        THEN f.direct[n + 1]
        ELSE IF n < Outright(f) THEN f.direct[InDinode(f)] + (n + 1 - InDinode(f))
        ELSE IF once < PerBlock THEN One(once)
        ELSE IF twice < PerBlock * PerBlock THEN Two(twice \div PerBlock, twice % PerBlock)
        ELSE Three((thrice \div PerBlock) \div PerBlock, (thrice \div PerBlock) % PerBlock,
                   thrice % PerBlock)
\* The blocks of pointers on the way to it.
Way(f, n) ==
    LET once == n - Outright(f)
        twice == once - PerBlock
        thrice == twice - PerBlock * PerBlock
        Two(i) == Entry(f, f.indirect[2], i)
    IN  IF n < Outright(f) THEN {}
        ELSE IF once < PerBlock THEN {f.indirect[0]}
        ELSE IF twice < PerBlock * PerBlock
        THEN {f.indirect[1], Entry(f, f.indirect[1], twice \div PerBlock)}
        ELSE {f.indirect[2], Two((thrice \div PerBlock) \div PerBlock),
              Entry(f, Two((thrice \div PerBlock) \div PerBlock), (thrice \div PerBlock) % PerBlock)}
\* A file's writer has put it where the format has it, on the device, and no
\* file is longer than its pointers reach.
ASSUME LayoutAssumption ==
    \A f \in Files : f.blocks # <<>> =>
        /\ Len(f.blocks) >= Up(f.size)
        /\ \A k \in DOMAIN f.blocks : f.blocks[k] = BlockAt(f, k - 1)
                                       /\ f.blocks[k] < Len(f.device)
        /\ Up(f.size) <= Outright(f) + PerBlock + PerBlock * PerBlock
                                     + PerBlock * PerBlock * PerBlock
        /\ \A n \in 0 .. Up(f.size) - 1 : Way(f, n) \subseteq 0 .. Len(f.device) - 1

(***************************************************************************)
(* What the format has in them                                             *)
(***************************************************************************)
CellAt(f, n) == f.device[f.blocks[n \div BlockSize + 1] + 1][(n % BlockSize) + 1]
DataCell(n) == [is |-> "data", a |-> n, b |-> 0]
PlainContents(f) == \A n \in 0 .. f.size - 1 : CellAt(f, n) = DataCell(n)
\* A PFSC file has a header, a table of offsets, and each unit where the table
\* has it: as it is if that is as short as packing it.
OffsetOf(f, k) == CellAt(f, f.header.table + k).a
UnitContents(f, k) ==
    LET at == OffsetOf(f, k)
        n == OffsetOf(f, k + 1) - at
    IN  /\ n \in 1 .. f.header.unit /\ at + n <= f.size
        /\ \A j \in 0 .. n - 1 :
              CellAt(f, at + j) = IF n = f.header.unit THEN DataCell(k * n + j)
                                  ELSE [is |-> "packed", a |-> k, b |-> n - 1 - j]
PackedContents(f) ==
    LET units == f.header.rounded \div f.header.unit
    IN  /\ CellAt(f, 0).is = "header"
        /\ f.header.table + units + 1 <= f.size
        /\ \A k \in 0 .. units - 1 : UnitContents(f, k)
ASSUME ContentsAssumption ==
    \A f \in Files : f.blocks # <<>> =>
        IF f.compressed THEN PackedContents(f) ELSE PlainContents(f)

(***************************************************************************)
(* pfs_get_block_list                                                      *)
(***************************************************************************)
NoRequest == [off |-> 0, len |-> 0]
Open == /\ phase = "closed" /\ phase' = "direct"
        /\ file' \in Files
        /\ UNCHANGED <<mapping, buffers, opened, copying, call>>

\* Mutant: one block too many.
MutantEnough(n) == n > file.size
\* The list is complete when the blocks hold dinode.size.
Enough(n) == n >= file.size

Push(b) ==
    /\ list' = Append(list, b)
    /\ processed' = processed + LbnToSize(file.size, Len(list))
Mapping == UNCHANGED <<file, buffers, opened, copying, call>>

Direct ==
    /\ phase = "direct" /\ idx[0] < DirectMax
    /\ file.direct[idx[0] + 1] # Contiguous
    /\ Push(file.direct[idx[0] + 1])
    /\ idx' = [idx EXCEPT ![0] = @ + 1]
    /\ phase' = IF Enough(processed') THEN "mapped" ELSE "direct"
    /\ UNCHANGED <<contig, level, depth, u>> /\ Mapping

\* The rest of the file follows the last block; more than a file has is given
\* when block_count is smaller than the blocks before (unsigned subtraction).
MeetContiguous ==
    /\ phase = "direct" /\ idx[0] < DirectMax
    /\ file.direct[idx[0] + 1] = Contiguous
    /\ contig' = IF file.count >= idx[0] THEN file.count - idx[0] ELSE file.size + 1
    /\ phase' = "contig" /\ idx' = [idx EXCEPT ![0] = 0]
    /\ UNCHANGED <<list, processed, level, depth, u>> /\ Mapping

Follow ==
    /\ phase = "contig" /\ idx[0] < contig
    /\ Push(list[Len(list)] + 1)
    /\ idx' = [idx EXCEPT ![0] = @ + 1]
    /\ phase' = IF Enough(processed') THEN "mapped" ELSE "contig"
    /\ UNCHANGED <<contig, level, depth, u>> /\ Mapping

DirectEnds ==
    /\ \/ phase = "direct" /\ idx[0] = DirectMax
       \/ phase = "contig" /\ idx[0] = contig
    /\ phase' = "prepare" /\ level' = 0
    /\ UNCHANGED <<list, processed, contig, depth, idx, u>> /\ Mapping

\* PREPARE_INDIRECT_BLOCKS: the dinode's block of this level.
Prepare ==
    /\ phase = "prepare" /\ CanRead(file.indirect[level], 1)
    /\ u' = [u EXCEPT ![level] = Blocks(file.indirect[level], 1)]
    /\ idx' = [l \in Levels |-> 0] /\ depth' = level
    /\ phase' = IF level = 0 THEN "indirect" ELSE "load"
    /\ UNCHANGED <<list, processed, contig, level>> /\ Mapping

\* Mutant: the loop of the level above is not moved on.
MutantAscend ==
    IF depth = level
    THEN /\ phase' = (IF level = 2 THEN "mapped" ELSE "prepare")
         /\ level' = (IF level = 2 THEN 2 ELSE level + 1)
         /\ UNCHANGED <<depth, idx>>
    ELSE phase' = "load" /\ depth' = depth + 1 /\ UNCHANGED <<level, idx>>
\* A loop over pointers has ended: on with the one around it, or with the
\* next level, or (after the last) with the list as it is.
Ascend ==
    IF depth = level
    THEN /\ phase' = (IF level = 2 THEN "mapped" ELSE "prepare")
         /\ level' = (IF level = 2 THEN 2 ELSE level + 1)
         /\ UNCHANGED <<depth, idx>>
    ELSE /\ phase' = "load" /\ depth' = depth + 1
         /\ idx' = [idx EXCEPT ![depth + 1] = @ + 1]
         /\ UNCHANGED level

Pointer == u[depth][idx[depth] + 1].a
\* PROCESS_INDIRECT_BLOCKS_1 and _2: the block a pointer of this level names.
Load ==
    /\ phase = "load" /\ idx[depth] < PerBlock /\ CanRead(Pointer, 1)
    /\ u' = [u EXCEPT ![depth - 1] = Blocks(Pointer, 1)]
    /\ idx' = [idx EXCEPT ![depth - 1] = 0] /\ depth' = depth - 1
    /\ phase' = IF depth = 1 THEN "indirect" ELSE "load"
    /\ UNCHANGED <<list, processed, contig, level>> /\ Mapping

\* PROCESS_INDIRECT_BLOCKS_0
Indirect ==
    /\ phase = "indirect" /\ idx[0] < PerBlock
    /\ Push(Pointer)
    /\ idx' = [idx EXCEPT ![0] = @ + 1]
    /\ phase' = IF Enough(processed') THEN "mapped" ELSE "indirect"
    /\ UNCHANGED <<contig, level, depth, u>> /\ Mapping

LoopEnds ==
    /\ phase \in {"load", "indirect"} /\ idx[depth] = PerBlock
    /\ Ascend
    /\ UNCHANGED <<list, processed, contig, u>> /\ Mapping

(***************************************************************************)
(* pfs_file_read_raw                                                       *)
(***************************************************************************)
Fail == /\ status' = "error"
        /\ phase' = IF phase \in Opening \/ (phase = "raw" /\ raw.by = "table")
                    THEN "failed" ELSE "returned"

\* The loops and buffers of pfs_get_block_list are gone when it returns.
NoLoops == /\ processed' = 0 /\ contig' = 0 /\ level' = 0 /\ depth' = 0
           /\ idx' = [l \in Levels |-> 0] /\ u' = [l \in Levels |-> Zeros(BlockSize)]
NoRaw == [by |-> "user", i |-> 0, start |-> 0, end |-> 0, len |-> 0, done |-> 0]
NoPacked == [i |-> 0, end |-> 0, start |-> 0, done |-> 0]
\* Mutant: a read of the whole file is refused.
MutantTooMany(len) == Up(len) >= Len(list)
\* More blocks are asked for than the whole file has.
TooMany(len) == Up(len) > Len(list)

\* The call of pfs_file_read_raw by "user" (pfs_file_read), "packed"
\* (pfs_file_read_compressed) or "table" (pfs_get_file).
StartRaw(by, off, len) ==
    /\ phase' = "raw" /\ out' = <<>>
    /\ raw' = [by |-> by, i |-> off \div BlockSize, start |-> off % BlockSize,
               end |-> off \div BlockSize + Up(len), len |-> len, done |-> 0]
    /\ status' = "none"

\* Two physical blocks at once for an unaligned read, one at the file's end.
Span == IF raw.start > 0 /\ raw.i + 1 < Len(list) THEN 2 ELSE 1

Chunk == Min2(LbnToSize(fileSize, raw.i), raw.len - raw.done)
RawBlock == list[raw.i + 1]
ReadRaw ==
    /\ phase = "raw" /\ raw.i < raw.end /\ raw.i < Len(list)
    /\ CanRead(RawBlock, Span)
    /\ tmpBlock' = Overlay(tmpBlock, Blocks(RawBlock, Span))
    /\ out' = out \o SubSeq(tmpBlock', raw.start + 1, raw.start + Chunk)
    /\ raw' = [raw EXCEPT !.i = @ + 1, !.done = @ + Chunk]
    /\ UNCHANGED <<file, phase, mapping, workData, opened, packed, call>>

\* blocks[i] past the end of the list: whatever memory holds is used.
ReadWild ==
    /\ phase = "raw" /\ raw.i < raw.end /\ raw.i >= Len(list)
    /\ phase' = "wild"
    /\ UNCHANGED <<file, mapping, buffers, opened, copying, call>>

RawEnds ==
    /\ phase = "raw" /\ raw.i = raw.end
    /\ \/ /\ raw.by = "user"
          /\ phase' = "returned" /\ data' = out /\ status' = "ok"
          /\ UNCHANGED <<workData, blockOffsets>>
       \/ /\ raw.by = "packed"
          /\ phase' = "inflate" /\ workData' = Overlay(workData, out)
          /\ UNCHANGED <<blockOffsets, data, status>>
       \/ /\ raw.by = "table"
          /\ phase' = "ready" /\ status' = "ok"
          /\ blockOffsets' = [k \in 1 .. raw.len |-> IF k <= Len(out) THEN out[k].a ELSE 0]
          /\ UNCHANGED <<workData, data>>
    /\ raw' = NoRaw /\ out' = <<>>
    /\ UNCHANGED <<file, mapping, tmpBlock, fileSize, packed, request, broken>>

(***************************************************************************)
(* pfs_get_file, once the blocks are known, and pfs_free_file              *)
(***************************************************************************)
OpenPlain ==
    /\ phase = "mapped" /\ ~file.compressed
    /\ tmpBlock' = Zeros(2 * BlockSize)
    /\ fileSize' = file.size
    /\ IF file.inner /\ file.size # file.full THEN Fail
       ELSE phase' = "ready" /\ status' = "ok"
    /\ NoLoops
    /\ UNCHANGED <<file, list, workData, blockOffsets, copying, request, data, broken>>

Unit == file.header.unit
UnitCount == file.header.rounded \div Unit + 1
OpenCompressed ==
    /\ phase = "mapped" /\ file.compressed /\ CanRead(list[1], 1)
    /\ tmpBlock' = Overlay(Zeros(2 * BlockSize), Blocks(list[1], 1))
    /\ fileSize' = file.full
    /\ workData' = Zeros(2 * WorkSize)
    /\ IF tmpBlock'[1].is = "header" /\ ~TooMany(UnitCount)
       THEN StartRaw("table", file.header.table, UnitCount)
       ELSE Fail /\ UNCHANGED <<raw, out>>
    /\ NoLoops
    /\ UNCHANGED <<file, list, blockOffsets, packed, request, data, broken>>

\* The caller has its data, or drops the file.
Return == /\ phase = "returned" /\ phase' = "ready" /\ status' = "ok"
          /\ request' = NoRequest /\ data' = <<>> /\ broken' = FALSE
          /\ packed' = NoPacked /\ raw' = NoRaw /\ out' = <<>>
          /\ UNCHANGED <<file, mapping, buffers, opened>>
Close ==
    /\ phase \in {"ready", "failed", "wild"} /\ phase' = "closed"
    /\ list' = <<>> /\ NoLoops
    /\ tmpBlock' = Zeros(2 * BlockSize) /\ workData' = Zeros(2 * WorkSize)
    /\ fileSize' = 0 /\ blockOffsets' = <<>>
    /\ raw' = NoRaw /\ out' = <<>> /\ packed' = NoPacked
    /\ request' = NoRequest /\ data' = <<>> /\ status' = "none" /\ broken' = FALSE
    /\ UNCHANGED file

(***************************************************************************)
(* pfs_file_read and pfs_file_read_compressed                              *)
(***************************************************************************)
\* Callers read chunks of 8 MB and blocks of an inner PFS, whose block size is
\* its own; the length may be anything.
Requests == UNION {[off : {off}, len : Lengths \cup {fileSize - off}] :
                   off \in {o \in 0 .. fileSize : o % Grain = 0}}
Beyond(r) == r.off + r.len > fileSize

Read ==
    /\ phase = "ready" /\ request' \in Requests
    /\ broken' = FALSE /\ data' = <<>>
    /\ \/ /\ Beyond(request')
          /\ phase' = "returned" /\ status' = "error" /\ UNCHANGED <<raw, out, packed>>
       \/ /\ ~Beyond(request') /\ ~file.compressed /\ ~TooMany(request'.len)
          /\ StartRaw("user", request'.off, request'.len) /\ UNCHANGED packed
       \/ /\ ~Beyond(request') /\ ~file.compressed /\ TooMany(request'.len)
          /\ phase' = "returned" /\ status' = "error" /\ UNCHANGED <<raw, out, packed>>
       \/ /\ ~Beyond(request') /\ file.compressed
          /\ LET first == request'.off \div Unit
                 n == (request'.len + Unit - 1) \div Unit
             IN  IF n > UnitCount
                 THEN phase' = "returned" /\ status' = "error" /\ UNCHANGED packed
                 ELSE /\ phase' = "packed" /\ status' = "none"
                      /\ packed' = [i |-> first, end |-> first + n,
                                    start |-> request'.off % Unit, done |-> 0]
          /\ UNCHANGED <<raw, out>>
    /\ UNCHANGED <<file, mapping, buffers, opened>>

\* One unit is read in full, from wherever its compressed form begins.
ReadPacked ==
    /\ phase = "packed" /\ packed.i < packed.end /\ packed.i < UnitCount
    /\ IF TooMany(Unit) THEN Fail /\ UNCHANGED <<raw, out>>
       ELSE StartRaw("packed", blockOffsets[packed.i + 1], Unit)
    /\ UNCHANGED <<file, mapping, buffers, opened, packed, request, data, broken>>

PackedEnds ==
    /\ phase = "packed" /\ packed.i = packed.end
    /\ phase' = "returned" /\ status' = "ok"
    /\ UNCHANGED <<file, mapping, buffers, opened, copying, request, data, broken>>

\* The last entry of the table has no next one.
PackedWild ==
    /\ \/ phase = "packed" /\ packed.i < packed.end /\ packed.i >= UnitCount
       \/ phase = "inflate" /\ packed.i + 1 >= UnitCount
    /\ phase' = "wild"
    /\ UNCHANGED <<file, mapping, buffers, opened, copying, call>>

PackedSize == blockOffsets[packed.i + 2] - blockOffsets[packed.i + 1]
Stored == PackedSize = Unit \/ PackedSize > Unit \/ PackedSize < 0
\* zlib: a whole stream gives its unit back, anything else an error.
Inflates == LET s == SubSeq(workData, 1, PackedSize)
            IN  /\ s # <<>>
                /\ \A k \in DOMAIN s : s[k] = [is |-> "packed", a |-> s[1].a, b |-> Len(s) - k]
Inflated == [k \in 1 .. Unit |-> DataCell(workData[1].a * Unit + k - 1)]

\* The rest of a unit, or for the last what is missing.
Copied == IF packed.i + 1 < packed.end THEN Unit - packed.start
          ELSE request.len - packed.done

CopyFrom(half) ==
    /\ data' = data \o SubSeq(workData', half * WorkSize + packed.start + 1,
                              half * WorkSize + packed.start + Copied)
    /\ packed' = [packed EXCEPT !.i = @ + 1, !.done = @ + Copied]
    /\ phase' = "packed"

\* A read that runs past a unit it began in the middle of copies past workData.
Overrun == packed.start + Copied > (IF Stored THEN 2 ELSE 1) * WorkSize
CopyWild ==
    /\ phase = "inflate" /\ packed.i + 1 < UnitCount /\ Overrun
    /\ phase' = "wild"
    /\ UNCHANGED <<file, mapping, buffers, opened, copying, call>>

Inflate ==
    /\ phase = "inflate" /\ packed.i + 1 < UnitCount /\ ~Overrun
    /\ \/ Stored /\ UNCHANGED <<workData, status>> /\ CopyFrom(0)
       \/ /\ ~Stored /\ Inflates
          /\ workData' = SubSeq(workData, 1, WorkSize)
                         \o Overlay(SubSeq(workData, WorkSize + 1, 2 * WorkSize), Inflated)
          /\ CopyFrom(1) /\ UNCHANGED status
       \/ ~Stored /\ ~Inflates /\ Fail /\ UNCHANGED <<workData, data, packed>>
    /\ UNCHANGED <<file, mapping, tmpBlock, opened, raw, out, request, broken>>
-----------------------------------------------------------------------------
\* The device fails, or has no such block: pfs_read_blocks returns 0 and so
\* does everything above it.
Needs(b, n) == \/ phase = "prepare" /\ b = file.indirect[level] /\ n = 1
               \/ phase = "load" /\ idx[depth] < PerBlock /\ b = Pointer /\ n = 1
               \/ phase = "mapped" /\ file.compressed /\ b = list[1] /\ n = 1
               \/ /\ phase = "raw" /\ raw.i < raw.end /\ raw.i < Len(list)
                  /\ b = RawBlock /\ n = Span
DeviceFails ==
    /\ \E b \in {file.indirect[l] : l \in Levels} \cup {u[l][k].a : l \in Levels, k \in 1 .. BlockSize}
               \cup {list[k] : k \in DOMAIN list}, n \in 1 .. 2 :
           Needs(b, n) /\ broken' = CanRead(b, n)
    /\ Fail
    /\ UNCHANGED <<file, mapping, buffers, opened, copying, request, data>>

Step == \/ Direct \/ MeetContiguous \/ Follow \/ DirectEnds \/ Prepare \/ Load
        \/ Indirect \/ LoopEnds \/ OpenPlain \/ OpenCompressed \/ ReadRaw \/ ReadWild
        \/ RawEnds \/ ReadPacked \/ PackedEnds \/ PackedWild \/ CopyWild \/ Inflate \/ DeviceFails
Next == Open \/ Read \/ Return \/ Close \/ Step

Init ==
    /\ file \in Files /\ phase = "closed"
    /\ list = <<>> /\ processed = 0 /\ contig = 0
    /\ level = 0 /\ depth = 0 /\ idx = [l \in Levels |-> 0]
    /\ u = [l \in Levels |-> Zeros(BlockSize)]
    /\ tmpBlock = Zeros(2 * BlockSize) /\ workData = Zeros(2 * WorkSize)
    /\ fileSize = 0 /\ blockOffsets = <<>>
    /\ raw = NoRaw /\ out = <<>> /\ packed = NoPacked
    /\ request = NoRequest /\ data = <<>> /\ status = "none" /\ broken = FALSE

Spec == Init /\ [][Next]_vars
-----------------------------------------------------------------------------
(***************************************************************************)
(* Properties                                                              *)
(***************************************************************************)
\* pfs_get_block_list allocates capacity = size / BlockSize + 1 entries and
\* never checks the count against it, whatever the dinode's pointers,
\* block_count and sentinel are.
ListFitsItsAllocation == Len(list) <= file.size \div BlockSize + 1

\* What the reading code relies on: the blocks of a compressed file follow
\* one another, because an unaligned read takes the next physical block for
\* the next of the file; its compressed form is no longer than itself, because
\* pfs_file_read_raw measures blocks by the uncompressed size; a unit is at most
\* a block, because a whole unit is read from wherever one begins; and the table
\* has all units, and an entry behind the last unit's.
Consecutive == \A k \in 1 .. Len(file.blocks) - 1 : file.blocks[k + 1] = file.blocks[k] + 1
Sound == /\ file.blocks # <<>>
         /\ file.compressed => /\ Consecutive /\ file.size <= file.full
                               /\ Unit <= BlockSize
                               /\ file.header.rounded % Unit = 0
                               /\ file.full <= file.header.rounded
Aligned(r) == IF file.compressed
              THEN r.off % Unit = 0 \/ (r.off % Unit) + r.len <= Unit
              ELSE r.off % BlockSize = 0 \/ Consecutive

\* A read that succeeds has returned the file's cells, whatever was read
\* before, through direct, contiguous and indirect blocks, stored and
\* compressed units, from the start or the middle, to the end or short of it.
ReadReturnsTheFile ==
    phase = "returned" /\ status = "ok" /\ Sound /\ Aligned(request) =>
        data = [k \in 1 .. request.len |-> DataCell(request.off + k - 1)]

\* Opening and reading end for a cause, the device's, a request beyond the file
\* or an inner file of two sizes, and never with an index past the block list,
\* the block table or workData.
FailsForACause ==
    Sound /\ Aligned(request) =>
        /\ phase # "wild"
        /\ status = "error" => \/ broken \/ Beyond(request)
                               \/ file.inner /\ ~file.compressed /\ file.size # file.full
=============================================================================
