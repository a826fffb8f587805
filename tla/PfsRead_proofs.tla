---------------------------- MODULE PfsRead_proofs ----------------------------
(***************************************************************************)
(* The list of a file's blocks fits the allocation that pfs_get_block_list *)
(* makes for it, names the blocks of the file in their order (BlockAt, the *)
(* format's own account of where they are), and is what the inode table's  *)
(* lookup finds: for every dinode, device and block size.  For every file  *)
(* that is sound, what pfs_file_read gives its caller is the file's own    *)
(* data, and it fails for a cause.                                         *)
(***************************************************************************)
EXTENDS InodeTable, SequenceTheorems, TLAPS

(***************************************************************************)
(* Arithmetic of whole blocks                                              *)
(***************************************************************************)

LEMMA Quotient ==
    ASSUME NEW s \in Nat, NEW B \in Nat \ {0}
    PROVE  s \div B \in Nat
BY SMT

\* n whole blocks in s are at most s \div B: pfs_block.c counts by sizes, its
\* allocation by division.
LEMMA WholeBlocks ==
    ASSUME NEW n \in Nat, NEW s \in Nat, NEW B \in Nat \ {0}, n * B <= s
    PROVE  n <= s \div B
<1>1. s \div B \in Nat /\ s = B * (s \div B) + (s % B) /\ s % B \in 0 .. B - 1
  BY SMT
<1>2. SUFFICES ASSUME n > s \div B PROVE FALSE
  BY <1>1
<1>3. n >= s \div B + 1
  BY <1>1, <1>2
<1>4. B * n >= B * (s \div B + 1)
  BY <1>1, <1>3, SMT
<1> QED BY <1>1, <1>4, SMT

\* What is left of s behind n whole blocks, when it is less than another.
LEMMA LastPart ==
    ASSUME NEW n \in Nat, NEW s \in Nat, NEW B \in Nat \ {0},
           n * B <= s, s < (n + 1) * B
    PROVE  s % B = s - n * B
<1>1. s \div B \in Nat /\ s = B * (s \div B) + (s % B) /\ s % B \in 0 .. B - 1
  BY SMT
<1>2. n <= s \div B
  BY WholeBlocks
<1>3. s \div B <= n
  <2>1. SUFFICES ASSUME s \div B >= n + 1 PROVE FALSE
    BY <1>1
  <2>2. B * (s \div B) >= B * (n + 1)
    BY <1>1, <2>1, SMT
  <2> QED BY <1>1, <2>2, SMT
<1>4. s \div B = n
  BY <1>1, <1>2, <1>3
<1> QED BY <1>1, <1>4, SMT

\* align_up of less than a block, and of nothing.
LEMMA RoundedUp ==
    ASSUME NEW B \in Nat \ {0}
    PROVE  /\ \A r \in 1 .. B : (r + B - 1) \div B = 1
           /\ (0 + B - 1) \div B = 0
<1>1. ASSUME NEW r \in 1 .. B PROVE (r + B - 1) \div B = 1
  BY SMT
<1> QED BY <1>1, SMT

\* pfs_lbn_to_size behind n whole blocks that are not yet the whole file: a
\* whole block again, unless the file is empty.
LEMMA NextBlock ==
    ASSUME NEW n \in Nat, NEW s \in Nat, n * BlockSize < s \/ n = 0
    PROVE  LbnToSize(s, n) = BlockSize \/ (LbnToSize(s, n) = 0 /\ s = 0)
<1>1. BlockSize \in Nat \ {0} /\ DirectMax \in Nat
  BY SizesAssumption
<1>2. CASE n >= DirectMax \/ s >= (n + 1) * BlockSize
  BY <1>1, <1>2, Zenon DEF LbnToSize
<1>3. CASE ~(n >= DirectMax \/ s >= (n + 1) * BlockSize)
  <2>1. n * BlockSize <= s /\ s < (n + 1) * BlockSize
    BY <1>1, <1>3, SMT
  <2>2. s % BlockSize = s - n * BlockSize
    BY <1>1, <2>1, LastPart
  <2>3. LbnToSize(s, n) = Up(s % BlockSize) * BlockSize
    BY <1>3, Zenon DEF LbnToSize
  <2>4. CASE s - n * BlockSize \in 1 .. BlockSize
    <3>1. Up(s % BlockSize) = 1
      BY <1>1, <2>2, <2>4, RoundedUp DEF Up
    <3>2. 1 * BlockSize = BlockSize
      BY <1>1
    <3> QED BY <2>3, <3>1, <3>2, Zenon
  <2>5. CASE s = 0
    <3>1. n = 0
      BY <1>1, <2>1, <2>5
    <3>2. s % BlockSize = 0
      BY <1>1, <2>2, <2>5, <3>1
    <3>3. Up(s % BlockSize) = 0
      BY <1>1, <3>2, RoundedUp DEF Up
    <3>4. 0 * BlockSize = 0
      BY <1>1
    <3> QED BY <2>3, <2>5, <3>3, <3>4, Zenon
  <2>6. s - n * BlockSize \in 1 .. BlockSize \/ s = 0
    BY <1>1, <2>1, SMT
  <2> QED BY <2>4, <2>5, <2>6
<1> QED BY <1>2, <1>3

(***************************************************************************)
(* The invariant                                                           *)
(***************************************************************************)
Filling == {"direct", "contig", "prepare", "load", "indirect"}
DeviceBlock == [1 .. BlockSize -> Cell]

TypeInv == /\ file \in Files
           /\ list \in Seq(Nat) /\ processed \in Nat
           /\ level \in Levels /\ depth \in 0 .. level
           /\ idx \in [Levels -> Nat] /\ u \in [Levels -> DeviceBlock]
\* Every loop of pfs_get_block_list but the first has a block to go on from,
\* and every indirect block is loaded through a loop that has one below it.
LoopInv == /\ phase = "closed" => list = <<>> /\ processed = 0 /\ idx[0] = 0
           /\ phase = "direct" => idx[0] = Len(list)
           /\ phase = "contig" => list # <<>>
           /\ phase = "load" => depth >= 1
           /\ phase \in {"closed", "direct", "contig", "indirect"} => depth = 0
\* While the list is filled it holds whole blocks, and less than the file.
FillInv == phase \in Filling =>
               /\ processed = Len(list) * BlockSize
               /\ list = <<>> \/ processed < file.size
Inv == TypeInv /\ LoopInv /\ FillInv /\ ListFitsItsAllocation

\* What the properties need to know of a dinode.
LEMMA Dinode ==
    ASSUME NEW f \in Files
    PROVE  /\ f.size \in Nat /\ f.direct \in [1 .. DirectMax -> Nat]
           /\ f.indirect \in [Levels -> Nat] /\ f.device \in Seq(DeviceBlock)
           /\ f.direct[1] # Contiguous
<1>1. f \in File /\ f.direct[1] # Contiguous
  BY FilesAssumption
<1> QED BY <1>1 DEF File, DeviceBlock

\* One block of the device, where the callbacks let it be read.
LEMMA BlockRead ==
    ASSUME file \in Files, NEW b \in Nat, CanRead(b, 1)
    PROVE  Blocks(b, 1) \in DeviceBlock
<1>1. file.device \in Seq(DeviceBlock)
  BY Dinode
<1>2. b + 1 \in 1 .. Len(file.device)
  BY <1>1 DEF CanRead
<1> QED BY <1>1, <1>2 DEF Blocks

\* A pointer of an indirect block.
LEMMA PointerType ==
    ASSUME TypeInv, idx[depth] < PerBlock
    PROVE  Pointer \in Nat
<1>1. depth \in Levels /\ idx[depth] \in Nat
  BY DEF TypeInv, Levels
<1>2. idx[depth] + 1 \in 1 .. BlockSize
  BY <1>1, SizesAssumption
<1>3. u[depth][idx[depth] + 1] \in Cell
  BY <1>1, <1>2 DEF TypeInv, DeviceBlock
<1> QED BY <1>3 DEF Pointer, Cell

\* A block appended to the list by one of its three loops: either the file is
\* complete, or there are whole blocks and less than the file again; and in both
\* cases the entry was within the allocation.
LEMMA PushKeeps ==
    ASSUME Inv, phase \in Filling, NEW b \in Nat, Push(b), file' = file
    PROVE  /\ list' \in Seq(Nat) /\ processed' \in Nat /\ list' # <<>>
           /\ Len(list') = Len(list) + 1
           /\ ~Enough(processed') =>
                 processed' = Len(list') * BlockSize /\ processed' < file'.size
           /\ ListFitsItsAllocation'
<1> DEFINE n == Len(list)
           s == file.size
<1>1. n \in Nat /\ s \in Nat /\ BlockSize \in Nat \ {0}
  BY Dinode, SizesAssumption DEF Inv, TypeInv
<1>2. list' \in Seq(Nat) /\ Len(list') = n + 1 /\ list' # <<>>
  BY DEF Inv, TypeInv, Push
<1>3. n * BlockSize < s \/ n = 0
  BY <1>1 DEF Inv, FillInv, TypeInv
<1>4. LbnToSize(s, n) = BlockSize \/ (LbnToSize(s, n) = 0 /\ s = 0)
  BY <1>1, <1>3, NextBlock
<1>5. processed' = n * BlockSize + LbnToSize(s, n)
  BY DEF Push, Inv, FillInv
<1>6. n * BlockSize + BlockSize = (n + 1) * BlockSize /\ n * BlockSize \in Nat
  BY <1>1, SMT
<1>7. processed' \in Nat
  BY <1>1, <1>4, <1>5, <1>6
<1>8. ~Enough(processed') => processed' = (n + 1) * BlockSize /\ processed' < s
  BY <1>1, <1>4, <1>5, <1>6, <1>7 DEF Enough
<1>9. n <= s \div BlockSize
  <2>1. n * BlockSize <= s
    BY <1>1, <1>3, <1>6, SMT
  <2> QED BY <1>1, <2>1, WholeBlocks
<1>10. Len(list') <= file'.size \div BlockSize + 1
  <2>1. s \div BlockSize \in Nat
    BY <1>1, SMT
  <2>2. Len(list') <= s \div BlockSize + 1
    BY <1>1, <1>2, <1>9, <2>1
  <2> QED BY <2>2
<1> QED BY <1>2, <1>7, <1>8, <1>10 DEF ListFitsItsAllocation

LEMMA InitInv == Init => Inv
<1> SUFFICES ASSUME Init PROVE Inv
  OBVIOUS
<1>1. file \in Files /\ list = <<>> /\ list \in Seq(Nat) /\ Len(list) = 0
  BY DEF Init
<1>2. u \in [Levels -> DeviceBlock]
  <2>1. Zeros(BlockSize) \in DeviceBlock
    BY DEF Zeros, Zero, DeviceBlock, Cell
  <2> QED BY <2>1 DEF Init
<1>3. TypeInv
  BY <1>1, <1>2 DEF Init, TypeInv, Levels
<1>4. LoopInv /\ FillInv
  BY <1>1 DEF Init, LoopInv, FillInv, Filling, Levels
<1>5. ListFitsItsAllocation
  <2>1. file.size \div BlockSize \in Nat
    BY <1>1, Dinode, SizesAssumption, Quotient
  <2> QED BY <1>1, <2>1 DEF ListFitsItsAllocation
<1> QED BY <1>3, <1>4, <1>5 DEF Inv

(***************************************************************************)
(* The steps                                                               *)
(***************************************************************************)
LEMMA OpenInv == Inv /\ Open => Inv'
<1> SUFFICES ASSUME Inv, Open PROVE Inv'
  OBVIOUS
<1> USE DEF Inv, Open, mapping
<1>1. list = <<>> /\ processed = 0 /\ idx[0] = 0 /\ Len(list) = 0
  BY DEF LoopInv
<1>2. TypeInv'
  BY DEF TypeInv
<1>3. LoopInv' /\ FillInv'
  <2>1. 0 * BlockSize = 0
    BY SizesAssumption
  <2> QED BY <1>1, <2>1 DEF LoopInv, FillInv, Filling
<1>4. ListFitsItsAllocation'
  <2>1. file'.size \div BlockSize \in Nat
    BY <1>2, Dinode, SizesAssumption, Quotient DEF TypeInv
  <2> QED BY <1>1, <2>1 DEF ListFitsItsAllocation
<1> QED BY <1>2, <1>3, <1>4

LEMMA DirectInv == Inv /\ Direct => Inv'
<1> SUFFICES ASSUME Inv, Direct PROVE Inv'
  OBVIOUS
<1> USE DEF Inv, Direct, Mapping
<1>1. idx[0] \in Nat /\ 0 \in Levels
  BY DEF TypeInv, Levels
<1>2. file.direct[idx[0] + 1] \in Nat
  <2>1. file.direct \in [1 .. DirectMax -> Nat] /\ DirectMax \in Nat
    BY Dinode, SizesAssumption DEF TypeInv
  <2>2. idx[0] + 1 \in 1 .. DirectMax
    BY <1>1, <2>1
  <2> QED BY <2>1, <2>2
<1>3. phase \in Filling /\ file' = file
  BY DEF Filling
<1>4. /\ list' \in Seq(Nat) /\ processed' \in Nat /\ list' # <<>>
      /\ Len(list') = Len(list) + 1 /\ ListFitsItsAllocation'
      /\ ~Enough(processed') =>
            processed' = Len(list') * BlockSize /\ processed' < file'.size
  BY <1>2, <1>3, PushKeeps
<1>5. TypeInv'
  BY <1>1, <1>4 DEF TypeInv
<1>6. LoopInv'
  BY <1>1, <1>4 DEF LoopInv, TypeInv
<1>7. FillInv'
  BY <1>4 DEF FillInv, Filling
<1> QED BY <1>4, <1>5, <1>6, <1>7

LEMMA FollowInv == Inv /\ Follow => Inv'
<1> SUFFICES ASSUME Inv, Follow PROVE Inv'
  OBVIOUS
<1> USE DEF Inv, Follow, Mapping
<1>1. idx[0] \in Nat /\ 0 \in Levels
  BY DEF TypeInv, Levels
<1>2. list[Len(list)] + 1 \in Nat
  <2>1. list # <<>> /\ list \in Seq(Nat)
    BY DEF LoopInv, TypeInv
  <2> QED BY <2>1
<1>3. phase \in Filling /\ file' = file
  BY DEF Filling
<1>4. /\ list' \in Seq(Nat) /\ processed' \in Nat /\ list' # <<>>
      /\ Len(list') = Len(list) + 1 /\ ListFitsItsAllocation'
      /\ ~Enough(processed') =>
            processed' = Len(list') * BlockSize /\ processed' < file'.size
  BY <1>2, <1>3, PushKeeps
<1>5. TypeInv'
  BY <1>1, <1>4 DEF TypeInv
<1>6. LoopInv'
  BY <1>4 DEF LoopInv
<1>7. FillInv'
  BY <1>4 DEF FillInv, Filling
<1> QED BY <1>4, <1>5, <1>6, <1>7

LEMMA IndirectInv == Inv /\ Indirect => Inv'
<1> SUFFICES ASSUME Inv, Indirect PROVE Inv'
  OBVIOUS
<1> USE DEF Inv, Indirect, Mapping
<1>1. idx[0] \in Nat /\ 0 \in Levels
  BY DEF TypeInv, Levels
<1>2. Pointer \in Nat
  <2>1. depth = 0
    BY DEF LoopInv
  <2> QED BY <2>1, PointerType
<1>3. phase \in Filling /\ file' = file
  BY DEF Filling
<1>4. /\ list' \in Seq(Nat) /\ processed' \in Nat /\ list' # <<>>
      /\ Len(list') = Len(list) + 1 /\ ListFitsItsAllocation'
      /\ ~Enough(processed') =>
            processed' = Len(list') * BlockSize /\ processed' < file'.size
  BY <1>2, <1>3, PushKeeps
<1>5. TypeInv'
  BY <1>1, <1>4 DEF TypeInv
<1>6. LoopInv'
  BY <1>4 DEF LoopInv
<1>7. FillInv'
  BY <1>4 DEF FillInv, Filling
<1> QED BY <1>4, <1>5, <1>6, <1>7

LEMMA MeetContiguousInv == Inv /\ MeetContiguous => Inv'
<1> SUFFICES ASSUME Inv, MeetContiguous PROVE Inv'
  OBVIOUS
<1> USE DEF Inv, MeetContiguous, Mapping
<1>1. TypeInv'
  BY DEF TypeInv
<1>2. LoopInv'
  <2>1. idx[0] # 0
    BY Dinode DEF TypeInv
  <2>2. list # <<>>
    BY <2>1 DEF LoopInv
  <2> QED BY <2>2 DEF LoopInv
<1>3. FillInv' /\ ListFitsItsAllocation'
  BY DEF FillInv, Filling, ListFitsItsAllocation
<1> QED BY <1>1, <1>2, <1>3

LEMMA DirectEndsInv == Inv /\ DirectEnds => Inv'
<1> SUFFICES ASSUME Inv, DirectEnds PROVE Inv'
  OBVIOUS
<1> USE DEF Inv, DirectEnds, Mapping
<1>1. TypeInv'
  <2>1. level' \in Levels /\ depth' \in 0 .. level'
    BY DEF LoopInv, Levels
  <2> QED BY <2>1 DEF TypeInv
<1>2. LoopInv' /\ FillInv' /\ ListFitsItsAllocation'
  BY DEF LoopInv, FillInv, Filling, ListFitsItsAllocation
<1> QED BY <1>1, <1>2

LEMMA PrepareInv == Inv /\ Prepare => Inv'
<1> SUFFICES ASSUME Inv, Prepare PROVE Inv'
  OBVIOUS
<1> USE DEF Inv, Prepare, Mapping
<1>1. Blocks(file.indirect[level], 1) \in DeviceBlock
  <2>1. file.indirect[level] \in Nat
    BY Dinode DEF TypeInv
  <2> QED BY <2>1, BlockRead DEF TypeInv
<1>2. TypeInv'
  <2>1. idx' \in [Levels -> Nat]
    BY DEF Levels
  <2>2. depth' \in 0 .. level'
    BY DEF TypeInv, Levels
  <2>3. u' \in [Levels -> DeviceBlock]
    BY <1>1 DEF TypeInv
  <2> QED BY <2>1, <2>2, <2>3 DEF TypeInv
<1>3. LoopInv'
  BY DEF LoopInv, TypeInv, Levels
<1>4. FillInv' /\ ListFitsItsAllocation'
  BY DEF FillInv, Filling, ListFitsItsAllocation
<1> QED BY <1>2, <1>3, <1>4

LEMMA LoadInv == Inv /\ Load => Inv'
<1> SUFFICES ASSUME Inv, Load PROVE Inv'
  OBVIOUS
<1> USE DEF Inv, Load, Mapping
<1>1. Blocks(Pointer, 1) \in DeviceBlock
  BY PointerType, BlockRead DEF TypeInv
<1>2. depth \in Nat /\ depth >= 1 /\ depth <= level /\ level \in Levels
  BY DEF TypeInv, LoopInv, Levels
<1>3. TypeInv'
  <2>1. idx' \in [Levels -> Nat]
    BY DEF TypeInv
  <2>2. depth' \in 0 .. level'
    BY <1>2 DEF Levels
  <2> QED BY <1>1, <2>1, <2>2 DEF TypeInv
<1>4. LoopInv'
  BY <1>2 DEF LoopInv, Levels
<1>5. FillInv' /\ ListFitsItsAllocation'
  BY DEF FillInv, Filling, ListFitsItsAllocation
<1> QED BY <1>3, <1>4, <1>5

LEMMA LoopEndsInv == Inv /\ LoopEnds => Inv'
<1> SUFFICES ASSUME Inv, LoopEnds PROVE Inv'
  OBVIOUS
<1> USE DEF Inv, LoopEnds, Ascend, Mapping
<1>1. depth \in Nat /\ depth <= level /\ level \in {0, 1, 2}
  BY DEF TypeInv, Levels
<1>2. TypeInv'
  <2>1. CASE depth = level
    BY <1>1, <2>1 DEF TypeInv, Levels
  <2>2. CASE depth # level
    <3>1. idx' \in [Levels -> Nat]
      BY <2>2 DEF TypeInv
    <3>2. depth' \in 0 .. level' /\ level' = level
      BY <1>1, <2>2
    <3> QED BY <2>2, <3>1, <3>2 DEF TypeInv
  <2> QED BY <2>1, <2>2
<1>3. LoopInv'
  BY <1>1 DEF LoopInv
<1>4. FillInv' /\ ListFitsItsAllocation'
  BY DEF FillInv, Filling, ListFitsItsAllocation
<1> QED BY <1>2, <1>3, <1>4

\* The list is complete: opening the file goes on with it.
LEMMA MappedInv == Inv /\ (OpenPlain \/ OpenCompressed) => Inv'
<1> SUFFICES ASSUME Inv, OpenPlain \/ OpenCompressed PROVE Inv'
  OBVIOUS
<1>1. /\ phase = "mapped" /\ phase' \in {"ready", "failed", "raw"}
      /\ NoLoops /\ UNCHANGED <<file, list>>
  BY DEF OpenPlain, OpenCompressed, Fail, Opening, StartRaw
<1>2. Zeros(BlockSize) \in DeviceBlock
  BY DEF Zeros, Zero, DeviceBlock, Cell
<1>3. TypeInv'
  BY <1>1, <1>2 DEF Inv, TypeInv, NoLoops, Levels
<1>4. LoopInv' /\ FillInv' /\ ListFitsItsAllocation'
  BY <1>1 DEF Inv, LoopInv, FillInv, Filling, ListFitsItsAllocation
<1> QED BY <1>3, <1>4 DEF Inv

LEMMA CloseInv == Inv /\ Close => Inv'
<1> SUFFICES ASSUME Inv, Close PROVE Inv'
  OBVIOUS
<1>1. phase' = "closed" /\ list' = <<>> /\ NoLoops /\ file' = file
  BY DEF Close
<1>2. Zeros(BlockSize) \in DeviceBlock
  BY DEF Zeros, Zero, DeviceBlock, Cell
<1>3. TypeInv'
  BY <1>1, <1>2 DEF Inv, TypeInv, NoLoops, Levels
<1>4. LoopInv' /\ FillInv'
  BY <1>1 DEF LoopInv, FillInv, Filling, NoLoops, Levels
<1>5. ListFitsItsAllocation'
  <2>1. file.size \div BlockSize \in Nat
    BY Dinode, SizesAssumption, Quotient DEF Inv, TypeInv
  <2> QED BY <1>1, <2>1 DEF ListFitsItsAllocation
<1> QED BY <1>3, <1>4, <1>5 DEF Inv

\* Reading leaves the list alone.
Reading == {"mapped", "raw", "packed", "inflate", "returned", "ready", "failed", "wild"}
LEMMA ReadingInv ==
    Inv /\ UNCHANGED <<file, mapping>> /\ phase' \in Reading => Inv'
<1> SUFFICES ASSUME Inv, UNCHANGED <<file, mapping>>, phase' \in Reading PROVE Inv'
  OBVIOUS
<1> QED BY DEF Inv, TypeInv, LoopInv, FillInv, Filling, ListFitsItsAllocation,
              Reading, mapping

LEMMA NextInv == Inv /\ [Next]_vars => Inv'
<1> SUFFICES ASSUME Inv, [Next]_vars PROVE Inv'
  OBVIOUS
<1>1. CASE Open
  BY <1>1, OpenInv
<1>2. CASE Direct \/ Follow \/ Indirect
  BY <1>2, DirectInv, FollowInv, IndirectInv
<1>3. CASE MeetContiguous \/ DirectEnds \/ Prepare \/ Load \/ LoopEnds
  BY <1>3, MeetContiguousInv, DirectEndsInv, PrepareInv, LoadInv, LoopEndsInv
<1>4. CASE OpenPlain \/ OpenCompressed \/ Close
  BY <1>4, MappedInv, CloseInv
<1>5. CASE Read \/ Return
  BY <1>5, ReadingInv DEF Read, Return, Reading, StartRaw
<1>6. CASE ReadRaw \/ ReadWild \/ RawEnds
  BY <1>6, ReadingInv DEF ReadRaw, ReadWild, RawEnds, Reading
<1>7. CASE ReadPacked \/ PackedEnds \/ PackedWild
  BY <1>7, ReadingInv DEF ReadPacked, PackedEnds, PackedWild, Reading, StartRaw, Fail
<1>8. CASE CopyWild \/ Inflate
  BY <1>8, ReadingInv DEF CopyWild, Inflate, CopyFrom, Reading, Fail
<1>9. CASE DeviceFails
  BY <1>9, ReadingInv DEF DeviceFails, Fail, Reading
<1>10. CASE UNCHANGED vars
  BY <1>10 DEF vars, mapping, Inv, TypeInv, LoopInv, FillInv, ListFitsItsAllocation
<1> QED BY <1>1, <1>2, <1>3, <1>4, <1>5, <1>6, <1>7, <1>8, <1>9, <1>10 DEF Next, Step

\* The state of pfs_get_block_list, and what it leaves, in every reachable state.
THEOREM Invariant == Spec => []Inv
<1>1. Init => Inv
  BY InitInv
<1>2. Inv /\ [Next]_vars => Inv'
  BY NextInv
<1> QED BY <1>1, <1>2, PTL DEF Spec

\* pfs_get_block_list never writes behind the block list it allocated, whatever
\* the dinode's size, pointers, block_count and sentinels, whatever its indirect
\* blocks hold, and wherever reading them fails.
THEOREM ListFits == Spec => []ListFitsItsAllocation
<1>1. Inv => ListFitsItsAllocation
  BY DEF Inv
<1> QED BY <1>1, Invariant, PTL

(***************************************************************************)
(* The blocks that the dinode names                                        *)
(***************************************************************************)
\* Entry k of the list is the block that the format has for block k of the file.
ListIsNamed == \A n \in 0 .. Len(list) - 1 : list[n + 1] = BlockAt(file, n)
\* It is no longer than the file, unless the file is empty.
ListIsShort == Len(list) > 1 => (Len(list) - 1) * BlockSize < file.size
\* Where the writer has put a file in one run, the list is that run.
ListIsRun == file.blocks # <<>> /\ Consecutive =>
                 \A n \in 0 .. Len(list) - 1 : list[n + 1] = file.direct[1] + n
NamedInv == ListIsNamed /\ ListIsShort /\ ListIsRun

\* The direct blocks up to the sentinel, and the run behind it.
FirstSentinel(f, j) == /\ j \in Sentinels(f)
                       /\ \A k \in 1 .. j - 1 : f.direct[k] # Contiguous
HeadInv ==
    /\ phase = "direct" => /\ idx[0] <= DirectMax
                           /\ \A k \in 1 .. idx[0] : file.direct[k] # Contiguous
    /\ phase \in {"contig", "prepare", "load", "indirect"} =>
          Sentinels(file) = {} \/ \E j \in 2 .. DirectMax : FirstSentinel(file, j)
    /\ phase = "contig" => /\ Sentinels(file) # {} /\ Len(list) = InDinode(file) + idx[0]
                           /\ contig = InRun(file) /\ idx[0] <= contig

\* How many blocks the levels before one have, and how many of this level the
\* loops have gone through.
Squared == PerBlock * PerBlock
Before(l) == IF l = 0 THEN 0 ELSE IF l = 1 THEN PerBlock ELSE PerBlock + Squared
Passed == (IF depth = 0 THEN idx[0] ELSE 0)
          + (IF depth <= 1 /\ level >= 1 THEN idx[1] * PerBlock ELSE 0)
          + (IF level = 2 THEN idx[2] * Squared ELSE 0)
\* The buffers of the loops that run hold the blocks on the way to the next one.
PathInv ==
    /\ phase = "prepare" => Len(list) = Outright(file) + Before(level)
    /\ phase \in {"load", "indirect"} =>
          /\ Len(list) = Outright(file) + Before(level) + Passed
          /\ \A e \in depth .. level : idx[e] <= PerBlock /\ (e > depth => idx[e] < PerBlock)
          /\ u[level] = file.device[file.indirect[level] + 1]
          /\ \A e \in depth + 1 .. level : u[e - 1] = file.device[u[e][idx[e] + 1].a + 1]
MapInv == NamedInv /\ HeadInv /\ PathInv

LEMMA DirectBlocks ==
    ASSUME NEW f \in Files, NEW n \in 0 .. DirectMax - 1,
           \A k \in 1 .. n + 1 : f.direct[k] # Contiguous
    PROVE  BlockAt(f, n) = f.direct[n + 1]
BY SizesAssumption DEF BlockAt

\* Where the direct blocks end, and with them what needs no pointers.
LEMMA HeadOf ==
    ASSUME NEW f \in Files,
           Sentinels(f) = {} \/ \E j \in 2 .. DirectMax : FirstSentinel(f, j)
    PROVE  /\ InDinode(f) \in 1 .. DirectMax /\ InRun(f) \in Nat
           /\ Outright(f) \in Nat /\ Outright(f) >= InDinode(f)
           /\ \A n \in Nat : n >= InDinode(f) =>
                 ~(n < DirectMax /\ \A k \in 1 .. n + 1 : f.direct[k] # Contiguous)
           /\ \A j \in 2 .. DirectMax : FirstSentinel(f, j) => InDinode(f) = j - 1
           /\ Sentinels(f) = {} => InDinode(f) = DirectMax /\ Outright(f) = DirectMax
<1>1. f.count \in Nat /\ f.size \in Nat /\ DirectMax \in Nat /\ DirectMax > 0
  BY FilesAssumption, SizesAssumption DEF File
<1>2. ASSUME NEW j \in 2 .. DirectMax, FirstSentinel(f, j) PROVE InDinode(f) = j - 1
  <2> DEFINE least == CHOOSE k \in Sentinels(f) : \A i \in Sentinels(f) : k <= i
  <2>1. j \in Sentinels(f) /\ \A i \in Sentinels(f) : j <= i
    BY <1>1, <1>2 DEF FirstSentinel, Sentinels
  <2>2. least \in Sentinels(f) /\ \A i \in Sentinels(f) : least <= i
    BY <2>1
  <2>3. least = j
    <3>1. least <= j /\ j <= least /\ least \in Nat
      BY <2>1, <2>2, <1>1 DEF Sentinels
    <3> QED BY <3>1
  <2> QED BY <2>1, <2>3 DEF InDinode
<1>3. Sentinels(f) = {} => InDinode(f) = DirectMax /\ InRun(f) = 0
  BY DEF InDinode, InRun
<1>4. InDinode(f) \in 1 .. DirectMax
  BY <1>1, <1>2, <1>3
<1>5. InRun(f) \in Nat
  BY <1>1, <1>3, <1>4 DEF InRun
<1>6. Outright(f) \in Nat /\ Outright(f) >= InDinode(f)
  BY <1>4, <1>5 DEF Outright
<1>7. ASSUME NEW n \in Nat, n >= InDinode(f), n < DirectMax
      PROVE  \E k \in 1 .. n + 1 : f.direct[k] = Contiguous
  <2>1. Sentinels(f) # {}
    BY <1>1, <1>3, <1>7
  <2>2. PICK j \in 2 .. DirectMax : FirstSentinel(f, j)
    BY <2>1
  <2>3. j - 1 = InDinode(f)
    BY <1>2, <2>2
  <2> QED BY <1>1, <1>7, <2>2, <2>3 DEF FirstSentinel, Sentinels
<1>8. Sentinels(f) = {} => InDinode(f) = DirectMax /\ Outright(f) = DirectMax
  BY <1>1, <1>3 DEF Outright
<1> QED BY <1>2, <1>4, <1>5, <1>6, <1>7, <1>8

\* A place in a block of pointers, counted in blocks of pointers and in entries.
LEMMA Digits ==
    ASSUME NEW p \in Nat \ {0}, NEW j \in Nat, NEW k \in 0 .. p - 1
    PROVE  (j * p + k) \div p = j /\ (j * p + k) % p = k
<1> DEFINE n == j * p + k
           q == n \div p
           r == n % p
<1>1. j * p \in Nat /\ p * q = q * p
  BY SMT
<1>2. n \in Nat
  BY <1>1
<1>3. q \in Int /\ r \in 0 .. p - 1 /\ n = p * q + r
  BY <1>2, SMT
<1> HIDE DEF n, q, r
<1>4. ~(q < j)
  <2> SUFFICES ASSUME q <= j - 1 PROVE FALSE
    BY <1>3
  <2>1. p * q <= p * (j - 1)
    BY <1>3, SMT
  <2>2. p * (j - 1) = j * p - p
    BY SMT
  <2> QED BY <1>1, <1>3, <2>1, <2>2 DEF n
<1>5. ~(q > j)
  <2> SUFFICES ASSUME q >= j + 1 PROVE FALSE
    BY <1>3
  <2>1. p * q >= p * (j + 1)
    BY <1>3, SMT
  <2>2. p * (j + 1) = j * p + p
    BY SMT
  <2> QED BY <1>1, <1>3, <2>1, <2>2 DEF n
<1>6. q = j
  BY <1>3, <1>4, <1>5
<1>7. r = k
  BY <1>1, <1>3, <1>6 DEF n
<1> QED BY <1>6, <1>7 DEF n, q, r

\* What the invariant says of a dinode whose direct blocks have been gone through.
Headed(f) == Sentinels(f) = {} \/ \E j \in 2 .. DirectMax : FirstSentinel(f, j)

LEMMA Sizes == /\ PerBlock \in Nat \ {0} /\ PerBlock <= BlockSize /\ Squared \in Nat
               /\ DirectMax \in Nat \ {0} /\ BlockSize \in Nat \ {0}
<1>1. PerBlock \in Nat \ {0} /\ PerBlock <= BlockSize
      /\ DirectMax \in Nat \ {0} /\ BlockSize \in Nat \ {0}
  BY SizesAssumption
<1>2. Squared \in Nat
  BY <1>1, SMT DEF Squared
<1> QED BY <1>1, <1>2

\* One more time round a loop.
LEMMA OneMore == ASSUME NEW n \in Nat, NEW p \in Nat
                 PROVE  n * p \in Nat /\ (n + 1) * p = n * p + p /\ 0 * p = 0
BY SMT

LEMMA InTheRun ==
    ASSUME NEW f \in Files, Headed(f), NEW n \in Nat, n >= InDinode(f), n < Outright(f)
    PROVE  BlockAt(f, n) = f.direct[InDinode(f)] + (n + 1 - InDinode(f))
<1>1. ~(n < DirectMax /\ \A k \in 1 .. n + 1 : f.direct[k] # Contiguous)
  BY HeadOf DEF Headed
<1> QED BY <1>1 DEF BlockAt

LEMMA BehindTheRun ==
    ASSUME NEW f \in Files, Headed(f), NEW c \in Nat
    PROVE  BlockAt(f, Outright(f) + c) =
              IF c < PerBlock THEN Entry(f, f.indirect[0], c)
              ELSE IF c - PerBlock < Squared
              THEN Entry(f, Entry(f, f.indirect[1], (c - PerBlock) \div PerBlock),
                         (c - PerBlock) % PerBlock)
              ELSE Entry(f, Entry(f, Entry(f, f.indirect[2],
                                           ((c - PerBlock - Squared) \div PerBlock) \div PerBlock),
                                  ((c - PerBlock - Squared) \div PerBlock) % PerBlock),
                         (c - PerBlock - Squared) % PerBlock)
<1> DEFINE n == Outright(f) + c
<1>1. Outright(f) \in Nat /\ InDinode(f) \in Nat /\ n \in Nat /\ n >= InDinode(f)
  BY HeadOf, Sizes DEF Headed
<1>2. ~(n < DirectMax /\ \A k \in 1 .. n + 1 : f.direct[k] # Contiguous)
  BY <1>1, HeadOf DEF Headed
<1>3. ~(n < Outright(f)) /\ n - Outright(f) = c
  BY <1>1
<1> HIDE DEF n
<1>4. BlockAt(f, n) =
              IF c < PerBlock THEN Entry(f, f.indirect[0], c)
              ELSE IF c - PerBlock < Squared
              THEN Entry(f, Entry(f, f.indirect[1], (c - PerBlock) \div PerBlock),
                         (c - PerBlock) % PerBlock)
              ELSE Entry(f, Entry(f, Entry(f, f.indirect[2],
                                           ((c - PerBlock - Squared) \div PerBlock) \div PerBlock),
                                  ((c - PerBlock - Squared) \div PerBlock) % PerBlock),
                         (c - PerBlock - Squared) % PerBlock)
  BY <1>2, <1>3, Zenon DEF BlockAt, Squared
<1> QED BY <1>4 DEF n

LEMMA AtOnce ==
    ASSUME NEW f \in Files, Headed(f), NEW c \in 0 .. PerBlock - 1
    PROVE  BlockAt(f, Outright(f) + c) = Entry(f, f.indirect[0], c)
<1>1. c \in Nat /\ c < PerBlock
  BY Sizes
<1> QED BY <1>1, BehindTheRun, Zenon

LEMMA AtTwice ==
    ASSUME NEW f \in Files, Headed(f),
           NEW b \in 0 .. PerBlock - 1, NEW c \in 0 .. PerBlock - 1
    PROVE  BlockAt(f, Outright(f) + (PerBlock + (b * PerBlock + c))) =
              Entry(f, Entry(f, f.indirect[1], b), c)
<1> DEFINE m == b * PerBlock + c
           d == PerBlock + m
<1>1. m \div PerBlock = b /\ m % PerBlock = c
  BY Sizes, Digits
<1>2. m \in Nat /\ m < Squared
  <2>1. b * PerBlock \in Nat /\ (b + 1) * PerBlock = b * PerBlock + PerBlock
    BY Sizes, OneMore
  <2>2. (b + 1) * PerBlock <= PerBlock * PerBlock
    BY Sizes, SMT
  <2> QED BY <2>1, <2>2, Sizes DEF Squared
<1> HIDE DEF m
<1>3. d \in Nat /\ ~(d < PerBlock) /\ d - PerBlock = m
  BY <1>2, Sizes
<1> HIDE DEF d
<1>4. BlockAt(f, Outright(f) + d) = Entry(f, Entry(f, f.indirect[1], b), c)
  BY <1>1, <1>2, <1>3, BehindTheRun, Zenon
<1> QED BY <1>4 DEF d, m

LEMMA AtThrice ==
    ASSUME NEW f \in Files, Headed(f), NEW a \in 0 .. PerBlock - 1,
           NEW b \in 0 .. PerBlock - 1, NEW c \in 0 .. PerBlock - 1
    PROVE  BlockAt(f, Outright(f) + (PerBlock + Squared + ((a * PerBlock + b) * PerBlock + c))) =
              Entry(f, Entry(f, Entry(f, f.indirect[2], a), b), c)
<1> DEFINE k == a * PerBlock + b
           m == k * PerBlock + c
           d == PerBlock + Squared + m
<1>1. k \in Nat /\ k \div PerBlock = a /\ k % PerBlock = b
  BY Sizes, Digits, OneMore
<1> HIDE DEF k
<1>2. m \in Nat /\ m \div PerBlock = k /\ m % PerBlock = c
  BY <1>1, Sizes, Digits, OneMore
<1> HIDE DEF m
<1>3. d \in Nat /\ ~(d < PerBlock) /\ ~(d - PerBlock < Squared) /\ d - PerBlock - Squared = m
  BY <1>2, Sizes
<1> HIDE DEF d
<1>4. BlockAt(f, Outright(f) + d) = Entry(f, Entry(f, Entry(f, f.indirect[2], a), b), c)
  BY <1>1, <1>2, <1>3, BehindTheRun, Zenon
<1> QED BY <1>4 DEF d, m, k

(***************************************************************************)
(* The steps keep it                                                       *)
(***************************************************************************)
\* A block is where the format has it when it is pushed.
LEMMA PushNames ==
    ASSUME Inv, NamedInv, phase \in Filling, file' = file, NEW b \in Nat, Push(b),
           b = BlockAt(file, Len(list))
    PROVE  NamedInv'
<1> DEFINE m == Len(list)
<1>1. /\ m \in Nat /\ list \in Seq(Nat) /\ file \in Files /\ file.size \in Nat
      /\ list' = Append(list, b) /\ Len(list') = m + 1
      /\ \A n \in 0 .. m - 1 : list'[n + 1] = list[n + 1]
      /\ list'[m + 1] = b
  BY Dinode DEF Inv, TypeInv, Push
<1>2. m > 0 => m * BlockSize < file.size
  BY <1>1 DEF Inv, FillInv
<1>3. ListIsNamed'
  <2> SUFFICES ASSUME NEW n \in 0 .. m PROVE list'[n + 1] = BlockAt(file, n)
    BY <1>1 DEF ListIsNamed
  <2>1. CASE n = m
    BY <1>1, <2>1
  <2>2. CASE n # m
    <3>1. n \in 0 .. m - 1
      BY <1>1, <2>2
    <3> QED BY <1>1, <3>1 DEF NamedInv, ListIsNamed
  <2> QED BY <2>1, <2>2
<1>4. ListIsShort'
  BY <1>1, <1>2 DEF ListIsShort
<1>5. ASSUME file.blocks # <<>>, Consecutive, m > 0
      PROVE  b = file.direct[1] + m
  <2>1. file.blocks \in Seq(Nat)
    BY <1>1, FilesAssumption DEF File
  <2>2. Up(file.size) >= m + 1
    <3>1. m * BlockSize \in Nat /\ (m + 1) * BlockSize = m * BlockSize + BlockSize
      BY <1>1, Sizes, OneMore
    <3>2. (m + 1) * BlockSize <= file.size + BlockSize - 1
      BY <1>1, <1>2, <1>5, <3>1, Sizes
    <3>3. m + 1 \in Nat /\ file.size + BlockSize - 1 \in Nat
      BY <1>1, Sizes
    <3>4. m + 1 <= (file.size + BlockSize - 1) \div BlockSize
      BY <3>2, <3>3, Sizes, WholeBlocks
    <3>5. (file.size + BlockSize - 1) \div BlockSize \in Nat
      BY <3>3, Sizes, Quotient
    <3> QED BY <3>3, <3>4, <3>5 DEF Up
  <2>3. Len(file.blocks) >= Up(file.size)
        /\ \A k \in DOMAIN file.blocks : file.blocks[k] = BlockAt(file, k - 1)
    BY <1>1, <1>5, LayoutAssumption
  <2>4. m \in 1 .. Len(file.blocks) - 1 /\ Len(file.blocks) \in Nat
    <3>1. Up(file.size) \in Int
      BY <1>1, Sizes DEF Up
    <3> QED BY <1>1, <1>5, <2>1, <2>2, <2>3, <3>1, SMTT(60)
  <2>5. file.blocks[m + 1] = BlockAt(file, m) /\ file.blocks[m] = BlockAt(file, m - 1)
    <3>1. m \in DOMAIN file.blocks /\ m + 1 \in DOMAIN file.blocks /\ m + 1 - 1 = m
      BY <2>1, <2>4
    <3> QED BY <2>3, <3>1
  <2>6. file.blocks[m + 1] = file.blocks[m] + 1
    BY <1>5, <2>4 DEF Consecutive
  <2>7. list[m - 1 + 1] = BlockAt(file, m - 1) /\ list[m - 1 + 1] = file.direct[1] + (m - 1)
    <3>1. m - 1 \in 0 .. m - 1
      BY <1>1, <1>5
    <3> QED BY <1>5, <3>1 DEF NamedInv, ListIsNamed, ListIsRun
  <2>8. file.direct[1] \in Nat
    BY <1>1, Dinode, Sizes
  <2> QED BY <1>1, <2>5, <2>6, <2>7, <2>8
<1>6. ListIsRun'
  <2> SUFFICES ASSUME file.blocks # <<>>, Consecutive, NEW n \in 0 .. m
               PROVE  list'[n + 1] = file.direct[1] + n
    BY <1>1 DEF ListIsRun, Consecutive
  <2>1. CASE n < m
    <3>1. n \in 0 .. m - 1
      BY <1>1, <2>1
    <3> QED BY <1>1, <3>1 DEF NamedInv, ListIsRun
  <2>2. CASE n = m /\ m > 0
    BY <1>1, <1>5, <2>2
  <2>3. CASE n = m /\ m = 0
    <3>1. file.direct[1] \in Nat /\ file.direct[1] # Contiguous
      BY <1>1, Dinode, Sizes
    <3>2. BlockAt(file, 0) = file.direct[1]
      BY <1>1, <3>1, Sizes, DirectBlocks
    <3> QED BY <1>1, <2>3, <3>1, <3>2
  <2> QED BY <1>1, <2>1, <2>2, <2>3
<1> QED BY <1>3, <1>4, <1>6 DEF NamedInv

LEMMA DirectMaps == Inv /\ MapInv /\ Direct => MapInv'
<1> SUFFICES ASSUME Inv, MapInv, Direct PROVE MapInv'
  OBVIOUS
<1>1. /\ file \in Files /\ file' = file /\ phase = "direct" /\ phase \in Filling
      /\ idx[0] = Len(list) /\ idx[0] \in Nat /\ idx[0] < DirectMax
      /\ idx'[0] = idx[0] + 1 /\ phase' \in {"direct", "mapped"}
      /\ file.direct[idx[0] + 1] # Contiguous /\ Push(file.direct[idx[0] + 1])
      /\ \A k \in 1 .. idx[0] : file.direct[k] # Contiguous
  BY DEF Direct, Mapping, Inv, TypeInv, LoopInv, Levels, Filling, MapInv, HeadInv
<1>2. idx[0] + 1 \in 1 .. DirectMax /\ idx[0] \in 0 .. DirectMax - 1
  BY <1>1, Sizes
<1>3. file.direct[idx[0] + 1] \in Nat
  BY <1>1, <1>2, Dinode
<1>4. \A k \in 1 .. idx[0] + 1 : file.direct[k] # Contiguous
  <2> SUFFICES ASSUME NEW k \in 1 .. idx[0] + 1 PROVE file.direct[k] # Contiguous
    OBVIOUS
  <2>1. k \in 1 .. idx[0] \/ k = idx[0] + 1
    BY <1>1
  <2> QED BY <1>1, <2>1
<1>5. NamedInv'
  <2>1. BlockAt(file, idx[0]) = file.direct[idx[0] + 1]
    BY <1>1, <1>2, <1>4, DirectBlocks
  <2> QED BY <1>1, <1>3, <2>1, PushNames DEF MapInv
<1>6. HeadInv' /\ PathInv'
  BY <1>1, <1>2, <1>4, Sizes DEF HeadInv, PathInv
<1> QED BY <1>5, <1>6 DEF MapInv

LEMMA FollowMaps == Inv /\ MapInv /\ Follow => MapInv'
<1> SUFFICES ASSUME Inv, MapInv, Follow PROVE MapInv'
  OBVIOUS
<1> DEFINE h == InDinode(file)
           m == Len(list)
<1>1. /\ file \in Files /\ file' = file /\ phase = "contig" /\ phase \in Filling
      /\ idx[0] \in Nat /\ idx[0] < contig /\ idx'[0] = idx[0] + 1 /\ contig' = contig
      /\ phase' \in {"contig", "mapped"} /\ list \in Seq(Nat) /\ list # <<>>
      /\ Push(list[m] + 1)
      /\ Headed(file) /\ Sentinels(file) # {} /\ m = h + idx[0] /\ contig = InRun(file)
  BY DEF Follow, Mapping, Inv, TypeInv, LoopInv, Levels, Filling, MapInv, HeadInv, Headed
<1>2. /\ h \in Nat /\ h >= 1 /\ h \in 1 .. DirectMax
      /\ InRun(file) \in Nat /\ Outright(file) = h + InRun(file)
  BY <1>1, HeadOf, Sizes DEF Headed, Outright
<1>3. m \in Nat /\ m - 1 \in 0 .. m - 1 /\ m >= h /\ m < Outright(file)
  <2>1. idx[0] \in Nat /\ idx[0] < InRun(file) /\ m = h + idx[0]
    BY <1>1, Zenon
  <2> HIDE DEF m, h
  <2> QED BY <1>2, <2>1
<1>4. list[m] = BlockAt(file, m - 1) /\ list[m] \in Nat
  <2>1. list[m - 1 + 1] = BlockAt(file, m - 1) /\ m - 1 + 1 = m
    BY <1>3 DEF MapInv, NamedInv, ListIsNamed
  <2> QED BY <1>1, <1>3, <2>1
<1>5. file.direct[h] \in Nat
  BY <1>1, <1>2, Dinode
<1>6. BlockAt(file, m - 1) = file.direct[h] + (m - h)
  <2>1. CASE idx[0] > 0
    <3>1. m - 1 \in Nat /\ m - 1 >= h /\ m - 1 < Outright(file)
          /\ m - 1 + 1 - h = m - h
      <4>1. idx[0] \in Nat /\ m = h + idx[0]
        BY <1>1, Zenon
      <4> HIDE DEF m, h
      <4> QED BY <1>2, <1>3, <2>1, <4>1
    <3> QED BY <1>1, <3>1, InTheRun
  <2>2. CASE idx[0] = 0
    <3>1. PICK j \in 2 .. DirectMax : FirstSentinel(file, j)
      BY <1>1 DEF Headed
    <3>2. j - 1 = h
      BY <1>1, <3>1, HeadOf DEF Headed
    <3>3. m = h /\ m - 1 \in 0 .. DirectMax - 1 /\ m - 1 + 1 = h /\ m - h = 0
      BY <1>1, <1>2, <2>2, Sizes
    <3>4. \A k \in 1 .. m - 1 + 1 : file.direct[k] # Contiguous
      BY <3>1, <3>2, <3>3 DEF FirstSentinel
    <3>5. BlockAt(file, m - 1) = file.direct[m - 1 + 1]
      BY <1>1, <3>3, <3>4, DirectBlocks
    <3> QED BY <1>5, <3>3, <3>5
  <2> QED BY <1>1, <2>1, <2>2
<1>7. BlockAt(file, m) = list[m] + 1
  <2>1. BlockAt(file, m) = file.direct[h] + (m + 1 - h)
    BY <1>1, <1>3, InTheRun
  <2> QED BY <1>2, <1>3, <1>4, <1>5, <1>6, <2>1
<1>8. NamedInv'
  <2>1. list[m] + 1 \in Nat
    BY <1>4
  <2> QED BY <1>1, <1>7, <2>1, PushNames DEF MapInv
<1>9. HeadInv'
  <2>1. Len(list') = m + 1
    BY <1>1 DEF Push
  <2>2. Len(list') = h + idx'[0] /\ idx'[0] <= contig
    <3>1. /\ idx[0] \in Nat /\ idx[0] < InRun(file) /\ m = h + idx[0]
          /\ idx'[0] = idx[0] + 1 /\ contig = InRun(file)
      BY <1>1, Zenon
    <3> HIDE DEF m, h
    <3> QED BY <1>2, <2>1, <3>1
  <2> QED BY <1>1, <2>2 DEF HeadInv, Headed
<1>10. PathInv'
  BY <1>1 DEF PathInv
<1> QED BY <1>8, <1>9, <1>10 DEF MapInv

LEMMA MeetContiguousMaps == Inv /\ MapInv /\ MeetContiguous => MapInv'
<1> SUFFICES ASSUME Inv, MapInv, MeetContiguous PROVE MapInv'
  OBVIOUS
<1> DEFINE j == idx[0] + 1
<1>1. /\ file \in Files /\ file' = file /\ list' = list /\ phase' = "contig"
      /\ idx[0] = Len(list) /\ idx[0] \in Nat /\ idx[0] < DirectMax /\ idx'[0] = 0
      /\ file.direct[idx[0] + 1] = Contiguous
      /\ contig' = IF file.count >= idx[0] THEN file.count - idx[0] ELSE file.size + 1
      /\ \A k \in 1 .. idx[0] : file.direct[k] # Contiguous
  BY DEF MeetContiguous, Mapping, Inv, TypeInv, LoopInv, Levels, MapInv, HeadInv
<1>2. file.direct[1] # Contiguous
  BY <1>1, Dinode
<1>3. j \in 2 .. DirectMax /\ FirstSentinel(file, j)
  <2>1. idx[0] # 0
    BY <1>1, <1>2
  <2> QED BY <1>1, <2>1, Sizes DEF FirstSentinel, Sentinels
<1>4. Headed(file) /\ Sentinels(file) # {}
  BY <1>3 DEF Headed, FirstSentinel
<1>5. InDinode(file) = idx[0]
  <2>1. InDinode(file) = j - 1
    BY <1>1, <1>3, <1>4, HeadOf DEF Headed
  <2> QED BY <1>1, <2>1
<1>6. contig' = InRun(file) /\ InRun(file) \in Nat
  BY <1>1, <1>4, <1>5, HeadOf DEF InRun, Headed
<1>7. NamedInv'
  BY <1>1 DEF MapInv, NamedInv, ListIsNamed, ListIsShort, ListIsRun, Consecutive
<1>8. HeadInv'
  <2>1. Len(list') = InDinode(file') + idx'[0] /\ 0 <= contig'
    BY <1>1, <1>5, <1>6
  <2> QED BY <1>1, <1>4, <1>6, <2>1 DEF HeadInv, Headed
<1>9. PathInv'
  BY <1>1 DEF PathInv
<1> QED BY <1>7, <1>8, <1>9 DEF MapInv

\* A list and a file that a step leaves alone.
LEMMA NamesKept == NamedInv /\ UNCHANGED <<file, list>> => NamedInv'
BY DEF NamedInv, ListIsNamed, ListIsShort, ListIsRun, Consecutive

LEMMA DirectEndsMaps == Inv /\ MapInv /\ DirectEnds => MapInv'
<1> SUFFICES ASSUME Inv, MapInv, DirectEnds PROVE MapInv'
  OBVIOUS
<1>1. /\ file \in Files /\ file' = file /\ list' = list /\ phase' = "prepare" /\ level' = 0
      /\ idx[0] \in Nat /\ Len(list) \in Nat
  BY DEF DirectEnds, Mapping, Inv, TypeInv, Levels
<1>2. Headed(file) /\ Len(list) = Outright(file)
  <2>1. CASE phase = "direct"
    <3>1. idx[0] = DirectMax /\ Len(list) = DirectMax
          /\ \A k \in 1 .. DirectMax : file.direct[k] # Contiguous
      BY <2>1 DEF DirectEnds, MapInv, HeadInv, Inv, LoopInv
    <3>2. Sentinels(file) = {}
      BY <3>1 DEF Sentinels
    <3>3. Headed(file)
      BY <3>2 DEF Headed
    <3> QED BY <1>1, <3>1, <3>2, <3>3, HeadOf DEF Headed
  <2>2. CASE phase = "contig"
    <3>1. idx[0] = contig /\ Headed(file)
          /\ Len(list) = InDinode(file) + idx[0] /\ contig = InRun(file)
      BY <2>2 DEF DirectEnds, MapInv, HeadInv, Headed
    <3> QED BY <3>1 DEF Outright
  <2> QED BY <2>1, <2>2 DEF DirectEnds
<1>3. NamedInv'
  BY <1>1, NamesKept DEF MapInv
<1>4. HeadInv'
  BY <1>1, <1>2 DEF HeadInv, Headed
<1>5. PathInv'
  <2>1. Outright(file) + 0 = Outright(file)
    BY <1>1, <1>2
  <2> QED BY <1>1, <1>2, <2>1 DEF PathInv, Before
<1> QED BY <1>3, <1>4, <1>5 DEF MapInv

LEMMA PrepareMaps == Inv /\ MapInv /\ Prepare => MapInv'
<1> SUFFICES ASSUME Inv, MapInv, Prepare PROVE MapInv'
  OBVIOUS
<1>1. /\ file \in Files /\ file' = file /\ list' = list /\ phase = "prepare"
      /\ phase' \in {"load", "indirect"} /\ level' = level /\ depth' = level
      /\ level \in {0, 1, 2}
      /\ u' = [u EXCEPT ![level] = Blocks(file.indirect[level], 1)]
      /\ \A l \in Levels : idx'[l] = 0
  BY DEF Prepare, Mapping, Inv, TypeInv, Levels
<1>2. NamedInv'
  BY <1>1, NamesKept DEF MapInv
<1>3. HeadInv'
  BY <1>1 DEF HeadInv, MapInv
<1>4. Passed' = 0
  <2>1. idx'[0] = 0 /\ idx'[1] = 0 /\ idx'[2] = 0
    BY <1>1 DEF Levels
  <2>2. 0 * PerBlock = 0 /\ 0 * Squared = 0
    BY Sizes, OneMore
  <2> QED BY <1>1, <2>1, <2>2 DEF Passed
<1>5. Len(list) = Outright(file) + Before(level) /\ Outright(file) \in Nat /\ Before(level) \in Nat
  <2>1. Len(list) = Outright(file) + Before(level) /\ Headed(file)
    BY <1>1 DEF MapInv, PathInv, HeadInv, Headed
  <2>2. Before(level) \in Nat
    BY <1>1, Sizes DEF Before
  <2> QED BY <1>1, <2>1, <2>2, HeadOf DEF Headed
<1>6. u'[level] = file.device[file.indirect[level] + 1]
  BY <1>1 DEF Inv, TypeInv, Levels, Blocks
<1>7. \A e \in depth' .. level' : idx'[e] <= PerBlock /\ (e > depth' => idx'[e] < PerBlock)
  <2> SUFFICES ASSUME NEW e \in depth' .. level' PROVE idx'[e] = 0 /\ ~(e > depth')
    BY Sizes
  <2> QED BY <1>1 DEF Levels
<1>8. PathInv'
  <2>1. Len(list') = Outright(file') + Before(level') + Passed'
    BY <1>1, <1>4, <1>5
  <2>2. depth' + 1 .. level' = {}
    BY <1>1
  <2> QED BY <1>1, <1>6, <1>7, <2>1, <2>2 DEF PathInv
<1> QED BY <1>2, <1>3, <1>8 DEF MapInv

LEMMA LoadMaps == Inv /\ MapInv /\ Load => MapInv'
<1> SUFFICES ASSUME Inv, MapInv, Load PROVE MapInv'
  OBVIOUS
<1>1. /\ file \in Files /\ file' = file /\ list' = list /\ phase = "load"
      /\ phase' \in {"load", "indirect"} /\ level' = level /\ depth' = depth - 1
      /\ level \in {0, 1, 2} /\ depth \in {1, 2} /\ depth <= level
      /\ u \in [Levels -> [1 .. BlockSize -> Cell]] /\ idx \in [Levels -> Nat]
      /\ u' = [u EXCEPT ![depth - 1] = file.device[u[depth][idx[depth] + 1].a + 1]]
      /\ idx' = [idx EXCEPT ![depth - 1] = 0] /\ idx[depth] < PerBlock
  BY DEF Load, Mapping, Inv, TypeInv, LoopInv, Levels, Blocks, Pointer, DeviceBlock
<1>2. NamedInv'
  BY <1>1, NamesKept DEF MapInv
<1>3. HeadInv'
  BY <1>1 DEF HeadInv, MapInv
<1>4. /\ Len(list) = Outright(file) + Before(level) + Passed
      /\ \A e \in depth .. level : idx[e] <= PerBlock /\ (e > depth => idx[e] < PerBlock)
      /\ u[level] = file.device[file.indirect[level] + 1]
      /\ \A e \in depth + 1 .. level : u[e - 1] = file.device[u[e][idx[e] + 1].a + 1]
  BY <1>1 DEF MapInv, PathInv
<1>5. \A e \in depth .. level : idx'[e] = idx[e] /\ u'[e] = u[e]
  BY <1>1 DEF Levels
<1>6. idx'[depth - 1] = 0 /\ u'[depth - 1] = file.device[u[depth][idx[depth] + 1].a + 1]
  BY <1>1 DEF Levels
<1>7. Passed' = Passed
  <2>1. 0 * PerBlock = 0 /\ \A n \in Nat : n * PerBlock \in Nat /\ n * Squared \in Nat
    BY Sizes, OneMore
  <2>2. CASE level = 1 /\ depth = 1
    BY <1>1, <1>5, <1>6, <2>1, <2>2 DEF Passed, Levels
  <2>3. CASE level = 2 /\ depth = 1
    <3>1. idx'[0] = 0 /\ idx'[1] = idx[1] /\ idx'[2] = idx[2]
          /\ idx[1] \in Nat /\ idx[2] \in Nat
      BY <1>1, <1>5, <1>6, <2>3 DEF Levels
    <3>2. /\ idx'[1] * PerBlock = idx[1] * PerBlock /\ idx[1] * PerBlock \in Nat
          /\ idx'[2] * Squared = idx[2] * Squared /\ idx[2] * Squared \in Nat
      BY <2>1, <3>1, Zenon
    <3>3. Passed = 0 + idx[1] * PerBlock + idx[2] * Squared
      BY <2>3 DEF Passed
    <3>4. Passed' = 0 + idx'[1] * PerBlock + idx'[2] * Squared
      BY <1>1, <2>3, <3>1 DEF Passed
    <3> QED BY <3>2, <3>3, <3>4, Zenon
  <2>4. CASE level = 2 /\ depth = 2
    <3>1. idx'[1] = 0 /\ idx'[2] = idx[2] /\ idx[2] \in Nat
      BY <1>1, <1>5, <1>6, <2>4 DEF Levels
    <3>2. /\ idx'[1] * PerBlock = 0
          /\ idx'[2] * Squared = idx[2] * Squared /\ idx[2] * Squared \in Nat
      BY <2>1, <3>1, Zenon
    <3>3. Passed = 0 + 0 + idx[2] * Squared
      BY <2>4 DEF Passed
    <3>4. Passed' = 0 + idx'[1] * PerBlock + idx'[2] * Squared
      BY <1>1, <2>4 DEF Passed
    <3> QED BY <3>2, <3>3, <3>4
  <2> QED BY <1>1, <2>2, <2>3, <2>4
<1>8. \A e \in depth' .. level' : idx'[e] <= PerBlock /\ (e > depth' => idx'[e] < PerBlock)
  <2> SUFFICES ASSUME NEW e \in depth' .. level'
               PROVE  idx'[e] <= PerBlock /\ (e > depth' => idx'[e] < PerBlock)
    OBVIOUS
  <2>1. CASE e = depth - 1
    BY <1>1, <1>6, <2>1, Sizes
  <2>2. CASE e = depth
    BY <1>1, <1>5, <2>2, Sizes DEF Levels
  <2>3. CASE e > depth
    <3>1. e \in depth .. level
      BY <1>1, <2>3
    <3> QED BY <1>1, <1>4, <1>5, <2>3, <3>1
  <2>4. e = depth - 1 \/ e = depth \/ e > depth
    BY <1>1
  <2> QED BY <2>1, <2>2, <2>3, <2>4, Zenon
<1>9. \A e \in depth' + 1 .. level' : u'[e - 1] = file.device[u'[e][idx'[e] + 1].a + 1]
  <2>0. depth' + 1 = depth /\ level' = level
    BY <1>1
  <2> SUFFICES ASSUME NEW e \in depth .. level
               PROVE  u'[e - 1] = file.device[u'[e][idx'[e] + 1].a + 1]
    BY <2>0, Zenon
  <2>1. CASE e = depth
    BY <1>5, <1>6, <2>1
  <2>2. CASE e # depth
    <3>1. e \in depth + 1 .. level /\ e - 1 \in depth .. level
      BY <1>1, <2>2
    <3>2. u'[e - 1] = u[e - 1]
      BY <1>5, <3>1
    <3> QED BY <1>4, <1>5, <3>1, <3>2
  <2> QED BY <2>1, <2>2
<1>10. u'[level] = u[level]
  BY <1>1, <1>5
<1>11. PathInv'
  BY <1>1, <1>4, <1>7, <1>8, <1>9, <1>10, ZenonT(30) DEF PathInv
<1> QED BY <1>2, <1>3, <1>11 DEF MapInv

LEMMA IndirectMaps == Inv /\ MapInv /\ Indirect => MapInv'
<1> SUFFICES ASSUME Inv, MapInv, Indirect PROVE MapInv'
  OBVIOUS
<1>1. /\ file \in Files /\ file' = file /\ phase = "indirect" /\ phase \in Filling
      /\ phase' \in {"indirect", "mapped"} /\ level' = level /\ depth' = 0 /\ depth = 0
      /\ level \in {0, 1, 2} /\ idx \in [Levels -> Nat] /\ u' = u
      /\ idx[0] < PerBlock /\ idx' = [idx EXCEPT ![0] = @ + 1]
      /\ Push(Pointer) /\ Len(list) \in Nat /\ Headed(file)
      /\ Pointer = u[0][idx[0] + 1].a
  BY DEF Indirect, Mapping, Inv, TypeInv, LoopInv, Levels, Filling, MapInv, HeadInv,
         Headed, Pointer
<1>2. Pointer \in Nat
  BY <1>1, PointerType DEF Inv
<1>3. /\ Len(list) = Outright(file) + Before(level) + Passed
      /\ \A e \in 0 .. level : idx[e] <= PerBlock /\ (e > 0 => idx[e] < PerBlock)
      /\ u[level] = file.device[file.indirect[level] + 1]
      /\ \A e \in 1 .. level : u[e - 1] = file.device[u[e][idx[e] + 1].a + 1]
  <2>1. depth = 0 /\ depth + 1 = 1
    BY <1>1
  <2> QED BY <1>1, <2>1 DEF MapInv, PathInv
<1>4. /\ idx[0] \in Nat /\ idx[1] \in Nat /\ idx[2] \in Nat /\ idx'[0] = idx[0] + 1
      /\ idx'[1] = idx[1] /\ idx'[2] = idx[2] /\ idx[0] \in 0 .. PerBlock - 1
  BY <1>1, Sizes DEF Levels
<1>5. /\ idx[1] * PerBlock \in Nat /\ idx[2] * Squared \in Nat
      /\ Outright(file) \in Nat /\ Before(level) \in Nat
  <2>1. idx[1] * PerBlock \in Nat /\ idx[2] * Squared \in Nat
    BY <1>4, Sizes, OneMore
  <2>2. Outright(file) \in Nat
    BY <1>1, HeadOf DEF Headed
  <2>3. Before(level) \in Nat
    BY <1>1, Sizes DEF Before
  <2> QED BY <2>1, <2>2, <2>3
<1>6. Pointer = BlockAt(file, Len(list))
  <2>1. CASE level = 0
    <3>1. Passed = idx[0] + 0 + 0 /\ Before(level) = 0
      BY <1>1, <2>1 DEF Passed, Before
    <3>2. Len(list) = Outright(file) + idx[0]
      BY <1>3, <1>4, <1>5, <3>1
    <3>3. Pointer = Entry(file, file.indirect[0], idx[0])
      BY <1>1, <1>3, <2>1 DEF Entry
    <3> QED BY <1>1, <1>4, <3>2, <3>3, AtOnce
  <2>2. CASE level = 1
    <3>1. Passed = idx[0] + idx[1] * PerBlock + 0 /\ Before(level) = PerBlock
      BY <1>1, <2>2 DEF Passed, Before
    <3>2. Len(list) = Outright(file) + (PerBlock + (idx[1] * PerBlock + idx[0]))
      <4> DEFINE x == idx[1] * PerBlock
      <4>1. /\ Passed = idx[0] + x + 0 /\ x \in Nat /\ Before(level) = PerBlock
            /\ Len(list) = Outright(file) + Before(level) + Passed
        BY <1>3, <1>5, <3>1, Zenon
      <4> HIDE DEF x
      <4>2. Len(list) = Outright(file) + (PerBlock + (x + idx[0]))
        BY <1>4, <1>5, <4>1, Sizes
      <4> QED BY <4>2 DEF x
    <3>3. idx[1] \in 0 .. PerBlock - 1 /\ 1 \in 1 .. level /\ 1 - 1 = 0
      BY <1>3, <1>4, <2>2, Sizes
    <3>4. u[0] = file.device[u[1][idx[1] + 1].a + 1]
      BY <1>3, <3>3, Zenon
    <3>5. Pointer = Entry(file, Entry(file, file.indirect[1], idx[1]), idx[0])
      BY <1>1, <1>3, <2>2, <3>4, Zenon DEF Entry
    <3> QED BY <1>1, <1>4, <3>2, <3>3, <3>5, AtTwice
  <2>3. CASE level = 2
    <3>1. Passed = idx[0] + idx[1] * PerBlock + idx[2] * Squared
          /\ Before(level) = PerBlock + Squared
      BY <1>1, <2>3 DEF Passed, Before
    <3>2. (idx[2] * PerBlock + idx[1]) * PerBlock = idx[2] * Squared + idx[1] * PerBlock
      <4>1. \A a, b, p \in Nat : (a * p + b) * p = a * (p * p) + b * p
        BY SMT
      <4> QED BY <1>4, <4>1, Sizes DEF Squared
    <3>3. Len(list) = Outright(file)
             + (PerBlock + Squared + ((idx[2] * PerBlock + idx[1]) * PerBlock + idx[0]))
      <4> DEFINE x == idx[1] * PerBlock
                 y == idx[2] * Squared
                 z == (idx[2] * PerBlock + idx[1]) * PerBlock
      <4>1. /\ Passed = idx[0] + x + y /\ z = y + x /\ x \in Nat /\ y \in Nat
            /\ Len(list) = Outright(file) + Before(level) + Passed
            /\ Before(level) = PerBlock + Squared
        BY <1>3, <1>5, <3>1, <3>2, Zenon
      <4> HIDE DEF x, y, z
      <4>2. Len(list) = Outright(file) + (PerBlock + Squared + (z + idx[0]))
        BY <1>4, <1>5, <4>1, Sizes, SMTT(20)
      <4> QED BY <4>2 DEF z
    <3>4. /\ idx[1] \in 0 .. PerBlock - 1 /\ idx[2] \in 0 .. PerBlock - 1
          /\ 1 \in 1 .. level /\ 1 - 1 = 0 /\ 2 \in 1 .. level /\ 2 - 1 = 1
      BY <1>3, <1>4, <2>3, Sizes
    <3>5. u[0] = file.device[u[1][idx[1] + 1].a + 1] /\ u[1] = file.device[u[2][idx[2] + 1].a + 1]
      BY <1>3, <3>4, Zenon
    <3>6. Pointer = Entry(file, Entry(file, Entry(file, file.indirect[2], idx[2]), idx[1]), idx[0])
      BY <1>1, <1>3, <2>3, <3>5, Zenon DEF Entry
    <3> QED BY <1>1, <1>4, <3>3, <3>4, <3>6, AtThrice
  <2> QED BY <1>1, <2>1, <2>2, <2>3
<1>7. NamedInv'
  BY <1>1, <1>2, <1>6, PushNames DEF MapInv
<1>8. HeadInv'
  BY <1>1 DEF HeadInv, Headed
<1>9. Passed' = Passed + 1 /\ Passed \in Nat
  <2> DEFINE x == idx[1] * PerBlock
             y == idx[2] * Squared
  <2>1. x \in Nat /\ y \in Nat /\ idx'[1] * PerBlock = x /\ idx'[2] * Squared = y
    BY <1>4, <1>5, Zenon
  <2>2. Passed = idx[0] + (IF level >= 1 THEN x ELSE 0) + (IF level = 2 THEN y ELSE 0)
    BY <1>1 DEF Passed
  <2>3. Passed' = idx'[0] + (IF level >= 1 THEN x ELSE 0) + (IF level = 2 THEN y ELSE 0)
    BY <1>1, <2>1 DEF Passed
  <2> HIDE DEF x, y
  <2> QED BY <1>4, <2>1, <2>2, <2>3
<1>10. PathInv'
  <2>1. Len(list') = Len(list) + 1
    BY <1>1 DEF Push, Inv, TypeInv
  <2>2. Before(level') = Before(level) /\ Outright(file') = Outright(file)
    BY <1>1
  <2>3. Len(list') = Outright(file') + Before(level') + Passed'
    BY <1>3, <1>5, <1>9, <2>1, <2>2
  <2>4. \A e \in 0 .. level : idx'[e] <= PerBlock /\ (e > 0 => idx'[e] < PerBlock)
    <3> SUFFICES ASSUME NEW e \in 0 .. level
                 PROVE  idx'[e] <= PerBlock /\ (e > 0 => idx'[e] < PerBlock)
      OBVIOUS
    <3>1. CASE e = 0
      BY <1>4, <3>1, Sizes
    <3>2. CASE e # 0
      BY <1>1, <1>3, <3>2 DEF Levels
    <3> QED BY <3>1, <3>2
  <2>5. \A e \in 1 .. level : idx'[e] = idx[e]
    BY <1>1 DEF Levels
  <2>6. depth' + 1 = 1
    BY <1>1
  <2>7. u'[level'] = file'.device[file'.indirect[level'] + 1]
    BY <1>1, <1>3, ZenonT(30)
  <2>8. \A e \in depth' + 1 .. level' : u'[e - 1] = file'.device[u'[e][idx'[e] + 1].a + 1]
    BY <1>1, <1>3, <2>5, <2>6, ZenonT(30)
  <2>9. \A e \in depth' .. level' : idx'[e] <= PerBlock /\ (e > depth' => idx'[e] < PerBlock)
    BY <1>1, <2>4, Zenon
  <2>10. phase' # "prepare"
    BY <1>1
  <2> QED BY <2>3, <2>7, <2>8, <2>9, <2>10, Zenon DEF PathInv
<1> QED BY <1>7, <1>8, <1>10 DEF MapInv

LEMMA LoopEndsMaps == Inv /\ MapInv /\ LoopEnds => MapInv'
<1> SUFFICES ASSUME Inv, MapInv, LoopEnds PROVE MapInv'
  OBVIOUS
<1>1. /\ file \in Files /\ file' = file /\ list' = list /\ phase \in {"load", "indirect"}
      /\ phase' \in {"load", "prepare", "mapped"} /\ u' = u
      /\ level \in {0, 1, 2} /\ depth \in {0, 1, 2} /\ depth <= level
      /\ idx \in [Levels -> Nat] /\ idx[depth] = PerBlock /\ Headed(file)
  BY DEF LoopEnds, Ascend, Mapping, Inv, TypeInv, Levels, MapInv, HeadInv, Headed
<1>2. NamedInv'
  BY <1>1, NamesKept DEF MapInv
<1>3. HeadInv'
  BY <1>1 DEF HeadInv, Headed
<1>4. /\ Len(list) = Outright(file) + Before(level) + Passed
      /\ \A e \in depth .. level : idx[e] <= PerBlock /\ (e > depth => idx[e] < PerBlock)
      /\ u[level] = file.device[file.indirect[level] + 1]
      /\ \A e \in depth + 1 .. level : u[e - 1] = file.device[u[e][idx[e] + 1].a + 1]
  BY <1>1 DEF MapInv, PathInv
<1>5. Outright(file) \in Nat
  BY <1>1, HeadOf DEF Headed
<1>6. idx[0] \in Nat /\ idx[1] \in Nat /\ idx[2] \in Nat
  BY <1>1 DEF Levels
<1>7. /\ idx[1] * PerBlock \in Nat /\ (idx[1] + 1) * PerBlock = idx[1] * PerBlock + PerBlock
      /\ idx[2] * Squared \in Nat /\ (idx[2] + 1) * Squared = idx[2] * Squared + Squared
      /\ PerBlock * PerBlock = Squared
  BY <1>6, Sizes, OneMore DEF Squared
<1>8. PathInv'
  <2>1. CASE depth = level
    <3>1. phase' = "mapped" \/ (phase' = "prepare" /\ level \in {0, 1} /\ level' = level + 1)
      BY <1>1, <2>1 DEF LoopEnds, Ascend
    <3>2. ASSUME level = 0 PROVE Len(list) = Outright(file) + PerBlock
      <4>1. Passed = PerBlock + 0 + 0 /\ Before(level) = 0
        BY <1>1, <2>1, <3>2 DEF Passed, Before
      <4> QED BY <1>4, <1>5, <4>1, Sizes
    <3>3. ASSUME level = 1 PROVE Len(list) = Outright(file) + (PerBlock + Squared)
      <4>1. Passed = 0 + PerBlock * PerBlock + 0 /\ Before(level) = PerBlock
        BY <1>1, <2>1, <3>3 DEF Passed, Before
      <4>2. Passed = Squared
        BY <1>7, <4>1, Sizes
      <4> QED BY <1>4, <1>5, <4>1, <4>2, Sizes
    <3> QED BY <1>1, <3>1, <3>2, <3>3 DEF PathInv, Before
  <2>2. CASE depth # level
    <3>1. /\ phase' = "load" /\ depth' = depth + 1 /\ level' = level
          /\ idx' = [idx EXCEPT ![depth + 1] = @ + 1] /\ depth + 1 \in Levels
          /\ depth + 1 <= level
      BY <1>1, <2>2 DEF LoopEnds, Ascend, Levels
    <3>2. \A e \in depth + 1 .. level :
             idx'[e] = IF e = depth + 1 THEN idx[e] + 1 ELSE idx[e]
      BY <1>1, <3>1 DEF Levels
    <3>3. Passed' = Passed
      <4> DEFINE x == idx[1] * PerBlock
                 y == idx[2] * Squared
      <4>1. CASE level = 1
        <5>1. depth = 0 /\ idx[0] = PerBlock /\ idx'[1] = idx[1] + 1
          BY <1>1, <2>2, <3>2, <4>1
        <5>2. Passed = PerBlock + x + 0
          BY <4>1, <5>1 DEF Passed
        <5>3. Passed' = 0 + idx'[1] * PerBlock + 0
          BY <3>1, <4>1, <5>1 DEF Passed
        <5>4. idx'[1] * PerBlock = x + PerBlock /\ x \in Nat
          BY <1>7, <5>1, Zenon
        <5> HIDE DEF x
        <5> QED BY <5>2, <5>3, <5>4, Sizes
      <4>2. CASE level = 2 /\ depth = 0
        <5>1. idx[0] = PerBlock /\ idx'[1] = idx[1] + 1 /\ idx'[2] = idx[2]
          BY <1>1, <3>2, <4>2
        <5>2. Passed = PerBlock + x + y
          BY <4>2, <5>1 DEF Passed
        <5>3. Passed' = 0 + idx'[1] * PerBlock + idx'[2] * Squared
          BY <3>1, <4>2 DEF Passed
        <5>4. /\ idx'[1] * PerBlock = x + PerBlock /\ x \in Nat
              /\ idx'[2] * Squared = y /\ y \in Nat
          BY <1>7, <5>1, Zenon
        <5> HIDE DEF x, y
        <5> QED BY <5>2, <5>3, <5>4, Sizes
      <4>3. CASE level = 2 /\ depth = 1
        <5>1. idx[1] = PerBlock /\ idx'[2] = idx[2] + 1
          BY <1>1, <3>2, <4>3
        <5>2. Passed = 0 + PerBlock * PerBlock + y
          BY <4>3, <5>1 DEF Passed
        <5>3. Passed' = 0 + 0 + idx'[2] * Squared
          BY <3>1, <4>3 DEF Passed
        <5>4. idx'[2] * Squared = y + Squared /\ y \in Nat /\ PerBlock * PerBlock = Squared
          BY <1>7, <5>1, Zenon
        <5>5. Passed = 0 + Squared + y
          BY <5>2, <5>4, Zenon
        <5> HIDE DEF y
        <5> QED BY <5>3, <5>4, <5>5, Sizes
      <4> QED BY <1>1, <2>2, <4>1, <4>2, <4>3
    <3>4. \A e \in depth' .. level' : idx'[e] <= PerBlock /\ (e > depth' => idx'[e] < PerBlock)
      <4> SUFFICES ASSUME NEW e \in depth + 1 .. level
                   PROVE  idx'[e] <= PerBlock /\ (e > depth + 1 => idx'[e] < PerBlock)
        BY <3>1
      <4>1. e \in depth .. level /\ e > depth /\ e \in Levels
        BY <1>1 DEF Levels
      <4>2. idx[e] < PerBlock /\ idx[e] \in Nat
        BY <1>1, <1>4, <4>1
      <4> QED BY <1>1, <3>2, <4>2, Sizes
    <3>5. \A e \in depth' + 1 .. level' : u'[e - 1] = file.device[u'[e][idx'[e] + 1].a + 1]
      <4>1. depth' + 1 = depth + 2 /\ level' = level
        BY <1>1, <3>1
      <4> SUFFICES ASSUME NEW e \in depth + 2 .. level
                   PROVE  u[e - 1] = file.device[u[e][idx'[e] + 1].a + 1]
        BY <1>1, <4>1, Zenon
      <4>2. e \in depth + 1 .. level /\ e # depth + 1
        BY <1>1
      <4>3. idx'[e] = idx[e]
        BY <3>2, <4>2
      <4> QED BY <1>4, <4>2, <4>3
    <3>6. Before(level') = Before(level) /\ Outright(file') = Outright(file)
      BY <1>1, <3>1
    <3> QED BY <1>1, <1>4, <3>1, <3>3, <3>4, <3>5, <3>6 DEF PathInv
  <2> QED BY <2>1, <2>2
<1> QED BY <1>2, <1>3, <1>8 DEF MapInv

LEMMA OpenMaps == Inv /\ MapInv /\ Open => MapInv'
<1> SUFFICES ASSUME Inv, MapInv, Open PROVE MapInv'
  OBVIOUS
<1>1. /\ list' = <<>> /\ Len(list') = 0 /\ idx'[0] = 0 /\ phase' = "direct"
      /\ 0 .. Len(list') - 1 = {}
  BY DEF Open, mapping, Inv, LoopInv
<1>2. NamedInv'
  BY <1>1 DEF NamedInv, ListIsNamed, ListIsShort, ListIsRun
<1>3. HeadInv' /\ PathInv'
  BY <1>1, Sizes DEF HeadInv, PathInv
<1> QED BY <1>2, <1>3 DEF MapInv

\* Behind the mapping phases only the list is left to speak of.
LEMMA MappedMaps ==
    Inv /\ MapInv /\ phase' \in Reading /\ UNCHANGED <<file, list>> => MapInv'
BY NamesKept DEF MapInv, HeadInv, PathInv, Reading

LEMMA CloseMaps == Inv /\ MapInv /\ Close => MapInv'
<1> SUFFICES ASSUME Inv, MapInv, Close PROVE MapInv'
  OBVIOUS
<1>1. list' = <<>> /\ Len(list') = 0 /\ phase' = "closed" /\ 0 .. Len(list') - 1 = {}
  BY DEF Close
<1> QED BY <1>1 DEF MapInv, NamedInv, ListIsNamed, ListIsShort, ListIsRun, HeadInv, PathInv

LEMMA NextMaps == Inv /\ MapInv /\ [Next]_vars => MapInv'
<1> SUFFICES ASSUME Inv, MapInv, [Next]_vars PROVE MapInv'
  OBVIOUS
<1>1. CASE Open
  BY <1>1, OpenMaps
<1>2. CASE Direct \/ Follow \/ Indirect
  BY <1>2, DirectMaps, FollowMaps, IndirectMaps
<1>3. CASE MeetContiguous \/ DirectEnds \/ Prepare \/ Load \/ LoopEnds
  BY <1>3, MeetContiguousMaps, DirectEndsMaps, PrepareMaps, LoadMaps, LoopEndsMaps
<1>4. CASE OpenPlain \/ OpenCompressed
  <2>1. phase' \in {"ready", "failed", "raw"} /\ UNCHANGED <<file, list>>
    BY <1>4 DEF OpenPlain, OpenCompressed, Fail, Opening, StartRaw, Inv
  <2> QED BY <2>1, MappedMaps DEF Reading
<1>5. CASE Close
  BY <1>5, CloseMaps
<1>6. CASE Read \/ Return
  BY <1>6, MappedMaps DEF Read, Return, Reading, StartRaw, mapping
<1>7. CASE ReadRaw \/ ReadWild \/ RawEnds
  BY <1>7, MappedMaps DEF ReadRaw, ReadWild, RawEnds, Reading, mapping
<1>8. CASE ReadPacked \/ PackedEnds \/ PackedWild
  BY <1>8, MappedMaps DEF ReadPacked, PackedEnds, PackedWild, Reading, StartRaw, Fail, mapping
<1>9. CASE CopyWild \/ Inflate
  BY <1>9, MappedMaps DEF CopyWild, Inflate, CopyFrom, Reading, Fail, mapping
<1>10. CASE DeviceFails
  BY <1>10, MappedMaps DEF DeviceFails, Fail, Reading, mapping
<1>11. CASE UNCHANGED vars
  BY <1>11, NamesKept DEF vars, mapping, MapInv, HeadInv, PathInv, Passed
<1> QED BY <1>1, <1>2, <1>3, <1>4, <1>5, <1>6, <1>7, <1>8, <1>9, <1>10, <1>11 DEF Next, Step

LEMMA InitMaps == Init => MapInv
<1> SUFFICES ASSUME Init PROVE MapInv
  OBVIOUS
<1>1. list = <<>> /\ Len(list) = 0 /\ phase = "closed" /\ 0 .. Len(list) - 1 = {}
  BY DEF Init
<1> QED BY <1>1 DEF MapInv, NamedInv, ListIsNamed, ListIsShort, ListIsRun, HeadInv, PathInv

\* The list is right at every moment it grows, and so are the loops it grows in.
THEOREM BlocksAreMapped == Spec => []MapInv
<1>1. Init => Inv /\ MapInv
  BY InitInv, InitMaps
<1>2. (Inv /\ MapInv) /\ [Next]_vars => (Inv /\ MapInv)'
  BY NextInv, NextMaps
<1> QED BY <1>1, <1>2, PTL DEF Spec

\* pfs_get_block_list appends the blocks that the format has for a file, in
\* their order: through the dinode, behind a sentinel, and through one, two or
\* three levels of pointers, whatever the dinode and the device hold.
THEOREM BlocksAreNamed == Spec => []ListIsNamed
<1>1. MapInv => ListIsNamed
  BY DEF MapInv, NamedInv
<1> QED BY <1>1, BlocksAreMapped, PTL

\* pfs_get_block_no_sino and pfs_get_block_list agree on the inode table.
THEOREM InodeTableAgreement == Spec => []InodeTableAgrees
<1>1. ASSUME Inv, MapInv, file.blocks # <<>>, NEW run \in BOOLEAN,
             NEW n \in 0 .. Len(list) - 1, Flagged(run), n < file.count
      PROVE  /\ Lookup(file, run, n).ok => Lookup(file, run, n).block = list[n + 1]
             /\ ~Lookup(file, run, n).ok => ~run /\ n >= DirectMax
  <2>1. /\ file \in Files /\ n \in Nat /\ file.count \in Nat /\ ~(n + 1 > file.count)
        /\ DirectMax \in Nat
    <3>1. list \in Seq(Nat) /\ file \in Files
      BY <1>1 DEF Inv, TypeInv
    <3>2. file.count \in Nat
      BY <3>1, FilesAssumption DEF File
    <3>3. Len(list) \in Nat
      BY <3>1
    <3>4. n \in Nat
      BY <3>3
    <3> QED BY <1>1, <3>1, <3>2, <3>4, Sizes
  <2>2. CASE run
    <3>1. list[n + 1] = file.direct[1] + n
      BY <1>1, <2>2 DEF MapInv, NamedInv, ListIsRun, Flagged
    <3> QED BY <2>1, <2>2, <3>1 DEF Lookup, Block
  <2>3. CASE ~run /\ n + 1 > DirectMax
    BY <2>1, <2>3 DEF Lookup, NoBlock
  <2>4. CASE ~run /\ ~(n + 1 > DirectMax)
    <3>1. n \in 0 .. DirectMax - 1 /\ \A k \in 1 .. n + 1 : k \in 1 .. DirectMax
      BY <2>1, <2>4
    <3>2. \A k \in 1 .. n + 1 : file.direct[k] # Contiguous
      BY <1>1, <2>4, <3>1 DEF Flagged
    <3>3. BlockAt(file, n) = file.direct[n + 1]
      BY <2>1, <3>1, <3>2, DirectBlocks
    <3>4. list[n + 1] = file.direct[n + 1]
      BY <1>1, <3>3 DEF MapInv, NamedInv, ListIsNamed
    <3> QED BY <2>1, <2>4, <3>4 DEF Lookup, Block
  <2> QED BY <2>2, <2>3, <2>4
<1>2. Inv /\ MapInv => InodeTableAgrees
  BY <1>1, Zenon DEF InodeTableAgrees
<1> QED BY <1>2, Invariant, BlocksAreMapped, PTL

(***************************************************************************)
(* What is read                                                            *)
(***************************************************************************)
\* A sequence of n cells, or a buffer of n.
Cells(s, n) == s = [k \in 1 .. n |-> s[k]]

\* A list that is complete has the whole file.
Using == {"mapped", "raw", "packed", "inflate", "returned", "ready"}
CompleteInv == phase \in Using /\ file.blocks # <<>> =>
                   list # <<>> /\ Len(list) * BlockSize >= file.size

\* The buffers keep their sizes.
BufferInv == Cells(tmpBlock, 2 * BlockSize) /\ Cells(workData, 2 * WorkSize)

\* The locals have their fields, and say which of the three reads goes on; errors
\* end it.
KindInv ==
    /\ request \in [off : Nat, len : Nat]
    /\ raw = [by |-> raw.by, i |-> raw.i, start |-> raw.start,
              end |-> raw.end, len |-> raw.len, done |-> raw.done]
    /\ packed = [i |-> packed.i, end |-> packed.end, start |-> packed.start, done |-> packed.done]
    /\ status = "error" => phase \in {"failed", "returned"}
    /\ phase \in Using \ {"mapped"} =>
          fileSize = IF file.compressed THEN file.full ELSE file.size
    /\ phase = "raw" => /\ raw.by \in {"user", "packed", "table"}
                        /\ raw.by = "user" <=> ~file.compressed
    /\ phase \in {"packed", "inflate"} => file.compressed

\* A unit of a compressed file is being looked for, or has been.
OfUnit == phase = "raw" /\ raw.by = "packed"
TableInv ==
    Sound /\ file.compressed /\ (phase \in Using \ {"mapped", "raw"} \/ OfUnit) =>
        \A k \in 0 .. UnitCount - 1 : blockOffsets[k + 1] = OffsetOf(file, k)

\* pfs_file_read_raw has gone through whole blocks, and so has the copy of
\* len cells from cell off on; what it copies from behind the file is no matter.
RawAt(off, len) ==
    /\ raw.len = len /\ raw.start = off % BlockSize
    /\ raw.end = off \div BlockSize + Up(len) /\ raw.i \in off \div BlockSize .. raw.end
    /\ raw.done = Min2((raw.i - off \div BlockSize) * BlockSize, len)
    /\ Cells(out, raw.done)
    /\ \A k \in 1 .. raw.done :
          off + k - 1 < file.size => out[k] = CellAt(file, off + k - 1)
\* pfs_file_read_compressed has gone through whole units.
PackedAt(off, len) ==
    /\ packed.start = off % Unit
    /\ packed.end = off \div Unit + (len + Unit - 1) \div Unit
    /\ packed.i \in off \div Unit .. packed.end
    /\ packed.done = Min2((packed.i - off \div Unit) * Unit, len)
    /\ Cells(data, packed.done)
    /\ \A k \in 1 .. packed.done : data[k] = DataCell(off + k - 1)

CopyInv ==
    /\ Sound /\ phase = "raw" /\ raw.by = "table" => RawAt(file.header.table, UnitCount)
    /\ Sound /\ Aligned(request) =>
          /\ phase = "raw" /\ raw.by = "user" =>
                ~Beyond(request) /\ RawAt(request.off, request.len)
          /\ phase \in {"packed", "inflate"} \/ OfUnit =>
                ~Beyond(request) /\ PackedAt(request.off, request.len)
          /\ phase = "inflate" \/ OfUnit => packed.i < packed.end
          /\ OfUnit => RawAt(OffsetOf(file, packed.i), Unit)
          /\ phase = "inflate" =>
                \A k \in 1 .. OffsetOf(file, packed.i + 1) - OffsetOf(file, packed.i) :
                    workData[k] = CellAt(file, OffsetOf(file, packed.i) + k - 1)

\* What the caller is to have, and has in the end.
ReadInv == CopyInv /\ ReadReturnsTheFile /\ FailsForACause

ContentInv == CompleteInv /\ BufferInv /\ KindInv /\ TableInv /\ ReadInv
-----------------------------------------------------------------------------
\* A count of rounds is one short of enough as long as it leaves something.
LEMMA Rounds ==
    ASSUME NEW n \in Nat, NEW len \in Nat, NEW B \in Nat \ {0}
    PROVE  n < (len + B - 1) \div B <=> n * B < len
<1> DEFINE m == len + B - 1
           q == m \div B
<1>1. m \in Nat /\ n * B \in Nat /\ (n + 1) * B = n * B + B
  BY OneMore
<1>2. q \in Nat /\ m = B * q + (m % B) /\ m % B \in 0 .. B - 1
  BY <1>1, SMT
<1>3. ASSUME n < q PROVE n * B < len
  <2>1. B * (n + 1) <= B * q
    <3> HIDE DEF q
    <3> QED BY <1>2, <1>3, SMT
  <2>2. B * (n + 1) = (n + 1) * B
    BY SMT
  <2> HIDE DEF q
  <2> QED BY <1>1, <1>2, <2>1, <2>2
<1>4. ASSUME n * B < len PROVE n < q
  <2>1. (n + 1) * B <= m /\ n + 1 \in Nat
    BY <1>1, <1>4
  <2>2. n + 1 <= q
    BY <1>1, <2>1, WholeBlocks
  <2> HIDE DEF q
  <2> QED BY <1>2, <2>2
<1> QED BY <1>3, <1>4

LEMMA Grows == ASSUME NEW m \in Nat, NEW n \in Nat, NEW p \in Nat, m <= n
               PROVE  m * p \in Nat /\ n * p \in Nat /\ m * p <= n * p
BY SMT

LEMMA Least2 == ASSUME NEW m \in Int, NEW n \in Int
                PROVE  Min2(m, n) \in Int /\ (m <= n => Min2(m, n) = m) /\ (n <= m => Min2(m, n) = n)
BY DEF Min2

\* What a round copies is a whole block or what is missing.
LEMMA OneRound ==
    ASSUME NEW n \in Nat, NEW len \in Nat, NEW B \in Nat \ {0}, n < (len + B - 1) \div B
    PROVE  /\ Min2(n * B, len) = n * B
           /\ Min2(B, len - n * B) \in 1 .. B /\ n * B + Min2(B, len - n * B) <= len
           /\ n * B + Min2(B, len - n * B) = Min2((n + 1) * B, len)
<1>1. n * B < len
  BY Rounds
<1>2. n * B \in Nat /\ (n + 1) * B = n * B + B
  BY OneMore
<1> QED BY <1>1, <1>2 DEF Min2

\* After the last round nothing is.
LEMMA AllRounds ==
    ASSUME NEW len \in Nat, NEW B \in Nat \ {0}
    PROVE  /\ (len + B - 1) \div B \in Nat
           /\ Min2(((len + B - 1) \div B) * B, len) = len
<1> DEFINE q == (len + B - 1) \div B
<1>1. q \in Nat
  <2>1. len + B - 1 \in Nat
    OBVIOUS
  <2> QED BY <2>1, Quotient
<1>2. ~(q * B < len)
  BY <1>1, Rounds
<1>3. q * B \in Nat
  BY <1>1, OneMore
<1> HIDE DEF q
<1>4. Min2(q * B, len) = len
  BY <1>2, <1>3 DEF Min2
<1> QED BY <1>1, <1>4 DEF q

\* A place counted in blocks and cells.
LEMMA Place ==
    ASSUME NEW p \in Nat, NEW B \in Nat \ {0}
    PROVE  /\ p \div B \in Nat /\ p % B \in 0 .. B - 1
           /\ (p \div B) * B \in Nat /\ p = (p \div B) * B + (p % B)
<1>1. p \div B \in Nat /\ p % B \in 0 .. B - 1 /\ p = B * (p \div B) + (p % B)
  BY SMT
<1>2. B * (p \div B) = (p \div B) * B /\ (p \div B) * B \in Nat
  BY <1>1, OneMore, SMT
<1> QED BY <1>1, <1>2

LEMMA CellsAreSeq ==
    ASSUME NEW n \in Nat, NEW s, Cells(s, n)
    PROVE  /\ s \in Seq({s[k] : k \in 1 .. n}) /\ Len(s) = n /\ DOMAIN s = 1 .. n
<1>1. s \in [1 .. n -> {s[k] : k \in 1 .. n}] /\ DOMAIN s = 1 .. n
  BY Zenon DEF Cells
<1> DEFINE S == {s[k] : k \in 1 .. n}
<1> HIDE DEF S
<1>2. s \in Seq(S) /\ Len(s) = n
  BY <1>1 DEF S
<1> QED BY <1>1, <1>2 DEF S

\* One sequence behind another, kept folded for the provers.
Both(x, y) == x \o y

LEMMA Joined ==
    ASSUME NEW n \in Nat, NEW x, Cells(x, n), NEW m \in Nat, NEW y, Cells(y, m)
    PROVE  /\ Cells(Both(x, y), n + m)
           /\ \A k \in 1 .. n : Both(x, y)[k] = x[k]
           /\ \A k \in 1 .. m : Both(x, y)[n + k] = y[k]
<1> DEFINE S == {x[k] : k \in 1 .. n} \cup {y[k] : k \in 1 .. m}
<1>1. x \in [1 .. n -> S] /\ y \in [1 .. m -> S]
  BY Zenon DEF Cells
<1> HIDE DEF S
<1>2. x \in Seq(S) /\ Len(x) = n /\ y \in Seq(S) /\ Len(y) = m
  BY <1>1
<1>3. Both(x, y) \in Seq(S) /\ Len(Both(x, y)) = Len(x) + Len(y)
  BY <1>2, ConcatProperties DEF Both
<1>4. \A k \in 1 .. n : Both(x, y)[k] = x[k]
  BY <1>2 DEF Both
<1>5. \A k \in 1 .. m : Both(x, y)[n + k] = y[k]
  BY <1>2 DEF Both
<1>6. Both(x, y) = [k \in 1 .. n + m |-> Both(x, y)[k]]
  BY <1>2, <1>3
<1> QED BY <1>4, <1>5, <1>6 DEF Cells

LEMMA Sliced ==
    ASSUME NEW d \in Nat, NEW t, Cells(t, d), NEW s \in Nat, NEW c \in Nat, s + c <= d
    PROVE  /\ Cells(SubSeq(t, s + 1, s + c), c)
           /\ \A k \in 1 .. c : SubSeq(t, s + 1, s + c)[k] = t[s + k]
<1> DEFINE S == {t[k] : k \in 1 .. d}
           v == SubSeq(t, s + 1, s + c)
<1>1. t \in [1 .. d -> S]
  BY Zenon DEF Cells
<1> HIDE DEF S
<1>2. t \in Seq(S) /\ Len(t) = d
  BY <1>1
<1>3. v \in Seq(S) /\ Len(v) = c /\ \A k \in 1 .. c : v[k] = t[s + k]
  BY <1>2
<1>4. v = [k \in 1 .. c |-> v[k]]
  <2> HIDE DEF v
  <2> QED BY <1>3
<1> QED BY <1>3, <1>4 DEF Cells

\* What is copied out of a buffer behind what has been copied before.
LEMMA Appended ==
    ASSUME NEW n \in Nat, NEW o, Cells(o, n), NEW d \in Nat, NEW t, Cells(t, d),
           NEW s \in Nat, NEW c \in Nat, s + c <= d
    PROVE  LET r == Both(o, SubSeq(t, s + 1, s + c))
           IN  /\ Cells(r, n + c)
               /\ \A k \in 1 .. n : r[k] = o[k]
               /\ \A k \in 1 .. c : r[n + k] = t[s + k]
<1> DEFINE v == SubSeq(t, s + 1, s + c)
<1>1. Cells(v, c) /\ \A k \in 1 .. c : v[k] = t[s + k]
  BY Sliced
<1> HIDE DEF v
<1>2. /\ Cells(Both(o, v), n + c) /\ \A k \in 1 .. n : Both(o, v)[k] = o[k]
      /\ \A k \in 1 .. c : Both(o, v)[n + k] = v[k]
  BY <1>1, Joined, SMTT(30)
<1>3. /\ Cells(Both(o, v), n + c) /\ \A k \in 1 .. n : Both(o, v)[k] = o[k]
      /\ \A k \in 1 .. c : Both(o, v)[n + k] = t[s + k]
  BY <1>1, <1>2
<1> QED BY <1>3 DEF v

LEMMA OverlayKeeps ==
    ASSUME NEW d, NEW t, Cells(t, d), NEW v
    PROVE  Cells(Overlay(t, v), d)
<1>1. DOMAIN t = 1 .. d
  BY Zenon DEF Cells
<1>2. Overlay(t, v) = [k \in 1 .. d |-> IF k <= Len(v) THEN v[k] ELSE t[k]]
  BY <1>1 DEF Overlay
<1> QED BY <1>2, Zenon DEF Cells

\* A buffer that is overwritten from its beginning.
LEMMA Overlaid ==
    ASSUME NEW d \in Nat, NEW t, Cells(t, d), NEW n \in Nat, NEW v, Cells(v, n)
    PROVE  /\ Cells(Overlay(t, v), d)
           /\ \A k \in 1 .. d : Overlay(t, v)[k] = IF k <= n THEN v[k] ELSE t[k]
<1>1. DOMAIN t = 1 .. d /\ Len(v) = n
  BY CellsAreSeq
<1>2. Overlay(t, v) = [k \in 1 .. d |-> IF k <= n THEN v[k] ELSE t[k]]
  BY <1>1 DEF Overlay
<1> QED BY <1>2, Zenon DEF Cells

\* The list of a complete file is where its writer put it.
LEMMA ListIsBlocks ==
    ASSUME Inv, MapInv, file.blocks # <<>>, NEW n \in 0 .. Len(list) - 1
    PROVE  /\ n + 1 \in DOMAIN file.blocks /\ list[n + 1] = file.blocks[n + 1]
           /\ list[n + 1] \in Nat /\ list[n + 1] < Len(file.device)
<1>1. /\ file \in Files /\ file.size \in Nat /\ list \in Seq(Nat) /\ file.blocks \in Seq(Nat)
      /\ n \in Nat /\ Len(list) \in Nat /\ BlockSize \in Nat \ {0}
  <2>1. file \in Files /\ list \in Seq(Nat)
    BY DEF Inv, TypeInv
  <2> QED BY <2>1, Dinode, FilesAssumption, Sizes, SMTT(30) DEF File
<1>2. /\ Len(file.blocks) >= Up(file.size)
      /\ \A k \in DOMAIN file.blocks : file.blocks[k] = BlockAt(file, k - 1)
                                       /\ file.blocks[k] < Len(file.device)
  BY <1>1, LayoutAssumption
<1>3. n + 1 \in 1 .. Len(file.blocks)
  <2>1. CASE n = 0
    BY <1>1, <2>1
  <2>2. CASE n > 0
    <3>1. (Len(list) - 1) * BlockSize < file.size
      BY <1>1, <2>2 DEF MapInv, NamedInv, ListIsShort
    <3>2. n * BlockSize <= (Len(list) - 1) * BlockSize /\ n * BlockSize \in Nat
          /\ (Len(list) - 1) * BlockSize \in Nat
      <4>1. n <= Len(list) - 1 /\ Len(list) - 1 \in Nat
        BY <1>1
      <4> QED BY <1>1, <4>1, Grows
    <3>3. n < Up(file.size)
      <4>1. n * BlockSize < file.size
        BY <1>1, <3>1, <3>2
      <4> QED BY <1>1, <4>1, Rounds DEF Up
    <3>4. Up(file.size) \in Nat
      BY <1>1, AllRounds DEF Up
    <3> QED BY <1>1, <1>2, <3>3, <3>4
  <2> QED BY <1>1, <2>1, <2>2
<1>4. list[n + 1] = BlockAt(file, n)
  BY DEF MapInv, NamedInv, ListIsNamed
<1>5. n + 1 \in DOMAIN file.blocks /\ n + 1 - 1 = n
  BY <1>1, <1>3
<1>6. list[n + 1] = file.blocks[n + 1] /\ file.blocks[n + 1] < Len(file.device)
  BY <1>2, <1>4, <1>5
<1>7. file.blocks[n + 1] \in Nat
  BY <1>1, <1>3
<1> QED BY <1>5, <1>6, <1>7

LEMMA CellOf ==
    ASSUME Inv, MapInv, file.blocks # <<>>, NEW n \in 0 .. Len(list) - 1,
           NEW c \in 0 .. BlockSize - 1
    PROVE  CellAt(file, n * BlockSize + c) = file.device[list[n + 1] + 1][c + 1]
<1>1. (n * BlockSize + c) \div BlockSize = n /\ (n * BlockSize + c) % BlockSize = c
  BY Sizes, Digits
<1>2. list[n + 1] = file.blocks[n + 1]
  BY ListIsBlocks
<1> QED BY <1>1, <1>2, Zenon DEF CellAt

LEMMA DeviceCells ==
    ASSUME file \in Files, NEW b \in Nat, b < Len(file.device)
    PROVE  Cells(file.device[b + 1], BlockSize) /\ file.device[b + 1] \in DeviceBlock
<1>1. file.device \in Seq(DeviceBlock)
  BY Dinode
<1>2. b + 1 \in 1 .. Len(file.device)
  BY <1>1
<1>3. file.device[b + 1] \in DeviceBlock
  BY <1>1, <1>2
<1> QED BY <1>3 DEF DeviceBlock, Cells

LEMMA TwoBlocks ==
    ASSUME NEW x, Cells(x, BlockSize), NEW y, Cells(y, BlockSize)
    PROVE  /\ Cells(Both(x, y), BlockSize + BlockSize)
           /\ \A k \in 1 .. BlockSize : /\ Both(x, y)[k] = x[k]
                                        /\ Both(x, y)[BlockSize + k] = y[k]
<1>1. BlockSize \in Nat
  BY Sizes
<1>2. Cells(Both(x, y), BlockSize + BlockSize)
  BY <1>1, Joined
<1>3. \A k \in 1 .. BlockSize : Both(x, y)[k] = x[k]
  BY <1>1, Joined
<1>4. \A k \in 1 .. BlockSize : Both(x, y)[BlockSize + k] = y[k]
  BY <1>1, Joined
<1> QED BY <1>2, <1>3, <1>4

\* What pfs_read_blocks reads of a file: one block of it, or two if it is in one run.
LEMMA FileRead ==
    ASSUME Inv, MapInv, file.blocks # <<>>, NEW i \in 0 .. Len(list) - 1, NEW n \in 1 .. 2,
           n = 2 => Consecutive /\ i + 1 < Len(list)
    PROVE  /\ CanRead(list[i + 1], n)
           /\ Cells(Blocks(list[i + 1], n), n * BlockSize)
           /\ \A k \in 1 .. n * BlockSize :
                 Blocks(list[i + 1], n)[k] = CellAt(file, i * BlockSize + k - 1)
<1> DEFINE b == list[i + 1]
           x == file.device[b + 1]
           y == file.device[b + 2]
           z == Both(x, y)
<1>1. /\ file \in Files /\ list \in Seq(Nat) /\ i \in Nat /\ BlockSize \in Nat \ {0}
      /\ i * BlockSize \in Nat /\ (i + 1) * BlockSize = i * BlockSize + BlockSize
      /\ file.device \in Seq(DeviceBlock) /\ Len(file.device) \in Nat
  <2>1. file \in Files /\ list \in Seq(Nat) /\ i \in Nat
    BY DEF Inv, TypeInv
  <2>2. file.device \in Seq(DeviceBlock)
    BY <2>1, Dinode
  <2>3. BlockSize \in Nat \ {0} /\ Len(file.device) \in Nat
    BY <2>2, Sizes
  <2>4. i * BlockSize \in Nat /\ (i + 1) * BlockSize = i * BlockSize + BlockSize
    BY <2>1, <2>3, OneMore
  <2> QED BY <2>1, <2>2, <2>3, <2>4
<1>2. b \in Nat /\ b < Len(file.device)
  BY ListIsBlocks
<1>3. Cells(x, BlockSize) /\ x \in DeviceBlock
  BY <1>1, <1>2, DeviceCells
<1>4. ASSUME NEW k \in 1 .. BlockSize PROVE x[k] = CellAt(file, i * BlockSize + k - 1)
  <2>1. k - 1 \in 0 .. BlockSize - 1 /\ k - 1 + 1 = k
        /\ i * BlockSize + (k - 1) = i * BlockSize + k - 1
    BY <1>1
  <2>2. CellAt(file, i * BlockSize + (k - 1)) = file.device[list[i + 1] + 1][k - 1 + 1]
    BY <2>1, CellOf
  <2> QED BY <2>1, <2>2
<1>5. CASE n = 1
  <2>1. Blocks(b, n) = x /\ n * BlockSize = BlockSize
    BY <1>1, <1>5 DEF Blocks
  <2>2. CanRead(b, n)
    BY <1>1, <1>2, <1>5, SMTT(30) DEF CanRead
  <2> HIDE DEF x, b
  <2> QED BY <1>3, <1>4, <2>1, <2>2 DEF b
<1>6. CASE n = 2
  <2>1. i + 1 \in 0 .. Len(list) - 1 /\ i + 1 + 1 = i + 2 /\ n * BlockSize = BlockSize + BlockSize
    <3>1. 2 * BlockSize = BlockSize + BlockSize
      BY <1>1
    <3>2. i + 1 \in 0 .. Len(list) - 1 /\ i + 1 + 1 = i + 2
      BY <1>1, <1>6
    <3> QED BY <1>6, <3>1, <3>2
  <2>2. list[i + 2] = b + 1
    <3>1. list[i + 1 + 1] = file.direct[1] + (i + 1) /\ b = file.direct[1] + i
      BY <1>6, <2>1 DEF MapInv, NamedInv, ListIsRun
    <3>2. file.direct[1] \in Nat
      BY <1>1, Dinode, Sizes
    <3> QED BY <1>1, <2>1, <3>1, <3>2
  <2>3. b + 1 \in Nat /\ b + 1 < Len(file.device) /\ b + 1 + 1 = b + 2
    <3>1. list[i + 1 + 1] \in Nat /\ list[i + 1 + 1] < Len(file.device)
      BY <2>1, ListIsBlocks
    <3> QED BY <1>2, <2>1, <2>2, <3>1
  <2>4. Cells(y, BlockSize) /\ y \in DeviceBlock
    BY <1>1, <2>3, DeviceCells
  <2>5. Blocks(b, n) = z
    BY <1>6 DEF Blocks, Both
  <2>6. CanRead(b, n)
    BY <1>1, <1>6, <2>3 DEF CanRead
  <2>7. ASSUME NEW k \in 1 .. BlockSize
        PROVE  y[k] = CellAt(file, i * BlockSize + (BlockSize + k) - 1)
    <3>1. k - 1 \in 0 .. BlockSize - 1 /\ k - 1 + 1 = k
          /\ (i + 1) * BlockSize + (k - 1) = i * BlockSize + (BlockSize + k) - 1
      BY <1>1, SMTT(30)
    <3>2. CellAt(file, (i + 1) * BlockSize + (k - 1)) = file.device[list[i + 1 + 1] + 1][k - 1 + 1]
      BY <2>1, <3>1, CellOf
    <3>3. list[i + 1 + 1] + 1 = b + 2
      BY <1>2, <2>1, <2>2
    <3> QED BY <3>1, <3>2, <3>3
  <2>8. /\ Cells(z, BlockSize + BlockSize)
        /\ \A k \in 1 .. BlockSize : z[k] = x[k]
        /\ \A k \in 1 .. BlockSize : z[BlockSize + k] = y[k]
    <3>1. BlockSize \in Nat /\ Cells(x, BlockSize) /\ Cells(y, BlockSize)
      BY <1>1, <1>3, <2>4
    <3> HIDE DEF x, y
    <3> QED BY <3>1, TwoBlocks
  <2>9. ASSUME NEW k \in 1 .. BlockSize + BlockSize
        PROVE  z[k] = CellAt(file, i * BlockSize + k - 1)
    <3> HIDE DEF x, y, z
    <3>1. CASE k <= BlockSize
      <4>1. k \in 1 .. BlockSize
        BY <1>1, <3>1
      <4> QED BY <1>4, <2>8, <4>1
    <3>2. CASE k > BlockSize
      <4>1. k - BlockSize \in 1 .. BlockSize /\ BlockSize + (k - BlockSize) = k
        BY <1>1, <3>2
      <4> QED BY <2>7, <2>8, <4>1
    <3>3. k <= BlockSize \/ k > BlockSize
      BY <1>1
    <3> QED BY <3>1, <3>2, <3>3
  <2> HIDE DEF x, y, z, b
  <2> QED BY <2>1, <2>5, <2>6, <2>8, <2>9 DEF b
<1> QED BY <1>5, <1>6

(***************************************************************************)
(* The list is complete                                                    *)
(***************************************************************************)
LEMMA PushCompletes ==
    ASSUME Inv, phase \in Filling, NEW b \in Nat, Push(b), Enough(processed')
    PROVE  list' # <<>> /\ Len(list') * BlockSize >= file.size
<1> DEFINE n == Len(list)
           s == file.size
<1>1. n \in Nat /\ s \in Nat /\ BlockSize \in Nat \ {0}
  BY Dinode, SizesAssumption DEF Inv, TypeInv
<1>2. list' # <<>> /\ Len(list') = n + 1
  BY DEF Inv, TypeInv, Push
<1>3. n * BlockSize < s \/ n = 0
  BY <1>1 DEF Inv, FillInv, TypeInv
<1>4. LbnToSize(s, n) = BlockSize \/ (LbnToSize(s, n) = 0 /\ s = 0)
  BY <1>1, <1>3, NextBlock
<1>5. n * BlockSize + LbnToSize(s, n) >= s
  BY DEF Push, Inv, FillInv, Enough
<1>6. n * BlockSize + BlockSize = (n + 1) * BlockSize /\ n * BlockSize \in Nat
  BY <1>1, OneMore
<1> QED BY <1>1, <1>2, <1>4, <1>5, <1>6

\* While the list is being filled through pointers, it is not empty, and ends
\* inside the file.
LEMMA StillFilling ==
    ASSUME Inv, MapInv, phase \in {"prepare", "load", "indirect"}
    PROVE  /\ file \in Files /\ Headed(file) /\ Outright(file) \in Nat
           /\ Len(list) \in Nat /\ Len(list) < Up(file.size)
           /\ level \in {0, 1, 2} /\ depth \in 0 .. level
           /\ idx[0] \in Nat /\ idx[1] \in Nat /\ idx[2] \in Nat
<1>1. /\ file \in Files /\ list \in Seq(Nat) /\ Headed(file)
      /\ level \in {0, 1, 2} /\ depth \in 0 .. level /\ idx \in [Levels -> Nat]
  BY DEF Inv, TypeInv, MapInv, HeadInv, Headed, Levels
<1>2. Outright(file) \in Nat /\ Outright(file) >= 1
  BY <1>1, HeadOf, Sizes DEF Headed
<1>3. idx[0] \in Nat /\ idx[1] \in Nat /\ idx[2] \in Nat
  BY <1>1 DEF Levels
<1>4. Before(level) \in Nat
  BY <1>1, Sizes DEF Before
<1>5. Passed \in Nat
  <2>1. idx[1] * PerBlock \in Nat /\ idx[2] * Squared \in Nat
    BY <1>3, Sizes, OneMore
  <2> QED BY <1>3, <2>1 DEF Passed
<1>6. Len(list) >= 1
  BY <1>2, <1>4, <1>5 DEF MapInv, PathInv
<1>7. Len(list) * BlockSize < file.size
  <2>1. list # <<>>
    BY <1>1, <1>6
  <2> QED BY <2>1 DEF Inv, FillInv, Filling
<1>8. Len(list) < Up(file.size)
  <2>1. file.size \in Nat /\ Len(list) \in Nat
    BY <1>1, Dinode
  <2> QED BY <1>7, <2>1, Sizes, Rounds DEF Up
<1> QED BY <1>1, <1>2, <1>3, <1>8

\* No loop over pointers ends before the list is complete for good.
LEMMA NoLoopIsLast ==
    ASSUME Inv, MapInv, LoopEnds, file.blocks # <<>>
    PROVE  phase' # "mapped"
<1> SUFFICES ASSUME phase' = "mapped" PROVE FALSE
  OBVIOUS
<1>1. level = 2 /\ depth = 2 /\ idx[2] = PerBlock /\ phase \in {"load", "indirect"}
  BY DEF LoopEnds, Ascend
<1>2. file \in Files /\ Outright(file) \in Nat /\ Len(list) \in Nat /\ Len(list) < Up(file.size)
  BY <1>1, StillFilling
<1>3. Len(list) = Outright(file) + (PerBlock + Squared) + Passed
  BY <1>1 DEF MapInv, PathInv, Before
<1>4. Passed = 0 + 0 + PerBlock * Squared
  BY <1>1 DEF Passed
<1>5. Up(file.size) <= Outright(file) + PerBlock + Squared + PerBlock * PerBlock * PerBlock
  BY <1>2, LayoutAssumption, Zenon DEF Squared
<1>6. PerBlock * PerBlock * PerBlock = PerBlock * Squared /\ PerBlock * Squared \in Nat
  <2>1. \A p \in Nat : p * p * p = p * (p * p) /\ p * (p * p) \in Nat
    BY SMT
  <2> QED BY <2>1, Sizes DEF Squared
<1>7. Up(file.size) \in Nat
  BY <1>2, Dinode, Sizes, AllRounds DEF Up
<1> DEFINE cubed == PerBlock * Squared
<1>8. cubed \in Nat /\ Passed = cubed
      /\ Up(file.size) <= Outright(file) + PerBlock + Squared + cubed
  BY <1>4, <1>5, <1>6
<1> HIDE DEF cubed
<1> QED BY <1>2, <1>3, <1>7, <1>8, Sizes

\* Blocks of pointers on the way to what is missing can be read.
LEMMA WayBehind ==
    ASSUME NEW f \in Files, Headed(f), NEW c \in Nat
    PROVE  Way(f, Outright(f) + c) =
              IF c < PerBlock THEN {f.indirect[0]}
              ELSE IF c - PerBlock < Squared
              THEN {f.indirect[1], Entry(f, f.indirect[1], (c - PerBlock) \div PerBlock)}
              ELSE {f.indirect[2],
                    Entry(f, f.indirect[2], ((c - PerBlock - Squared) \div PerBlock) \div PerBlock),
                    Entry(f, Entry(f, f.indirect[2],
                                   ((c - PerBlock - Squared) \div PerBlock) \div PerBlock),
                          ((c - PerBlock - Squared) \div PerBlock) % PerBlock)}
<1> DEFINE n == Outright(f) + c
<1>1. Outright(f) \in Nat /\ n \in Nat
  BY HeadOf, Sizes DEF Headed
<1>2. ~(n < Outright(f)) /\ n - Outright(f) = c
  BY <1>1
<1> HIDE DEF n
<1>3. Way(f, n) =
              IF c < PerBlock THEN {f.indirect[0]}
              ELSE IF c - PerBlock < Squared
              THEN {f.indirect[1], Entry(f, f.indirect[1], (c - PerBlock) \div PerBlock)}
              ELSE {f.indirect[2],
                    Entry(f, f.indirect[2], ((c - PerBlock - Squared) \div PerBlock) \div PerBlock),
                    Entry(f, Entry(f, f.indirect[2],
                                   ((c - PerBlock - Squared) \div PerBlock) \div PerBlock),
                          ((c - PerBlock - Squared) \div PerBlock) % PerBlock)}
  BY <1>2, Zenon DEF Way, Squared
<1> QED BY <1>3 DEF n

LEMMA OnTheWay ==
    ASSUME NEW f \in Files, Headed(f), f.blocks # <<>>, NEW c \in Nat,
           Outright(f) + c < Up(f.size), NEW b \in Way(f, Outright(f) + c)
    PROVE  b \in Nat /\ b + 1 <= Len(f.device)
<1>1. Outright(f) \in Nat
  BY HeadOf DEF Headed
<1>2. Up(f.size) \in Nat
  BY Dinode, Sizes, AllRounds DEF Up
<1>3. Outright(f) + c \in 0 .. Up(f.size) - 1
  BY <1>1, <1>2
<1>4. b \in 0 .. Len(f.device) - 1
  BY <1>3, LayoutAssumption
<1>5. Len(f.device) \in Nat
  <2>1. f.device \in Seq(DeviceBlock)
    BY Dinode
  <2> QED BY <2>1
<1> QED BY <1>4, <1>5

LEMMA PrepareReads ==
    ASSUME Inv, MapInv, file.blocks # <<>>, phase = "prepare"
    PROVE  CanRead(file.indirect[level], 1)
<1>1. /\ file \in Files /\ Headed(file) /\ Outright(file) \in Nat
      /\ Len(list) < Up(file.size) /\ level \in {0, 1, 2}
  BY StillFilling
<1>2. Len(list) = Outright(file) + Before(level)
  BY DEF MapInv, PathInv
<1>3. Before(level) \in Nat
  BY <1>1, Sizes DEF Before
<1>4. file.indirect[level] \in Way(file, Outright(file) + Before(level))
  <2>1. CASE level = 0
    <3>1. Before(level) = 0 /\ 0 \in Nat /\ 0 < PerBlock
      BY <2>1, Sizes DEF Before
    <3>2. Way(file, Outright(file) + 0) = {file.indirect[0]}
      BY <1>1, <3>1, WayBehind, Zenon
    <3> QED BY <2>1, <3>1, <3>2
  <2>2. CASE level = 1
    <3>1. /\ Before(level) = PerBlock /\ PerBlock \in Nat /\ ~(PerBlock < PerBlock)
          /\ PerBlock - PerBlock < Squared
      <4>1. Squared > 0
        BY Sizes, SMT DEF Squared
      <4> QED BY <2>2, <4>1, Sizes DEF Before
    <3>2. Way(file, Outright(file) + PerBlock)
             = {file.indirect[1], Entry(file, file.indirect[1], (PerBlock - PerBlock) \div PerBlock)}
      BY <1>1, <3>1, WayBehind, Zenon
    <3> QED BY <2>2, <3>1, <3>2
  <2>3. CASE level = 2
    <3> DEFINE c == PerBlock + Squared
    <3>1. /\ Before(level) = c /\ c \in Nat /\ ~(c < PerBlock) /\ ~(c - PerBlock < Squared)
      BY <2>3, Sizes DEF Before
    <3> HIDE DEF c
    <3>2. file.indirect[2] \in Way(file, Outright(file) + c)
      BY <1>1, <3>1, WayBehind
    <3> QED BY <2>3, <3>1, <3>2
  <2> QED BY <1>1, <2>1, <2>2, <2>3
<1>5. /\ file.indirect[level] \in Nat
      /\ file.indirect[level] + 1 <= Len(file.device)
  BY <1>1, <1>2, <1>3, <1>4, OnTheWay
<1> QED BY <1>5 DEF CanRead

LEMMA LoadReads ==
    ASSUME Inv, MapInv, file.blocks # <<>>, phase = "load", idx[depth] < PerBlock
    PROVE  CanRead(Pointer, 1)
<1>1. /\ file \in Files /\ Headed(file) /\ Outright(file) \in Nat
      /\ Len(list) \in Nat /\ Len(list) < Up(file.size)
      /\ level \in {0, 1, 2} /\ depth \in 0 .. level /\ depth >= 1
      /\ idx[0] \in Nat /\ idx[1] \in Nat /\ idx[2] \in Nat
  BY StillFilling DEF Inv, LoopInv
<1>2. /\ Len(list) = Outright(file) + Before(level) + Passed
      /\ \A e \in depth .. level : idx[e] <= PerBlock /\ (e > depth => idx[e] < PerBlock)
      /\ u[level] = file.device[file.indirect[level] + 1]
      /\ \A e \in depth + 1 .. level : u[e - 1] = file.device[u[e][idx[e] + 1].a + 1]
  BY DEF MapInv, PathInv
<1>3. /\ idx[1] * PerBlock \in Nat /\ (idx[1] + 1) * PerBlock = idx[1] * PerBlock + PerBlock
      /\ idx[2] * Squared \in Nat /\ PerBlock * PerBlock = Squared
      /\ idx[2] * PerBlock \in Nat
  BY <1>1, Sizes, OneMore DEF Squared
<1>4. ASSUME NEW c \in Nat, Len(list) = Outright(file) + c, NEW b, b = Pointer,
             b \in Way(file, Outright(file) + c)
      PROVE  CanRead(Pointer, 1)
  <2>1. Outright(file) + c < Up(file.size)
    BY <1>1, <1>4
  <2>2. b \in Nat /\ b + 1 <= Len(file.device)
    BY <1>1, <1>4, <2>1, OnTheWay
  <2> QED BY <1>4, <2>2 DEF CanRead
<1>5. CASE level = 1
  <2>1. depth = 1 /\ idx[1] < PerBlock
    BY <1>1, <1>5
  <2> DEFINE m == idx[1] * PerBlock + 0
             c == PerBlock + m
  <2>2. 0 \in 0 .. PerBlock - 1 /\ m \div PerBlock = idx[1]
    BY <1>1, Sizes, Digits
  <2>3. m \in Nat /\ m < Squared /\ m = idx[1] * PerBlock
    <3>1. (idx[1] + 1) * PerBlock <= PerBlock * PerBlock
      BY <1>1, <2>1, Sizes, Grows, SMTT(30)
    <3> QED BY <1>3, <3>1, Sizes
  <2>4. Passed = 0 + m + 0 /\ Before(level) = PerBlock
    BY <1>5, <2>1, <2>3 DEF Passed, Before
  <2> HIDE DEF m
  <2>5. /\ c \in Nat /\ ~(c < PerBlock) /\ c - PerBlock = m
        /\ Len(list) = Outright(file) + c
    <3>1. Len(list) = Outright(file) + PerBlock + (0 + m + 0) /\ m \in Nat
      BY <1>2, <2>3, <2>4, Zenon
    <3>2. c \in Nat /\ ~(c < PerBlock) /\ c - PerBlock = m
      BY <3>1, Sizes
    <3> QED BY <1>1, <3>1, <3>2, Sizes
  <2> HIDE DEF c
  <2>6. Pointer = Entry(file, file.indirect[1], idx[1])
    BY <1>2, <1>5, <2>1 DEF Pointer, Entry
  <2>7. Entry(file, file.indirect[1], idx[1]) \in Way(file, Outright(file) + c)
    <3>1. Way(file, Outright(file) + c) = {file.indirect[1], Entry(file, file.indirect[1], m \div PerBlock)}
      BY <1>1, <2>3, <2>5, WayBehind, Zenon
    <3> QED BY <2>2, <3>1
  <2> QED BY <1>4, <2>5, <2>6, <2>7
<1>6. CASE level = 2
  <2> DEFINE j == IF depth = 1 THEN idx[1] ELSE 0
             k == idx[2] * PerBlock + j
             m == k * PerBlock + 0
             c == PerBlock + Squared + m
             i == file.indirect[2]
  <2>1. depth \in {1, 2} /\ idx[2] <= PerBlock - 1 /\ j \in 0 .. PerBlock - 1
    BY <1>1, <1>2, <1>6, Sizes
  <2>2. k \in Nat /\ k \div PerBlock = idx[2] /\ k % PerBlock = j
    <3>1. idx[2] \in Nat /\ j \in 0 .. PerBlock - 1 /\ PerBlock \in Nat \ {0}
          /\ idx[2] * PerBlock \in Nat
      BY <1>1, <1>3, <2>1, Sizes
    <3> HIDE DEF j
    <3>2. k \in Nat
      BY <3>1
    <3> QED BY <3>1, <3>2, Digits
  <2>3. k * PerBlock = idx[2] * Squared + j * PerBlock /\ j * PerBlock \in Nat
    <3>1. \A a, b, p \in Nat : (a * p + b) * p = a * (p * p) + b * p /\ b * p \in Nat
      BY SMT
    <3>2. j \in Nat
      BY <2>1
    <3> HIDE DEF j
    <3> QED BY <1>1, <3>1, <3>2, Sizes DEF Squared
  <2>4. Passed = 0 + j * PerBlock + idx[2] * Squared /\ Before(level) = PerBlock + Squared
    <3>1. 0 * PerBlock = 0
      BY Sizes
    <3> QED BY <1>6, <2>1, <3>1 DEF Passed, Before
  <2>5. m \in Nat /\ m = k * PerBlock /\ m \div PerBlock = k
    <3> HIDE DEF j, k
    <3>1. 0 \in 0 .. PerBlock - 1 /\ k * PerBlock \in Nat
      BY <2>2, Sizes, OneMore
    <3>2. m \div PerBlock = k
      BY <2>2, <3>1, Sizes, Digits
    <3> QED BY <3>1, <3>2
  <2> DEFINE x == j * PerBlock
             y == idx[2] * Squared
  <2>6. Passed = x + y /\ m = y + x /\ x \in Nat /\ y \in Nat
    BY <1>3, <2>3, <2>4, <2>5
  <2> HIDE DEF x, y, m
  <2>7. /\ c \in Nat /\ ~(c < PerBlock) /\ ~(c - PerBlock < Squared) /\ c - PerBlock - Squared = m
        /\ Len(list) = Outright(file) + c
    <3>1. /\ Len(list) = Outright(file) + (PerBlock + Squared) + (x + y)
          /\ m \in Nat /\ m = y + x /\ x \in Nat /\ y \in Nat
      BY <1>2, <2>4, <2>5, <2>6, Zenon
    <3>2. c \in Nat /\ ~(c < PerBlock) /\ ~(c - PerBlock < Squared)
          /\ c - PerBlock - Squared = m
      BY <3>1, Sizes
    <3> QED BY <1>1, <3>1, <3>2, Sizes, SMTT(30)
  <2> HIDE DEF c, j, k
  <2>8. Way(file, Outright(file) + c) = {i, Entry(file, i, (m \div PerBlock) \div PerBlock),
                   Entry(file, Entry(file, i, (m \div PerBlock) \div PerBlock),
                         (m \div PerBlock) % PerBlock)}
    BY <1>1, <2>7, WayBehind, Zenon
  <2>9. Way(file, Outright(file) + c) = {i, Entry(file, i, idx[2]), Entry(file, Entry(file, i, idx[2]), j)}
    BY <2>2, <2>5, <2>8
  <2>10. CASE depth = 2
    <3>1. Pointer = Entry(file, i, idx[2])
      BY <1>2, <1>6, <2>10 DEF Pointer, Entry
    <3> QED BY <1>4, <2>7, <2>9, <3>1
  <2>11. CASE depth = 1
    <3>1. 2 \in depth + 1 .. level /\ 2 - 1 = 1 /\ j = idx[1]
      BY <1>6, <2>11 DEF j
    <3>2. u[1] = file.device[u[2][idx[2] + 1].a + 1]
      BY <1>2, <3>1, Zenon
    <3>3. Pointer = Entry(file, Entry(file, i, idx[2]), j)
      BY <1>2, <1>6, <2>11, <3>1, <3>2 DEF Pointer, Entry
    <3> QED BY <1>4, <2>7, <2>9, <3>3
  <2> QED BY <2>1, <2>10, <2>11
<1> QED BY <1>1, <1>5, <1>6

\* Every block of the file that pfs_get_file needs, for one, can be read.
LEMMA ReadsWhileOpening ==
    ASSUME Inv, MapInv, CompleteInv, file.blocks # <<>>, NEW b, NEW n, Needs(b, n), phase # "raw"
    PROVE  CanRead(b, n)
<1>1. CASE phase = "prepare" /\ b = file.indirect[level] /\ n = 1
  BY <1>1, PrepareReads
<1>2. CASE phase = "load" /\ idx[depth] < PerBlock /\ b = Pointer /\ n = 1
  BY <1>2, LoadReads
<1>3. CASE phase = "mapped" /\ file.compressed /\ b = list[1] /\ n = 1
  <2>1. list # <<>> /\ list \in Seq(Nat)
    BY <1>3 DEF CompleteInv, Using, Inv, TypeInv
  <2>2. 0 \in 0 .. Len(list) - 1 /\ 1 \in 1 .. 2
    BY <2>1
  <2> QED BY <1>3, <2>2, FileRead, SMTT(30)
<1> QED BY <1>1, <1>2, <1>3 DEF Needs

(***************************************************************************)
(* The steps keep the parts of ContentInv                                  *)
(***************************************************************************)
LEMMA NextComplete == Inv /\ MapInv /\ CompleteInv /\ [Next]_vars => CompleteInv'
<1> SUFFICES ASSUME Inv, MapInv, CompleteInv, [Next]_vars,
                    phase' \in Using, file'.blocks # <<>>
             PROVE  list' # <<>> /\ Len(list') * BlockSize >= file'.size
  BY DEF CompleteInv
<1>1. CASE Direct
  <2>1. idx[0] + 1 \in 1 .. DirectMax /\ file \in Files
    BY <1>1, Sizes DEF Direct, Inv, TypeInv, Levels
  <2>2. file.direct[idx[0] + 1] \in Nat
    BY <2>1, Dinode
  <2>3. Enough(processed') /\ file' = file /\ phase \in Filling
    BY <1>1 DEF Direct, Mapping, Using, Filling
  <2> QED BY <1>1, <2>2, <2>3, PushCompletes DEF Direct
<1>2. CASE Follow
  <2>1. list[Len(list)] + 1 \in Nat
    BY <1>2 DEF Follow, Inv, TypeInv, LoopInv
  <2>2. Enough(processed') /\ file' = file /\ phase \in Filling
    BY <1>2 DEF Follow, Mapping, Using, Filling
  <2> QED BY <1>2, <2>1, <2>2, PushCompletes DEF Follow
<1>3. CASE Indirect
  <2>1. Pointer \in Nat
    <3>1. depth = 0 /\ idx[depth] < PerBlock
      BY <1>3 DEF Indirect, Inv, LoopInv
    <3> QED BY <3>1, PointerType DEF Inv
  <2>2. Enough(processed') /\ file' = file /\ phase \in Filling
    BY <1>3 DEF Indirect, Mapping, Using, Filling
  <2> QED BY <1>3, <2>1, <2>2, PushCompletes DEF Indirect
<1>4. CASE LoopEnds
  <2>1. file' = file
    BY <1>4 DEF LoopEnds, Mapping
  <2> QED BY <1>4, <2>1, NoLoopIsLast DEF LoopEnds, Ascend, Using
<1>5. CASE Open \/ MeetContiguous \/ DirectEnds \/ Prepare \/ Load \/ Close
  BY <1>5 DEF Open, MeetContiguous, DirectEnds, Prepare, Load, Close, Using
<1>6. ASSUME phase \in Using, file' = file, list' = list
      PROVE  list' # <<>> /\ Len(list') * BlockSize >= file'.size
  BY <1>6 DEF CompleteInv
<1>7. CASE OpenPlain \/ OpenCompressed
  BY <1>6, <1>7 DEF OpenPlain, OpenCompressed, Using
<1>8. CASE Read \/ Return \/ ReadRaw \/ ReadWild \/ RawEnds
  BY <1>6, <1>8 DEF Read, Return, ReadRaw, ReadWild, RawEnds, Using, mapping
<1>9. CASE ReadPacked \/ PackedEnds \/ PackedWild \/ CopyWild \/ Inflate
  BY <1>6, <1>9 DEF ReadPacked, PackedEnds, PackedWild, CopyWild, Inflate, Using, mapping
<1>10. CASE DeviceFails
  <2>1. phase \in Using /\ file' = file /\ list' = list
    BY <1>10 DEF DeviceFails, Fail, Needs, Using, Opening, mapping
  <2> QED BY <1>6, <2>1
<1>11. CASE UNCHANGED vars
  BY <1>6, <1>11 DEF vars, mapping
<1> QED BY <1>1, <1>2, <1>3, <1>4, <1>5, <1>7, <1>8, <1>9, <1>10, <1>11 DEF Next, Step

LEMMA ZerosAreCells == ASSUME NEW n PROVE Cells(Zeros(n), n)
BY Zenon DEF Zeros, Cells

\* The mapping steps, and the end of opening and reading, leave what is read alone.
MappingStep == Direct \/ MeetContiguous \/ Follow \/ DirectEnds \/ Prepare \/ Load
               \/ Indirect \/ LoopEnds
LEMMA MappingSteps ==
    ASSUME MappingStep
    PROVE  /\ phase \in Filling /\ phase' \in Filling \cup {"mapped"}
           /\ UNCHANGED <<file, buffers, opened, copying, call>>
<1>1. CASE Direct \/ MeetContiguous \/ Follow \/ DirectEnds
  BY <1>1 DEF Direct, MeetContiguous, Follow, DirectEnds, Mapping, Filling
<1>2. CASE Prepare \/ Load \/ Indirect \/ LoopEnds
  BY <1>2 DEF Prepare, Load, Indirect, LoopEnds, Ascend, Mapping, Filling
<1> QED BY <1>1, <1>2 DEF MappingStep

\* The half of workData that is inflated into.
LEMMA InflatedCells ==
    ASSUME Cells(workData, 2 * WorkSize), NEW v
    PROVE  LET r == Both(SubSeq(workData, 1, WorkSize),
                         Overlay(SubSeq(workData, WorkSize + 1, 2 * WorkSize), v))
           IN  /\ Cells(r, 2 * WorkSize)
               /\ \A k \in 1 .. WorkSize :
                     r[WorkSize + k] = Overlay(SubSeq(workData, WorkSize + 1, 2 * WorkSize), v)[k]
<1> DEFINE x == SubSeq(workData, 1, WorkSize)
           y == SubSeq(workData, WorkSize + 1, 2 * WorkSize)
           z == Overlay(y, v)
<1>1. WorkSize \in Nat /\ 2 * WorkSize \in Nat /\ 2 * WorkSize = WorkSize + WorkSize
      /\ 0 + WorkSize <= 2 * WorkSize /\ WorkSize + WorkSize <= 2 * WorkSize
      /\ 0 + 1 = 1 /\ 0 + WorkSize = WorkSize
  BY SizesAssumption
<1>2. Cells(SubSeq(workData, 0 + 1, 0 + WorkSize), WorkSize)
  BY <1>1, Sliced
<1>3. Cells(SubSeq(workData, WorkSize + 1, WorkSize + WorkSize), WorkSize)
  BY <1>1, Sliced
<1>4. Cells(x, WorkSize) /\ Cells(y, WorkSize)
  BY <1>1, <1>2, <1>3, Zenon
<1> HIDE DEF x, y
<1>5. Cells(z, WorkSize)
  BY <1>4, OverlayKeeps
<1> HIDE DEF z
<1>6. Cells(Both(x, z), WorkSize + WorkSize)
  BY <1>1, <1>4, <1>5, Joined
<1>7. \A k \in 1 .. WorkSize : Both(x, z)[WorkSize + k] = z[k]
  BY <1>1, <1>4, <1>5, Joined
<1>8. Cells(Both(x, z), 2 * WorkSize)
  BY <1>1, <1>6, Zenon
<1> QED BY <1>7, <1>8, Zenon DEF x, y, z

LEMMA NextBuffer == BufferInv /\ [Next]_vars => BufferInv'
<1> SUFFICES ASSUME BufferInv, [Next]_vars PROVE BufferInv'
  OBVIOUS
<1> USE DEF BufferInv
<1>1. ASSUME UNCHANGED buffers PROVE BufferInv'
  BY <1>1 DEF buffers
<1>2. CASE MappingStep
  BY <1>1, <1>2, MappingSteps
<1>3. CASE Open \/ Read \/ Return \/ ReadWild \/ ReadPacked \/ PackedEnds \/ PackedWild
           \/ CopyWild \/ DeviceFails
  BY <1>1, <1>3 DEF Open, Read, Return, ReadWild, ReadPacked, PackedEnds, PackedWild,
                    CopyWild, DeviceFails
<1>4. CASE Close \/ OpenPlain
  BY <1>4, ZerosAreCells DEF Close, OpenPlain
<1>5. CASE OpenCompressed
  <2>1. Cells(tmpBlock', 2 * BlockSize)
    BY <1>5, ZerosAreCells, OverlayKeeps DEF OpenCompressed
  <2>2. Cells(workData', 2 * WorkSize)
    BY <1>5, ZerosAreCells DEF OpenCompressed
  <2> QED BY <2>1, <2>2
<1>6. CASE ReadRaw
  <2>1. Cells(tmpBlock', 2 * BlockSize)
    BY <1>6, OverlayKeeps DEF ReadRaw
  <2>2. workData' = workData
    BY <1>6 DEF ReadRaw
  <2> QED BY <2>1, <2>2
<1>7. CASE RawEnds
  <2>1. tmpBlock' = tmpBlock /\ (workData' = workData \/ workData' = Overlay(workData, out))
    BY <1>7 DEF RawEnds
  <2>2. Cells(workData', 2 * WorkSize)
    BY <2>1, OverlayKeeps
  <2> QED BY <2>1, <2>2
<1>8. CASE Inflate
  <2>1. /\ tmpBlock' = tmpBlock
        /\ \/ workData' = workData
           \/ workData' = Both(SubSeq(workData, 1, WorkSize),
                               Overlay(SubSeq(workData, WorkSize + 1, 2 * WorkSize), Inflated))
    BY <1>8 DEF Inflate, Both
  <2>2. Cells(workData', 2 * WorkSize)
    BY <2>1, InflatedCells
  <2> QED BY <2>1, <2>2
<1>9. CASE UNCHANGED vars
  BY <1>1, <1>9 DEF vars
<1> QED BY <1>2, <1>3, <1>4, <1>5, <1>6, <1>7, <1>8, <1>9 DEF Next, Step, MappingStep

LEMMA FileSizes ==
    ASSUME NEW f \in Files
    PROVE  /\ f.size \in Nat /\ f.full \in Nat /\ f.compressed \in BOOLEAN
           /\ f.header.unit \in Nat \ {0} /\ f.header.table \in Nat /\ f.header.rounded \in Nat
           /\ f.header.unit <= WorkSize
<1>1. f \in File /\ f.header.unit <= WorkSize
  BY FilesAssumption
<1> QED BY <1>1 DEF File

LEMMA RequestType ==
    ASSUME Inv, KindInv, phase = "ready", NEW r \in Requests
    PROVE  r \in [off : Nat, len : Nat]
<1>1. fileSize \in Nat
  <2>1. file \in Files
    BY DEF Inv, TypeInv
  <2> QED BY <2>1, FileSizes DEF KindInv, Using
<1>2. PICK off \in {o \in 0 .. fileSize : o % Grain = 0} :
          r \in [off : {off}, len : Lengths \cup {fileSize - off}]
  BY DEF Requests
<1>3. off \in Nat /\ fileSize - off \in Nat /\ Lengths \subseteq Nat
  BY <1>1, <1>2, SizesAssumption
<1> QED BY <1>2, <1>3

LEMMA NextKind == Inv /\ KindInv /\ [Next]_vars => KindInv'
<1> SUFFICES ASSUME Inv, KindInv, [Next]_vars PROVE KindInv'
  OBVIOUS
\* The fields.
<1> DEFINE RawShape == raw = [by |-> raw.by, i |-> raw.i, start |-> raw.start,
                              end |-> raw.end, len |-> raw.len, done |-> raw.done]
           PackedShape == packed = [i |-> packed.i, end |-> packed.end,
                                    start |-> packed.start, done |-> packed.done]
<1>1. RawShape /\ PackedShape
  BY DEF KindInv
<1>2. raw' = NoRaw => RawShape'
  BY DEF NoRaw
<1>3. packed' = NoPacked => PackedShape'
  BY DEF NoPacked
<1>4. (raw' = raw => RawShape') /\ (packed' = packed => PackedShape')
  BY <1>1
<1>5. ASSUME NEW by, NEW off, NEW len, StartRaw(by, off, len) PROVE RawShape' /\ raw'.by = by
  BY <1>5 DEF StartRaw
<1>6. ReadRaw => RawShape' /\ raw'.by = raw.by
  BY <1>1 DEF ReadRaw
<1>7. ASSUME NEW h, CopyFrom(h) PROVE PackedShape'
  BY <1>1, <1>7 DEF CopyFrom
<1> HIDE DEF RawShape, PackedShape
<1> DEFINE Rest ==
      /\ request \in [off : Nat, len : Nat]
      /\ status = "error" => phase \in {"failed", "returned"}
      /\ phase \in Using \ {"mapped"} =>
            fileSize = IF file.compressed THEN file.full ELSE file.size
      /\ phase = "raw" => /\ raw.by \in {"user", "packed", "table"}
                          /\ raw.by = "user" <=> ~file.compressed
      /\ phase \in {"packed", "inflate"} => file.compressed
<1>8. Rest
  BY DEF KindInv
<1>9. Rest' /\ RawShape' /\ PackedShape' => KindInv'
  BY DEF KindInv, RawShape, PackedShape
<1>10. CASE MappingStep
  <2>1. Rest'
    BY <1>8, <1>10, MappingSteps DEF Filling, Using, call, opened
  <2> QED BY <1>4, <1>9, <1>10, <2>1, MappingSteps DEF copying
<1>11. CASE Open
  <2>1. phase' = "direct" /\ request' = request /\ status' = status /\ raw' = raw /\ packed' = packed
    BY <1>11 DEF Open, call, copying
  <2>2. phase = "closed"
    BY <1>11 DEF Open
  <2> QED BY <1>4, <1>8, <1>9, <2>1, <2>2 DEF Using
<1>12. CASE Return
  <2>1. /\ phase = "returned" /\ phase' = "ready" /\ status' = "ok" /\ request' = NoRequest
        /\ raw' = NoRaw /\ packed' = NoPacked /\ file' = file /\ fileSize' = fileSize
    BY <1>12 DEF Return, opened
  <2> QED BY <1>2, <1>3, <1>8, <1>9, <2>1 DEF Using, NoRequest
<1>13. CASE Close
  <2>1. /\ phase' = "closed" /\ status' = "none" /\ request' = NoRequest
        /\ raw' = NoRaw /\ packed' = NoPacked
    BY <1>13 DEF Close
  <2> QED BY <1>2, <1>3, <1>9, <2>1 DEF Using, NoRequest
<1>14. CASE OpenPlain
  <2>1. /\ phase = "mapped" /\ ~file.compressed /\ file' = file /\ fileSize' = file.size
        /\ \/ phase' = "failed" /\ status' = "error"
           \/ phase' = "ready" /\ status' = "ok"
        /\ raw' = raw /\ packed' = packed /\ request' = request
    BY <1>14 DEF OpenPlain, Fail, Opening, copying
  <2> QED BY <1>4, <1>8, <1>9, <2>1 DEF Using
<1>15. CASE OpenCompressed
  <2>1. /\ phase = "mapped" /\ file.compressed /\ file' = file /\ fileSize' = file.full
        /\ packed' = packed /\ request' = request
        /\ \/ phase' = "failed" /\ status' = "error" /\ raw' = raw
           \/ /\ phase' = "raw" /\ status' = "none"
              /\ StartRaw("table", file.header.table, UnitCount)
    BY <1>15 DEF OpenCompressed, Fail, Opening, StartRaw
  <2> QED BY <1>4, <1>5, <1>8, <1>9, <2>1 DEF Using
<1>16. CASE Read
  <2>1. request' \in [off : Nat, len : Nat]
    BY <1>16, RequestType DEF Read
  <2>2. phase = "ready" /\ file' = file /\ fileSize' = fileSize
    BY <1>16 DEF Read, opened
  <2>3. \/ phase' = "returned" /\ raw' = raw /\ packed' = packed
        \/ /\ phase' = "raw" /\ ~file.compressed /\ status' = "none" /\ packed' = packed
           /\ StartRaw("user", request'.off, request'.len)
        \/ phase' = "packed" /\ file.compressed /\ status' = "none" /\ raw' = raw /\ PackedShape'
    BY <1>4, <1>16 DEF Read, StartRaw, PackedShape
  <2> QED BY <1>4, <1>5, <1>8, <1>9, <2>1, <2>2, <2>3 DEF Using
<1>17. CASE ReadRaw
  <2>1. /\ phase = "raw" /\ phase' = phase /\ status' = status /\ request' = request
        /\ packed' = packed /\ file' = file /\ fileSize' = fileSize
    BY <1>17 DEF ReadRaw, opened, call
  <2> QED BY <1>4, <1>6, <1>8, <1>9, <1>17, <2>1 DEF Using
<1>18. CASE ReadWild \/ PackedWild \/ CopyWild
  <2>1. /\ phase \in {"raw", "packed", "inflate"} /\ phase' = "wild" /\ status' = status
        /\ raw' = raw /\ packed' = packed /\ request' = request
    BY <1>18 DEF ReadWild, PackedWild, CopyWild, copying, call
  <2> QED BY <1>4, <1>8, <1>9, <2>1 DEF Using
<1>19. CASE RawEnds
  <2>1. /\ phase = "raw" /\ raw' = NoRaw /\ packed' = packed /\ request' = request
        /\ file' = file /\ fileSize' = fileSize
        /\ \/ phase' = "returned" /\ status' = "ok"
           \/ phase' = "inflate" /\ status' = status /\ raw.by = "packed"
           \/ phase' = "ready" /\ status' = "ok"
    BY <1>19 DEF RawEnds
  <2> QED BY <1>2, <1>4, <1>8, <1>9, <2>1 DEF Using
<1>20. CASE ReadPacked
  <2>1. /\ phase = "packed" /\ packed' = packed /\ request' = request
        /\ file' = file /\ fileSize' = fileSize
        /\ \/ phase' = "returned" /\ status' = "error" /\ raw' = raw
           \/ /\ phase' = "raw" /\ status' = "none"
              /\ StartRaw("packed", blockOffsets[packed.i + 1], Unit)
    BY <1>20 DEF ReadPacked, Fail, Opening, StartRaw, opened
  <2> QED BY <1>4, <1>5, <1>8, <1>9, <2>1 DEF Using
<1>21. CASE PackedEnds
  <2>1. /\ phase = "packed" /\ packed' = packed /\ request' = request /\ raw' = raw
        /\ file' = file /\ fileSize' = fileSize /\ phase' = "returned" /\ status' = "ok"
    BY <1>21 DEF PackedEnds, opened, copying
  <2> QED BY <1>4, <1>8, <1>9, <2>1 DEF Using
<1>22. CASE Inflate
  <2>1. /\ phase = "inflate" /\ request' = request /\ raw' = raw
        /\ file' = file /\ fileSize' = fileSize
        /\ \/ phase' = "packed" /\ status' = status /\ (CopyFrom(0) \/ CopyFrom(1))
           \/ phase' = "returned" /\ status' = "error" /\ packed' = packed
    BY <1>22 DEF Inflate, CopyFrom, Fail, Opening, opened
  <2> QED BY <1>4, <1>7, <1>8, <1>9, <2>1 DEF Using
<1>23. CASE DeviceFails
  <2>1. /\ request' = request /\ raw' = raw /\ packed' = packed
        /\ file' = file /\ fileSize' = fileSize /\ status' = "error"
        /\ phase' \in {"failed", "returned"}
        /\ phase' = "returned" => phase = "raw"
    BY <1>23 DEF DeviceFails, Fail, Opening, Needs, opened, copying
  <2> QED BY <1>4, <1>8, <1>9, <2>1 DEF Using
<1>24. CASE UNCHANGED vars
  BY <1>4, <1>8, <1>9, <1>24 DEF vars, opened, call, copying
<1> QED BY <1>10, <1>11, <1>12, <1>13, <1>14, <1>15, <1>16, <1>17, <1>18, <1>19, <1>20, <1>21,
           <1>22, <1>23, <1>24 DEF Next, Step, MappingStep

\* What is known of a sound file, plain or compressed.
LEMMA Format ==
    ASSUME Inv, Sound
    PROVE  /\ file \in Files /\ file.size \in Nat /\ file.full \in Nat /\ file.compressed \in BOOLEAN
           /\ Unit \in Nat \ {0} /\ Unit <= WorkSize /\ UnitCount \in Nat \ {0} /\ UnitCount - 1 \in Nat
           /\ file.header.table \in Nat /\ file.header.rounded \in Nat
           /\ ~file.compressed => PlainContents(file)
           /\ file.compressed =>
                 /\ PackedContents(file) /\ CellAt(file, 0).is = "header"
                 /\ file.header.table + UnitCount <= file.size
                 /\ (UnitCount - 1) * Unit = file.header.rounded
                 /\ file.size <= file.full /\ file.full <= file.header.rounded
                 /\ Unit <= BlockSize /\ Consecutive
<1>1. file \in Files
  BY DEF Inv, TypeInv
<1>2. /\ file.size \in Nat /\ file.full \in Nat /\ file.compressed \in BOOLEAN
      /\ Unit \in Nat \ {0} /\ file.header.table \in Nat /\ file.header.rounded \in Nat
      /\ Unit <= WorkSize
  BY <1>1, FileSizes DEF Unit
<1> DEFINE q == file.header.rounded \div Unit
<1>3. q \in Nat
  BY <1>2, Quotient
<1>4. UnitCount = q + 1 /\ UnitCount - 1 = q
  BY <1>3 DEF UnitCount
<1>5. IF file.compressed THEN PackedContents(file) ELSE PlainContents(file)
  BY <1>1, ContentsAssumption DEF Sound
<1>6. ASSUME file.compressed
      PROVE  /\ CellAt(file, 0).is = "header" /\ file.header.table + UnitCount <= file.size
             /\ (UnitCount - 1) * Unit = file.header.rounded
  <2>1. CellAt(file, 0).is = "header" /\ file.header.table + q + 1 <= file.size
    BY <1>5, <1>6 DEF PackedContents, Unit
  <2>2. file.header.rounded % Unit = 0
    BY <1>6 DEF Sound
  <2>3. file.header.rounded = q * Unit + (file.header.rounded % Unit) /\ q * Unit \in Nat
    BY <1>2, Place
  <2> HIDE DEF q
  <2>4. q * Unit = file.header.rounded
    BY <2>2, <2>3
  <2> QED BY <1>2, <1>3, <1>4, <2>1, <2>4
<1> HIDE DEF q
<1>7. UnitCount \in Nat \ {0} /\ UnitCount - 1 \in Nat
  BY <1>3, <1>4
<1> QED BY <1>1, <1>2, <1>5, <1>6, <1>7 DEF Sound

\* A read of whole blocks that has ended has what it was to have.
LEMMA RawDone ==
    ASSUME NEW off \in Nat, NEW len \in Nat, RawAt(off, len), raw.i = raw.end
    PROVE  /\ raw.len = len /\ Cells(out, len) /\ Len(out) = len
           /\ \A k \in 1 .. len : off + k - 1 < file.size => out[k] = CellAt(file, off + k - 1)
<1>1. off \div BlockSize \in Nat
  BY Sizes, Quotient
<1>2. Up(len) \in Nat /\ Min2(Up(len) * BlockSize, len) = len
  BY Sizes, AllRounds DEF Up
<1>3. raw.i - off \div BlockSize = Up(len)
  <2> DEFINE q == off \div BlockSize
             n == Up(len)
  <2>1. raw.i = q + n /\ q \in Nat /\ n \in Nat
    BY <1>1, <1>2 DEF RawAt
  <2> HIDE DEF q, n
  <2>2. raw.i - q = n
    BY <2>1
  <2> QED BY <2>2 DEF q, n
<1>4. raw.done = len
  BY <1>2, <1>3, Zenon DEF RawAt
<1>5. Cells(out, len) /\ raw.len = len
  BY <1>4 DEF RawAt
<1>6. Len(out) = len
  BY <1>5, CellsAreSeq
<1> QED BY <1>4, <1>5, <1>6 DEF RawAt

\* The table is whole once it is there.
LEMMA TableIsRead ==
    ASSUME Inv, CopyInv, Sound, file.compressed, phase = "raw", raw.by = "table", RawEnds
    PROVE  \A k \in 0 .. UnitCount - 1 : blockOffsets'[k + 1] = OffsetOf(file, k)
<1>1. /\ UnitCount \in Nat \ {0} /\ file.header.table \in Nat /\ file.size \in Nat
      /\ file.header.table + UnitCount <= file.size
  BY Format
<1>2. RawAt(file.header.table, UnitCount) /\ raw.i = raw.end
  BY DEF CopyInv, RawEnds
<1>3. /\ raw.len = UnitCount /\ Len(out) = UnitCount
      /\ \A k \in 1 .. UnitCount : file.header.table + k - 1 < file.size
                                   => out[k] = CellAt(file, file.header.table + k - 1)
  BY <1>1, <1>2, RawDone
<1>4. blockOffsets' = [k \in 1 .. UnitCount |-> IF k <= UnitCount THEN out[k].a ELSE 0]
  BY <1>3 DEF RawEnds
<1> SUFFICES ASSUME NEW k \in 0 .. UnitCount - 1 PROVE blockOffsets'[k + 1] = OffsetOf(file, k)
  OBVIOUS
<1>5. /\ k + 1 \in 1 .. UnitCount /\ k + 1 <= UnitCount
      /\ file.header.table + (k + 1) - 1 = file.header.table + k
      /\ file.header.table + k < file.size
  BY <1>1
<1>6. blockOffsets'[k + 1] = out[k + 1].a
  BY <1>4, <1>5
<1>7. out[k + 1] = CellAt(file, file.header.table + k)
  BY <1>3, <1>5
<1> QED BY <1>6, <1>7 DEF OffsetOf

LEMMA NextTable == Inv /\ MapInv /\ KindInv /\ TableInv /\ CopyInv /\ [Next]_vars => TableInv'
<1> DEFINE Known == phase \in Using \ {"mapped", "raw"} \/ OfUnit
           Right == \A k \in 0 .. UnitCount - 1 : blockOffsets[k + 1] = OffsetOf(file, k)
<1> SUFFICES ASSUME Inv, MapInv, KindInv, TableInv, CopyInv, [Next]_vars,
                    Sound', file'.compressed, Known'
             PROVE  Right'
  BY DEF TableInv
<1>1. ASSUME UNCHANGED <<file, blockOffsets>>, Known PROVE Right'
  <2>1. Sound /\ file.compressed
    BY <1>1 DEF Sound, Consecutive, Unit
  <2>2. Right
    BY <1>1, <2>1 DEF TableInv
  <2> QED BY <1>1, <2>2 DEF UnitCount, Unit, OffsetOf, CellAt
<1>2. CASE MappingStep \/ Open \/ Close
  BY <1>2, MappingSteps DEF Open, Close, OfUnit, Filling, Using
<1>3. CASE OpenPlain
  BY <1>3 DEF OpenPlain
<1>4. CASE OpenCompressed
  <2>1. phase' = "failed" \/ (phase' = "raw" /\ raw'.by = "table")
    BY <1>4 DEF OpenCompressed, Fail, Opening, StartRaw
  <2> QED BY <2>1 DEF OfUnit, Using
<1>5. CASE Read \/ Return \/ ReadPacked \/ PackedEnds \/ PackedWild \/ CopyWild \/ Inflate
  <2>1. UNCHANGED <<file, blockOffsets>> /\ phase \in {"ready", "returned", "packed", "inflate"}
    BY <1>5 DEF Read, Return, ReadPacked, PackedEnds, PackedWild, CopyWild, Inflate, opened
  <2> QED BY <1>1, <2>1 DEF Using
<1>6. CASE ReadRaw \/ ReadWild
  <2>1. UNCHANGED <<file, blockOffsets>> /\ phase = "raw" /\ (phase' = "wild" \/ phase' = "raw")
    BY <1>6 DEF ReadRaw, ReadWild, opened
  <2>2. raw'.by = raw.by
    BY <1>6 DEF ReadRaw, ReadWild, copying, KindInv
  <2> QED BY <1>1, <2>1, <2>2 DEF OfUnit, Using
<1>7. CASE RawEnds
  <2>1. phase = "raw" /\ file' = file /\ raw.by \in {"user", "packed", "table"}
    BY <1>7 DEF RawEnds, KindInv
  <2>2. raw.by # "user"
    BY <2>1 DEF KindInv
  <2>3. CASE raw.by = "packed"
    <3>1. blockOffsets' = blockOffsets
      BY <1>7, <2>3 DEF RawEnds
    <3> QED BY <1>1, <2>1, <2>3, <3>1 DEF OfUnit
  <2>4. CASE raw.by = "table"
    <3>1. Sound /\ file.compressed
      BY <2>1 DEF Sound, Consecutive, Unit
    <3>2. \A k \in 0 .. UnitCount - 1 : blockOffsets'[k + 1] = OffsetOf(file, k)
      BY <1>7, <2>1, <2>4, <3>1, TableIsRead
    <3> QED BY <2>1, <3>2 DEF UnitCount, Unit, OffsetOf, CellAt
  <2> QED BY <2>1, <2>2, <2>3, <2>4
<1>8. CASE DeviceFails
  <2>1. UNCHANGED <<file, blockOffsets>> /\ (phase' = "failed" \/ phase' = "returned")
    BY <1>8 DEF DeviceFails, Fail, opened
  <2>2. phase' = "returned" => phase = "raw" /\ raw.by # "table"
    BY <1>8 DEF DeviceFails, Needs, Fail, Opening
  <2>3. phase = "raw" => raw.by # "user" /\ raw.by \in {"user", "packed", "table"}
    BY <2>1 DEF KindInv
  <2> QED BY <1>1, <2>1, <2>2, <2>3 DEF OfUnit, Using
<1>9. CASE UNCHANGED vars
  BY <1>1, <1>9 DEF vars, opened, copying, OfUnit
<1> QED BY <1>2, <1>3, <1>4, <1>5, <1>6, <1>7, <1>8, <1>9 DEF Next, Step, MappingStep

\* The cells of a file are cells.
LEMMA CellType ==
    ASSUME NEW f \in Files, f.blocks # <<>>, NEW n \in Nat, n < f.size
    PROVE  CellAt(f, n) \in Cell
<1>1. /\ f.size \in Nat /\ f.blocks \in Seq(Nat) /\ f.device \in Seq(DeviceBlock)
      /\ BlockSize \in Nat \ {0} /\ Len(f.blocks) \in Nat
  <2>1. f.size \in Nat /\ f.blocks \in Seq(Nat) /\ f.device \in Seq(DeviceBlock)
    BY Dinode, FilesAssumption DEF File
  <2> QED BY <2>1, Sizes
<1> DEFINE q == n \div BlockSize
           c == n % BlockSize
<1>2. q \in Nat /\ c \in 0 .. BlockSize - 1 /\ q * BlockSize \in Nat /\ n = q * BlockSize + c
  BY <1>1, Place
<1>3. q < Up(f.size)
  <2>1. q * BlockSize < f.size
    <3> HIDE DEF q, c
    <3> QED BY <1>1, <1>2
  <2> QED BY <1>1, <1>2, <2>1, Rounds DEF Up
<1>4. Up(f.size) \in Nat
  BY <1>1, AllRounds DEF Up
<1>5. Len(f.blocks) >= Up(f.size) /\ \A k \in DOMAIN f.blocks : f.blocks[k] < Len(f.device)
  BY LayoutAssumption
<1> HIDE DEF q, c
<1>6. q + 1 \in 1 .. Len(f.blocks)
  BY <1>1, <1>2, <1>3, <1>4, <1>5
<1>7. f.blocks[q + 1] \in Nat /\ f.blocks[q + 1] < Len(f.device)
  BY <1>1, <1>5, <1>6
<1>8. f.blocks[q + 1] + 1 \in 1 .. Len(f.device)
  BY <1>1, <1>7
<1>9. f.device[f.blocks[q + 1] + 1] \in DeviceBlock
  BY <1>1, <1>8
<1>10. c + 1 \in 1 .. BlockSize
  BY <1>1, <1>2
<1>11. f.device[f.blocks[q + 1] + 1][c + 1] \in Cell
  BY <1>9, <1>10 DEF DeviceBlock
<1> QED BY <1>11 DEF CellAt, q, c

(***************************************************************************)
(* A block is read and copied                                              *)
(***************************************************************************)
\* A read of whole blocks that begins in the file, and ends there unless it is
\* of no more than a block.
InFile(off, len) == off + len <= file.size \/ (len <= BlockSize /\ off < file.size)

LEMMA RawFacts ==
    ASSUME Inv, MapInv, CompleteInv, KindInv, Sound, phase = "raw", raw.i < raw.end,
           NEW off \in Nat, NEW len \in Nat, RawAt(off, len), InFile(off, len),
           raw.start = 0 \/ Consecutive
    PROVE  /\ raw.i \in 0 .. Len(list) - 1 /\ raw.i * BlockSize < file.size
           /\ raw.i - off \div BlockSize \in Nat
           /\ raw.i - off \div BlockSize < Up(len)
           /\ raw.i * BlockSize = (off \div BlockSize) * BlockSize
                                  + (raw.i - off \div BlockSize) * BlockSize
           /\ Len(list) \in Nat /\ Len(list) * BlockSize >= file.size
           /\ Span \in 1 .. 2 /\ (Span = 2 => Consecutive /\ raw.i + 1 < Len(list))
           /\ CanRead(RawBlock, Span)
           /\ LbnToSize(fileSize, raw.i) = BlockSize
<1> DEFINE q == off \div BlockSize
           n == raw.i - q
           s == off % BlockSize
<1>1. BlockSize \in Nat \ {0} /\ file \in Files /\ file.size \in Nat /\ list \in Seq(Nat) /\ Len(list) \in Nat
  <2>1. file \in Files /\ list \in Seq(Nat)
    BY DEF Inv, TypeInv
  <2> QED BY <2>1, Sizes, FileSizes
<1>2. q \in Nat /\ q * BlockSize \in Nat /\ s \in 0 .. BlockSize - 1 /\ off = q * BlockSize + s
  BY <1>1, Place
<1>3. Up(len) \in Nat
  BY <1>1, AllRounds DEF Up
<1>4. raw.i \in q .. q + Up(len) /\ raw.i < q + Up(len) /\ raw.start = s
  BY DEF RawAt
<1> HIDE DEF q, s
<1>5. n \in Nat /\ raw.i = q + n /\ n < Up(len) /\ raw.i \in Nat
  BY <1>2, <1>3, <1>4
<1>6. n * BlockSize < len
  BY <1>1, <1>5, Rounds DEF Up
<1>7. raw.i * BlockSize = q * BlockSize + n * BlockSize /\ n * BlockSize \in Nat
  <2> HIDE DEF n
  <2>1. \A a, b, p \in Nat : (a + b) * p = a * p + b * p /\ b * p \in Nat
    BY SMT
  <2> QED BY <1>1, <1>2, <1>5, <2>1
<1>8. raw.i * BlockSize < file.size
  <2> HIDE DEF n
  <2>1. CASE off + len <= file.size
    BY <1>1, <1>2, <1>6, <1>7, <2>1
  <2>2. CASE len <= BlockSize /\ off < file.size
    <3>1. n = 0
      <4>1. SUFFICES ASSUME n >= 1 PROVE FALSE
        BY <1>5
      <4>2. n * BlockSize >= BlockSize
        <5>1. 1 * BlockSize <= n * BlockSize
          BY <1>1, <1>5, <4>1, Grows
        <5> QED BY <1>1, <5>1
      <4> QED BY <1>1, <1>6, <1>7, <2>2, <4>2
    <3>2. n * BlockSize = 0
      BY <1>1, <3>1
    <3> QED BY <1>1, <1>2, <1>7, <2>2, <3>2
  <2> QED BY <2>1, <2>2 DEF InFile
<1>9. Len(list) * BlockSize >= file.size
  BY DEF CompleteInv, Using, Sound
<1>10. raw.i < Len(list)
  <2>1. SUFFICES ASSUME Len(list) <= raw.i PROVE FALSE
    BY <1>1, <1>5
  <2>2. Len(list) * BlockSize <= raw.i * BlockSize
    BY <1>1, <1>5, <2>1, Grows
  <2>3. Len(list) * BlockSize \in Nat /\ raw.i * BlockSize \in Nat
    BY <1>1, <1>5, OneMore
  <2> QED BY <1>1, <1>8, <1>9, <2>2, <2>3
<1>11. raw.i \in 0 .. Len(list) - 1
  BY <1>1, <1>5, <1>10
<1>12. Span \in 1 .. 2 /\ (Span = 2 => Consecutive /\ raw.i + 1 < Len(list))
  <2>1. raw.start > 0 => raw.start # 0
    BY <1>2, <1>4
  <2> QED BY <2>1 DEF Span
<1>13. CanRead(RawBlock, Span)
  BY <1>11, <1>12, FileRead DEF Sound, RawBlock
<1>14. LbnToSize(fileSize, raw.i) = BlockSize
  <2>1. fileSize \in Nat /\ file.size <= fileSize
    <3>1. fileSize = IF file.compressed THEN file.full ELSE file.size
      BY DEF KindInv, Using
    <3> QED BY <1>1, <3>1, Format
  <2>2. raw.i * BlockSize \in Nat
    BY <1>1, <1>5, OneMore
  <2>3. raw.i * BlockSize < fileSize
    BY <1>1, <1>8, <2>1, <2>2
  <2>4. LbnToSize(fileSize, raw.i) = BlockSize \/ (LbnToSize(fileSize, raw.i) = 0 /\ fileSize = 0)
    BY <1>5, <2>1, <2>3, NextBlock
  <2> QED BY <2>1, <2>2, <2>3, <2>4
<1> QED BY <1>1, <1>5, <1>7, <1>8, <1>9, <1>11, <1>12, <1>13, <1>14 DEF q

\* Mixed from the buffers, the cells of the file go behind those copied before.
LEMMA RawRound ==
    ASSUME Inv, MapInv, CompleteInv, BufferInv, KindInv, Sound, ReadRaw,
           NEW off \in Nat, NEW len \in Nat, RawAt(off, len), InFile(off, len),
           raw.start = 0 \/ Consecutive
    PROVE  RawAt(off, len)'
<1> DEFINE q == off \div BlockSize
           n == raw.i - q
           s == off % BlockSize
           i == raw.i
           done == raw.done
           c == Chunk
           v == Blocks(RawBlock, Span)
<1>1. phase = "raw" /\ raw.i < raw.end
  BY DEF ReadRaw
<1>2. /\ i \in 0 .. Len(list) - 1 /\ n \in Nat /\ n < Up(len)
      /\ i * BlockSize = q * BlockSize + n * BlockSize
      /\ Len(list) \in Nat /\ Len(list) * BlockSize >= file.size
      /\ Span \in 1 .. 2 /\ (Span = 2 => Consecutive /\ i + 1 < Len(list))
      /\ LbnToSize(fileSize, i) = BlockSize
  BY <1>1, RawFacts
<1>3. BlockSize \in Nat \ {0} /\ file.size \in Nat /\ 2 * BlockSize = BlockSize + BlockSize
      /\ 1 * BlockSize = BlockSize /\ 2 * BlockSize \in Nat
  <2>1. BlockSize \in Nat \ {0} /\ file.size \in Nat
    BY Sizes, Format
  <2> QED BY <2>1
<1>4. q \in Nat /\ q * BlockSize \in Nat /\ s \in 0 .. BlockSize - 1 /\ off = q * BlockSize + s
  BY <1>3, Place
<1>5. raw.len = len /\ raw.start = s /\ done = Min2(n * BlockSize, len) /\ Cells(out, done)
      /\ raw.end = q + Up(len) /\ i \in q .. raw.end
  BY DEF RawAt
<1>6. /\ Min2(n * BlockSize, len) = n * BlockSize /\ n * BlockSize \in Nat
      /\ Min2(BlockSize, len - n * BlockSize) \in 1 .. BlockSize
      /\ n * BlockSize + Min2(BlockSize, len - n * BlockSize) = Min2((n + 1) * BlockSize, len)
  <2> HIDE DEF n
  <2>1. n * BlockSize \in Nat
    BY <1>2, <1>3, OneMore
  <2>2. n < (len + BlockSize - 1) \div BlockSize /\ n \in Nat
    BY <1>2 DEF Up
  <2>3. BlockSize \in Nat \ {0}
    BY <1>3
  <2>4. Min2(n * BlockSize, len) = n * BlockSize
    BY <2>2, <2>3, OneRound, ZenonT(30)
  <2>5. Min2(BlockSize, len - n * BlockSize) \in 1 .. BlockSize
    BY <2>2, <2>3, OneRound, ZenonT(30)
  <2>6. n * BlockSize + Min2(BlockSize, len - n * BlockSize) = Min2((n + 1) * BlockSize, len)
    BY <2>2, <2>3, OneRound, ZenonT(30)
  <2> QED BY <2>1, <2>4, <2>5, <2>6
<1>7. done = n * BlockSize
  BY <1>5, <1>6
<1>8. c = Min2(BlockSize, len - n * BlockSize)
  BY <1>2, <1>5, <1>7, Zenon DEF Chunk
<1>9. c \in 1 .. BlockSize /\ done + c = Min2((n + 1) * BlockSize, len) /\ done \in Nat
  BY <1>6, <1>7, <1>8
<1>10. /\ Cells(v, Span * BlockSize)
       /\ \A k \in 1 .. Span * BlockSize : v[k] = CellAt(file, i * BlockSize + k - 1)
  BY <1>2, FileRead DEF Sound, RawBlock
<1>11. raw'.i = i + 1 /\ raw'.done = done + c /\ raw'.start = s /\ raw'.end = raw.end /\ raw'.len = len
  <2>1. raw' = [raw EXCEPT !.i = @ + 1, !.done = @ + Chunk]
    BY DEF ReadRaw
  <2>2. raw = [by |-> raw.by, i |-> raw.i, start |-> raw.start,
               end |-> raw.end, len |-> raw.len, done |-> raw.done]
    BY DEF KindInv
  <2> QED BY <1>5, <2>1, <2>2
<1>12. file' = file
  BY DEF ReadRaw
<1>13. tmpBlock' = Overlay(tmpBlock, v)
       /\ out' = Both(out, SubSeq(tmpBlock', raw.start + 1, raw.start + c))
  BY DEF ReadRaw, Both
<1> DEFINE t == tmpBlock'
           o == Both(out, SubSeq(t, s + 1, s + c))
<1>14. out' = o
  BY <1>5, <1>13
<1> HIDE DEF q, n, s, c, i, done, v, t
<1>15. Span * BlockSize \in Nat /\ (Span = 1 \/ Span = 2)
  BY <1>2, <1>3
<1>16. Cells(t, 2 * BlockSize)
       /\ \A k \in 1 .. 2 * BlockSize : k <= Span * BlockSize => t[k] = v[k]
  <2>1. Cells(tmpBlock, 2 * BlockSize)
    BY DEF BufferInv
  <2> DEFINE d == 2 * BlockSize
             w == Span * BlockSize
  <2>2. d \in Nat /\ w \in Nat /\ Cells(tmpBlock, d) /\ Cells(v, w)
    BY <1>3, <1>10, <1>15, <2>1
  <2> HIDE DEF d, w
  <2>3. /\ Cells(Overlay(tmpBlock, v), d)
        /\ \A k \in 1 .. d : Overlay(tmpBlock, v)[k] = IF k <= w THEN v[k] ELSE tmpBlock[k]
    BY <2>2, Overlaid
  <2>4. t = Overlay(tmpBlock, v)
    BY <1>13 DEF t
  <2>5. Cells(t, d) /\ \A k \in 1 .. d : k <= w => t[k] = v[k]
    BY <2>3, <2>4
  <2> QED BY <2>5 DEF d, w
<1>17. s \in Nat /\ c \in Nat /\ s + c <= 2 * BlockSize
  BY <1>3, <1>4, <1>9
<1>18. Cells(o, done + c)
  BY <1>3, <1>5, <1>9, <1>16, <1>17, Appended
<1>19. \A k \in 1 .. done : o[k] = out[k]
  BY <1>3, <1>5, <1>9, <1>16, <1>17, Appended
<1>20. \A k \in 1 .. c : o[done + k] = t[s + k]
  BY <1>3, <1>5, <1>9, <1>16, <1>17, Appended
<1> HIDE DEF o
<1>21. ASSUME NEW k \in 1 .. c, off + (done + k) - 1 < file.size
       PROVE  o[done + k] = CellAt(file, off + (done + k) - 1)
  <2>1. off + (done + k) - 1 = i * BlockSize + (s + k) - 1
    <3> DEFINE x == q * BlockSize
               y == n * BlockSize
               z == i * BlockSize
    <3>1. off = x + s /\ z = x + y /\ done = y /\ x \in Nat /\ y \in Nat /\ s \in Nat
      BY <1>2, <1>4, <1>6, <1>7
    <3> HIDE DEF x, y, z
    <3>2. off + (done + k) - 1 = z + (s + k) - 1
      BY <1>9, <3>1
    <3> QED BY <3>2 DEF z
  <2>2. s + k <= Span * BlockSize
    <3>1. CASE Span = 2
      BY <1>3, <1>4, <1>9, <3>1
    <3>2. CASE Span = 1 /\ s = 0
      BY <1>3, <1>9, <3>2
    <3>3. CASE Span = 1 /\ s > 0
      <4>1. ~(i + 1 < Len(list))
        BY <1>5, <3>3 DEF Span, i
      <4>2. i \in Nat /\ i + 1 = Len(list)
        BY <1>2, <4>1
      <4>3. (i + 1) * BlockSize = i * BlockSize + BlockSize /\ i * BlockSize \in Nat
        BY <1>3, <4>2, OneMore
      <4>4. file.size <= i * BlockSize + BlockSize
        BY <1>2, <4>2, <4>3
      <4>5. i * BlockSize + (s + k) - 1 < file.size
        BY <1>21, <2>1
      <4> QED BY <1>3, <1>4, <1>9, <3>3, <4>3, <4>4, <4>5
    <3> QED BY <1>4, <1>15, <3>1, <3>2, <3>3
  <2>3. s + k \in 1 .. 2 * BlockSize /\ s + k \in 1 .. Span * BlockSize
    BY <1>3, <1>4, <1>9, <1>15, <2>2
  <2>4. o[done + k] = t[s + k] /\ t[s + k] = v[s + k]
    BY <1>16, <1>20, <2>2, <2>3
  <2>5. v[s + k] = CellAt(file, i * BlockSize + (s + k) - 1)
    BY <1>10, <2>3
  <2> QED BY <2>1, <2>4, <2>5
<1>22. ASSUME NEW k \in 1 .. done + c, off + k - 1 < file.size
       PROVE  o[k] = CellAt(file, off + k - 1)
  <2>1. CASE k \in 1 .. done
    <3>1. o[k] = out[k]
      BY <1>19, <2>1
    <3>2. out[k] = CellAt(file, off + k - 1)
      BY <1>22, <2>1 DEF RawAt, done
    <3> QED BY <3>1, <3>2
  <2>2. CASE k - done \in 1 .. c
    <3>1. done + (k - done) = k
      BY <1>9, <2>2
    <3> QED BY <1>21, <1>22, <2>2, <3>1
  <2> QED BY <1>9, <2>1, <2>2
<1>23. /\ raw'.len = len /\ raw'.start = s /\ raw'.end = q + Up(len)
       /\ raw'.i \in q .. raw'.end /\ raw'.done = Min2((raw'.i - q) * BlockSize, len)
  <2>1. raw'.i = i + 1 /\ i = q + n /\ q \in Nat /\ n \in Nat /\ n < Up(len) /\ raw'.end = q + Up(len)
    BY <1>2, <1>4, <1>5, <1>11 DEF n, i
  <2>2. Up(len) \in Nat
    BY <1>3, AllRounds DEF Up
  <2>3. raw'.i - q = n + 1 /\ raw'.i \in q .. raw'.end
    BY <2>1, <2>2
  <2> QED BY <1>9, <1>11, <2>1, <2>3
<1>24. Cells(out', raw'.done)
  BY <1>11, <1>14, <1>18
<1>25. \A k \in 1 .. raw'.done : off + k - 1 < file.size => out'[k] = CellAt(file, off + k - 1)
  BY <1>11, <1>14, <1>22
<1> QED BY <1>12, <1>23, <1>24, <1>25 DEF RawAt, q, s

(***************************************************************************)
(* Which blocks and units are read                                         *)
(***************************************************************************)
\* A read begins with nothing copied.
LEMMA StartsRaw ==
    ASSUME NEW by, NEW off \in Nat, NEW len \in Nat, StartRaw(by, off, len), file' = file
    PROVE  RawAt(off, len)' /\ raw'.by = by /\ phase' = "raw" /\ status' = "none"
<1> DEFINE q == off \div BlockSize
<1>1. q \in Nat /\ Up(len) \in Nat /\ BlockSize \in Nat
  BY Sizes, Quotient, AllRounds DEF Up
<1>2. /\ raw' = [by |-> by, i |-> q, start |-> off % BlockSize,
                 end |-> q + Up(len), len |-> len, done |-> 0]
      /\ out' = <<>> /\ phase' = "raw" /\ status' = "none"
  BY DEF StartRaw
<1>3. q \in q .. q + Up(len) /\ Min2((q - q) * BlockSize, len) = 0
  <2> HIDE DEF q
  <2>1. (q - q) * BlockSize = 0
    BY <1>1
  <2>2. Min2(0, len) = 0
    BY Least2
  <2> QED BY <1>1, <2>1, <2>2
<1>4. Cells(out', 0) /\ \A k \in 1 .. 0 : off + k - 1 < file.size => out'[k] = CellAt(file, off + k - 1)
  BY <1>2 DEF Cells
<1> HIDE DEF q
<1>5. /\ raw'.len = len /\ raw'.start = off % BlockSize /\ raw'.end = q + Up(len)
      /\ raw'.i = q /\ raw'.done = 0 /\ raw'.by = by
  BY <1>2
<1> QED BY <1>2, <1>3, <1>4, <1>5 DEF RawAt, q

LEMMA TableRaw ==
    ASSUME Inv, KindInv, CopyInv, Sound, phase = "raw", raw.by = "table"
    PROVE  /\ file.header.table \in Nat /\ UnitCount \in Nat
           /\ RawAt(file.header.table, UnitCount) /\ InFile(file.header.table, UnitCount)
           /\ Consecutive
<1>1. file.compressed
  BY Format DEF KindInv
<1> QED BY <1>1, Format DEF CopyInv, InFile

LEMMA UserRaw ==
    ASSUME Inv, KindInv, CopyInv, Sound, Aligned(request), phase = "raw", raw.by = "user"
    PROVE  /\ request.off \in Nat /\ request.len \in Nat
           /\ RawAt(request.off, request.len) /\ InFile(request.off, request.len)
           /\ raw.start = 0 \/ Consecutive
           /\ request.off + request.len <= file.size /\ PlainContents(file)
<1>1. ~file.compressed /\ request.off \in Nat /\ request.len \in Nat /\ fileSize = file.size
  BY DEF KindInv, Using
<1>2. ~Beyond(request) /\ RawAt(request.off, request.len)
  BY DEF CopyInv
<1>3. request.off + request.len <= file.size
  BY <1>1, <1>2, Format DEF Beyond
<1>4. raw.start = 0 \/ Consecutive
  BY <1>1, <1>2 DEF Aligned, RawAt
<1> QED BY <1>1, <1>2, <1>3, <1>4, Format DEF InFile

\* Unit k of a compressed file.
LEMMA UnitFormat ==
    ASSUME Inv, Sound, file.compressed, NEW k \in Nat, k + 1 < UnitCount
    PROVE  LET at == OffsetOf(file, k)
               n == OffsetOf(file, k + 1) - at
           IN  /\ at \in Nat /\ n \in 1 .. Unit /\ n \in Nat /\ at + n <= file.size /\ at < file.size
               /\ \A j \in 0 .. n - 1 :
                     CellAt(file, at + j) = IF n = Unit THEN DataCell(k * n + j)
                                            ELSE [is |-> "packed", a |-> k, b |-> n - 1 - j]
<1> DEFINE at == OffsetOf(file, k)
           n == OffsetOf(file, k + 1) - at
<1>1. /\ file \in Files /\ file.blocks # <<>> /\ file.size \in Nat /\ file.header.table \in Nat
      /\ UnitCount \in Nat /\ Unit \in Nat
      /\ PackedContents(file) /\ file.header.table + UnitCount <= file.size
  BY Format DEF Sound
<1>2. k \in 0 .. (file.header.rounded \div file.header.unit) - 1
  <2> DEFINE q == file.header.rounded \div file.header.unit
  <2>1. q \in Nat
    BY Format, Quotient DEF Unit
  <2>2. UnitCount = q + 1
    BY DEF UnitCount, Unit
  <2> HIDE DEF q
  <2>3. k \in 0 .. q - 1
    BY <2>1, <2>2
  <2> QED BY <2>3 DEF q
<1>3. UnitContents(file, k)
  BY <1>1, <1>2 DEF PackedContents
<1>4. /\ n \in 1 .. file.header.unit /\ at + n <= file.size
      /\ \A j \in 0 .. n - 1 :
            CellAt(file, at + j) = IF n = file.header.unit THEN DataCell(k * n + j)
                                   ELSE [is |-> "packed", a |-> k, b |-> n - 1 - j]
  BY <1>3 DEF UnitContents
<1>5. at \in Nat
  <2>1. file.header.table + k \in Nat /\ file.header.table + k < file.size
    BY <1>1
  <2>2. CellAt(file, file.header.table + k) \in Cell
    BY <1>1, <2>1, CellType
  <2> QED BY <2>2 DEF OffsetOf, Cell
<1> HIDE DEF at, n
<1>6. n \in 1 .. Unit /\ n \in Nat
  BY <1>1, <1>4 DEF Unit
<1>7. at < file.size
  BY <1>1, <1>4, <1>5, <1>6
<1> QED BY <1>4, <1>5, <1>6, <1>7 DEF at, n, Unit

\* No more units are read than there are.
LEMMA UnitIndex ==
    ASSUME Inv, KindInv, Sound, file.compressed, phase \in Using \ {"mapped"}, ~Beyond(request),
           PackedAt(request.off, request.len), packed.i < packed.end
    PROVE  LET q == request.off \div Unit
               n == packed.i - q
           IN  /\ request.off \in Nat /\ request.len \in Nat /\ q \in Nat /\ n \in Nat
               /\ packed.i = q + n /\ packed.i \in Nat /\ packed.i + 1 < UnitCount
               /\ n < (request.len + Unit - 1) \div Unit
               /\ packed.end \in Nat
<1> DEFINE off == request.off
           len == request.len
           q == off \div Unit
           n == packed.i - q
           m == (len + Unit - 1) \div Unit
<1>1. /\ Unit \in Nat \ {0} /\ UnitCount - 1 \in Nat /\ UnitCount \in Nat /\ file.full \in Nat
      /\ (UnitCount - 1) * Unit = file.header.rounded /\ file.header.rounded \in Nat
      /\ file.full <= file.header.rounded
  BY Format
<1>2. off \in Nat /\ len \in Nat /\ off + len <= file.full
  <2>1. off \in Nat /\ len \in Nat
    BY DEF KindInv
  <2>2. fileSize = file.full
    BY DEF KindInv
  <2> QED BY <1>1, <2>1, <2>2 DEF Beyond
<1> HIDE DEF off, len
<1>3. q \in Nat /\ q * Unit \in Nat /\ off = q * Unit + (off % Unit) /\ off % Unit \in 0 .. Unit - 1
  BY <1>1, <1>2, Place
<1>4. m \in Nat
  BY <1>1, <1>2, AllRounds
<1>5. packed.i \in q .. q + m /\ packed.end = q + m /\ packed.i < q + m
  BY DEF PackedAt, off, len
<1> HIDE DEF q, m
<1>6. n \in Nat /\ packed.i = q + n /\ n < m
  BY <1>3, <1>4, <1>5
<1> HIDE DEF n
<1>7. n * Unit < len
  BY <1>1, <1>2, <1>6, Rounds DEF m
<1>8. (q + n) * Unit = q * Unit + n * Unit /\ n * Unit \in Nat
  <2>1. \A a, b, p \in Nat : (a + b) * p = a * p + b * p /\ b * p \in Nat
    BY SMT
  <2> QED BY <1>1, <1>3, <1>6, <2>1
<1>9. (q + n) * Unit < (UnitCount - 1) * Unit
  <2> DEFINE x == q * Unit
             y == n * Unit
             z == (UnitCount - 1) * Unit
             r == off % Unit
  <2>1. x \in Nat /\ y \in Nat /\ y < len /\ off = x + r /\ r \in Nat /\ z = file.header.rounded
    BY <1>1, <1>3, <1>7, <1>8
  <2> HIDE DEF x, y, z, r
  <2>2. x + y < z
    BY <1>1, <1>2, <2>1
  <2> QED BY <1>8, <2>2 DEF x, y, z
<1>10. q + n < UnitCount - 1
  <2> DEFINE p == UnitCount - 1
  <2>1. p \in Nat /\ q + n \in Nat /\ (q + n) * Unit < p * Unit
    BY <1>1, <1>3, <1>6, <1>9
  <2> HIDE DEF p
  <2>2. SUFFICES ASSUME p <= q + n PROVE FALSE
    BY <2>1 DEF p
  <2>3. p * Unit <= (q + n) * Unit /\ p * Unit \in Nat /\ (q + n) * Unit \in Nat
    BY <1>1, <2>1, <2>2, Grows
  <2> QED BY <2>1, <2>3
<1>11. packed.i \in Nat /\ packed.i + 1 < UnitCount /\ packed.end \in Nat
  BY <1>1, <1>3, <1>4, <1>5, <1>6, <1>10
<1> QED BY <1>2, <1>3, <1>6, <1>11 DEF n, q, m, off, len

LEMMA UnitRaw ==
    ASSUME Inv, KindInv, CopyInv, Sound, Aligned(request), OfUnit
    PROVE  /\ packed.i \in Nat /\ packed.i + 1 < UnitCount /\ file.compressed
           /\ OffsetOf(file, packed.i) \in Nat /\ Unit \in Nat /\ Unit <= WorkSize
           /\ RawAt(OffsetOf(file, packed.i), Unit) /\ InFile(OffsetOf(file, packed.i), Unit)
           /\ Consecutive
<1>1. file.compressed
  BY Format DEF OfUnit, KindInv
<1>2. /\ ~Beyond(request) /\ PackedAt(request.off, request.len) /\ packed.i < packed.end
      /\ RawAt(OffsetOf(file, packed.i), Unit) /\ phase \in Using \ {"mapped"}
  BY DEF CopyInv, OfUnit, Using
<1>3. packed.i \in Nat /\ packed.i + 1 < UnitCount
  BY <1>1, <1>2, UnitIndex
<1>4. OffsetOf(file, packed.i) \in Nat /\ OffsetOf(file, packed.i) < file.size
  BY <1>1, <1>3, UnitFormat
<1> QED BY <1>1, <1>2, <1>3, <1>4, Format DEF InFile

(***************************************************************************)
(* The steps of a read                                                     *)
(***************************************************************************)
LEMMA Quiet ==
    ASSUME phase' \notin {"raw", "packed", "inflate", "wild", "returned"}, status' # "error"
    PROVE  ReadInv'
BY DEF ReadInv, CopyInv, OfUnit, ReadReturnsTheFile, FailsForACause

LEMMA Vacuous == ASSUME ~Sound' PROVE ReadInv'
BY DEF ReadInv, CopyInv, ReadReturnsTheFile, FailsForACause

LEMMA SameFile ==
    ASSUME file' = file
    PROVE  /\ Sound' <=> Sound
           /\ Consecutive' <=> Consecutive
           /\ Unit' = Unit /\ UnitCount' = UnitCount
           /\ request' = request => (Aligned(request)' <=> Aligned(request))
           /\ request' = request /\ fileSize' = fileSize => (Beyond(request)' <=> Beyond(request))
BY DEF Sound, Consecutive, Unit, UnitCount, Aligned, Beyond

\* An error of the device or of the dinode.
LEMMA Failed ==
    ASSUME phase' \in {"failed", "returned"}, status' = "error",
           Sound' /\ Aligned(request)' => \/ broken' \/ Beyond(request)'
                                          \/ /\ file'.inner /\ ~file'.compressed
                                             /\ file'.size # file'.full
    PROVE  ReadInv'
BY DEF ReadInv, CopyInv, OfUnit, ReadReturnsTheFile, FailsForACause

LEMMA OpenPlainReads == OpenPlain => ReadInv'
<1> SUFFICES ASSUME OpenPlain PROVE ReadInv'
  OBVIOUS
<1>1. CASE file.inner /\ file.size # file.full
  <2>1. phase' = "failed" /\ status' = "error" /\ file' = file /\ ~file.compressed
    BY <1>1 DEF OpenPlain, Fail, Opening
  <2> QED BY <1>1, <2>1, Failed
<1>2. CASE ~(file.inner /\ file.size # file.full)
  BY <1>2, Quiet DEF OpenPlain
<1> QED BY <1>1, <1>2

\* The header is one, and the table is asked for.
LEMMA OpenCompressedReads ==
    Inv /\ MapInv /\ CompleteInv /\ OpenCompressed => ReadInv'
<1> SUFFICES ASSUME Inv, MapInv, CompleteInv, OpenCompressed PROVE ReadInv'
  OBVIOUS
<1> SUFFICES ASSUME Sound PROVE ReadInv'
  <2>1. file' = file
    BY DEF OpenCompressed
  <2> QED BY <2>1, SameFile, Vacuous
<1>1. file.compressed /\ phase = "mapped" /\ file' = file /\ file.blocks # <<>>
  BY DEF OpenCompressed, Sound
<1>2. /\ CellAt(file, 0).is = "header" /\ file.header.table + UnitCount <= file.size
      /\ UnitCount \in Nat /\ file.header.table \in Nat /\ file.size \in Nat
  BY <1>1, Format
<1>3. list # <<>> /\ Len(list) * BlockSize >= file.size /\ list \in Seq(Nat)
  BY <1>1 DEF CompleteInv, Using, Inv, TypeInv
<1>4. BlockSize \in Nat \ {0} /\ 2 * BlockSize \in Nat /\ 1 * BlockSize = BlockSize
      /\ 1 \in 1 .. BlockSize /\ 1 \in 1 .. 2 * BlockSize /\ 0 * BlockSize + 1 - 1 = 0
  BY Sizes
<1>5. tmpBlock'[1].is = "header"
  <2> DEFINE v == Blocks(list[1], 1)
  <2>1. 0 \in 0 .. Len(list) - 1 /\ 1 \in 1 .. 2 /\ 1 # 2 /\ 0 + 1 = 1
    BY <1>3
  <2>2. /\ Cells(v, 1 * BlockSize)
        /\ \A k \in 1 .. 1 * BlockSize : v[k] = CellAt(file, 0 * BlockSize + k - 1)
    BY <1>1, <2>1, FileRead
  <2>3. Cells(v, BlockSize) /\ v[1] = CellAt(file, 0)
    BY <1>4, <2>2
  <2> HIDE DEF v
  <2>4. Overlay(Zeros(2 * BlockSize), v)[1] = v[1]
    <3>1. Cells(Zeros(2 * BlockSize), 2 * BlockSize)
      BY ZerosAreCells
    <3> DEFINE d == 2 * BlockSize
               t == Zeros(d)
    <3>2. Cells(t, d) /\ d \in Nat /\ 1 \in 1 .. d
      BY <1>4, <3>1
    <3> HIDE DEF d, t
    <3>3. \A k \in 1 .. d : Overlay(t, v)[k] = IF k <= BlockSize THEN v[k] ELSE t[k]
      BY <1>4, <2>3, <3>2, Overlaid
    <3>4. Overlay(t, v)[1] = IF 1 <= BlockSize THEN v[1] ELSE t[1]
      BY <3>2, <3>3, Zenon
    <3>5. 1 <= BlockSize
      BY <1>4
    <3>6. Overlay(t, v)[1] = v[1]
      BY <3>4, <3>5, Zenon
    <3> QED BY <3>6 DEF d, t
  <2>5. tmpBlock' = Overlay(Zeros(2 * BlockSize), v)
    BY DEF OpenCompressed, v
  <2> QED BY <1>2, <2>3, <2>4, <2>5
<1>6. ~TooMany(UnitCount)
  <2>1. Len(list) \in Nat /\ Up(UnitCount) \in Nat /\ Len(list) * BlockSize \in Nat
    <3>1. Len(list) \in Nat
      BY <1>3
    <3>2. Len(list) * BlockSize \in Nat
      BY <1>4, <3>1, OneMore
    <3>3. Up(UnitCount) \in Nat
      BY <1>2, <1>4, AllRounds DEF Up
    <3> QED BY <3>1, <3>2, <3>3
  <2>2. ~(Len(list) * BlockSize < UnitCount)
    BY <1>2, <1>3, <2>1
  <2>3. ~(Len(list) < Up(UnitCount))
    BY <1>2, <1>4, <2>1, <2>2, Rounds DEF Up
  <2> QED BY <2>1, <2>3 DEF TooMany
<1>7. StartRaw("table", file.header.table, UnitCount)
  BY <1>5, <1>6 DEF OpenCompressed
<1>8. /\ RawAt(file.header.table, UnitCount)' /\ raw'.by = "table"
      /\ phase' = "raw" /\ status' = "none"
  <2>1. \A off, len \in Nat : StartRaw("table", off, len) =>
           RawAt(off, len)' /\ raw'.by = "table" /\ phase' = "raw" /\ status' = "none"
    BY <1>1, StartsRaw
  <2>2. PICK off \in Nat, len \in Nat : off = file.header.table /\ len = UnitCount
    BY <1>2
  <2>3. RawAt(off, len)' /\ raw'.by = "table" /\ phase' = "raw" /\ status' = "none"
    BY <1>7, <2>1, <2>2
  <2>4. off = file'.header.table /\ len = UnitCount'
    BY <1>1, <2>2, SameFile
  <2> QED BY <2>3, <2>4 DEF RawAt
<1> QED BY <1>8 DEF ReadInv, CopyInv, OfUnit, ReadReturnsTheFile, FailsForACause

\* One more block.
LEMMA ReadRawReads ==
    Inv /\ MapInv /\ CompleteInv /\ BufferInv /\ KindInv /\ ReadInv /\ ReadRaw => ReadInv'
<1> SUFFICES ASSUME Inv, MapInv, CompleteInv, BufferInv, KindInv, ReadInv, ReadRaw PROVE ReadInv'
  OBVIOUS
<1> SUFFICES ASSUME Sound PROVE ReadInv'
  <2>1. file' = file
    BY DEF ReadRaw
  <2> QED BY <2>1, SameFile, Vacuous
<1>1. /\ phase = "raw" /\ phase' = "raw" /\ file' = file /\ request' = request /\ fileSize' = fileSize
      /\ status' = status /\ packed' = packed /\ data' = data
  BY DEF ReadRaw, opened, call
<1>2. raw'.by = raw.by /\ raw.by \in {"user", "packed", "table"} /\ status # "error"
  BY <1>1 DEF ReadRaw, KindInv
<1>3. CopyInv
  BY DEF ReadInv
<1>4. /\ Unit' = Unit /\ UnitCount' = UnitCount
      /\ Aligned(request)' <=> Aligned(request)
      /\ Beyond(request)' <=> Beyond(request)
  BY <1>1, SameFile
<1>5. ASSUME NEW off \in Nat, NEW len \in Nat, RawAt(off, len), InFile(off, len),
             raw.start = 0 \/ Consecutive
      PROVE  RawAt(off, len)'
  BY <1>5, RawRound
<1>6. CASE raw.by = "table"
  <2>1. PICK off \in Nat, len \in Nat : off = file.header.table /\ len = UnitCount
    BY <1>1, <1>3, <1>6, TableRaw
  <2>2. RawAt(off, len)'
    BY <1>1, <1>3, <1>5, <1>6, <2>1, TableRaw
  <2>3. RawAt(file.header.table, UnitCount)'
    BY <1>1, <1>4, <2>1, <2>2 DEF RawAt
  <2> QED BY <1>1, <1>2, <1>6, <2>3
          DEF ReadInv, CopyInv, OfUnit, ReadReturnsTheFile, FailsForACause
<1>7. CASE raw.by = "user"
  <2> SUFFICES ASSUME Aligned(request)
               PROVE  ~Beyond(request)' /\ RawAt(request.off, request.len)'
    BY <1>1, <1>2, <1>4, <1>7 DEF ReadInv, CopyInv, OfUnit, ReadReturnsTheFile, FailsForACause
  <2>1. PICK off \in Nat, len \in Nat : off = request.off /\ len = request.len
    BY <1>1, <1>3, <1>7, UserRaw
  <2>2. RawAt(off, len)'
    BY <1>1, <1>3, <1>5, <1>7, <2>1, UserRaw
  <2>3. ~Beyond(request)
    BY <1>1, <1>3, <1>7 DEF CopyInv
  <2> QED BY <1>1, <1>4, <2>1, <2>2, <2>3 DEF RawAt
<1>8. CASE raw.by = "packed"
  <2> SUFFICES ASSUME Aligned(request)
               PROVE  /\ ~Beyond(request)' /\ PackedAt(request.off, request.len)'
                      /\ packed'.i < packed'.end
                      /\ RawAt(OffsetOf(file, packed.i), Unit)'
    BY <1>1, <1>2, <1>4, <1>8 DEF ReadInv, CopyInv, OfUnit, ReadReturnsTheFile, FailsForACause
  <2>1. OfUnit
    BY <1>1, <1>8 DEF OfUnit
  <2>2. PICK off \in Nat, len \in Nat : off = OffsetOf(file, packed.i) /\ len = Unit
    BY <1>3, <2>1, UnitRaw
  <2>3. RawAt(off, len)'
    BY <1>3, <1>5, <2>1, <2>2, UnitRaw
  <2>4. off = OffsetOf(file, packed.i)' /\ len = Unit'
    BY <1>1, <1>4, <2>2 DEF OffsetOf, CellAt
  <2>5. RawAt(OffsetOf(file, packed.i), Unit)'
    BY <2>3, <2>4 DEF RawAt
  <2>6. ~Beyond(request) /\ PackedAt(request.off, request.len) /\ packed.i < packed.end
    BY <1>3, <2>1 DEF CopyInv
  <2>7. PackedAt(request.off, request.len)'
    BY <1>1, <1>4, <2>6 DEF PackedAt
  <2> QED BY <1>1, <1>4, <2>5, <2>6, <2>7
<1> QED BY <1>2, <1>6, <1>7, <1>8

\* No block is asked for that the list has not.
LEMMA NoReadWild ==
    ASSUME Inv, MapInv, CompleteInv, KindInv, CopyInv, phase = "raw", raw.i < raw.end,
           Sound, Aligned(request)
    PROVE  ~(raw.i >= Len(list)) /\ CanRead(RawBlock, Span)
<1>1. ASSUME NEW off \in Nat, NEW len \in Nat, RawAt(off, len), InFile(off, len),
             raw.start = 0 \/ Consecutive
      PROVE  ~(raw.i >= Len(list)) /\ CanRead(RawBlock, Span)
  <2>1. raw.i \in 0 .. Len(list) - 1 /\ Len(list) \in Nat /\ CanRead(RawBlock, Span)
    BY <1>1, RawFacts
  <2> QED BY <2>1
<1>2. CASE raw.by = "table"
  BY <1>1, <1>2, TableRaw
<1>3. CASE raw.by = "user"
  BY <1>1, <1>3, UserRaw
<1>4. CASE raw.by = "packed"
  BY <1>1, <1>4, UnitRaw DEF OfUnit
<1> QED BY <1>2, <1>3, <1>4 DEF KindInv

LEMMA ReadWildReads == Inv /\ MapInv /\ CompleteInv /\ KindInv /\ ReadInv /\ ReadWild => ReadInv'
<1> SUFFICES ASSUME Inv, MapInv, CompleteInv, KindInv, ReadInv, ReadWild PROVE ReadInv'
  OBVIOUS
<1>1. /\ phase = "raw" /\ raw.i < raw.end /\ raw.i >= Len(list) /\ phase' = "wild"
      /\ file' = file /\ request' = request /\ status' = status
  BY DEF ReadWild, call
<1>2. ~(Sound /\ Aligned(request))
  BY <1>1, NoReadWild DEF ReadInv
<1>3. ~(Sound' /\ Aligned(request)')
  BY <1>1, <1>2, SameFile
<1> QED BY <1>1, <1>3 DEF ReadInv, CopyInv, OfUnit, ReadReturnsTheFile, FailsForACause

LEMMA Unaligned ==
    ASSUME ~(Sound' /\ Aligned(request)'), phase' = "raw" => raw'.by # "table"
    PROVE  ReadInv'
BY DEF ReadInv, CopyInv, ReadReturnsTheFile, FailsForACause

\* A read begins at its first block, or its first unit.
LEMMA ReadReads == Inv /\ CompleteInv /\ KindInv /\ Read => ReadInv'
<1> SUFFICES ASSUME Inv, CompleteInv, KindInv, Read PROVE ReadInv'
  OBVIOUS
<1>1. /\ phase = "ready" /\ file' = file /\ fileSize' = fileSize /\ data' = <<>>
      /\ request' \in Requests /\ list' = list
  BY DEF Read, opened, mapping
<1> SUFFICES ASSUME Sound PROVE ReadInv'
  BY <1>1, SameFile, Vacuous
<1>2. PICK off \in Nat, len \in Nat : off = request'.off /\ len = request'.len
  BY <1>1, RequestType
<1>3. Beyond(request)' <=> off + len > fileSize
  BY <1>1, <1>2 DEF Beyond
<1>4. Beyond(request') <=> off + len > fileSize
  BY <1>2 DEF Beyond
<1>5. /\ BlockSize \in Nat \ {0} /\ Unit \in Nat \ {0} /\ UnitCount \in Nat /\ UnitCount - 1 \in Nat
      /\ file.size \in Nat /\ file.full \in Nat /\ file.header.rounded \in Nat
      /\ fileSize = IF file.compressed THEN file.full ELSE file.size
  BY <1>1, Format, Sizes DEF KindInv, Using
<1>6. CASE off + len > fileSize
  <2>1. phase' = "returned" /\ status' = "error"
    BY <1>4, <1>6 DEF Read
  <2> QED BY <1>3, <1>6, <2>1, Failed
<1>7. CASE ~(off + len > fileSize) /\ ~file.compressed
  <2>1. ~TooMany(len)
    <3>1. list # <<>> /\ Len(list) * BlockSize >= file.size /\ list \in Seq(Nat)
      <4>1. phase \in Using /\ file.blocks # <<>>
        BY <1>1 DEF Using, Sound
      <4> QED BY <4>1 DEF CompleteInv, Inv, TypeInv
    <3>2. Len(list) \in Nat /\ Up(len) \in Nat
      <4>1. Len(list) \in Nat
        BY <3>1
      <4>2. Up(len) \in Nat
        BY <1>5, AllRounds DEF Up
      <4> QED BY <4>1, <4>2
    <3>3. Len(list) * BlockSize \in Nat
      BY <1>5, <3>2, OneMore
    <3>4. ~(Len(list) * BlockSize < len)
      BY <1>5, <1>7, <3>1, <3>3
    <3>5. ~(Len(list) < Up(len))
      BY <1>5, <3>2, <3>4, Rounds DEF Up
    <3> QED BY <3>2, <3>5 DEF TooMany
  <2>2. StartRaw("user", off, len)
    BY <1>2, <1>4, <1>7, <2>1 DEF Read
  <2>3. RawAt(off, len)' /\ raw'.by = "user" /\ phase' = "raw" /\ status' = "none"
    BY <1>1, <2>2, StartsRaw
  <2>4. RawAt(request.off, request.len)'
    BY <1>2, <2>3 DEF RawAt
  <2> QED BY <1>3, <1>7, <2>3, <2>4
          DEF ReadInv, CopyInv, OfUnit, ReadReturnsTheFile, FailsForACause
<1>8. CASE ~(off + len > fileSize) /\ file.compressed
  <2> DEFINE q == off \div Unit
             n == (len + Unit - 1) \div Unit
  <2>1. q \in Nat /\ n \in Nat
    BY <1>5, Quotient, AllRounds
  <2>2. ~(n > UnitCount)
    <3> DEFINE x == (UnitCount - 1) * Unit
    <3>1. x = file.header.rounded /\ file.full <= file.header.rounded
      BY <1>8, Format
    <3>2. UnitCount * Unit = x + Unit
      <4> DEFINE p == UnitCount - 1
      <4>1. p \in Nat /\ UnitCount = p + 1
        BY <1>5
      <4> HIDE DEF p
      <4>2. UnitCount * Unit = p * Unit + Unit
        BY <1>5, <4>1, OneMore
      <4> QED BY <4>2 DEF p
    <3> HIDE DEF x
    <3>3. ~(UnitCount * Unit < len)
      BY <1>5, <1>8, <3>1, <3>2
    <3>4. ~(UnitCount < n)
      BY <1>5, <3>3, Rounds
    <3> HIDE DEF n
    <3> QED BY <1>5, <2>1, <3>4
  <2>3. /\ phase' = "packed" /\ status' = "none"
        /\ packed' = [i |-> q, end |-> q + n, start |-> off % Unit, done |-> 0]
    BY <1>2, <1>4, <1>8, <2>2 DEF Read
  <2>4. q \in q .. q + n /\ Min2((q - q) * Unit, len) = 0
    <3> HIDE DEF q, n
    <3>1. (q - q) * Unit = 0
      BY <1>5, <2>1
    <3>2. Min2(0, len) = 0
      BY Least2
    <3> QED BY <2>1, <3>1, <3>2
  <2>5. Cells(data', 0) /\ \A k \in 1 .. 0 : data'[k] = DataCell(off + k - 1)
    BY <1>1 DEF Cells
  <2> HIDE DEF q, n
  <2>6. packed'.i = q /\ packed'.end = q + n /\ packed'.start = off % Unit /\ packed'.done = 0
    BY <2>3
  <2>7. PackedAt(off, len)'
    <3>1. Unit' = Unit
      BY <1>1 DEF Unit
    <3> QED BY <2>4, <2>5, <2>6, <3>1 DEF PackedAt, q, n
  <2>8. PackedAt(request.off, request.len)'
    BY <1>2, <2>7 DEF PackedAt
  <2> QED BY <1>3, <1>8, <2>3, <2>8
          DEF ReadInv, CopyInv, OfUnit, ReadReturnsTheFile, FailsForACause
<1> QED BY <1>6, <1>7, <1>8, Format

\* A plain file has been read, a unit has been found, or the table has.
LEMMA RawEndsReads ==
    Inv /\ MapInv /\ BufferInv /\ KindInv /\ ReadInv /\ RawEnds => ReadInv'
<1> SUFFICES ASSUME Inv, MapInv, BufferInv, KindInv, ReadInv, RawEnds PROVE ReadInv'
  OBVIOUS
<1>1. /\ phase = "raw" /\ raw.i = raw.end /\ file' = file /\ request' = request
      /\ fileSize' = fileSize /\ packed' = packed
      /\ raw.by \in {"user", "packed", "table"} /\ status # "error"
  BY DEF RawEnds, KindInv
<1>2. CopyInv
  BY DEF ReadInv
<1>3. CASE raw.by = "table"
  <2>1. phase' = "ready" /\ status' = "ok"
    BY <1>3 DEF RawEnds
  <2> QED BY <2>1, Quiet
<1>4. CASE raw.by = "user"
  <2>1. phase' = "returned" /\ data' = out /\ status' = "ok"
    BY <1>4 DEF RawEnds
  <2> SUFFICES ASSUME Sound, Aligned(request)
               PROVE  data' = [k \in 1 .. request.len |-> DataCell(request.off + k - 1)]
    BY <1>1, <2>1, SameFile DEF ReadInv, CopyInv, OfUnit, ReadReturnsTheFile, FailsForACause
  <2>2. PICK off \in Nat, len \in Nat :
           /\ off = request.off /\ len = request.len /\ RawAt(off, len)
           /\ off + len <= file.size /\ PlainContents(file)
    BY <1>1, <1>2, <1>4, UserRaw
  <2>3. /\ Cells(out, len)
        /\ \A k \in 1 .. len : off + k - 1 < file.size => out[k] = CellAt(file, off + k - 1)
    BY <1>1, <2>2, RawDone
  <2>4. ASSUME NEW k \in 1 .. len PROVE out[k] = DataCell(off + k - 1)
    <3>1. off + k - 1 \in 0 .. file.size - 1 /\ off + k - 1 < file.size
      BY <2>2, Format
    <3> QED BY <2>2, <2>3, <3>1 DEF PlainContents
  <2>5. out = [k \in 1 .. len |-> DataCell(off + k - 1)]
    BY <2>3, <2>4, Zenon DEF Cells
  <2> QED BY <2>1, <2>2, <2>5
<1>5. CASE raw.by = "packed"
  <2>1. phase' = "inflate" /\ workData' = Overlay(workData, out) /\ status' = status /\ data' = data
    BY <1>5 DEF RawEnds
  <2> SUFFICES ASSUME Sound, Aligned(request)
               PROVE  ReadInv'
    BY <1>1, <2>1, SameFile, Unaligned
  <2>2. OfUnit
    BY <1>1, <1>5 DEF OfUnit
  <2>3. PICK at \in Nat, n \in Nat :
           /\ at = OffsetOf(file, packed.i) /\ n = OffsetOf(file, packed.i + 1) - at
           /\ n <= Unit /\ at + n <= file.size
    <3>1. packed.i \in Nat /\ packed.i + 1 < UnitCount /\ file.compressed /\ Unit \in Nat
      BY <1>2, <2>2, UnitRaw
    <3>2. /\ OffsetOf(file, packed.i) \in Nat
          /\ OffsetOf(file, packed.i + 1) - OffsetOf(file, packed.i) \in Nat
          /\ OffsetOf(file, packed.i + 1) - OffsetOf(file, packed.i) \in 1 .. Unit
          /\ OffsetOf(file, packed.i) + (OffsetOf(file, packed.i + 1) - OffsetOf(file, packed.i))
                <= file.size
      BY <3>1, UnitFormat
    <3> QED BY <3>1, <3>2
  <2>4. RawAt(at, Unit) /\ Unit \in Nat /\ Unit <= WorkSize
    BY <1>2, <2>2, <2>3, UnitRaw
  <2>5. /\ Cells(out, Unit)
        /\ \A k \in 1 .. Unit : at + k - 1 < file.size => out[k] = CellAt(file, at + k - 1)
    BY <1>1, <2>3, <2>4, RawDone
  <2>6. ASSUME NEW k \in 1 .. n PROVE workData'[k] = CellAt(file, at + k - 1)
    <3>1. WorkSize \in Nat /\ 2 * WorkSize \in Nat /\ WorkSize <= 2 * WorkSize
      BY SizesAssumption
    <3>2. k \in 1 .. Unit /\ k <= Unit /\ k \in 1 .. 2 * WorkSize /\ at + k - 1 < file.size
      BY <2>3, <2>4, <3>1, Format
    <3> DEFINE d == 2 * WorkSize
    <3>3. Cells(workData, d) /\ d \in Nat /\ k \in 1 .. d
      BY <3>1, <3>2 DEF BufferInv
    <3> HIDE DEF d
    <3>4. \A j \in 1 .. d : Overlay(workData, out)[j] = IF j <= Unit THEN out[j] ELSE workData[j]
      BY <2>4, <2>5, <3>3, Overlaid
    <3>5. Overlay(workData, out)[k] = out[k]
      BY <3>2, <3>3, <3>4, Zenon
    <3> QED BY <2>1, <2>5, <3>2, <3>5
  <2>7. \A k \in 1 .. (OffsetOf(file, packed.i + 1) - OffsetOf(file, packed.i))' :
           workData'[k] = CellAt(file', OffsetOf(file', packed'.i) + k - 1)
    BY <1>1, <2>3, <2>6 DEF OffsetOf, CellAt
  <2>8. ~Beyond(request) /\ PackedAt(request.off, request.len) /\ packed.i < packed.end
    BY <1>2, <2>2 DEF CopyInv
  <2>9. ~Beyond(request)' /\ PackedAt(request.off, request.len)'
    BY <1>1, <2>1, <2>8, SameFile DEF PackedAt
  <2> QED BY <1>1, <2>1, <2>7, <2>8, <2>9
          DEF ReadInv, CopyInv, OfUnit, ReadReturnsTheFile, FailsForACause
<1> QED BY <1>1, <1>3, <1>4, <1>5

\* The next unit is looked for where the table has it.
LEMMA ReadPackedReads ==
    Inv /\ CompleteInv /\ KindInv /\ TableInv /\ ReadInv /\ ReadPacked => ReadInv'
<1> SUFFICES ASSUME Inv, CompleteInv, KindInv, TableInv, ReadInv, ReadPacked PROVE ReadInv'
  OBVIOUS
<1>1. /\ phase = "packed" /\ packed.i < packed.end /\ file.compressed
      /\ file' = file /\ request' = request /\ fileSize' = fileSize /\ packed' = packed
      /\ data' = data
  BY DEF ReadPacked, opened, KindInv
<1>2. CASE ~(Sound /\ Aligned(request))
  <2>1. phase' = "raw" => raw'.by # "table"
    BY <1>1 DEF ReadPacked, Fail, Opening, StartRaw
  <2> QED BY <1>1, <1>2, <2>1, SameFile, Unaligned
<1>3. CASE Sound /\ Aligned(request)
  <2>1. ~Beyond(request) /\ PackedAt(request.off, request.len) /\ phase \in Using \ {"mapped"}
    BY <1>1, <1>3 DEF ReadInv, CopyInv, Using
  <2>2. packed.i \in Nat /\ packed.i + 1 < UnitCount
    BY <1>1, <1>3, <2>1, UnitIndex
  <2>3. /\ Unit \in Nat \ {0} /\ Unit <= BlockSize /\ UnitCount \in Nat /\ BlockSize \in Nat \ {0}
    BY <1>1, <1>3, Format, Sizes
  <2>4. ~TooMany(Unit)
    <3>1. Up(Unit) = 1
      BY <2>3, RoundedUp DEF Up
    <3>2. list # <<>> /\ list \in Seq(Nat)
      <4>1. file.blocks # <<>>
        BY <1>3 DEF Sound
      <4> QED BY <2>1, <4>1 DEF CompleteInv, Inv, TypeInv
    <3> QED BY <3>1, <3>2 DEF TooMany
  <2>5. PICK at \in Nat, n \in Nat : at = OffsetOf(file, packed.i) /\ n = Unit
    BY <1>1, <1>3, <2>2, <2>3, UnitFormat
  <2>6. blockOffsets[packed.i + 1] = at
    <3>1. packed.i \in 0 .. UnitCount - 1
      BY <2>2, <2>3
    <3>2. phase \in Using \ {"mapped", "raw"}
      BY <1>1 DEF Using
    <3> QED BY <1>1, <1>3, <2>5, <3>1, <3>2 DEF TableInv
  <2>7. StartRaw("packed", at, n)
    BY <2>4, <2>5, <2>6 DEF ReadPacked
  <2>8. RawAt(at, n)' /\ raw'.by = "packed" /\ phase' = "raw" /\ status' = "none"
    BY <1>1, <2>7, StartsRaw
  <2>9. at = OffsetOf(file, packed.i)' /\ n = Unit'
    BY <1>1, <2>5, SameFile DEF OffsetOf, CellAt
  <2>10. RawAt(OffsetOf(file, packed.i), Unit)'
    BY <2>8, <2>9 DEF RawAt
  <2>11. ~Beyond(request)' /\ PackedAt(request.off, request.len)'
    BY <1>1, <2>1, SameFile DEF PackedAt
  <2> QED BY <1>1, <2>8, <2>10, <2>11
          DEF ReadInv, CopyInv, OfUnit, ReadReturnsTheFile, FailsForACause
<1> QED BY <1>2, <1>3

\* All units have been copied.
LEMMA PackedEndsReads == Inv /\ KindInv /\ ReadInv /\ PackedEnds => ReadInv'
<1> SUFFICES ASSUME Inv, KindInv, ReadInv, PackedEnds PROVE ReadInv'
  OBVIOUS
<1>1. /\ phase = "packed" /\ packed.i = packed.end /\ file.compressed
      /\ phase' = "returned" /\ status' = "ok" /\ data' = data
      /\ file' = file /\ request' = request
  BY DEF PackedEnds, KindInv
<1> SUFFICES ASSUME Sound, Aligned(request)
             PROVE  data = [k \in 1 .. request.len |-> DataCell(request.off + k - 1)]
  BY <1>1, SameFile DEF ReadInv, CopyInv, OfUnit, ReadReturnsTheFile, FailsForACause
<1>2. PICK off \in Nat, len \in Nat : off = request.off /\ len = request.len
  BY DEF KindInv
<1>3. PackedAt(off, len)
  BY <1>1, <1>2 DEF ReadInv, CopyInv
<1>4. Unit \in Nat \ {0}
  BY Format
<1> DEFINE q == off \div Unit
           m == (len + Unit - 1) \div Unit
<1>5. q \in Nat /\ m \in Nat /\ Min2(m * Unit, len) = len
  BY <1>4, Quotient, AllRounds
<1>6. packed.i = q + m /\ packed.done = Min2((packed.i - q) * Unit, len)
  BY <1>1, <1>3 DEF PackedAt
<1>7. packed.done = len
  <2> HIDE DEF q, m
  <2>1. packed.i - q = m
    BY <1>5, <1>6
  <2> QED BY <1>5, <1>6, <2>1
<1>8. Cells(data, len) /\ \A k \in 1 .. len : data[k] = DataCell(off + k - 1)
  BY <1>3, <1>7 DEF PackedAt
<1>9. data = [k \in 1 .. len |-> DataCell(off + k - 1)]
  BY <1>8, Zenon DEF Cells
<1> QED BY <1>2, <1>9

\* What is copied of a unit is in the unit.
LEMMA CopyFits ==
    ASSUME Inv, KindInv, Sound, file.compressed, phase \in Using \ {"mapped"}, Aligned(request),
           ~Beyond(request), PackedAt(request.off, request.len), packed.i < packed.end
    PROVE  LET n == packed.i - request.off \div Unit
           IN  /\ packed.start \in Nat /\ Copied \in 1 .. Unit /\ packed.start + Copied <= Unit
               /\ packed.done = n * Unit /\ packed.done \in Nat
               /\ packed.done + Copied = Min2((n + 1) * Unit, request.len)
<1> DEFINE off == request.off
           len == request.len
           q == off \div Unit
           n == packed.i - q
           m == (len + Unit - 1) \div Unit
           s == off % Unit
<1>1. Unit \in Nat \ {0}
  BY Format
<1>2. off \in Nat /\ len \in Nat /\ q \in Nat /\ n \in Nat /\ packed.i = q + n /\ n < m
  BY UnitIndex
<1>3. s \in 0 .. Unit - 1 /\ m \in Nat
  <2> HIDE DEF off, len
  <2> QED BY <1>1, <1>2, Place, AllRounds
<1>4. packed.start = s /\ packed.end = q + m /\ packed.done = Min2(n * Unit, len)
  BY DEF PackedAt
<1>5. s = 0 \/ s + len <= Unit
  BY DEF Aligned
<1> HIDE DEF off, len, q, s, n
<1> DEFINE d == n * Unit
           e == (n + 1) * Unit
<1>6. /\ Min2(d, len) = d /\ Min2(Unit, len - d) \in 1 .. Unit
      /\ d + Min2(Unit, len - d) = Min2(e, len)
  <2>1. len \in Nat /\ n \in Nat /\ n < (len + Unit - 1) \div Unit
    BY <1>2
  <2>2. Min2(d, len) = d
    BY <1>1, <2>1, OneRound, ZenonT(30)
  <2>3. Min2(Unit, len - d) \in 1 .. Unit
    BY <1>1, <2>1, OneRound, ZenonT(30)
  <2>4. d + Min2(Unit, len - d) = Min2(e, len)
    BY <1>1, <2>1, OneRound, ZenonT(30)
  <2> QED BY <2>2, <2>3, <2>4
<1>7. n * Unit \in Nat /\ n * Unit < len /\ (n + 1) * Unit = n * Unit + Unit
  BY <1>1, <1>2, OneMore, Rounds
<1>8. packed.done = n * Unit
  BY <1>4, <1>6
<1>9. n + 1 < m <=> (n + 1) * Unit < len
  <2>1. n + 1 \in Nat
    BY <1>2
  <2> QED BY <1>1, <1>2, <2>1, Rounds
<1> HIDE DEF m
<1>10. d \in Nat /\ d < len /\ e = d + Unit /\ (n + 1 < m <=> e < len) /\ packed.done = d
       /\ Min2(Unit, len - d) \in 1 .. Unit
  BY <1>6, <1>7, <1>8, <1>9
<1>11. Copied = Min2(Unit, len - d) /\ s + Min2(Unit, len - d) <= Unit
  <2>1. Copied = IF n + 1 < m THEN Unit - s ELSE len - d
    <3>1. packed.i + 1 < packed.end <=> n + 1 < m
      BY <1>2, <1>3, <1>4
    <3>2. Copied = IF n + 1 < m THEN Unit - packed.start ELSE len - packed.done
      BY <3>1 DEF Copied, len
    <3> QED BY <1>4, <1>10, <3>2
  <2>2. n # 0 => d >= Unit
    <3>1. n # 0 => 1 <= n
      BY <1>2
    <3>2. n # 0 => 1 * Unit <= n * Unit
      BY <1>1, <1>2, <3>1, Grows
    <3> QED BY <1>1, <3>2
  <2>3. n = 0 => d = 0
    BY <1>1
  <2> HIDE DEF d, e
  <2>4. CASE s = 0
    BY <1>1, <1>2, <1>10, <2>1, <2>4 DEF Min2
  <2>5. CASE s # 0
    <3>1. len < Unit /\ d = 0 /\ ~(n + 1 < m)
      BY <1>1, <1>2, <1>3, <1>5, <1>10, <2>2, <2>3, <2>5
    <3> QED BY <1>1, <1>2, <1>3, <1>5, <1>10, <2>1, <3>1 DEF Min2
  <2> QED BY <2>4, <2>5
<1>12. /\ packed.start \in Nat /\ Copied \in 1 .. Unit /\ packed.start + Copied <= Unit
  BY <1>3, <1>4, <1>10, <1>11
<1>13. packed.done + Copied = Min2((n + 1) * Unit, len)
  BY <1>6, <1>8, <1>11
<1> QED BY <1>7, <1>8, <1>12, <1>13 DEF n, q, off, len

\* No unit is looked for that the table has not, and none is copied past workData.
LEMMA WildReads == Inv /\ KindInv /\ ReadInv /\ (PackedWild \/ CopyWild) => ReadInv'
<1> SUFFICES ASSUME Inv, KindInv, ReadInv, PackedWild \/ CopyWild PROVE ReadInv'
  OBVIOUS
<1>1. /\ phase \in {"packed", "inflate"} /\ phase' = "wild"
      /\ file' = file /\ request' = request /\ file.compressed
  BY DEF PackedWild, CopyWild, call, KindInv
<1> SUFFICES ASSUME Sound, Aligned(request) PROVE FALSE
  BY <1>1, SameFile, Unaligned
<1>2. ~Beyond(request) /\ PackedAt(request.off, request.len) /\ phase \in Using \ {"mapped"}
  BY <1>1 DEF ReadInv, CopyInv, Using
<1>3. packed.i < packed.end
  BY <1>1 DEF PackedWild, CopyWild, ReadInv, CopyInv
<1>4. packed.i \in Nat /\ packed.i + 1 < UnitCount /\ UnitCount \in Nat
  BY <1>1, <1>2, <1>3, UnitIndex, Format
<1>5. CASE PackedWild
  BY <1>4, <1>5 DEF PackedWild
<1>6. CASE CopyWild
  <2>1. packed.start + Copied <= Unit /\ packed.start + Copied \in Nat
    <3>1. packed.start \in Nat /\ Copied \in 1 .. Unit /\ packed.start + Copied <= Unit
      BY <1>1, <1>2, <1>3, CopyFits
    <3> QED BY <3>1, Format
  <2>2. Unit \in Nat /\ Unit <= WorkSize /\ WorkSize \in Nat
    BY Format, SizesAssumption
  <2>3. ~(packed.start + Copied > 1 * WorkSize) /\ ~(packed.start + Copied > 2 * WorkSize)
    BY <2>1, <2>2
  <2> QED BY <1>6, <2>3 DEF CopyWild, Overrun
<1> QED BY <1>5, <1>6

\* What the device has not is not asked for.
LEMMA DeviceFailsReads ==
    Inv /\ MapInv /\ CompleteInv /\ KindInv /\ ReadInv /\ DeviceFails => ReadInv'
<1> SUFFICES ASSUME Inv, MapInv, CompleteInv, KindInv, ReadInv, DeviceFails PROVE ReadInv'
  OBVIOUS
<1>1. /\ phase' \in {"failed", "returned"} /\ status' = "error"
      /\ file' = file /\ request' = request
  BY DEF DeviceFails, Fail
<1>2. PICK b, n : Needs(b, n) /\ broken' = CanRead(b, n)
  BY DEF DeviceFails
<1> SUFFICES ASSUME Sound, Aligned(request) PROVE CanRead(b, n)
  BY <1>1, <1>2, SameFile, Failed
<1>3. CASE phase # "raw"
  <2>1. file.blocks # <<>>
    BY DEF Sound
  <2> QED BY <1>2, <1>3, <2>1, ReadsWhileOpening
<1>4. CASE phase = "raw"
  <2>1. raw.i < raw.end /\ b = RawBlock /\ n = Span
    BY <1>2, <1>4 DEF Needs
  <2> QED BY <1>4, <2>1, NoReadWild DEF ReadInv
<1> QED BY <1>3, <1>4

\* The rest of a unit, from whichever half of workData it is in, goes behind the
\* units copied before.
LEMMA CopyReads ==
    ASSUME Inv, KindInv, Sound, file.compressed, phase \in Using \ {"mapped"}, Aligned(request),
           ~Beyond(request), PackedAt(request.off, request.len), packed.i < packed.end,
           NEW h \in 0 .. 1, CopyFrom(h), Cells(workData', 2 * WorkSize),
           \A k \in 1 .. Unit : workData'[h * WorkSize + k] = DataCell(packed.i * Unit + k - 1),
           file' = file, request' = request
    PROVE  PackedAt(request.off, request.len)'
<1> DEFINE off == request.off
           len == request.len
           q == off \div Unit
           n == packed.i - q
           m == (len + Unit - 1) \div Unit
           i == packed.i
           s == packed.start
           done == packed.done
           c == Copied
           d == 2 * WorkSize
           at == h * WorkSize + s
           t == workData'
           o == Both(data, SubSeq(t, at + 1, at + c))
<1>1. Unit \in Nat \ {0} /\ Unit <= WorkSize /\ WorkSize \in Nat
  BY Format, SizesAssumption
<1>2. off \in Nat /\ len \in Nat /\ q \in Nat /\ n \in Nat /\ i = q + n /\ n < m
  BY UnitIndex
<1>3. m \in Nat /\ off = q * Unit + (off % Unit) /\ q * Unit \in Nat
  <2> HIDE DEF off, len
  <2> QED BY <1>1, <1>2, Place, AllRounds
<1>4. /\ s = off % Unit /\ packed.end = q + m /\ Cells(data, done)
      /\ \A k \in 1 .. done : data[k] = DataCell(off + k - 1)
  BY DEF PackedAt
<1>5. /\ s \in Nat /\ c \in 1 .. Unit /\ s + c <= Unit
      /\ done = n * Unit /\ done \in Nat
      /\ done + c = Min2((n + 1) * Unit, len)
  BY CopyFits
<1>6. /\ packed'.i = i + 1 /\ packed'.done = done + c /\ packed'.start = s /\ packed'.end = q + m
  <2>1. packed' = [packed EXCEPT !.i = @ + 1, !.done = @ + Copied]
    BY DEF CopyFrom
  <2>2. packed = [i |-> packed.i, end |-> packed.end, start |-> packed.start, done |-> packed.done]
    BY DEF KindInv
  <2> QED BY <1>4, <2>1, <2>2
<1>7. data' = o
  BY DEF CopyFrom, Both
<1>8. at \in Nat /\ d \in Nat /\ at + c <= d
  <2>1. 0 * WorkSize = 0 /\ 1 * WorkSize = WorkSize /\ d = WorkSize + WorkSize
    BY <1>1
  <2>2. h = 0 \/ h = 1
    OBVIOUS
  <2> HIDE DEF c, s, d
  <2> QED BY <1>1, <1>5, <2>1, <2>2
<1>9. Cells(t, d) /\ \A k \in 1 .. Unit : t[h * WorkSize + k] = DataCell(i * Unit + k - 1)
  OBVIOUS
<1> HIDE DEF off, len, q, n, m, i, s, done, c, d, t
<1>10. ASSUME NEW k \in 1 .. c
       PROVE  t[at + k] = DataCell(off + (done + k) - 1)
  <2>1. s + k \in 1 .. Unit /\ h * WorkSize + (s + k) = at + k
    BY <1>1, <1>5
  <2>2. t[at + k] = DataCell(i * Unit + (s + k) - 1)
    BY <1>9, <2>1
  <2>3. i * Unit = q * Unit + n * Unit
    <3>1. \A a, b, p \in Nat : (a + b) * p = a * p + b * p
      BY SMT
    <3> QED BY <1>1, <1>2, <3>1
  <2> DEFINE x == q * Unit
             z == i * Unit
  <2>4. off = x + s /\ z = x + done /\ x \in Nat
    BY <1>3, <1>4, <1>5, <2>3
  <2> HIDE DEF x, z
  <2>5. z + (s + k) - 1 = off + (done + k) - 1
    BY <1>5, <2>4
  <2> QED BY <2>2, <2>5 DEF z
<1> HIDE DEF at
<1>11. c \in Nat /\ at + c <= d
  BY <1>1, <1>5, <1>8
<1>12. Cells(o, done + c)
  BY <1>4, <1>5, <1>8, <1>9, <1>11, Appended
<1>13. \A k \in 1 .. done : o[k] = data[k]
  BY <1>4, <1>5, <1>8, <1>9, <1>11, Appended, SMTT(30)
<1>14. \A k \in 1 .. c : o[done + k] = t[at + k]
  BY <1>4, <1>5, <1>8, <1>9, <1>11, Appended, SMTT(30)
<1> HIDE DEF o
<1>15. ASSUME NEW k \in 1 .. done + c PROVE o[k] = DataCell(off + k - 1)
  <2>1. CASE k \in 1 .. done
    BY <1>4, <1>13, <2>1
  <2>2. CASE k - done \in 1 .. c
    <3>1. done + (k - done) = k
      BY <1>5, <2>2
    <3> QED BY <1>10, <1>14, <2>2, <3>1
  <2> QED BY <1>5, <1>11, <2>1, <2>2
<1>16. /\ packed'.i \in q .. packed'.end /\ packed'.done = Min2((packed'.i - q) * Unit, len)
  <2>1. packed'.i - q = n + 1 /\ packed'.i \in q .. packed'.end
    BY <1>2, <1>3, <1>6
  <2> QED BY <1>5, <1>6, <2>1
<1>17. Cells(data', packed'.done) /\ \A k \in 1 .. packed'.done : data'[k] = DataCell(off + k - 1)
  BY <1>6, <1>7, <1>12, <1>15
<1>18. off = request'.off /\ len = request'.len /\ Unit' = Unit
  BY DEF off, len, Unit
<1> QED BY <1>4, <1>6, <1>16, <1>17, <1>18 DEF PackedAt, q, m

\* The compressed form of a unit that is not stored is a whole stream.
LEMMA InflateReads ==
    Inv /\ BufferInv /\ KindInv /\ TableInv /\ ReadInv /\ Inflate => ReadInv'
<1> SUFFICES ASSUME Inv, BufferInv, KindInv, TableInv, ReadInv, Inflate PROVE ReadInv'
  OBVIOUS
<1>1. /\ phase = "inflate" /\ file.compressed /\ status # "error"
      /\ file' = file /\ request' = request /\ fileSize' = fileSize
      /\ phase' # "raw"
  BY DEF Inflate, CopyFrom, Fail, Opening, opened, KindInv
<1> SUFFICES ASSUME Sound, Aligned(request) PROVE ReadInv'
  BY <1>1, SameFile, Unaligned
<1>2. /\ ~Beyond(request) /\ PackedAt(request.off, request.len) /\ packed.i < packed.end
      /\ phase \in Using \ {"mapped"}
      /\ \A k \in 1 .. OffsetOf(file, packed.i + 1) - OffsetOf(file, packed.i) :
            workData[k] = CellAt(file, OffsetOf(file, packed.i) + k - 1)
  BY <1>1 DEF ReadInv, CopyInv, Using
<1>3. packed.i \in Nat /\ packed.i + 1 < UnitCount
  BY <1>1, <1>2, UnitIndex
<1>4. /\ Unit \in Nat \ {0} /\ Unit <= WorkSize /\ WorkSize \in Nat /\ UnitCount \in Nat
      /\ 2 * WorkSize \in Nat /\ 2 * WorkSize = WorkSize + WorkSize
  BY Format, SizesAssumption
<1> DEFINE i == packed.i
           at == OffsetOf(file, i)
           n == OffsetOf(file, i + 1) - at
<1>5. /\ at \in Nat /\ n \in 1 .. Unit
      /\ \A j \in 0 .. n - 1 :
            CellAt(file, at + j) = IF n = Unit THEN DataCell(i * n + j)
                                   ELSE [is |-> "packed", a |-> i, b |-> n - 1 - j]
  BY <1>1, <1>3, UnitFormat
<1>6. PackedSize = n
  <2>1. i \in 0 .. UnitCount - 1 /\ i + 1 \in 0 .. UnitCount - 1 /\ i + 1 + 1 = i + 2
    BY <1>3, <1>4
  <2>2. phase \in Using \ {"mapped", "raw"}
    BY <1>1 DEF Using
  <2>3. blockOffsets[i + 1] = OffsetOf(file, i) /\ blockOffsets[i + 1 + 1] = OffsetOf(file, i + 1)
    BY <1>1, <2>1, <2>2 DEF TableInv
  <2> QED BY <2>1, <2>3 DEF PackedSize
<1> HIDE DEF n
<1>7. \A k \in 1 .. n : workData[k] = CellAt(file, at + k - 1)
  BY <1>2 DEF n
<1> HIDE DEF i, at
<1>8. ASSUME NEW k \in 1 .. n
      PROVE  workData[k] = IF n = Unit THEN DataCell(i * n + (k - 1))
                           ELSE [is |-> "packed", a |-> i, b |-> n - 1 - (k - 1)]
  <2>1. k - 1 \in 0 .. n - 1 /\ at + (k - 1) = at + k - 1
    BY <1>4, <1>5
  <2> QED BY <1>5, <1>7, <2>1
<1>9. Stored <=> n = Unit
  BY <1>4, <1>5, <1>6 DEF Stored
<1>10. ASSUME NEW h \in 0 .. 1, CopyFrom(h), status' = status,
              \A k \in 1 .. Unit : workData'[h * WorkSize + k] = DataCell(i * Unit + k - 1),
              Cells(workData', 2 * WorkSize)
       PROVE  ReadInv'
  <2>1. phase' = "packed"
    BY <1>10 DEF CopyFrom
  <2>2. PackedAt(request.off, request.len)'
    BY <1>1, <1>2, <1>10, CopyReads DEF i
  <2>3. ~Beyond(request)'
    BY <1>1, <1>2, SameFile
  <2> QED BY <1>1, <1>10, <2>1, <2>2, <2>3
          DEF ReadInv, CopyInv, OfUnit, ReadReturnsTheFile, FailsForACause
<1>11. CASE Stored
  <2>1. workData' = workData /\ status' = status /\ CopyFrom(0)
    BY <1>11 DEF Inflate
  <2>2. ASSUME NEW k \in 1 .. Unit
        PROVE  workData'[0 * WorkSize + k] = DataCell(i * Unit + k - 1)
    <3>1. 0 * WorkSize + k = k
      BY <1>4
    <3>2. workData[k] = DataCell(i * Unit + (k - 1))
      BY <1>8, <1>9, <1>11
    <3>3. i * Unit + (k - 1) = i * Unit + k - 1
      <4> DEFINE x == i * Unit
      <4>1. x \in Nat
        BY <1>3, <1>4, OneMore DEF i
      <4> HIDE DEF x
      <4>2. x + (k - 1) = x + k - 1
        BY <4>1
      <4> QED BY <4>2 DEF x
    <3> QED BY <2>1, <3>1, <3>2, <3>3
  <2>3. Cells(workData', 2 * WorkSize)
    BY <2>1 DEF BufferInv
  <2>4. 0 \in 0 .. 1
    OBVIOUS
  <2> QED BY <1>10, <2>1, <2>2, <2>3, <2>4
<1>12. CASE ~Stored
  <2>1. n # Unit /\ n \in Nat /\ 1 \in 1 .. n /\ n <= 2 * WorkSize /\ 0 + n = n /\ 0 + 1 = 1
    BY <1>4, <1>5, <1>9, <1>12
  <2>2. ASSUME NEW k \in 1 .. n PROVE workData[k] = [is |-> "packed", a |-> i, b |-> n - k]
    <3>1. n - 1 - (k - 1) = n - k
      BY <2>1
    <3> QED BY <1>8, <2>1, <3>1
  <2>3. workData[1].a = i
    <3>1. workData[1] = [is |-> "packed", a |-> i, b |-> n - 1]
      BY <2>1, <2>2, Zenon
    <3> QED BY <3>1
  <2>4. Inflates
    <3> DEFINE s == SubSeq(workData, 1, n)
               d == 2 * WorkSize
    <3>1. Cells(workData, d) /\ d \in Nat /\ 0 \in Nat /\ 0 + n <= d
      BY <1>4, <2>1 DEF BufferInv
    <3> HIDE DEF d
    <3>2. /\ Cells(SubSeq(workData, 0 + 1, 0 + n), n)
          /\ \A k \in 1 .. n : SubSeq(workData, 0 + 1, 0 + n)[k] = workData[0 + k]
      BY <2>1, <3>1, Sliced
    <3>3. Cells(s, n)
      BY <2>1, <3>2
    <3>4. ASSUME NEW k \in 1 .. n PROVE s[k] = workData[k]
      <4>1. 0 + k = k
        BY <2>1
      <4> QED BY <2>1, <3>2, <4>1
    <3> HIDE DEF s
    <3>5. Len(s) = n /\ DOMAIN s = 1 .. n
      BY <2>1, <3>3, CellsAreSeq
    <3>6. s # <<>>
      BY <2>1, <3>5
    <3>7. s[1].a = i
      BY <2>1, <2>3, <3>4
    <3>8. \A k \in DOMAIN s : s[k] = [is |-> "packed", a |-> s[1].a, b |-> Len(s) - k]
      BY <2>2, <3>4, <3>5, <3>7
    <3> QED BY <1>6, <3>6, <3>8 DEF Inflates, s
  <2>5. /\ CopyFrom(1) /\ status' = status
        /\ workData' = Both(SubSeq(workData, 1, WorkSize),
                            Overlay(SubSeq(workData, WorkSize + 1, 2 * WorkSize), Inflated))
    BY <1>12, <2>4 DEF Inflate, Both
  <2> DEFINE y == SubSeq(workData, WorkSize + 1, 2 * WorkSize)
  <2>6. /\ Cells(workData', 2 * WorkSize)
        /\ \A k \in 1 .. WorkSize : workData'[WorkSize + k] = Overlay(y, Inflated)[k]
    BY <2>5, InflatedCells DEF BufferInv
  <2>7. Cells(y, WorkSize)
    <3>1. Cells(workData, 2 * WorkSize) /\ WorkSize + WorkSize <= 2 * WorkSize
      BY <1>4 DEF BufferInv
    <3>2. Cells(SubSeq(workData, WorkSize + 1, WorkSize + WorkSize), WorkSize)
      BY <1>4, <3>1, Sliced
    <3> QED BY <1>4, <3>2, Zenon
  <2>8. Inflated = [k \in 1 .. Unit |-> DataCell(i * Unit + k - 1)]
    BY <2>3 DEF Inflated
  <2>9. Cells(Inflated, Unit) /\ \A k \in 1 .. Unit : Inflated[k] = DataCell(i * Unit + k - 1)
    BY <2>8, Zenon DEF Cells
  <2> HIDE DEF y
  <2>10. \A k \in 1 .. WorkSize : Overlay(y, Inflated)[k] = IF k <= Unit THEN Inflated[k] ELSE y[k]
    BY <1>4, <2>7, <2>9, Overlaid
  <2>11. ASSUME NEW k \in 1 .. Unit
         PROVE  workData'[1 * WorkSize + k] = DataCell(i * Unit + k - 1)
    <3>1. 1 * WorkSize + k = WorkSize + k /\ k \in 1 .. WorkSize /\ k <= Unit
      BY <1>4
    <3>2. Overlay(y, Inflated)[k] = Inflated[k]
      BY <2>10, <3>1, Zenon
    <3> QED BY <2>6, <2>9, <3>1, <3>2
  <2>12. 1 \in 0 .. 1
    OBVIOUS
  <2> QED BY <1>10, <2>5, <2>6, <2>11, <2>12
<1> QED BY <1>11, <1>12

(***************************************************************************)
(* What a caller gets                                                      *)
(***************************************************************************)
LEMMA NextRead ==
    Inv /\ MapInv /\ ContentInv /\ [Next]_vars => ReadInv'
<1> SUFFICES ASSUME Inv, MapInv, ContentInv, [Next]_vars PROVE ReadInv'
  OBVIOUS
<1>1. CompleteInv /\ BufferInv /\ KindInv /\ TableInv /\ ReadInv
  BY DEF ContentInv
<1>2. CASE MappingStep
  <2>1. phase \in Filling /\ phase' \in Filling \cup {"mapped"} /\ status' = status
    BY <1>2, MappingSteps DEF call
  <2>2. status # "error"
    BY <1>1, <2>1 DEF KindInv, Filling
  <2> QED BY <2>1, <2>2, Quiet DEF Filling
<1>3. CASE Open
  <2>1. phase = "closed" /\ phase' = "direct" /\ status' = status
    BY <1>3 DEF Open, call
  <2>2. status # "error"
    BY <1>1, <2>1 DEF KindInv
  <2> QED BY <2>1, <2>2, Quiet
<1>4. CASE Return \/ Close
  <2>1. phase' \in {"ready", "closed"} /\ status' \in {"ok", "none"}
    BY <1>4 DEF Return, Close
  <2> QED BY <2>1, Quiet
<1>5. CASE OpenPlain
  BY <1>5, OpenPlainReads
<1>6. CASE OpenCompressed
  BY <1>1, <1>6, OpenCompressedReads
<1>7. CASE Read
  BY <1>1, <1>7, ReadReads
<1>8. CASE ReadRaw
  BY <1>1, <1>8, ReadRawReads
<1>9. CASE ReadWild
  BY <1>1, <1>9, ReadWildReads
<1>10. CASE RawEnds
  BY <1>1, <1>10, RawEndsReads
<1>11. CASE ReadPacked
  BY <1>1, <1>11, ReadPackedReads
<1>12. CASE PackedEnds
  BY <1>1, <1>12, PackedEndsReads
<1>13. CASE PackedWild \/ CopyWild
  BY <1>1, <1>13, WildReads
<1>14. CASE Inflate
  BY <1>1, <1>14, InflateReads
<1>15. CASE DeviceFails
  BY <1>1, <1>15, DeviceFailsReads
<1>16. CASE UNCHANGED vars
  <2>1. /\ file' = file /\ phase' = phase /\ workData' = workData /\ fileSize' = fileSize
        /\ raw' = raw /\ out' = out /\ packed' = packed
        /\ request' = request /\ data' = data /\ status' = status /\ broken' = broken
    BY <1>16 DEF vars, buffers, opened, copying, call
  <2>2. /\ Sound' <=> Sound
        /\ Unit' = Unit /\ UnitCount' = UnitCount
        /\ Aligned(request)' <=> Aligned(request)
        /\ Beyond(request)' <=> Beyond(request)
    BY <2>1, SameFile
  <2>3. ReadReturnsTheFile' /\ FailsForACause'
    BY <1>1, <2>1, <2>2 DEF ReadInv, ReadReturnsTheFile, FailsForACause
  <2>4. CopyInv
    BY <1>1 DEF ReadInv
  <2>5. /\ RawAt(file.header.table, UnitCount)' <=> RawAt(file.header.table, UnitCount)
        /\ RawAt(request.off, request.len)' <=> RawAt(request.off, request.len)
        /\ PackedAt(request.off, request.len)' <=> PackedAt(request.off, request.len)
        /\ RawAt(OffsetOf(file, packed.i), Unit)' <=> RawAt(OffsetOf(file, packed.i), Unit)
    <3>1. RawAt(file.header.table, UnitCount)' <=> RawAt(file.header.table, UnitCount)
      BY <2>1, <2>2 DEF RawAt
    <3>2. RawAt(request.off, request.len)' <=> RawAt(request.off, request.len)
      BY <2>1 DEF RawAt
    <3>3. PackedAt(request.off, request.len)' <=> PackedAt(request.off, request.len)
      BY <2>1, <2>2 DEF PackedAt
    <3>4. RawAt(OffsetOf(file, packed.i), Unit)' <=> RawAt(OffsetOf(file, packed.i), Unit)
      BY <2>1, <2>2 DEF RawAt
    <3> QED BY <3>1, <3>2, <3>3, <3>4
  <2>6. (phase = "inflate" => \A k \in 1 .. OffsetOf(file, packed.i + 1) - OffsetOf(file, packed.i) :
            workData[k] = CellAt(file, OffsetOf(file, packed.i) + k - 1))'
        <=> (phase = "inflate" => \A k \in 1 .. OffsetOf(file, packed.i + 1) - OffsetOf(file, packed.i) :
            workData[k] = CellAt(file, OffsetOf(file, packed.i) + k - 1))
    BY <2>1
  <2>7. CopyInv'
    BY <2>1, <2>2, <2>4, <2>5, <2>6 DEF CopyInv, OfUnit
  <2> QED BY <2>3, <2>7 DEF ReadInv
<1> QED BY <1>2, <1>3, <1>4, <1>5, <1>6, <1>7, <1>8, <1>9, <1>10, <1>11, <1>12, <1>13, <1>14,
           <1>15, <1>16 DEF Next, Step, MappingStep

LEMMA InitContent == Init => ContentInv
<1> SUFFICES ASSUME Init PROVE ContentInv
  OBVIOUS
<1>1. /\ phase = "closed" /\ status = "none" /\ request = NoRequest /\ raw = NoRaw /\ packed = NoPacked
      /\ tmpBlock = Zeros(2 * BlockSize) /\ workData = Zeros(2 * WorkSize)
  BY DEF Init
<1>2. BufferInv
  BY <1>1, ZerosAreCells DEF BufferInv
<1>3. KindInv
  BY <1>1 DEF KindInv, Using, NoRequest, NoRaw, NoPacked
<1>4. CompleteInv /\ TableInv
  BY <1>1 DEF CompleteInv, TableInv, OfUnit, Using
<1>5. ReadInv
  BY <1>1 DEF ReadInv, CopyInv, OfUnit, ReadReturnsTheFile, FailsForACause
<1> QED BY <1>2, <1>3, <1>4, <1>5 DEF ContentInv

\* The list of an open file has all its blocks, the table of a compressed file is
\* the one on the device, and what has been copied of a read is what the file has.
THEOREM ContentIsKept == Spec => []ContentInv
<1>1. Init => ContentInv
  BY InitContent
<1>2. Inv /\ MapInv /\ ContentInv /\ [Next]_vars => ContentInv'
  BY NextComplete, NextBuffer, NextKind, NextTable, NextRead DEF ContentInv, ReadInv
<1>3. Spec => []Inv /\ []MapInv
  BY Invariant, BlocksAreMapped
<1> QED BY <1>1, <1>2, <1>3, PTL DEF Spec

\* pfs_file_read gives its caller the file's own cells, plain or compressed, over
\* blocks and units, whatever the buffers held before.
THEOREM ReadsReturnTheFile == Spec => []ReadReturnsTheFile
<1>1. ContentInv => ReadReturnsTheFile
  BY DEF ContentInv, ReadInv
<1> QED BY <1>1, ContentIsKept, PTL

\* pfs_get_file and pfs_file_read fail for the device, for a request beyond the
\* file or for an inner file of two sizes, and no index of theirs leaves the list
\* of blocks, the table or workData.
THEOREM FailuresHaveACause == Spec => []FailsForACause
<1>1. ContentInv => FailsForACause
  BY DEF ContentInv, ReadInv
<1> QED BY <1>1, ContentIsKept, PTL
=============================================================================
