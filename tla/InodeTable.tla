----------------------------- MODULE InodeTable ------------------------------
(***************************************************************************)
(* The other lookup of a file's blocks.  The inode table is a file of the  *)
(* super root, but pfs_get_dinode does not open it: it asks                *)
(* pfs_get_block_no_sino for one block at a time, which knows two of the   *)
(* four ways a dinode lists its blocks, and has to agree with              *)
(* pfs_get_block_list on those.                                            *)
(***************************************************************************)
EXTENDS PfsRead

NoBlock == [ok |-> FALSE, block |-> 0]
Block(b) == [ok |-> TRUE, block |-> b]

\* Mutant: the counter is taken for a count.
MutantLookup(f, run, n) ==
    IF n + 1 > f.count THEN NoBlock
    ELSE IF run THEN Block(f.direct[1] + n + 1)
    ELSE IF n + 1 > DirectMax THEN NoBlock
    ELSE Block(f.direct[n + 1])
\* pfs_get_block_no_sino; run is flag 0x10 of an unsigned image.  Indirect
\* blocks are not followed.
Lookup(f, run, n) ==
    IF n + 1 > f.count THEN NoBlock
    ELSE IF run THEN Block(f.direct[1] + n)
    ELSE IF n + 1 > DirectMax THEN NoBlock
    ELSE Block(f.direct[n + 1])
-----------------------------------------------------------------------------
\* An image flagged as a run is one; one with the sentinel is flagged.
Flagged(run) == /\ run => Consecutive
                /\ Contiguous \in {file.direct[k] : k \in 1 .. DirectMax} => run

\* Every block of the inode table pfs_get_dinode looks up is the one
\* pfs_get_block_list would have found there, so an inode is read from the
\* table and not from what happens to lie beside it; where it cannot tell it
\* fails, but never for a table in one run or of direct blocks.
InodeTableAgrees ==
    phase = "ready" /\ file.blocks # <<>> =>
        \A run \in BOOLEAN, n \in 0 .. Len(list) - 1 :
            LET b == Lookup(file, run, n)
            IN  Flagged(run) /\ n < file.count =>
                    /\ b.ok => b.block = list[n + 1]
                    /\ ~b.ok => ~run /\ n >= DirectMax
=============================================================================
