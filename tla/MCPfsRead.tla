------------------------------ MODULE MCPfsRead ------------------------------
(* Instance of PfsRead: images written the way the format has it, by hand. *)
EXTENDS Gp4File

\* Blocks 0..11 hold files, the others pointers: 12 of level 0, 13 of level 1,
\* 16 of level 2.
MCContiguous == 99
Table(b, c) == <<[is |-> "pointer", a |-> b, b |-> 0], [is |-> "pointer", a |-> c, b |-> 0],
                 Zero, Zero>>
Pointers(bl) ==
    LET at(k) == IF k <= Len(bl) THEN bl[k] ELSE 0
    IN  <<Table(at(3), at(4)),
          Table(14, 15), Table(at(5), at(6)), Table(at(7), at(8)),
          Table(17, 18), Table(19, 20), Table(21, 22),
          Table(at(9), at(10)), Table(at(11), at(12)), Table(at(13), at(14)),
          Table(at(15), at(16))>>
DataBlock(cells, bl, m) ==
    [k \in 1 .. BlockSize |->
        LET ps == {p \in DOMAIN bl : bl[p] = m /\ (p - 1) * BlockSize + k <= Len(cells)}
        IN  IF ps = {} THEN Zero ELSE cells[((CHOOSE p \in ps : TRUE) - 1) * BlockSize + k]]
Device(cells, bl) == [m \in 1 .. 12 |-> DataBlock(cells, bl, m - 1)] \o Pointers(bl)
Indirect012 == [l \in Levels |-> CASE l = 0 -> 12 [] l = 1 -> 13 [] l = 2 -> 16]

Plain(n) == [k \in 1 .. n |-> [is |-> "data", a |-> k - 1, b |-> 0]]
NoHeader == [unit |-> 1, table |-> 0, rounded |-> 0]
Listed(cells, bl) ==
    [size |-> Len(cells), full |-> Len(cells), compressed |-> FALSE, inner |-> FALSE,
     direct |-> [k \in 1 .. 2 |-> IF k <= Len(bl) THEN bl[k] ELSE 0],
     count |-> Len(bl), indirect |-> Indirect012,
     device |-> Device(cells, bl), header |-> NoHeader, blocks |-> bl]
Run(cells, first) ==
    LET bl == [k \in 1 .. Up(Len(cells)) |-> first + k - 1]
    IN  [Listed(cells, bl) EXCEPT !.direct = <<first, MCContiguous>>, !.count = Len(bl)]

\* A compressed file: header, table of offsets, then the units, each of as many
\* cells as sizes says; a unit of unit cells is stored as it is.
Offsets(sizes) == [k \in 1 .. Len(sizes) + 1 |->
    1 + Len(sizes) + 1 + FoldLeft(LAMBDA x, y : x + y, 0, SubSeq(sizes, 1, k - 1))]
UnitCells(unit, sizes, i) == [k \in 1 .. sizes[i] |->
    IF sizes[i] = unit THEN [is |-> "data", a |-> (i - 1) * unit + k - 1, b |-> 0]
    ELSE [is |-> "packed", a |-> i - 1, b |-> sizes[i] - k]]
Packed(unit, sizes, full, first) ==
    LET cells == <<[is |-> "header", a |-> 0, b |-> 0]>>
                 \o [k \in 1 .. Len(sizes) + 1 |->
                        [is |-> "offset", a |-> Offsets(sizes)[k], b |-> 0]]
                 \o FoldLeft(LAMBDA x, y : x \o y, <<>>,
                             [i \in DOMAIN sizes |-> UnitCells(unit, sizes, i)])
    IN  [Run(cells, first) EXCEPT
            !.full = full, !.compressed = TRUE,
            !.header = [unit |-> unit, table |-> 1, rounded |-> Len(sizes) * unit]]

Scattered == <<7, 2, 9, 4, 11, 0, 5, 1, 10, 3>>
Whole == {Listed(Plain(n), SubSeq(Scattered, 1, Up(n))) : n \in {3, 8, 14, 35}}
         \cup {Run(Plain(n), 3) : n \in {5, 13}}
         \cup {Listed(<<>>, <<5>>)}
         \cup {Packed(4, <<1, 2, 4>>, 12, 1), Packed(4, <<2, 1, 2>>, 10, 0),
               Packed(4, <<4, 1, 1, 2>>, 15, 4)}
\* A unit behind the uncompressed size, a block out of order, no PFSC header,
\* units of two blocks, a table
\* without the last entries, a count too small, pointers off the device, too few
\* pointers, two sizes.
Unsound == [Listed(Plain(6), <<1, 2>>) EXCEPT !.blocks = <<>>]
Short(f) == [f EXCEPT !.header.rounded = 7]
Odd == {Packed(4, <<4>>, 4, 0), Short(Packed(4, <<1, 1, 1>>, 11, 2)),
        [Packed(4, <<1, 2, 4>>, 12, 1) EXCEPT !.blocks = <<>>, !.direct = <<1, 5>>],
        [Unsound EXCEPT !.compressed = TRUE],
        Packed(8, <<3, 2>>, 16, 0),
        [Run(Plain(13), 3) EXCEPT !.count = 0],
        [Run(Plain(13), 3) EXCEPT !.count = 3, !.blocks = <<>>],
        [Unsound EXCEPT !.size = 31, !.direct = <<30, 31>>],
        [Unsound EXCEPT !.size = 70, !.indirect = [l \in Levels |-> 12]],
        [Listed(Plain(9), <<3, 4, 5>>) EXCEPT !.inner = TRUE, !.full = 8]}
MCFiles == Whole \cup Odd

\* Files of an inner PFS: one block, part of one, a run, blocks out of order.
MCInnerFiles == {[size |-> 4, blocks |-> <<0>>], [size |-> 2, blocks |-> <<2>>],
                 [size |-> 7, blocks |-> <<1, 2>>], [size |-> 6, blocks |-> <<2, 0>>],
                 [size |-> 6, blocks |-> <<1, 3>>],
                 [size |-> 12, blocks |-> <<0, 1, 2>>]}
\* No chunks, one for all, one a block, runs of chunks with and without a gap,
\* one with two mchunks in one place, by parts.
Part(at, size) == [at |-> at, size |-> size]
All == <<Part(0, 99)>>
MCPlaygos == {<<>>, <<All>>, [b \in 1 .. 12 |-> <<Part(4 * b - 4, 4)>>],
              <<<<>>, All>>, <<All, All, All>>, <<All, All, <<>>, All>>,
              <<All, <<>>, All, All, All>>, <<All, All, All \o All>>,
              <<<<Part(0, 16)>>, <<Part(16, 8), Part(4, 4)>>, <<Part(24, 99)>>, All>>}
=============================================================================
