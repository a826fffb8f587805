---------------------------- MODULE MCSelfConvert ----------------------------
(* Instances of SelfConvert: every SELF of a small shape. *)
EXTENDS SelfConvert

Word == 40                              \* the largest 64-bit value
E(off, size, seg) == [off |-> off, size |-> size, seg |-> seg]
R(off, size) == [off |-> off, size |-> size]
Wrap(len, entries, phdrs) == [len |-> len, magic |-> TRUE, entries |-> entries, phdrs |-> phdrs]

\* Three entries and three program headers, data from cell 9 on: digests, two
\* segments, and what follows them.
Usual == {Wrap(14, <<E(9, 1, 0), E(10, p.size, 1), E(10 + p.size, q.size, 2)>>, <<p, q, r>>) :
            p \in [off : {4, 7}, size : {1, 2}], q \in [off : {5, 9}, size : {1, 2}],
            r \in [off : {0, 12}, size : {0, 1}]}
\* Cut short anywhere; without entries; huge numbers; backwards; not a SELF.
Strange == {Wrap(n, <<E(7, 2, 2), E(9, 3, 1)>>, <<R(8, 3), R(4, 2)>>) : n \in 1 .. 13}
           \cup {Wrap(6, <<>>, <<R(4, 6), R(2, 0)>>),
                 Wrap(9, <<E(5, 2, 1)>>, <<R(Word, 2)>>), Wrap(9, <<E(Word, 1, 1)>>, <<>>),
                 Wrap(9, <<E(5, 2, 1)>>, <<R(18, 2)>>), Wrap(9, <<E(5, Word, 1)>>, <<>>),
                 Wrap(12, <<E(9, 2, 2), E(6, 3, 1)>>, <<R(7, 3), R(4, 2)>>),
                 [Wrap(9, <<>>, <<>>) EXCEPT !.magic = FALSE]}
MCSelfs == Usual \cup Strange
=============================================================================
