------------------------------ MODULE MCPfsTree ------------------------------
(* Instance of PfsTree: small images, sound and damaged.                   *)
EXTENDS PfsTree

CONSTANTS a, A, b, dot, dotdot,         \* names; A and a fold together
          root, d1, d2, f1, f2, f3      \* inodes

MCNames == {a, A, b, dot, dotdot}
MCFold == [n \in MCNames |-> IF n = A THEN a ELSE n]
MCInodes == {root, d1, d2, f1, f2, f3}

E(name, ino, kind) == [name |-> name, ino |-> ino, kind |-> kind]
Dots(i, up) == <<E(dot, i, "this"), E(dotdot, up, "parent")>>
Contents(top, first, second) ==
    [i \in MCInodes |-> CASE i = root -> Dots(root, root) \o top
                          [] i = d1   -> Dots(d1, root) \o first
                          [] i = d2   -> second
                          [] OTHER    -> <<>>]
\* a/a  a/b/A  b
Nested == [entries |-> Contents(<<E(a, d1, "directory"), E(b, f1, "file")>>,
                                <<E(a, f2, "file"), E(b, d2, "directory")>>,
                                <<E(A, f3, "file")>>),
           directories |-> {root, d1, d2}, bad |-> {}, torn |-> {},
           caseSensitive |-> FALSE]
\* a/  A/ side by side, the same file name in both
Twins(sensitive) ==
    [Nested EXCEPT !.entries = Contents(<<E(a, d1, "directory"), E(A, d2, "directory")>>,
                                        <<E(b, f1, "file")>>, <<E(b, f2, "file")>>),
                   !.caseSensitive = sensitive]
\* A/ is looked up as a/, which has no A, or whose b cannot be read.
Lost == [Twins(FALSE) EXCEPT !.entries[d2] = <<E(A, f2, "file")>>]
Clash == [Twins(FALSE) EXCEPT !.bad = {f1}]
\* an entry of another kind, a file entry that is a directory's inode
Odd == [Nested EXCEPT !.entries = Contents(<<E(a, d1, "directory"), E(b, f1, "other")>>,
                                           <<E(b, d2, "file"), E(A, f2, "file")>>, <<>>)]
MCImages == {Nested, [Nested EXCEPT !.bad = {d1}], [Nested EXCEPT !.bad = {f2}],
             [Nested EXCEPT !.torn = {d2}], [Nested EXCEPT !.torn = {f2}],
             [Nested EXCEPT !.bad = {root}], Twins(TRUE), Lost, Clash, Odd}

Out(dirs, fs) == [directories |-> dirs \cup {<<>>}, files |-> fs]
MCLeftovers == {Out({}, {}), Out({}, {<<a>>}), Out({<<a>>, <<b>>}, {<<a, a>>})}
MCRequests == {{}, {<<a, b, A>>}, {<<b>>, <<a, a>>}, {<<A>>}}
=============================================================================
