------------------------------ MODULE MCPkgFile ------------------------------
(***************************************************************************)
(* A package of seven cells, in one file or in pieces of four: a header of *)
(* one cell, the entry table and an entry's data behind it, an image that  *)
(* begins in the first piece and ends in the second.                       *)
(***************************************************************************)
EXTENDS PkgFile

MCPaths == {"pkg", "p0", "p1"}
MCSizes == [pkg |-> {Absent, 0, 2, 7}, p0 |-> {Absent, 3, 4}, p1 |-> {Absent, 1, 3}]
\* Nothing of the package is missing.
MCComplete == [pkg |-> {7}, p0 |-> {4}, p1 |-> {3}]
MCPiece == [k \in 0 .. 1 |-> IF k = 0 THEN "p0" ELSE "p1"]
MCRequests == [off : {0, 2}, len : {2, 3}]
=============================================================================
