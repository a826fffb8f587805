---------------------------- MODULE MCCommandLine ----------------------------
(***************************************************************************)
(* The package of MCPkgFile, complete or cut; each command with the        *)
(* options that can change where its images come from, and every part of   *)
(* the output.                                                             *)
(***************************************************************************)
EXTENDS CommandLine

MCPaths == {"pkg", "p0", "p1", "img"}
MCSizes == [pkg |-> {Absent, 2, 7}, p0 |-> {4}, p1 |-> {Absent, 1, 3}, img |-> {0, 2}]
MCPiece == [k \in 0 .. 1 |-> IF k = 0 THEN "p0" ELSE "p1"]
MCRequests == {[off |-> 0, len |-> 3], [off |-> 2, len |-> 3], [off |-> 5, len |-> 0]}

Line(c, o, d, i) == [cmd |-> c, opts |-> o, dir |-> d, input |-> i]
Sources == SUBSET {"no_unpack", "unpack_sc_entries", "pfs_image_data_file"}
MCLines ==
    {Line("unpack", o \cup {"unpack_outer_pfs", "gp4_file"}, TRUE, "whole") : o \in Sources}
    \cup {Line("unpack", o \cup {"unpack_inner_pfs", "dump_sfo"}, TRUE, "whole") : o \in Sources}
    \cup {Line("list", o, FALSE, "whole") : o \in Sources}
    \cup {Line("unpack", {"no_unpack", "unpack_sc_entries", "unpack_outer_pfs"}, TRUE, "whole"),
          Line("list", {"no_unpack", "unpack_sc_entries", "key_content_id"}, FALSE, "whole"),
          Line("info", {"unpack_sc_entries", "dump_playgo"}, TRUE, "whole"),
          Line("info", {"unpack_sc_entries"}, FALSE, "whole"),
          Line("unpack", {"meta_data_in_file", "gp4_file"}, TRUE, "whole"),
          Line("unpack", {"meta_data_out_file"}, TRUE, "whole"),
          Line("list", {"use_splitted_files"}, FALSE, "whole"),
          Line("list", {"use_splitted_files"}, FALSE, "pattern"),
          Line("unpack", {"use_splitted_files"}, TRUE, "pattern"),
          Line("none", {}, FALSE, "whole")}
=============================================================================
