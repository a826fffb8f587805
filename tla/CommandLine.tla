----------------------------- MODULE CommandLine -----------------------------
(***************************************************************************)
(* main.c: one run of the command line tool, from its arguments to its     *)
(* exit status.  The package is opened and read as in PkgFile; a plain PFS *)
(* image is mapped by main.c itself, in the slot "pfs" of the maps.        *)
(*                                                                         *)
(* What the handlers do inside an image or an entry is in PfsTree, PfsRead *)
(* and Wildcard; here each part of the output is made, is warned about, or *)
(* ends the run.  Options that only change keys or formats are left out.   *)
(***************************************************************************)
EXTENDS PkgFile

CONSTANTS Lines,            \* bound: command lines, [cmd, opts, dir, input]
          Image             \* path of the file given as PFS image data
ASSUME LineAssumption == "pfs" \in Slots /\ Image \in Paths

VARIABLES pc,
          line,             \* the options before the command: those after are not read
          package,          \* is_package_input_file; hdr->... : what it contains
          spfs,             \* s_pfs is set
          images,           \* pkg->pfs and pkg->inner_pfs are set
          at,               \* the part of the output that is next
          done, warned,     \* parts made, parts warned about
          status            \* ret, the exit status
cmdVars == <<pc, line, package, spfs, images, at, done, warned, status>>
lineVars == <<fileVars, cmdVars>>

Given(o) == o \in line.opts
NoLine == [cmd |-> "none", opts |-> {}, dir |-> FALSE, input |-> "none"]
\* What of the input is the same in all of a run.
Contents == [pkg : BOOLEAN,        \* has the magic of a package
             newAlgo : BOOLEAN,    \* has entries with the new encryption
             keyset : BOOLEAN]     \* the key content id given names a keyset

LineInit == /\ FileInit /\ pc = "args" /\ line = NoLine
            /\ package \in Contents
            /\ spfs = FALSE /\ images = FALSE /\ at = 1
            /\ done = {} /\ warned = {} /\ status = 0

(***************************************************************************)
(* parse_args and main                                                     *)
(***************************************************************************)
Exit(code) == pc' = "exit" /\ status' = code        \* exit(code), or main returns
BadLine(l) ==
    \/ l.cmd = "unpack" /\ ~l.dir
    \/ l.cmd = "info" /\ "unpack_sc_entries" \in l.opts /\ ~l.dir
    \/ /\ l.cmd = "unpack" /\ "gp4_file" \notin l.opts
       /\ l.opts \cap {"meta_data_in_file", "meta_data_out_file"} # {}
    \/ /\ l.cmd = "unpack" /\ "meta_data_in_file" \in l.opts
       /\ "pfs_image_data_file" \notin l.opts
ParseArgs ==
    /\ pc = "args" /\ \E l \in Lines : line' = l
    /\ \/ BadLine(line') /\ Exit(1)
       \/ ~BadLine(line') /\ line'.cmd = "none" /\ Exit(0)
       \/ ~BadLine(line') /\ line'.cmd # "none" /\ pc' = "input" /\ UNCHANGED status
    /\ UNCHANGED <<fileVars, package, spfs, images, at, done, warned>>

\* is_file and is_readable; only a pattern for pieces need not be a file.
IsFile == line.input = "whole" /\ disk[Package] # Absent
Input ==
    /\ pc = "input"
    /\ LET splitted == Given("use_splitted_files") IN
       \/ /\ \/ splitted /\ line.input # "pattern"
             \/ ~splitted /\ ~IsFile
          /\ Exit(1) /\ UNCHANGED package
       \/ /\ splitted /\ line.input = "pattern" /\ pc' = "output"
          /\ package' = [package EXCEPT !.pkg = TRUE] /\ UNCHANGED status
       \/ ~splitted /\ IsFile /\ pc' = "output" /\ UNCHANGED <<package, status>>
    /\ UNCHANGED <<fileVars, line, spfs, images, at, done, warned>>

\* The output directory is there or is made, or cannot be.
Output ==
    /\ pc = "output"
    /\ \/ /\ line.cmd = "unpack" \/ (line.cmd = "info" /\ Given("unpack_sc_entries"))
          /\ Exit(1)
       \/ ~package.pkg /\ line.cmd = "info" /\ Exit(0)
       \/ /\ package.pkg \/ line.cmd # "info"
          /\ pc' = IF package.pkg /\ ~Given("pfs_image_data_file") THEN "package" ELSE "pfs"
          /\ UNCHANGED status
    /\ UNCHANGED <<fileVars, line, package, spfs, images, at, done, warned>>

(***************************************************************************)
(* setup_pfs: the input itself, or the image to use instead of a package's *)
(***************************************************************************)
MapPfs ==
    /\ pc = "pfs" /\ Ready
    /\ StartMap("pfs", <<IF package.pkg THEN Image ELSE Package>>) /\ pc' = "mapping"
    /\ UNCHANGED <<disk, pkgVars, line, package, spfs, images, at, done, warned, status>>

\* Mutant: process_pfs cleans up as process_pkg does.
MutantNotSetUp == pc' = "cleanup" /\ status' = 1
\* After setup_pfs has failed process_pkg calls cleanup_pfs (again).
NotSetUp == IF package.pkg THEN pc' = "cleanup" /\ status' = 1 ELSE Exit(1)
PfsMapFails ==
    /\ pc = "mapping" /\ Ready /\ maps["pfs"].state = "null" /\ NotSetUp
    /\ UNCHANGED <<fileVars, line, package, spfs, images, at, done, warned>>
\* pfs_alloc reads the superblock; this callback knows of no pread.
PfsReadable == maps["pfs"].state = "mapped" /\ Readable(maps["pfs"], 0, 1)
PfsCrash ==
    /\ pc = "mapping" /\ Ready /\ maps["pfs"].state \in {"mapped", "pread"} /\ ~PfsReadable
    /\ pc' = "crashed"
    /\ UNCHANGED <<fileVars, line, package, spfs, images, at, done, warned, status>>
PfsAlloc ==
    /\ pc = "mapping" /\ Ready /\ PfsReadable /\ spfs' = TRUE
    /\ pc' = IF package.pkg THEN "package" ELSE "handler"
    /\ UNCHANGED <<fileVars, line, package, images, at, done, warned, status>>
\* The error exit of setup_pfs has its own cleanup_pfs; ctx->map stays set.
PfsAllocFails ==
    /\ pc = "mapping" /\ Ready /\ PfsReadable /\ NotSetUp /\ Unmap("pfs", "freed")
    /\ UNCHANGED <<disk, job, pkgVars, line, package, spfs, images, at, done, warned>>

(***************************************************************************)
(* pkg_alloc, with set_pkg_pfs_options_cb                                  *)
(***************************************************************************)
\* Mutant: the files that are to be unpacked are not thought of.
MutantSkipKeygen ==
    IF line.cmd = "info" THEN 2
    ELSE IF package.newAlgo \/ Given("gp4_file") THEN 0
    ELSE IF Given("unpack_sc_entries") THEN 1 ELSE 0
\* opts->skip_keygen, after has_new_enc_algo
SkipKeygen ==
    IF line.cmd = "info" THEN 2
    ELSE IF package.newAlgo \/ Given("gp4_file") THEN 0
    ELSE IF Given("no_unpack") /\ Given("unpack_sc_entries") THEN 1 ELSE 0
Keyset == SkipKeygen = 0 \/ (Given("key_content_id") /\ package.keyset)

AllocPackage ==
    /\ pc = "package" /\ phase = "closed" /\ Alloc(line.input)
    /\ UNCHANGED cmdVars
InPackage == /\ phase # "failed" /\ ((MapStep /\ UNCHANGED pkgVars) \/ PkgStep)
             /\ UNCHANGED cmdVars
\* At its end pkg_alloc opens the two images, if it has a use for them.
OpensImages == Keyset /\ ~spfs
ReadsImages ==
    /\ pc = "package" /\ phase = "open" /\ OpensImages /\ ReadImage /\ UNCHANGED cmdVars
HavePackage ==
    /\ pc = "package" /\ phase = "open" /\ Ready
    /\ pc' = "handler" /\ images' = OpensImages
    /\ UNCHANGED <<fileVars, line, package, spfs, at, done, warned, status>>
NoPackage ==                \* error: Unable to load PKG file
    /\ pc = "package" /\ Exit(1)
    /\ \/ Failed
       \/ OpensImages /\ Free
    /\ UNCHANGED <<line, package, spfs, images, at, done, warned>>

(***************************************************************************)
(* The handlers                                                            *)
(***************************************************************************)
Parts == IF line.cmd = "list" THEN <<"list">>
         ELSE IF ~package.pkg THEN <<"files">>
         ELSE IF line.cmd = "info" THEN <<"sc", "sfo", "playgo">>
         ELSE <<"sc", "sfo", "playgo", "gp4", "outer", "inner", "files">>
OptionOf == [sc |-> "unpack_sc_entries", sfo |-> "dump_sfo", playgo |-> "dump_playgo",
             gp4 |-> "gp4_file", outer |-> "unpack_outer_pfs", inner |-> "unpack_inner_pfs"]
Asked(p) == IF p = "list" THEN TRUE
            ELSE IF p = "files" THEN ~Given("no_unpack") ELSE Given(OptionOf[p])
\* The outer image is only there when it is the package's.
Wanted(p) == Asked(p) /\ (p \in {"outer", "inner"} => images)
Part == Parts[at]
Handling == pc = "handler" /\ at <= Len(Parts) /\ phase \in {"closed", "open"}
FromImage == Part \in {"list", "files", "gp4"}

Skip == /\ Handling /\ ~Wanted(Part) /\ at' = at + 1
        /\ UNCHANGED <<fileVars, pc, line, package, spfs, images, done, warned, status>>
Makes == /\ Handling /\ Wanted(Part) /\ (FromImage => spfs \/ images)
         /\ done' = done \cup {Part} /\ at' = at + 1
         /\ UNCHANGED <<fileVars, pc, line, package, spfs, images, warned, status>>
Warns == /\ Handling /\ Wanted(Part) /\ (FromImage => spfs \/ images)
         /\ Part \in {"sc", "sfo", "playgo", "gp4", "outer", "inner"}
         /\ warned' = warned \cup {Part} /\ at' = at + 1
         /\ UNCHANGED <<fileVars, pc, line, package, spfs, images, done, status>>
\* Mutant: the handler's ret is 0 from the start.
MutantRet == 0
Ret == 1
\* goto error: the handler returns what ret was set to at first.
GivesUp == /\ Handling /\ Wanted(Part) /\ Part \in {"sfo", "playgo"}
           /\ pc' = "cleanup" /\ status' = Ret
           /\ UNCHANGED <<fileVars, line, package, spfs, images, at, done, warned>>
ErrorExit == /\ Handling /\ Wanted(Part) /\ (FromImage => spfs \/ images)
             /\ Part \in {"sc", "list", "files"} /\ Exit(1)
             /\ UNCHANGED <<fileVars, line, package, spfs, images, at, done, warned>>
\* An assertion or a NULL pointer: no image to list or to unpack.
NoImage == /\ Handling /\ Wanted(Part) /\ FromImage /\ ~(spfs \/ images)
           /\ pc' = "aborted"
           /\ UNCHANGED <<fileVars, line, package, spfs, images, at, done, warned, status>>
Reads == /\ Handling /\ phase = "open"
         /\ \/ Part \in {"sc", "sfo", "playgo"} /\ Wanted(Part) /\ EntryData
            \/ Part \notin {"sc", "sfo", "playgo"} /\ Wanted(Part) /\ images /\ ReadImage
         /\ UNCHANGED cmdVars
Handled == /\ pc = "handler" /\ Ready /\ at > Len(Parts) /\ pc' = "cleanup"
           /\ UNCHANGED <<fileVars, line, package, spfs, images, at, done, warned, status>>

(***************************************************************************)
(* The end                                                                 *)
(***************************************************************************)
\* cleanup_pfs, of what setup_pfs has left in ctx.
CleanupPfs ==
    /\ pc = "cleanup" /\ Ready /\ spfs' = FALSE
    /\ LET called == ~package.pkg \/ Given("pfs_image_data_file") IN
       \/ called /\ maps["pfs"].state \in {"mapped", "pread"} /\ pc' = "free" /\ Unmap("pfs", "null")
       \/ /\ ~called \/ maps["pfs"].state = "null"
          /\ pc' = "free" /\ UNCHANGED <<maps, fds, regions>>
       \/ /\ called /\ maps["pfs"].state = "freed"
          /\ pc' = "undefined" /\ UNCHANGED <<maps, fds, regions>>
    /\ UNCHANGED <<disk, job, pkgVars, line, package, images, at, done, warned, status>>
\* pkg_free(s_pkg), in process_pkg or in cleanup
FreePackage ==
    /\ \/ pc = "free" /\ pc' = "exit"
       \/ pc = "exit" /\ pc' = "ended"
    /\ \/ phase = "open" /\ Free
       \/ phase = "closed" /\ UNCHANGED fileVars
    /\ images' = FALSE /\ spfs' = FALSE
    /\ UNCHANGED <<line, package, at, done, warned, status>>
Ended == /\ \/ pc \in {"ended", "undefined", "aborted", "crashed"}
            \/ phase = "crashed" \/ job.pc = "fault"
         /\ UNCHANGED lineVars
Changes == /\ FileChanges /\ pc \notin {"args", "ended", "undefined", "aborted", "crashed"}
           /\ UNCHANGED cmdVars

LineNext == \/ ParseArgs \/ Input \/ Output
            \/ MapPfs \/ PfsMapFails \/ PfsCrash \/ PfsAlloc \/ PfsAllocFails
            \/ AllocPackage \/ InPackage \/ ReadsImages \/ HavePackage \/ NoPackage
            \/ Skip \/ Makes \/ Warns \/ GivesUp \/ ErrorExit \/ NoImage \/ Reads \/ Handled
            \/ CleanupPfs \/ FreePackage \/ Ended \/ Changes
LineSpec == LineInit /\ [][LineNext]_lineVars

(***************************************************************************)
(* Properties                                                              *)
(***************************************************************************)
\* A map is given back twice in one case only: the file given as a package's
\* image could be mapped and is no PFS (cleanup_pfs in setup_pfs and again in
\* process_pkg, which does not know of the first).
ReleasedOnce ==
    pc = "undefined" => package.pkg /\ Given("pfs_image_data_file")
                        /\ phase = "closed" /\ done = {}
\* Whatever the options and the package are, a handler finds the image that it
\* works on, but for one case: a listing with the two options that make the keys
\* unnecessary for unpacking.
HandlersHaveImages ==
    pc = "aborted" => /\ line.cmd = "list" /\ {"no_unpack", "unpack_sc_entries"} \subseteq line.opts
                      /\ ~Given("pfs_image_data_file") /\ ~package.newAlgo
\* After exit status 0 each part of the output that was asked for has been made
\* or warned about.  What is ignored: a package's parts of a plain PFS, and the
\* outer image where another image is used or the keys were not needed.
NoOuter == Given("pfs_image_data_file") \/ {"no_unpack", "unpack_sc_entries"} \subseteq line.opts
Ignored(p) == \/ ~package.pkg /\ p \notin {"list", "files"}
              \/ p \in {"outer", "inner"} /\ NoOuter
PartsOf == CASE line.cmd = "list" -> {"list"}
             [] line.cmd = "info" -> {"sc", "sfo", "playgo"}
             [] line.cmd = "unpack" -> DOMAIN OptionOf \cup {"files"}
             [] OTHER -> {}
ExitTellsTruth ==
    pc = "ended" /\ status = 0 =>
        \A p \in PartsOf : Asked(p) => p \in done \cup warned \/ Ignored(p)
=============================================================================
