------------------------------- MODULE PfsTree -------------------------------
(***************************************************************************)
(* The directory walks over a decrypted PFS image: the enumeration behind  *)
(* a listing (pfs_enum_user_root_directory) and the unpacking behind an    *)
(* extraction (pfs_unpack_all), with the callbacks of the iOS bridge and   *)
(* of the command-line tool, and what they leave in the output directory.  *)
(*                                                                         *)
(* Both are recursions of C functions, one frame for each open directory.  *)
(* Unpacking walks twice: pfs_unpack_cb recurses over the entries and, for *)
(* each file, pfs_unpack_single looks the path up again from the root.     *)
(* The image does not change; the output directory, the choice of files    *)
(* and the disk's free space carry over from one call to the next.         *)
(*                                                                         *)
(* A path is a sequence of names.  Directory contents are the sequence of  *)
(* entries before the terminator; cutting them out of bytes, and truncating*)
(* paths at PATH_MAX, is not modelled.                                     *)
(***************************************************************************)
EXTENDS Naturals, Sequences, FiniteSets

CONSTANTS Inodes, Root,       \* Root: user_root_dir_ino
          Names, Dot, DotDot,
          Fold,               \* case folding of names, as strcasecmp sees them
          Images, Leftovers,  \* images, and output directories, to start from
          Requests,           \* command-line file arguments: sets of paths
          MaxChosen,          \* bound: files chosen in the picker
          MaxDepth            \* bound: nesting of the files a property looks for

Kinds == {"file", "directory", "this", "parent", "other"}   \* pfs_entry_type
Entry == [name : Names, ino : Inodes, kind : Kinds]
Image == [entries : [Inodes -> Seq(Entry)],
          directories : SUBSET Inodes,      \* by the inode's own mode
          bad : SUBSET Inodes,              \* pfs_get_file fails
          torn : SUBSET Inodes,             \* pfs_file_read of the data fails
          caseSensitive : BOOLEAN]
Paths == Seq(Names)
Node == [of : Inodes \cup {Root}, whole : BOOLEAN]
Calls == {"list_ex", "list", "extract", "unpack"}

ASSUME NamesAssumption == /\ {Dot, DotDot} \subseteq Names
                          /\ Dot # DotDot
                          /\ Root \in Inodes
                          /\ Fold \in [Names -> Names]
ASSUME ImagesAssumption == Images \subseteq Image
\* An output directory left by an earlier program: nothing is below a file.
ASSUME LeftoversAssumption == \A d \in Leftovers :
                                  /\ d.directories \subseteq Paths
                                  /\ <<>> \in d.directories
                                  /\ d.files \subseteq Paths \ d.directories
ASSUME RequestsAssumption == Requests \subseteq SUBSET Paths
ASSUME BoundAssumption == MaxChosen \in Nat /\ MaxDepth \in Nat

VARIABLES
    image,
    call, asked,     \* the call and its filter ({}: everything)
    stack,           \* open directories: inode and position of the entry
    look,            \* pfs_lookup_path: inode reached, names consumed
    pc,
    directories,     \* under Image0
    files,           \* under Image0: function of the paths of files
    scratch,         \* the temporary Image0 of pkg_ios_list_files
    full,            \* the disk has no space left
    told,            \* the call's progress or list callbacks, in order
    opened,          \* history: files the call has opened for writing
    skipped,         \* history: paths warned about and left out
    listed,          \* the last complete listing, in the picker
    result

walk == <<stack, look, pc>>
output == <<directories, files, scratch>>
report == <<told, opened, skipped>>
vars == <<image, call, asked, walk, output, full, report, listed, result>>

Listed == [path : Paths, kind : {"file", "directory"}]
AtRoot == [ino |-> Root, n |-> 0]
Put(f, p, node) == [q \in DOMAIN f \cup {p} |-> IF q = p THEN node ELSE f[q]]

(***************************************************************************)
(* The image                                                               *)
(***************************************************************************)
Entries(i) == image.entries[i]
\* strcmp or strcasecmp, by the image's PFS_FLAGS_CASE_SENSITIVE
Same(m, n) == IF image.caseSensitive THEN m = n ELSE Fold[m] = Fold[n]
\* Mutant: the comparison ignores the image's flag.
MutantMatches(i, n) == {k \in DOMAIN Entries(i) : Fold[Entries(i)[k].name] = Fold[n]}
Matches(i, n) == {k \in DOMAIN Entries(i) : Same(Entries(i)[k].name, n)}
First(i, n) == CHOOSE k \in Matches(i, n) : \A l \in Matches(i, n) : k <= l

Readable(i) == i \notin image.bad \cup image.torn
KindOf(i) == IF i \in image.directories THEN "directory" ELSE "file"

(***************************************************************************)
(* The recursion                                                           *)
(***************************************************************************)
Top == stack[Len(stack)]
AtEntry == pc = "entry" /\ stack # <<>> /\ Top.pos \in DOMAIN Entries(Top.ino)
AtEnd == pc = "entry" /\ stack # <<>> /\ Top.pos \notin DOMAIN Entries(Top.ino)
EntryOf(frame) == Entries(frame.ino)[frame.pos]
Here == EntryOf(Top)
Path == [i \in DOMAIN stack |-> EntryOf(stack[i]).name]
Advance(s) == [s EXCEPT ![Len(s)].pos = @ + 1]
Open(i) == Append(stack, [ino |-> i, pos |-> 1])

Special(n) == n \in {Dot, DotDot}
Enumerating == call = "list_ex"
Extracting == call \in {"extract", "unpack"}

(***************************************************************************)
(* The callbacks: which entries are needed and which are reported          *)
(***************************************************************************)
Prefixes(p) == {SubSeq(p, 1, n) : n \in 1 .. Len(p)}
\* parse_args pushes every leading part of an argument, so that the
\* directories on the way to a file are needed too.
FilePaths == UNION {Prefixes(p) : p \in asked}

\* Mutant: a filter hides the directories on the way to its files.
MutantNeeds(p, kind) == asked = {} \/ p \in asked
NeededByExtract(p, kind) == asked = {} \/ kind = "directory" \/ p \in asked
NeededByUnpack(p, kind) ==
    \/ asked = {}
    \/ p \in FilePaths
    \/ kind = "file" /\ Len(p) > 1 /\ <<p[Len(p)]>> \in FilePaths
Needed(p, kind) == CASE call = "list"    -> kind = "directory"
                     [] call = "extract" -> NeededByExtract(p, kind)
                     [] call = "unpack"  -> NeededByUnpack(p, kind)
\* Mutant: directories are reported as files are.
MutantReported(p, kind) == Needed(p, kind)
Reported(p, kind) == CASE call = "list"    -> TRUE
                       [] call = "extract" -> kind # "directory" /\ Needed(p, kind)
                       [] call = "unpack"  -> Needed(p, kind)
Report(p, kind) == IF Reported(p, kind) THEN Append(told, [path |-> p, kind |-> kind]) ELSE told

(***************************************************************************)
(* The output directory                                                    *)
(***************************************************************************)
Above(p) == {SubSeq(p, 1, n) : n \in 0 .. Len(p)}
Taken(p) == \E q \in Above(p) : q \in DOMAIN files
\* make_directories: stops at a path that exists as a file; its result is
\* not looked at.
MadeOnDisk(p) == IF full THEN {} ELSE {q \in Above(p) : ~Taken(q)}
MakeDirectories(p) ==
    IF call = "list"
    THEN /\ scratch' = IF full THEN scratch ELSE scratch \cup Above(p)
         /\ UNCHANGED <<directories, files>>
    ELSE /\ directories' = directories \cup MadeOnDisk(p)
         /\ UNCHANGED <<files, scratch>>
Front(p) == SubSeq(p, 1, Len(p) - 1)

-----------------------------------------------------------------------------
Init == /\ image \in Images
        /\ call = "list_ex" /\ asked = {}
        /\ stack = <<>> /\ look = AtRoot /\ pc = "idle"
        /\ \E d \in Leftovers :
              /\ directories = d.directories
              /\ files = [p \in d.files |-> [of |-> Root, whole |-> TRUE]]
        /\ scratch = {} /\ full = FALSE
        /\ told = <<>> /\ opened = {} /\ skipped = {}
        /\ listed = <<>> /\ result = "none"

\* Clean-up of pkg_ios_list_files: rmdir removes empty directories only.
RemoveScratch == scratch' = IF scratch = {<<>>} THEN {} ELSE scratch

Return(r) == pc' = "idle" /\ stack' = <<>> /\ look' = AtRoot /\ result' = r

\* error(): longjmp into the bridge, or exit(1)
Abort == /\ Return("failed")
         /\ RemoveScratch
         /\ UNCHANGED <<image, call, asked, directories, files, full, report, listed>>

\* pfs_unpack_all, pfs_enum_user_root_directory: read the root and start.
Start(c, filter) ==
    /\ pc = "idle"
    /\ call' = c /\ asked' = filter
    /\ told' = <<>> /\ opened' = {} /\ skipped' = {}
    /\ scratch' = IF c = "list" /\ Readable(Root) THEN {<<>>} ELSE {}
    /\ IF Readable(Root)
       THEN pc' = "entry" /\ stack' = <<[ino |-> Root, pos |-> 1]>> /\ result' = "none"
       ELSE pc' = "idle" /\ stack' = <<>> /\ result' = "failed"
    /\ listed' = IF c = "list_ex" THEN <<>> ELSE listed
    /\ UNCHANGED <<image, look, directories, files, full>>

List == \E c \in {"list_ex", "list"} : Start(c, {})
\* The picker offers what was listed; nothing chosen means everything.
Choices == {s \in SUBSET {listed[i].path : i \in DOMAIN listed} : Cardinality(s) <= MaxChosen}
Extract == \E filter \in Choices : Start("extract", filter)
Unpack == \E filter \in Requests : Start("unpack", filter)

\* Mutant: entry_size is not added.
MutantLeave(s) == stack' = s /\ pc' = "entry" /\ look' = AtRoot
Leave(s) == stack' = Advance(s) /\ pc' = "entry" /\ look' = AtRoot
GoInto(i) == stack' = Open(i) /\ UNCHANGED <<look, pc>>

\* Warned about, or not to be looked into: go on with the next entry.
SkipEntry ==
    /\ AtEntry
    /\ \/ Here.ino \in image.bad /\ skipped' = skipped \cup {Path}
       \/ /\ Here.ino \notin image.bad
          /\ \/ Special(Here.name)
             \/ ~Enumerating /\ Here.kind \notin {"file", "directory"}
          /\ UNCHANGED skipped
    /\ Leave(stack)
    /\ UNCHANGED <<image, call, asked, output, full, told, opened, listed, result>>

\* Mutant: only the root's entries are listed.
MutantEnumerate ==
    /\ AtEntry /\ Enumerating
    /\ Here.ino \notin image.bad /\ ~Special(Here.name)
    /\ told' = Append(told, [path |-> Path,
                             kind |-> IF Here.kind = "directory" THEN "directory" ELSE "file"])
    /\ Leave(stack)
    /\ UNCHANGED <<image, call, asked, output, full, opened, skipped, listed, result>>

\* pfs_enum_directory_cb: report the entry, then go into a directory.
Enumerate ==
    /\ AtEntry /\ Enumerating
    /\ Here.ino \notin image.bad /\ ~Special(Here.name)
    /\ told' = Append(told, [path |-> Path,
                             kind |-> IF Here.kind = "directory" THEN "directory" ELSE "file"])
    /\ IF Here.kind # "directory"
       THEN Leave(stack) /\ UNCHANGED skipped
       ELSE IF Here.ino \in image.torn
            THEN Leave(stack) /\ skipped' = skipped \cup {Path}
            ELSE GoInto(Here.ino) /\ UNCHANGED skipped
    /\ UNCHANGED <<image, call, asked, output, full, opened, listed, result>>

\* pfs_unpack_cb on a directory: read it, ask, make it, go into it.
UnpackDirectory ==
    /\ AtEntry /\ ~Enumerating
    /\ Here.ino \notin image.bad /\ ~Special(Here.name) /\ Here.kind = "directory"
    /\ IF Here.ino \in image.torn
       THEN /\ skipped' = skipped \cup {Path}
            /\ Leave(stack)
            /\ UNCHANGED <<told, output>>
       ELSE /\ told' = Report(Path, "directory")
            /\ IF Needed(Path, "directory")
               THEN GoInto(Here.ino) /\ MakeDirectories(Path)
               ELSE Leave(stack) /\ UNCHANGED output
            /\ UNCHANGED skipped
    /\ UNCHANGED <<image, call, asked, full, opened, listed, result>>

\* Mutant: the path is looked up in the directory it was found in.
MutantUnpackFile ==
    /\ AtEntry /\ ~Enumerating
    /\ Here.ino \notin image.bad /\ ~Special(Here.name) /\ Here.kind = "file"
    /\ pc' = "lookup" /\ look' = [ino |-> Top.ino, n |-> 0]
    /\ UNCHANGED <<image, call, asked, stack, output, full, report, listed, result>>

\* pfs_unpack_cb on a file: pfs_unpack_single, which begins with a lookup.
UnpackFile ==
    /\ AtEntry /\ ~Enumerating
    /\ Here.ino \notin image.bad /\ ~Special(Here.name) /\ Here.kind = "file"
    /\ pc' = "lookup" /\ look' = AtRoot
    /\ UNCHANGED <<image, call, asked, stack, output, full, report, listed, result>>

\* pfs_lookup_path: one name of the path.
LookUp ==
    /\ pc = "lookup" /\ look.n < Len(stack)
    /\ LET n == Path[look.n + 1]
           found == Readable(look.ino) /\ Matches(look.ino, n) # {}
       IN /\ found
          /\ look' = [ino |-> Entries(look.ino)[First(look.ino, n)].ino, n |-> look.n + 1]
    /\ UNCHANGED <<image, call, asked, stack, pc, output, full, report, listed, result>>

LookUpFails ==
    /\ pc = "lookup" /\ look.n < Len(stack)
    /\ ~Readable(look.ino) \/ Matches(look.ino, Path[look.n + 1]) = {}
    /\ Abort

\* pfs_get_file of what the lookup found
GetFileFails == pc = "lookup" /\ look.n = Len(stack) /\ look.ino \in image.bad /\ Abort

\* The pre-callback, the directory the file goes to, and, unless the inode is
\* a directory after all, the file itself.
Announce ==
    /\ pc = "lookup" /\ look.n = Len(stack) /\ look.ino \notin image.bad
    /\ LET kind == KindOf(look.ino)
       IN /\ told' = Report(Path, kind)
          /\ IF ~Needed(Path, kind)
             THEN Leave(stack) /\ UNCHANGED output
             ELSE IF kind = "directory"
                  THEN Leave(stack) /\ MakeDirectories(Path)
                  ELSE /\ pc' = "open" /\ MakeDirectories(Front(Path))
                       /\ UNCHANGED <<stack, look>>
    /\ UNCHANGED <<image, call, asked, full, opened, skipped, listed, result>>

Openable == Front(Path) \in directories /\ Path \notin directories

\* open(O_CREAT | O_TRUNC), ftruncate; files appear with no data in them
OpenFile ==
    /\ pc = "open" /\ Openable
    /\ files' = Put(files, Path, [of |-> look.ino, whole |-> FALSE])
    /\ opened' = opened \cup {Path}
    /\ pc' = "write"
    /\ UNCHANGED <<image, call, asked, stack, look, directories, scratch, full,
                   told, skipped, listed, result>>

OpenFails == pc = "open" /\ (~Openable \/ full) /\ Abort

\* The chunk loop: all of it, or up to a read or a write that fails.
WriteFile ==
    /\ pc = "write" /\ look.ino \notin image.torn
    /\ files' = [files EXCEPT ![Path].whole = TRUE]
    /\ Leave(stack)
    /\ UNCHANGED <<image, call, asked, directories, scratch, full, report, listed, result>>

\* Mutant: a failed file is warned about, as a failed directory is.
MutantWriteFails ==
    /\ pc = "write" /\ (look.ino \in image.torn \/ full)
    /\ Leave(stack)
    /\ UNCHANGED <<image, call, asked, output, full, report, listed, result>>

WriteFails == pc = "write" /\ (look.ino \in image.torn \/ full) /\ Abort

\* The end of a directory: back in its parent, behind its entry.
CloseDirectory ==
    /\ AtEnd /\ Len(stack) > 1
    /\ Leave(SubSeq(stack, 1, Len(stack) - 1))
    /\ UNCHANGED <<image, call, asked, output, full, report, listed, result>>

Finish ==
    /\ AtEnd /\ Len(stack) = 1
    /\ Return("ok")
    /\ RemoveScratch
    /\ listed' = IF Enumerating THEN told ELSE listed
    /\ UNCHANGED <<image, call, asked, directories, files, full, report>>

\* Other programs use up, or free, the disk's space.
DiskChanges == full' = ~full /\ UNCHANGED <<image, call, asked, walk, output, report, listed, result>>

Step == \/ SkipEntry \/ Enumerate \/ UnpackDirectory \/ UnpackFile
        \/ LookUp \/ LookUpFails \/ GetFileFails \/ Announce
        \/ OpenFile \/ OpenFails \/ WriteFile \/ WriteFails
        \/ CloseDirectory \/ Finish
Next == List \/ Extract \/ Unpack \/ Step \/ DiskChanges
Spec == Init /\ [][Next]_vars
\* A walk is straight-line C on a running thread.
FairSpec == Spec /\ WF_vars(Step)

-----------------------------------------------------------------------------
(***************************************************************************)
(* Properties                                                              *)
(***************************************************************************)
Frames == [ino : Inodes, pos : Nat \ {0}]
TypeOK ==
    /\ image \in Images
    /\ call \in Calls /\ asked \in SUBSET Paths
    /\ stack \in Seq(Frames) /\ look \in [ino : Inodes, n : Nat]
    /\ pc \in {"idle", "entry", "lookup", "open", "write"}
    /\ pc = "idle" <=> stack = <<>>
    /\ pc \in {"lookup", "open", "write"} => Top.pos \in DOMAIN Entries(Top.ino)
    /\ directories \in SUBSET Paths /\ DOMAIN files \in SUBSET Paths
    /\ \A p \in DOMAIN files : files[p] \in Node
    /\ scratch \in SUBSET Paths /\ full \in BOOLEAN
    /\ told \in Seq(Listed) /\ listed \in Seq(Listed)
    /\ opened \in SUBSET DOMAIN files /\ skipped \in SUBSET Paths
    /\ result \in {"none", "ok", "failed"}

\* No directory has two entries the lookup cannot tell apart.
WellNamed == \A i \in Inodes : \A k, l \in DOMAIN Entries(i) :
                 Same(Entries(i)[k].name, Entries(i)[l].name) => k = l

\* An extracted file gets the contents of the entry the walk stands at: the
\* lookup from the root, which ignores inode numbers, arrives at the inode the
\* recursion came from (pfs_unpack_cb, pfs_unpack_single, pfs_lookup_path).
RightContents == pc \in {"open", "write"} /\ WellNamed => look.ino = Here.ino

\* error() leaves at most one incomplete file behind, and it is the one the
\* last progress callback named (pfs_unpack_single, ios_unpack_pre_cb).
OnePartialFile ==
    \A p \in opened : ~files[p].whole =>
        /\ pc = "write" \/ result = "failed"
        /\ told # <<>> /\ told[Len(told)].path = p

\* The progress callbacks of a successful extraction are its files, each
\* named once: the number on the Done screen is the number of files.
CountIsFiles ==
    pc = "idle" /\ result = "ok" /\ call = "extract" /\ WellNamed =>
        /\ {told[i].path : i \in DOMAIN told} = opened
        /\ Len(told) = Cardinality(opened)

\* The entries of an image, each at the end of a trail of places: from the root
\* through directories that are neither "." nor "..".
Places == UNION {[ino : {i}, pos : DOMAIN Entries(i)] : i \in Inodes}
IsTrail(c) ==
    /\ c[1].ino = Root
    /\ \A k \in DOMAIN c : ~Special(EntryOf(c[k]).name)
    /\ \A k \in 1 .. Len(c) - 1 : /\ EntryOf(c[k]).kind = "directory"
                                  /\ EntryOf(c[k]).ino = c[k + 1].ino
Trails == {c \in UNION {[1 .. n -> Places] : n \in 1 .. MaxDepth} : IsTrail(c)}
NamesOf(c) == [k \in DOMAIN c |-> EntryOf(c[k]).name]
LastOf(c) == EntryOf(c[Len(c)])

AskedFor(p) == asked = {} \/ p \in asked
Succeeded(calls) == pc = "idle" /\ result = "ok" /\ call \in calls

\* A successful extraction has written every file of the image it was asked for,
\* whole and with its own contents, except below what was warned about.
CompleteUnlessSkipped ==
    Succeeded({"extract", "unpack"}) /\ WellNamed =>
        \A c \in Trails :
            LET p == NamesOf(c)
                e == LastOf(c)
            IN  e.kind = "file" /\ KindOf(e.ino) = "file" /\ AskedFor(p) =>
                    \/ p \in opened /\ files[p] = [of |-> e.ino, whole |-> TRUE]
                    \/ \E q \in Prefixes(p) : q \in skipped

\* The files the picker lists are the files "Extract All" writes, where
\* directory entries and inodes agree on what is a directory.
Consistent == \A i \in Inodes : \A k \in DOMAIN Entries(i) :
                  LET e == Entries(i)[k] IN Special(e.name) \/ e.kind = KindOf(e.ino)
ListingMatchesExtraction ==
    Succeeded({"extract"}) /\ asked = {} /\ listed # <<>> /\ WellNamed /\ Consistent =>
        {listed[i].path : i \in {j \in DOMAIN listed : listed[j].kind = "file"}} = opened

\* When the image can be read and its names are distinct, an extraction fails
\* for the output directory's sake only, never because the second walk does
\* not find what the first one saw.
Sound == WellNamed /\ image.bad = {} /\ image.torn = {}
OnlyTheDiskFails ==
    [][Sound /\ pc # "idle" /\ result' = "failed" =>
           (pc = "open" /\ ~Openable) \/ (pc \in {"open", "write"} /\ full)]_vars

\* Every call returns: each entry is passed once and directories end.
CallsReturn == (pc # "idle") ~> (pc = "idle")
=============================================================================
