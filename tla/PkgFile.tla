------------------------------- MODULE PkgFile -------------------------------
(***************************************************************************)
(* The file side of pkg.c: pkg_alloc maps a package, whole or in pieces    *)
(* ('%' in its path stands for the number of the piece), finds the header, *)
(* the entry table and the entries' data, and the io callbacks of the      *)
(* outer PFS read the image out of it.  Everything is at the place the     *)
(* package's header says; keys and PFS layers are in PkgEngine.            *)
(***************************************************************************)
EXTENDS MappedFile

CONSTANTS Package, Piece,       \* paths: of a package in one file, [0 .. n -> Paths]
          HeaderSize,           \* PKG_HEADER_SIZE
          TableAt, DataAt,      \* entry_table_offset, and where an entry has its data
          ImageAt, ImageSize,   \* pfs_image_offset, pfs_image_size
          PieceSize,            \* 4 GiB
          Requests              \* bound: offsets and lengths asked of the image

ASSUME PkgAssumption == /\ {"probe", "pkg"} \subseteq Slots
                        /\ {HeaderSize, PieceSize} \subseteq Nat \ {0}
                        /\ {ImageAt, ImageSize} \subseteq Nat
                        /\ {TableAt, DataAt} \subseteq 0 .. ImageAt + ImageSize - 1
                        /\ Requests \subseteq [off : Nat, len : Nat]

VARIABLES phase,
          input,                \* the path given: the whole package, or a pattern
          hdr,                  \* pkg->hdr: in the map, or a buffer of its own
          offset,               \* pkg->pfs_offset
          answer,               \* of the last read of the image
          wild                  \* history: reads of memory that is not there
pkgVars == <<phase, input, hdr, offset, answer, wild>>
fileVars == <<disk, mapVars, pkgVars>>

NoAnswer == [is |-> "none", off |-> 0, cells |-> <<>>]
PkgInit == /\ phase = "closed" /\ input = "none" /\ hdr = "none" /\ offset = 0
           /\ answer = NoAnswer /\ wild = {}

PackageSize == ImageAt + ImageSize
\* Mutant: a last piece that is not full is not counted.
MutantPieceCount == PackageSize \div PieceSize
\* get_pkg_piece_count
PieceCount == (PackageSize + PieceSize - 1) \div PieceSize
Pieces == [k \in 1 .. PieceCount |-> Piece[k - 1]]
ASSUME PieceAssumption == /\ Package \in Paths
                          /\ \A k \in 0 .. PieceCount - 1 : Piece[k] \in Paths

Ready == job.pc = "idle"
\* The process ends where memory cannot be read, and takes all it has with it.
Crash == /\ phase' = "crashed" /\ UNCHANGED <<maps, job, fds, regions>>

(***************************************************************************)
(* pkg_alloc                                                               *)
(***************************************************************************)
\* A path with a '%' is taken for a pattern, whatever it was meant to be.
Alloc(kind) ==
    /\ phase = "closed" /\ Ready /\ input' = kind
    /\ \/ /\ kind = "pattern" /\ phase' = "probe" /\ StartMap("probe", <<Piece[0]>>)
       \/ /\ kind = "whole" /\ phase' = "map" /\ StartMap("pkg", <<Package>>)
    /\ UNCHANGED <<disk, hdr, offset, answer, wild>>

\* get_pkg_total_size: the header of the first piece.
ProbeHeader ==
    /\ phase = "probe" /\ Ready
    /\ \/ /\ maps["probe"].state = "null" /\ phase' = "failed"
          /\ UNCHANGED <<maps, job, fds, regions>>
       \/ /\ maps["probe"].state = "pread" /\ phase' = "probing"
          /\ StartPread("probe", 0, HeaderSize)
       \/ /\ maps["probe"].state = "mapped"
          /\ IF Readable(maps["probe"], 0, HeaderSize)
             THEN phase' = "probed" /\ UNCHANGED <<maps, job, fds, regions>>
             ELSE Crash
    /\ UNCHANGED <<disk, input, hdr, offset, answer, wild>>
ProbeRead ==
    /\ phase = "probing" /\ job.pc = "read"
    /\ IF job.status = "ok"
       THEN phase' = "probed" /\ job' = Idle /\ UNCHANGED <<maps, fds, regions>>
       ELSE phase' = "failed" /\ job' = Idle /\ Unmap("probe", "null")
    /\ UNCHANGED <<disk, input, hdr, offset, answer, wild>>
ProbeUnmap ==
    /\ phase = "probed" /\ Unmap("probe", "null") /\ phase' = "counted"
    /\ UNCHANGED <<disk, job, input, hdr, offset, answer, wild>>
MapPieces ==
    /\ phase = "counted" /\ StartMap("pkg", Pieces) /\ phase' = "map"
    /\ UNCHANGED <<disk, input, hdr, offset, answer, wild>>

\* The header: read once into a buffer of its own size, or where it is mapped.
Header ==
    /\ phase = "map" /\ Ready
    /\ \/ /\ maps["pkg"].state = "null" /\ phase' = "failed"
          /\ UNCHANGED <<maps, job, fds, regions, hdr>>
       \/ /\ maps["pkg"].state = "pread" /\ phase' = "header" /\ hdr' = "buffer"
          /\ StartPread("pkg", 0, HeaderSize)
       \/ /\ maps["pkg"].state = "mapped" /\ hdr' = "map"
          /\ IF Readable(maps["pkg"], 0, HeaderSize)
             THEN phase' = "entries" /\ UNCHANGED <<maps, job, fds, regions>>
             ELSE Crash
    /\ UNCHANGED <<disk, input, offset, answer, wild>>
HeaderRead ==
    /\ phase = "header" /\ job.pc = "read" /\ job' = Idle
    /\ phase' = IF job.status = "ok" THEN "entries" ELSE "undo"
    /\ UNCHANGED <<disk, maps, fds, regions, input, hdr, offset, answer, wild>>

\* A place found from pkg->hdr when that is the buffer.
InHeader(at) == at < HeaderSize
\* The entry table (pkg_find_entry, pkg_enum_entries) and an entry's data
\* (pkg_locate_entry_data): both from pkg->hdr, without looking at their offsets.
Gone(at) == hdr = "map" /\ ~Readable(maps["pkg"], at, 1)
Stray(at) == hdr = "buffer" /\ ~InHeader(at)
Entry(at) == wild' = IF Stray(at) THEN wild \cup {at} ELSE wild
\* What lies behind the buffer is other memory of the process, or none.
Entries ==
    /\ phase = "entries" /\ Entry(TableAt)
    /\ \/ /\ ~Gone(TableAt) /\ phase' \in {"open", "undo"}
          /\ UNCHANGED <<maps, job, fds, regions>>
       \/ (Gone(TableAt) \/ Stray(TableAt)) /\ Crash
    /\ UNCHANGED <<disk, input, hdr, offset, answer>>
EntryData ==
    /\ phase = "open" /\ Ready /\ Entry(DataAt)
    /\ \/ ~Gone(DataAt) /\ UNCHANGED <<phase, maps, job, fds, regions>>
       \/ (Gone(DataAt) \/ Stray(DataAt)) /\ Crash
    /\ UNCHANGED <<disk, input, hdr, offset, answer>>

\* The error exit, or pkg_free.
GiveBack == /\ Unmap("pkg", "null") /\ hdr' = "none" /\ offset' = 0
            /\ answer' = NoAnswer
Undo == /\ phase = "undo" /\ GiveBack /\ phase' = "failed"
        /\ UNCHANGED <<disk, job, input, wild>>
Free == /\ phase = "open" /\ Ready /\ GiveBack /\ phase' = "closed" /\ input' = "none"
        /\ UNCHANGED <<disk, job, wild>>
Failed == /\ phase = "failed" /\ phase' = "closed" /\ input' = "none"
          /\ UNCHANGED <<disk, mapVars, hdr, offset, answer, wild>>

(***************************************************************************)
(* The io callbacks of the outer PFS                                       *)
(***************************************************************************)
\* pfs_seek_cb and then pfs_read_cb, as pfs_read_blocks calls them.
Answer(is, off, cells) == answer' = [is |-> is, off |-> off, cells |-> cells]
ReadImage ==
    /\ phase = "open" /\ Ready
    /\ \E r \in Requests :
          \/ /\ r.off > ImageSize
             /\ Answer("error", r.off, <<>>) /\ UNCHANGED <<phase, mapVars, offset>>
          \/ /\ r.off <= ImageSize /\ r.off + r.len > ImageSize /\ offset' = r.off
             /\ Answer("error", r.off, <<>>) /\ UNCHANGED <<phase, mapVars>>
          \/ /\ r.off + r.len <= ImageSize /\ offset' = r.off
             /\ \/ /\ maps["pkg"].state = "pread" /\ phase' = "reading"
                   /\ answer' = NoAnswer
                   /\ StartPread("pkg", ImageAt + r.off, r.len)
                \/ /\ maps["pkg"].state = "mapped"
                   /\ IF Readable(maps["pkg"], ImageAt + r.off, r.len)
                      THEN /\ Answer("ok", r.off, Cells(maps["pkg"], ImageAt + r.off, r.len))
                           /\ UNCHANGED <<phase, mapVars>>
                      ELSE Crash /\ UNCHANGED answer
    /\ UNCHANGED <<disk, input, hdr, wild>>
ImageRead ==
    /\ phase = "reading" /\ job.pc = "read" /\ job' = Idle /\ phase' = "open"
    /\ Answer(job.status, offset, IF job.status = "ok" THEN job.got ELSE <<>>)
    /\ UNCHANGED <<disk, maps, fds, regions, input, hdr, offset, wild>>

PkgStep == \/ ProbeHeader \/ ProbeRead \/ ProbeUnmap \/ MapPieces \/ Header
           \/ HeaderRead \/ Entries \/ Undo \/ Failed \/ ImageRead
PkgUse == EntryData \/ ReadImage

\* Another program cuts a file, or adds to it; before it is looked at that is
\* no more than another size to begin with.
Used == UNION {{maps[s].paths[k] : k \in DOMAIN maps[s].paths} : s \in Slots}
FileChanges == /\ phase # "crashed" /\ job.pc # "fault"
               /\ \E p \in Used : /\ disk[p] # Absent
                                  /\ \E n \in Sizes[p] \ {Absent} : disk' = [disk EXCEPT ![p] = n]
               /\ UNCHANGED <<mapVars, pkgVars>>
Relaunch == /\ phase = "crashed" \/ job.pc = "fault"
            /\ phase' = "closed" /\ input' = "none"
            /\ hdr' = "none" /\ offset' = 0 /\ answer' = NoAnswer /\ wild' = {}
            /\ maps' = [s \in Slots |-> Null] /\ job' = Idle /\ fds' = {} /\ regions' = {}
            /\ UNCHANGED disk

FileInit == MapInit /\ PkgInit
FileNext == \/ \E kind \in {"whole", "pattern"} : Alloc(kind)
            \/ MapStep /\ UNCHANGED pkgVars
            \/ PkgStep \/ PkgUse \/ Free \/ FileChanges \/ Relaunch
FileSpec == FileInit /\ [][FileNext]_fileVars

(***************************************************************************)
(* Properties                                                              *)
(***************************************************************************)
\* Where cell n of the package is, by its header.
PackageCell(n) == IF input = "whole" THEN <<Package, n>>
                  ELSE <<Piece[n \div PieceSize], n % PieceSize>>
\* The pieces but the last have the size that a piece has.
CutRight == \A k \in 1 .. Len(maps["pkg"].sizes) - 1 : maps["pkg"].sizes[k] = PieceSize
\* A read of the image that succeeds has the cells of the package it was asked
\* for, from the map or by pread in rounds of any length, across the border of
\* two pieces or not; or zeros, but only from a mapped file that has no more.
ReadsThePackage ==
    phase = "open" /\ answer.is = "ok" /\ CutRight =>
        \A k \in DOMAIN answer.cells :
            \/ answer.cells[k] = PackageCell(ImageAt + answer.off + k - 1)
            \/ answer.cells[k] = Zero /\ maps["pkg"].state = "mapped"

\* What the package needs of its k-th file: its part of the package, and of the
\* first the header, which is read whatever it says.
Share(k) == IF input = "whole" \/ PackageSize < k * PieceSize
            THEN PackageSize - (k - 1) * PieceSize ELSE PieceSize
Need(k) == IF k = 1 /\ Share(k) < HeaderSize THEN HeaderSize ELSE Share(k)
TooShort(s) == \E k \in DOMAIN maps[s].sizes :
                  maps[s].sizes[k] < Need(k) \/ disk[maps[s].paths[k]] < maps[s].sizes[k]
\* What ended the process outside map_files, and inside it.
CrashCause == phase = "crashed" =>
    \/ \E s \in {"probe", "pkg"} : maps[s].state = "mapped" /\ TooShort(s)
    \/ maps["pkg"].state = "pread" /\ \E at \in {TableAt, DataAt} \cap wild : ~InHeader(at)
FaultCause == job.pc = "fault" =>
    IF Single THEN disk[Map.paths[1]] < Map.sizes[1] ELSE Map.segs = {}
\* Reading a package ends the process only when one of its mapped files is
\* shorter than a header or than the header makes it, or was cut meanwhile, or
\* when it could not be mapped and an entry was looked for behind the header.
\* Mapping one ends it only when the file was cut, or none of several was mapped.
CrashesForACause == CrashCause /\ FaultCause
\* An entry is read from the header that was read ("entry data lives in the
\* header region which was already read into pkg->hdr").
EntriesAreInTheHeader == wild = {}
=============================================================================
