------------------------------ MODULE MappedFile ------------------------------
(***************************************************************************)
(* mapped_file.c: a file, or a file in pieces, as one range of memory, or, *)
(* where the system refuses to map it (iOS does from 2 GB on), as a        *)
(* descriptor that is read with pread.                                     *)
(*                                                                         *)
(* Sizes are in cells; cell k of a file is named <<path, k>>.  fds and     *)
(* regions are what the process really has open and mapped, the fields of  *)
(* a map and the locals of map_files what the code knows of.  Memory for   *)
(* the structures themselves is there, and so is standard input: no piece  *)
(* gets descriptor 0, which unmap_file would not close.                    *)
(* map_file_sub_region and pwrite are left out: only the repack command,   *)
(* which no build has, uses them.                                          *)
(***************************************************************************)
EXTENDS Integers, Sequences

CONSTANTS Paths, Slots,     \* files, and the variables of callers that hold a map
          PageSize,
          Sizes,            \* bound: how many cells each file may have
          Apple             \* built for iOS or macOS: __APPLE__

Absent == -1
ASSUME MapAssumption == /\ PageSize \in Nat \ {0} /\ Apple \in BOOLEAN
                        /\ Sizes \in [Paths -> SUBSET ({Absent} \cup Nat)]

VARIABLES disk,             \* size of each file, or Absent
          maps,             \* the caller's struct file_map *
          job,              \* locals of the map_files or map_pread that runs
          fds, regions      \* of the process: which piece of which map

mapVars == <<maps, job, fds, regions>>

Null == [state |-> "null", paths |-> <<>>, sizes |-> <<>>, fds |-> {}, segs |-> {}]
Idle == [pc |-> "idle", slot |-> "none", i |-> 0, fd |-> 0, data |-> "failed",
         off |-> 0, len |-> 0, got |-> <<>>, status |-> "none"]

Disks == {d \in [Paths -> UNION {Sizes[p] : p \in Paths}] : \A p \in Paths : d[p] \in Sizes[p]}
MapInit == /\ disk \in Disks
           /\ maps = [s \in Slots |-> Null] /\ job = Idle
           /\ fds = {} /\ regions = {}

(***************************************************************************)
(* map_files                                                               *)
(***************************************************************************)
Slot == job.slot
Map == maps[Slot]
Single == Len(Map.paths) = 1

StartMap(s, paths) ==
    /\ job' = [Idle EXCEPT !.pc = "stat", !.slot = s, !.i = 1]
    /\ maps' = [maps EXCEPT ![s] = [Null EXCEPT !.state = "making", !.paths = paths]]
    /\ UNCHANGED <<fds, regions>>

Fails == job' = [job EXCEPT !.pc = "error"]
\* The process ends inside map_files.
Fault == job' = [job EXCEPT !.pc = "fault"] /\ UNCHANGED <<maps, fds, regions>>
\* Every piece is looked at first; then, for several, a range is found for them.
Stat == /\ job.pc = "stat"
        /\ \/ /\ \A k \in DOMAIN Map.paths : disk[Map.paths[k]] # Absent
              /\ maps' = [maps EXCEPT ![Slot].sizes =
                             [k \in DOMAIN Map.paths |-> disk[Map.paths[k]]]]
              /\ \/ Single /\ job' = [job EXCEPT !.pc = "open"]
                 \/ ~Single /\ job' = [job EXCEPT !.pc = "open", !.data = "null"]
                 \/ ~Single /\ Fails
           \/ /\ \E k \in DOMAIN Map.paths : disk[Map.paths[k]] = Absent
              /\ Fails /\ UNCHANGED maps
        /\ UNCHANGED <<disk, fds, regions>>

\* open, and fstat: the file must have the size that it had before.
OpenPiece ==
    /\ job.pc = "open"
    /\ \/ /\ disk[Map.paths[job.i]] # Absent
          /\ fds' = fds \cup {<<Slot, job.i>>}
          /\ job' = [job EXCEPT !.fd = job.i, !.pc =
                        IF disk[Map.paths[job.i]] = Map.sizes[job.i] THEN "mmap" ELSE "error"]
       \/ Fails /\ UNCHANGED fds
    /\ UNCHANGED <<disk, maps, regions>>

\* The cells of the pieces before piece k.
Base(sizes) == LET base[k \in Nat] == IF k <= 1 THEN 0 ELSE base[k - 1] + sizes[k - 1]
               IN  [k \in 1 .. Len(sizes) + 1 |-> base[k]]
Size(m) == Base(m.sizes)[Len(m.sizes) + 1]

\* The piece is handed over to the map.
Keep(state) ==
    /\ maps' = [maps EXCEPT ![Slot].fds = @ \cup {job.fd}, ![Slot].segs = @ \cup {job.i},
                            ![Slot].state = state]
    /\ job' = IF state = "making"
              THEN [job EXCEPT !.fd = 0, !.data = "failed", !.i = @ + 1, !.pc = "open"]
              ELSE Idle

\* A single file at any address, of which the first bytes are then read; a
\* piece at the end of the one before, where a page must begin.
MapPiece ==
    /\ job.pc = "mmap"
    /\ Map.sizes[job.i] > 0 /\ (Single \/ Base(Map.sizes)[job.i] % PageSize = 0)
    /\ regions' = regions \cup {<<Slot, job.i>>}
    /\ \/ Single /\ job' = [job EXCEPT !.pc = "probe", !.data = "region"] /\ UNCHANGED maps
       \/ ~Single /\ Keep(IF job.i = Len(Map.paths) THEN "mapped" ELSE "making")
       \/ ~Single /\ job' = [job EXCEPT !.pc = "error", !.data = "region"] /\ UNCHANGED maps
    /\ UNCHANGED <<disk, fds>>

\* mmap fails.  A single file is then read through its descriptor on iOS.
MapRefused ==
    /\ job.pc = "mmap"
    /\ \/ /\ Single /\ Apple
          /\ maps' = [maps EXCEPT ![Slot].fds = {job.fd}, ![Slot].state = "pread"]
          /\ job' = Idle
       \/ ~(Single /\ Apple) /\ job' = [job EXCEPT !.pc = "error", !.data = "failed"]
          /\ UNCHANGED maps
    /\ UNCHANGED <<disk, fds, regions>>

\* Descriptors and regions that unmap_file gives back.
FdsOf(s) == {<<s, k>> : k \in maps[s].fds}
SegsOf(s) == {<<s, k>> : k \in maps[s].segs}

\* Mutant: the local descriptor is forgotten.
MutantMapFails ==
    /\ job.pc = "error"
    /\ \/ /\ fds' = fds \ FdsOf(Slot)
          /\ regions' = regions \ (SegsOf(Slot) \cup
                                   IF job.data = "region" THEN {<<Slot, job.i>>} ELSE {})
          /\ maps' = [maps EXCEPT ![Slot] = Null] /\ job' = Idle
       \/ job.data = "null" /\ Fault
    /\ UNCHANGED disk
\* The error exit: unmap_file for what was handed over, then the locals.  Before
\* the first of several pieces is mapped data is NULL, and munmap takes what the
\* process has from address 0 on: nothing, or its own code.
MapFails ==
    /\ job.pc = "error"
    /\ \/ /\ fds' = fds \ (FdsOf(Slot) \cup IF job.fd > 0 THEN {<<Slot, job.fd>>} ELSE {})
          /\ regions' = regions \ (SegsOf(Slot) \cup
                                   IF job.data = "region" THEN {<<Slot, job.i>>} ELSE {})
          /\ maps' = [maps EXCEPT ![Slot] = Null] /\ job' = Idle
       \/ job.data = "null" /\ Fault
    /\ UNCHANGED disk

\* unmap_file; its caller keeps the pointer, or sets it to NULL.
Unmap(s, left) ==
    /\ fds' = fds \ FdsOf(s) /\ regions' = regions \ SegsOf(s)
    /\ maps' = [maps EXCEPT ![s] = [Null EXCEPT !.state = left]]

(***************************************************************************)
(* Reading a map                                                           *)
(***************************************************************************)
\* Where cell n of the map is in its files.  What a file no longer has, and the
\* rest of the last page, is zero.
Place(m, n) == LET k == CHOOSE k \in DOMAIN m.paths :
                            Base(m.sizes)[k] <= n /\ n < Base(m.sizes)[k + 1]
               IN  [path |-> m.paths[k], at |-> n - Base(m.sizes)[k]]
Zero == <<"zero", 0>>
Cell(m, n) == IF n >= Size(m) \/ Place(m, n).at >= disk[Place(m, n).path] THEN Zero
              ELSE <<Place(m, n).path, Place(m, n).at>>
Cells(m, off, len) == [k \in 1 .. len |-> Cell(m, off + k - 1)]
UpToPage(n) == ((n + PageSize - 1) \div PageSize) * PageSize
\* Pages behind the map, or behind the end of a file that was cut, cannot be
\* read: the process gets a SIGBUS.
Readable(m, off, len) ==
    /\ off + len <= UpToPage(Size(m))
    /\ \A n \in off .. off + len - 1 : n < Size(m) =>
          Place(m, n).at < UpToPage(disk[Place(m, n).path])

\* The first bytes of a single file: is the map alive?
Probe == /\ job.pc = "probe"
         /\ \/ Readable(Map, 0, 1) /\ Keep("mapped") /\ UNCHANGED <<fds, regions>>
            \/ ~Readable(Map, 0, 1) /\ Fault
         /\ UNCHANGED disk

StartPread(s, off, len) ==
    /\ job' = [Idle EXCEPT !.pc = "pread", !.slot = s, !.off = off, !.len = len]
    /\ UNCHANGED <<maps, fds, regions>>

\* Mutant: every round reads from where the first began.
MutantNextCell == job.off
NextCell == job.off + Len(job.got)
Left == job.len - Len(job.got)
\* One round of map_pread; pread may stop short, at the end of the file it
\* returns nothing, and it may fail.
Pread ==
    /\ job.pc = "pread" /\ Left > 0
    /\ \/ \E n \in 1 .. Left :
             /\ NextCell + n <= disk[Map.paths[1]]
             /\ job' = [job EXCEPT !.got = @ \o [k \in 1 .. n |->
                           <<Map.paths[1], NextCell + k - 1>>]]
       \/ job' = [job EXCEPT !.pc = "read", !.status = "error"]
    /\ UNCHANGED <<disk, maps, fds, regions>>
PreadEnds ==
    /\ job.pc = "pread" /\ Left = 0
    /\ job' = [job EXCEPT !.pc = "read", !.status = "ok"]
    /\ UNCHANGED <<disk, maps, fds, regions>>

MapStep == \/ Stat \/ OpenPiece \/ MapPiece \/ Probe \/ MapRefused \/ MapFails
           \/ Pread \/ PreadEnds

(***************************************************************************)
(* Properties                                                              *)
(***************************************************************************)
Making(s) == job.pc \in {"stat", "open", "mmap", "probe", "error", "fault"} /\ job.slot = s
\* At every point of map_files, whichever call of the system failed, the
\* process has open and mapped what the maps and the locals know of, each piece
\* once: nothing is lost and nothing is given back twice.
NothingLost ==
    /\ fds = (UNION {FdsOf(s) : s \in Slots}) \cup
             (IF job.fd > 0 THEN {<<Slot, job.fd>>} ELSE {})
    /\ regions = (UNION {SegsOf(s) : s \in Slots}) \cup
                 (IF job.data = "region" THEN {<<Slot, job.i>>} ELSE {})
    /\ job.fd > 0 => job.fd \notin Map.fds
    /\ \A s \in Slots : maps[s].state = "making" <=> Making(s)
=============================================================================
