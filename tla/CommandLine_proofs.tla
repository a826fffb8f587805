-------------------------- MODULE CommandLine_proofs --------------------------
(***************************************************************************)
(* What map_files and its callers open they know of, at every step of a    *)
(* run of the command line; and where a handler may meet no image, or a    *)
(* map be given back twice: for every package, every set of command lines  *)
(* and every behaviour of the disk.  At the end: what the exit status      *)
(* says (StatusIsTrue).                                                    *)
(***************************************************************************)
EXTENDS CommandLine, TLAPS

(***************************************************************************)
(* The invariant of the maps                                               *)
(***************************************************************************)
MapRecord == [state : {"null", "making", "mapped", "pread", "freed"}, paths : Seq(Paths),
              sizes : Seq(Int), fds : SUBSET Nat, segs : SUBSET Nat]
JobRecord == [pc : {"idle", "stat", "open", "mmap", "probe", "error", "fault", "pread", "read"},
              slot : Slots \cup {"none"}, i : Nat, fd : Nat,
              data : {"failed", "null", "region"}, off : Int, len : Int,
              got : Seq(Paths \X Int), status : {"none", "ok", "error"}]
MapTypes == /\ disk \in [Paths -> Int]
            /\ maps \in [Slots -> MapRecord] /\ job \in JobRecord
            /\ job.pc # "idle" => job.slot \in Slots

\* What each step of map_files has in its locals.
Locals ==
    /\ job.pc \notin {"mmap", "probe", "error", "fault"} => job.fd = 0
    /\ job.pc \notin {"probe", "error", "fault"} => job.data # "region"
    /\ job.pc \in {"stat", "open", "mmap", "probe"} =>
          /\ job.i \in 1 .. Len(Map.paths)
          /\ \A k \in Map.fds : k \in 1 .. job.i - 1
    /\ job.pc \in {"mmap", "probe"} => job.fd = job.i
    /\ job.pc = "probe" => job.data = "region" /\ Single
    /\ job.pc = "stat" => Map.segs = {}
    /\ job.data = "null" => /\ job.pc \in {"open", "mmap", "error", "fault"}
                            /\ ~Single /\ Map.segs = {}
    /\ job.fd > 0 => job.fd \notin Map.fds
    /\ job.pc = "pread" => Len(Map.paths) = 1

\* NothingLost, one descriptor and one region at a time.
FdsKnown == /\ fds \subseteq Slots \X Nat
            /\ \A s \in Slots, k \in Nat :
                  <<s, k>> \in fds <=> k \in maps[s].fds \/ (job.fd > 0 /\ s = job.slot /\ k = job.fd)
RegionsKnown == /\ regions \subseteq Slots \X Nat
                /\ \A s \in Slots, k \in Nat :
                      <<s, k>> \in regions <=>
                          k \in maps[s].segs \/ (job.data = "region" /\ s = job.slot /\ k = job.i)
MakingKnown == \A s \in Slots : maps[s].state = "making" <=> Making(s)
\* A map that is not there, or was given back, holds nothing; one that is read
\* with pread is of one file.
Bare(m) == m.fds = {} /\ m.segs = {}
NullsEmpty == \A s \in Slots : /\ maps[s].state \in {"null", "freed"} => Bare(maps[s])
                               /\ maps[s].state = "pread" => Len(maps[s].paths) = 1
MapInv == MapTypes /\ Locals /\ FdsKnown /\ RegionsKnown /\ MakingKnown /\ NullsEmpty

\* Only the map that is made is changed by a step of map_files, and none is
\* given back.
OthersKept == \A s \in Slots : /\ maps[s].state # "making" => maps'[s] = maps[s]
                               /\ maps'[s].state = "freed" => maps[s].state = "freed"

LEMMA KnownIsNothingLost == ASSUME MapInv PROVE NothingLost
<1>1. fds = (UNION {FdsOf(s) : s \in Slots}) \cup
            (IF job.fd > 0 THEN {<<job.slot, job.fd>>} ELSE {})
  <2>1. job.fd > 0 => job.slot \in Slots /\ job.fd \in Nat
    BY SMT DEF MapInv, MapTypes, Locals, JobRecord
  <2>2. \A s \in Slots : maps[s].fds \subseteq Nat
    BY SMT DEF MapInv, MapTypes, MapRecord
  <2>3. ASSUME NEW x \in fds
        PROVE  x \in UNION {FdsOf(s) : s \in Slots} \/ (job.fd > 0 /\ x = <<job.slot, job.fd>>)
    <3>1. PICK s \in Slots, k \in Nat : x = <<s, k>>
      BY <2>3 DEF MapInv, FdsKnown
    <3>2. k \in maps[s].fds \/ (job.fd > 0 /\ s = job.slot /\ k = job.fd)
      BY <2>3, <3>1, Zenon DEF MapInv, FdsKnown
    <3> QED BY <3>1, <3>2 DEF FdsOf
  <2>4. ASSUME NEW s \in Slots, NEW x \in FdsOf(s) PROVE x \in fds
    <3>1. PICK k \in maps[s].fds : x = <<s, k>>
      BY <2>4, Zenon DEF FdsOf
    <3>2. k \in Nat /\ k \in maps[s].fds
      BY <2>2, <3>1
    <3>3. <<s, k>> \in fds
      BY <3>2, Zenon DEF MapInv, FdsKnown
    <3> QED BY <3>1, <3>3
  <2>5. job.fd > 0 => <<job.slot, job.fd>> \in fds
    BY <2>1, Zenon DEF MapInv, FdsKnown
  <2> QED BY <2>3, <2>4, <2>5, Zenon
<1>2. regions = (UNION {SegsOf(s) : s \in Slots}) \cup
                (IF job.data = "region" THEN {<<job.slot, job.i>>} ELSE {})
  <2>1. job.data = "region" => job.slot \in Slots /\ job.i \in Nat
    BY SMT DEF MapInv, MapTypes, Locals, JobRecord
  <2>2. \A s \in Slots : maps[s].segs \subseteq Nat
    BY SMT DEF MapInv, MapTypes, MapRecord
  <2>3. ASSUME NEW x \in regions
        PROVE  x \in UNION {SegsOf(s) : s \in Slots}
               \/ (job.data = "region" /\ x = <<job.slot, job.i>>)
    <3>1. PICK s \in Slots, k \in Nat : x = <<s, k>>
      BY <2>3 DEF MapInv, RegionsKnown
    <3>2. k \in maps[s].segs \/ (job.data = "region" /\ s = job.slot /\ k = job.i)
      BY <2>3, <3>1, Zenon DEF MapInv, RegionsKnown
    <3> QED BY <3>1, <3>2 DEF SegsOf
  <2>4. ASSUME NEW s \in Slots, NEW x \in SegsOf(s) PROVE x \in regions
    <3>1. PICK k \in maps[s].segs : x = <<s, k>>
      BY <2>4, Zenon DEF SegsOf
    <3>2. k \in Nat /\ k \in maps[s].segs
      BY <2>2, <3>1
    <3>3. <<s, k>> \in regions
      BY <3>2, Zenon DEF MapInv, RegionsKnown
    <3> QED BY <3>1, <3>3
  <2>5. job.data = "region" => <<job.slot, job.i>> \in regions
    BY <2>1, Zenon DEF MapInv, RegionsKnown
  <2> QED BY <2>3, <2>4, <2>5, Zenon
<1> QED BY <1>1, <1>2, Zenon DEF NothingLost, Slot, Map, MapInv, Locals, MakingKnown

(***************************************************************************)
(* One step of map_files or map_pread                                      *)
(***************************************************************************)
USE DEF Slot, Map, Making

\* A step of map_files that leaves m in the map that it makes, seen from the
\* outside: what has changed is this map, the locals, and what is open.
LEMMA OneMapChanges ==
    ASSUME MapInv, job.slot \in Slots, Map.state = "making",
           NEW m \in MapRecord, maps' = [maps EXCEPT ![job.slot] = m],
           disk' = disk, job' \in JobRecord, Locals',
           job'.slot = job.slot \/ (job'.slot = "none" /\ job'.pc = "idle"),
           job'.pc \notin {"pread", "read"},
           m.state = "making" <=> job'.pc # "idle", m.state # "freed",
           m.state = "null" => Bare(m), m.state = "pread" => Len(m.paths) = 1,
           fds' \subseteq Slots \X Nat, regions' \subseteq Slots \X Nat,
           \A s \in Slots \ {job.slot}, k \in Nat :
               (<<s, k>> \in fds' <=> <<s, k>> \in fds)
               /\ (<<s, k>> \in regions' <=> <<s, k>> \in regions),
           \A k \in Nat : <<job.slot, k>> \in fds' <=> k \in m.fds \/ (job'.fd > 0 /\ k = job'.fd),
           \A k \in Nat : <<job.slot, k>> \in regions' <=>
               k \in m.segs \/ (job'.data = "region" /\ k = job'.i)
    PROVE  MapInv' /\ OthersKept
<1> DEFINE sl == job.slot
<1>1. /\ maps'[sl] = m /\ \A s \in Slots \ {sl} : maps'[s] = maps[s]
      /\ maps' \in [Slots -> MapRecord]
  BY DEF MapInv, MapTypes
<1>2. MapTypes'
  BY <1>1, Zenon DEF MapInv, MapTypes
<1>3. job'.pc = "idle" => job'.fd = 0 /\ job'.data # "region"
  BY Zenon DEF Locals
<1>4. FdsKnown'
  <2>1. ASSUME NEW s \in Slots, NEW k \in Nat
        PROVE  <<s, k>> \in fds' <=>
                   k \in maps'[s].fds \/ (job'.fd > 0 /\ s = job'.slot /\ k = job'.fd)
    <3>1. CASE s = sl
      BY <1>1, <1>3, <3>1 DEF JobRecord
    <3>2. CASE s # sl
      <4>1. <<s, k>> \in fds' <=> k \in maps[s].fds
        BY <3>2, Zenon DEF MapInv, FdsKnown
      <4>2. maps'[s] = maps[s]
        BY <1>1, <3>2
      <4>3. ~(job'.fd > 0 /\ s = job'.slot /\ k = job'.fd)
        BY <1>3, <3>2 DEF JobRecord
      <4> QED BY <4>1, <4>2, <4>3, Zenon
    <3> QED BY <3>1, <3>2
  <2> QED BY <2>1, Zenon DEF FdsKnown
<1>5. RegionsKnown'
  <2>1. ASSUME NEW s \in Slots, NEW k \in Nat
        PROVE  <<s, k>> \in regions' <=>
                   k \in maps'[s].segs \/ (job'.data = "region" /\ s = job'.slot /\ k = job'.i)
    <3>1. CASE s = sl
      BY <1>1, <1>3, <3>1
    <3>2. CASE s # sl
      <4>1. <<s, k>> \in regions' <=> k \in maps[s].segs
        BY <3>2, Zenon DEF MapInv, RegionsKnown
      <4>2. maps'[s] = maps[s]
        BY <1>1, <3>2
      <4>3. ~(job'.data = "region" /\ s = job'.slot /\ k = job'.i)
        BY <1>3, <3>2
      <4> QED BY <4>1, <4>2, <4>3, Zenon
    <3> QED BY <3>1, <3>2
  <2> QED BY <2>1, Zenon DEF RegionsKnown
<1>6. MakingKnown'
  <2>1. Making(sl)
    BY Zenon DEF MapInv, MakingKnown
  <2>2. ASSUME NEW s \in Slots PROVE (maps[s].state = "making" <=> Making(s))'
    <3>1. CASE s = sl
      BY <1>1, <3>1 DEF JobRecord
    <3>2. CASE s # sl
      <4>1. maps[s].state # "making"
        BY <2>1, <3>2, Zenon DEF MapInv, MakingKnown
      <4> QED BY <1>1, <3>2, <4>1
    <3> QED BY <3>1, <3>2
  <2> QED BY <2>2, Zenon DEF MakingKnown
<1>7. NullsEmpty'
  BY <1>1 DEF MapInv, NullsEmpty
<1>8. OthersKept
  BY <1>1 DEF OthersKept
<1> QED BY <1>2, <1>4, <1>5, <1>6, <1>7, <1>8, Zenon DEF MapInv

\* The locals only, of a read or of nothing.
LEMMA NothingChanges ==
    ASSUME MapInv, job.pc \in {"idle", "pread", "read"}, UNCHANGED <<disk, maps, fds, regions>>,
           job' \in JobRecord, job'.pc \in {"idle", "pread", "read"},
           job'.fd = 0, job'.data = "failed", job'.pc # "idle" => job'.slot \in Slots,
           job'.pc = "pread" => Len(maps[job'.slot].paths) = 1
    PROVE  MapInv' /\ OthersKept
<1>1. job.fd = 0 /\ job.data # "region" /\ ~(job.fd > 0) /\ ~(job'.fd > 0)
  BY DEF MapInv, Locals
<1>2. MapTypes'
  BY DEF MapInv, MapTypes
<1>3. Locals'
  BY DEF Locals
<1>4. FdsKnown'
  BY <1>1, Zenon DEF MapInv, FdsKnown
<1>5. RegionsKnown'
  BY <1>1, Zenon DEF MapInv, RegionsKnown
<1>6. MakingKnown'
  BY DEF MapInv, MakingKnown
<1>7. NullsEmpty' /\ OthersKept
  BY DEF MapInv, NullsEmpty, OthersKept
<1> QED BY <1>2, <1>3, <1>4, <1>5, <1>6, <1>7, Zenon DEF MapInv

\* What holds of the map and of the locals before each step of map_files.
LEMMA BeforeStep ==
    ASSUME MapInv, job.pc \in {"stat", "open", "mmap", "probe", "error"}
    PROVE  /\ job.slot \in Slots /\ Map \in MapRecord /\ Map.state = "making"
           /\ job \in JobRecord /\ fds \subseteq Slots \X Nat /\ regions \subseteq Slots \X Nat
           /\ \A k \in Nat : <<job.slot, k>> \in fds <=>
                  k \in Map.fds \/ (job.fd > 0 /\ k = job.fd)
           /\ \A k \in Nat : <<job.slot, k>> \in regions <=>
                  k \in Map.segs \/ (job.data = "region" /\ k = job.i)
           /\ maps = [maps EXCEPT ![job.slot] = Map]
<1>1. job.slot \in Slots /\ job \in JobRecord /\ maps \in [Slots -> MapRecord]
  BY DEF MapInv, MapTypes
<1>2. Map.state = "making"
  BY <1>1, Zenon DEF MapInv, MakingKnown
<1>3. \A k \in Nat : <<job.slot, k>> \in fds <=> k \in Map.fds \/ (job.fd > 0 /\ k = job.fd)
  BY <1>1, Zenon DEF MapInv, FdsKnown
<1>4. \A k \in Nat : <<job.slot, k>> \in regions <=>
          k \in Map.segs \/ (job.data = "region" /\ k = job.i)
  BY <1>1, Zenon DEF MapInv, RegionsKnown
<1> QED BY <1>1, <1>2, <1>3, <1>4 DEF MapInv, FdsKnown, RegionsKnown

LEMMA IdleIsJob == Idle \in JobRecord
<1>1. <<>> \in Seq(Paths \X Int)
  OBVIOUS
<1> QED BY <1>1 DEF Idle, JobRecord

LEMMA SizesOf ==
    ASSUME NEW p \in Seq(Paths), NEW d \in [Paths -> Int]
    PROVE  [k \in DOMAIN p |-> d[p[k]]] \in Seq(Int)
<1>1. DOMAIN p = 1 .. Len(p) /\ Len(p) \in Nat /\ \A k \in 1 .. Len(p) : p[k] \in Paths
  OBVIOUS
<1>2. [k \in 1 .. Len(p) |-> d[p[k]]] \in [1 .. Len(p) -> Int]
  BY <1>1
<1> QED BY <1>1, <1>2

LEMMA StatKeeps == ASSUME MapInv, Stat PROVE MapInv' /\ OthersKept
<1>1. job.pc = "stat" /\ UNCHANGED <<disk, fds, regions>>
  BY Zenon DEF Stat
<1> USE <1>1
<1>2. job.fd = 0 /\ job.data \notin {"region", "null"} /\ job.i \in 1 .. Len(Map.paths)
      /\ Map.segs = {} /\ \A k \in Map.fds : k \in 1 .. job.i - 1
  BY DEF MapInv, Locals
<1>3. CASE /\ maps' = [maps EXCEPT ![Slot].sizes =
                          [k \in DOMAIN Map.paths |-> disk[Map.paths[k]]]]
           /\ \/ job' = [job EXCEPT !.pc = "open"]
              \/ ~Single /\ job' = [job EXCEPT !.pc = "open", !.data = "null"]
              \/ job' = [job EXCEPT !.pc = "error"]
  <2> DEFINE m == [Map EXCEPT !.sizes = [k \in DOMAIN Map.paths |-> disk[Map.paths[k]]]]
  <2>1. maps' = [maps EXCEPT ![job.slot] = m]
    BY <1>3
  <2>2. [k \in DOMAIN Map.paths |-> disk[Map.paths[k]]] \in Seq(Int)
    <3>1. Map.paths \in Seq(Paths) /\ disk \in [Paths -> Int]
      BY BeforeStep DEF MapInv, MapTypes, MapRecord
    <3> QED BY <3>1, SizesOf, Zenon
  <2>3. m \in MapRecord /\ m.fds = Map.fds /\ m.segs = Map.segs /\ m.paths = Map.paths
        /\ m.state = "making"
    BY BeforeStep, <2>2 DEF MapRecord
  <2>4. /\ job' \in JobRecord /\ job'.slot = job.slot /\ job'.pc \in {"open", "error"}
        /\ job'.i = job.i /\ job'.fd = 0 /\ job'.data # "region"
        /\ job'.data = "null" => ~Single /\ job'.pc = "open"
    BY BeforeStep, <1>2, <1>3, ZenonT(30) DEF JobRecord
  <2>5. Map' = m
    BY BeforeStep, <2>1, <2>4 DEF MapInv, MapTypes
  <2>6. Locals'
    BY <1>2, <2>3, <2>4, <2>5 DEF Locals, Single
  <2> HIDE DEF m
  <2> QED BY BeforeStep, OneMapChanges, <1>2, <2>1, <2>3, <2>4, <2>6, ZenonT(30)
<1>4. CASE job' = [job EXCEPT !.pc = "error"] /\ UNCHANGED maps
  <2>1. /\ job' \in JobRecord /\ job'.slot = job.slot /\ job'.pc = "error"
        /\ job'.i = job.i /\ job'.fd = 0 /\ job'.data \notin {"region", "null"}
    BY BeforeStep, <1>2, <1>4 DEF JobRecord
  <2>2. Locals'
    BY <1>2, <1>4, <2>1 DEF Locals
  <2> QED BY BeforeStep, OneMapChanges, <1>2, <1>4, <2>1, <2>2
<1> QED BY <1>3, <1>4, Zenon DEF Stat, Fails

LEMMA OpenPieceKeeps == ASSUME MapInv, OpenPiece PROVE MapInv' /\ OthersKept
<1>1. job.pc = "open" /\ UNCHANGED <<disk, maps, regions>>
  BY Zenon DEF OpenPiece
<1> USE <1>1
<1>2. job.fd = 0 /\ job.data # "region" /\ job.i \in 1 .. Len(Map.paths)
      /\ (\A k \in Map.fds : k \in 1 .. job.i - 1) /\ (job.data = "null" => ~Single /\ Map.segs = {})
  BY DEF MapInv, Locals
<1>3. job.i \in Nat /\ job.i > 0 /\ Map.fds \subseteq Nat /\ job.i \notin Map.fds
  BY BeforeStep, <1>2 DEF MapRecord, JobRecord
<1>4. CASE /\ fds' = fds \cup {<<Slot, job.i>>}
           /\ \E end \in {"mmap", "error"} : job' = [job EXCEPT !.fd = job.i, !.pc = end]
  <2>1. /\ job' \in JobRecord /\ job'.slot = job.slot /\ job'.pc \in {"mmap", "error"}
        /\ job'.i = job.i /\ job'.fd = job.i /\ job'.data # "region" /\ job'.data = job.data
    BY BeforeStep, <1>2, <1>3, <1>4 DEF JobRecord
  <2>2. Locals'
    BY <1>2, <1>3, <2>1 DEF Locals, Single
  <2>3. /\ fds' \subseteq Slots \X Nat
        /\ \A s \in Slots \ {job.slot}, k \in Nat : <<s, k>> \in fds' <=> <<s, k>> \in fds
        /\ \A k \in Nat : <<job.slot, k>> \in fds' <=> k \in Map.fds \/ (job'.fd > 0 /\ k = job'.fd)
    BY BeforeStep, <1>2, <1>3, <1>4, <2>1
  <2> QED BY BeforeStep, OneMapChanges, <1>2, <2>1, <2>2, <2>3
<1>5. CASE job' = [job EXCEPT !.pc = "error"] /\ UNCHANGED fds
  <2>1. /\ job' \in JobRecord /\ job'.slot = job.slot /\ job'.pc = "error"
        /\ job'.i = job.i /\ job'.fd = 0 /\ job'.data # "region" /\ job'.data = job.data
    BY BeforeStep, <1>2, <1>5 DEF JobRecord
  <2>2. Locals'
    BY <1>2, <1>5, <2>1 DEF Locals, Single
  <2> QED BY BeforeStep, OneMapChanges, <1>2, <1>5, <2>1, <2>2
<1> QED BY <1>4, <1>5, Zenon DEF OpenPiece, Fails

\* The piece that is mapped is handed over.
LEMMA KeepKeeps ==
    ASSUME MapInv, job.pc \in {"mmap", "probe"}, UNCHANGED <<disk, fds>>,
           regions' = regions \cup {<<Slot, job.i>>},
           NEW state \in {"making", "mapped"}, Keep(state),
           state = "making" <=> job.i # Len(Map.paths)
    PROVE  MapInv' /\ OthersKept
<1>1. job.fd = job.i /\ job.i \in 1 .. Len(Map.paths) /\ \A k \in Map.fds : k \in 1 .. job.i - 1
  BY DEF MapInv, Locals
<1>2. job.i \in Nat /\ job.i > 0 /\ job.i \notin Map.fds
      /\ Map.fds \in SUBSET Nat /\ Map.segs \in SUBSET Nat /\ Len(Map.paths) \in Nat
      /\ job \in JobRecord
  BY BeforeStep, <1>1 DEF MapRecord, JobRecord
<1>3. /\ regions' \subseteq Slots \X Nat
      /\ \A s \in Slots \ {job.slot}, k \in Nat : <<s, k>> \in regions' <=> <<s, k>> \in regions
      /\ \A k \in Nat : <<job.slot, k>> \in regions' <=> k \in Map.segs \/ k = job.i
  BY BeforeStep, <1>1, <1>2
<1> DEFINE m == [Map EXCEPT !.fds = @ \cup {job.fd}, !.segs = @ \cup {job.i}, !.state = state]
<1>4. maps' = [maps EXCEPT ![job.slot] = m]
  BY BeforeStep DEF Keep, MapRecord
<1>5. /\ m \in MapRecord /\ m.fds = Map.fds \cup {job.i} /\ m.segs = Map.segs \cup {job.i}
      /\ m.state = state /\ m.paths = Map.paths
  BY BeforeStep, <1>1, <1>2 DEF MapRecord
<1>6. /\ job' \in JobRecord /\ job'.fd = 0 /\ job'.data = "failed"
      /\ \/ /\ state = "making" /\ job'.slot = job.slot /\ job'.pc = "open"
            /\ job'.i = job.i + 1
         \/ state = "mapped" /\ job'.slot = "none" /\ job'.pc = "idle"
  <2>1. CASE state = "making"
    <3>1. job' = [job EXCEPT !.fd = 0, !.data = "failed", !.i = @ + 1, !.pc = "open"]
      BY <2>1, Zenon DEF Keep
    <3>2. job.i + 1 \in Nat
      BY <1>2
    <3>3. job' = [[[[job EXCEPT !.fd = 0] EXCEPT !.data = "failed"]
                      EXCEPT !.i = job.i + 1] EXCEPT !.pc = "open"]
      BY <1>2, <3>1 DEF JobRecord
    <3>4. /\ job' \in JobRecord /\ job'.fd = 0 /\ job'.data = "failed"
          /\ job'.slot = job.slot /\ job'.pc = "open" /\ job'.i = job.i + 1
      BY <1>2, <3>2, <3>3 DEF JobRecord
    <3> QED BY <2>1, <3>4
  <2>2. CASE state = "mapped"
    BY <2>2, IdleIsJob DEF Idle, Keep
  <2> QED BY <2>1, <2>2
<1>7. job'.slot = job.slot => Map' = m
  BY BeforeStep, <1>4 DEF MapInv, MapTypes
<1> HIDE DEF m
<1>8. Locals'
  <2>1. CASE state = "making"
    <3>1. job'.i \in 1 .. Len(Map.paths)
      BY <1>1, <1>2, <1>6, <2>1
    <3>2. \A k \in Map.fds \cup {job.i} : k \in 1 .. job'.i - 1
      BY <1>1, <1>2, <1>6, <2>1
    <3> QED BY <1>5, <1>6, <1>7, <2>1, <3>1, <3>2 DEF Locals
  <2>2. CASE state = "mapped"
    BY <1>6, <2>2 DEF Locals
  <2> QED BY <2>1, <2>2
<1>9. \A k \in Nat : <<job.slot, k>> \in fds <=> k \in m.fds
  BY BeforeStep, <1>1, <1>2, <1>5
<1>10. \A k \in Nat : <<job.slot, k>> \in regions' <=> k \in m.segs
  BY <1>3, <1>5
<1>11. /\ m.state = "making" <=> job'.pc # "idle"
       /\ m.state \notin {"null", "freed"} /\ job'.pc \notin {"pread", "read"}
       /\ ~(job'.fd > 0) /\ ~(job'.data = "region")
       /\ job'.slot = job.slot \/ (job'.slot = "none" /\ job'.pc = "idle")
  BY <1>5, <1>6
<1> QED BY BeforeStep, OneMapChanges, <1>3, <1>4, <1>5, <1>6, <1>8, <1>9, <1>10, <1>11, Zenon

LEMMA MapPieceKeeps == ASSUME MapInv, MapPiece PROVE MapInv' /\ OthersKept
<1>1. job.pc = "mmap" /\ UNCHANGED <<disk, fds>> /\ regions' = regions \cup {<<Slot, job.i>>}
  BY Zenon DEF MapPiece
<1> USE <1>1
<1>2. job.fd = job.i /\ job.i \in 1 .. Len(Map.paths) /\ \A k \in Map.fds : k \in 1 .. job.i - 1
  BY DEF MapInv, Locals
<1>3. job.i \in Nat /\ job.i > 0 /\ job.i \notin Map.fds
      /\ Map.fds \in SUBSET Nat /\ Map.segs \in SUBSET Nat /\ job \in JobRecord
  BY BeforeStep, <1>2 DEF MapRecord, JobRecord
<1>4. /\ regions' \subseteq Slots \X Nat
      /\ \A s \in Slots \ {job.slot}, k \in Nat : <<s, k>> \in regions' <=> <<s, k>> \in regions
      /\ \A k \in Nat : <<job.slot, k>> \in regions' <=> k \in Map.segs \/ k = job.i
  BY BeforeStep, <1>2, <1>3
<1>5. CASE UNCHANGED maps /\ \E end \in {"probe", "error"} :
               /\ job' = [job EXCEPT !.pc = end, !.data = "region"]
               /\ end = "probe" => Single
  <2>1. /\ job' \in JobRecord /\ job'.slot = job.slot /\ job'.pc \in {"probe", "error"}
        /\ job'.i = job.i /\ job'.fd = job.fd /\ job'.data = "region"
        /\ job'.pc = "probe" => Single
    BY BeforeStep, <1>5 DEF JobRecord
  <2>2. Locals'
    BY <1>2, <1>3, <1>5, <2>1 DEF Locals, Single
  <2> QED BY BeforeStep, OneMapChanges, <1>4, <1>5, <2>1, <2>2
<1>6. CASE job.i = Len(Map.paths) /\ Keep("mapped")
  BY <1>6, KeepKeeps
<1>7. CASE job.i # Len(Map.paths) /\ Keep("making")
  BY <1>7, KeepKeeps
<1> QED BY <1>5, <1>6, <1>7, Zenon DEF MapPiece

\* A process that ends inside map_files leaves everything as it is.
LEMMA FaultKeeps ==
    ASSUME MapInv, job.pc \in {"probe", "error"}, Fault, disk' = disk PROVE MapInv' /\ OthersKept
<1>1. job' = [job EXCEPT !.pc = "fault"] /\ UNCHANGED <<maps, fds, regions>>
  BY Zenon DEF Fault
<1>2. /\ job' \in JobRecord /\ job'.slot = job.slot /\ job'.pc = "fault"
      /\ job'.i = job.i /\ job'.fd = job.fd /\ job'.data = job.data
  BY BeforeStep, <1>1 DEF JobRecord
<1>3. Locals'
  BY <1>1, <1>2 DEF MapInv, Locals, Single
<1> QED BY BeforeStep, OneMapChanges, <1>1, <1>2, <1>3

LEMMA ProbeKeeps == ASSUME MapInv, Probe PROVE MapInv' /\ OthersKept
<1>1. job.pc = "probe" /\ disk' = disk
  BY Zenon DEF Probe
<1>2. job.data = "region" /\ job.i = Len(Map.paths) /\ <<Slot, job.i>> \in regions
  <2>1. job.data = "region" /\ Single /\ job.i \in 1 .. Len(Map.paths)
    BY <1>1 DEF MapInv, Locals
  <2>2. job.i = Len(Map.paths) /\ job.i \in Nat
    BY <2>1 DEF Single
  <2> QED BY <1>1, <2>1, <2>2, BeforeStep
<1>3. CASE Keep("mapped") /\ UNCHANGED <<fds, regions>>
  <2>1. regions' = regions \cup {<<Slot, job.i>>}
    BY <1>2, <1>3
  <2> QED BY <1>1, <1>2, <1>3, <2>1, KeepKeeps
<1>4. CASE Fault
  BY <1>1, <1>4, FaultKeeps
<1> QED BY <1>3, <1>4, Zenon DEF Probe

LEMMA MapRefusedKeeps == ASSUME MapInv, MapRefused PROVE MapInv' /\ OthersKept
<1>1. job.pc = "mmap" /\ UNCHANGED <<disk, fds, regions>>
  BY Zenon DEF MapRefused
<1> USE <1>1
<1>2. job.fd = job.i /\ job.data # "region" /\ job.i \in 1 .. Len(Map.paths)
      /\ \A k \in Map.fds : k \in 1 .. job.i - 1
  BY DEF MapInv, Locals
<1>3. job.i \in Nat /\ job.i > 0 /\ Map.fds \in SUBSET Nat /\ job.i \notin Map.fds
  BY BeforeStep, <1>2 DEF MapRecord, JobRecord
<1>4. CASE Single /\ maps' = [maps EXCEPT ![Slot].fds = {job.fd}, ![Slot].state = "pread"]
           /\ job' = Idle
  <2> DEFINE m == [Map EXCEPT !.fds = {job.fd}, !.state = "pread"]
  <2>1. maps' = [maps EXCEPT ![job.slot] = m]
    BY BeforeStep, <1>4 DEF MapRecord
  <2>2. job.i = 1 /\ Map.fds = {}
    BY <1>2, <1>3, <1>4 DEF Single
  <2>3. m \in MapRecord /\ m.fds = {job.i} /\ m.segs = Map.segs /\ m.state = "pread"
        /\ Len(m.paths) = 1
    BY BeforeStep, <1>2, <1>3, <1>4 DEF MapRecord, Single
  <2>4. job' \in JobRecord /\ job'.slot = "none" /\ job'.pc = "idle"
        /\ ~(job'.fd > 0) /\ job'.data = "failed" /\ job'.fd = 0
    BY <1>4, IdleIsJob DEF Idle
  <2> HIDE DEF m
  <2>5. Locals'
    BY <2>4 DEF Locals
  <2>6. /\ \A k \in Nat : <<job.slot, k>> \in fds <=> k \in m.fds
        /\ \A k \in Nat : <<job.slot, k>> \in regions <=> k \in m.segs
    BY BeforeStep, <1>2, <1>3, <2>2, <2>3
  <2> QED BY BeforeStep, OneMapChanges, <2>1, <2>3, <2>4, <2>5, <2>6
<1>5. CASE job' = [job EXCEPT !.pc = "error", !.data = "failed"] /\ UNCHANGED maps
  <2>1. /\ job' \in JobRecord /\ job'.slot = job.slot /\ job'.pc = "error"
        /\ job'.i = job.i /\ job'.fd = job.fd /\ job'.data = "failed"
    BY BeforeStep, <1>5 DEF JobRecord
  <2>2. Locals'
    BY <1>2, <1>3, <1>5, <2>1 DEF Locals
  <2> QED BY BeforeStep, OneMapChanges, <1>2, <1>5, <2>1, <2>2
<1> QED BY <1>4, <1>5, Zenon DEF MapRefused

\* The error exit gives back what the map has and what the locals still hold.
LEMMA MapFailsKeeps == ASSUME MapInv, MapFails PROVE MapInv' /\ OthersKept
<1>1. SUFFICES ASSUME ~Fault PROVE MapInv' /\ OthersKept
  BY FaultKeeps DEF MapFails
<1>2. /\ job.pc = "error" /\ disk' = disk /\ job' = Idle
      /\ maps' = [maps EXCEPT ![job.slot] = Null]
      /\ fds' = fds \ (FdsOf(job.slot) \cup IF job.fd > 0 THEN {<<job.slot, job.fd>>} ELSE {})
      /\ regions' = regions \ (SegsOf(job.slot) \cup
                                IF job.data = "region" THEN {<<job.slot, job.i>>} ELSE {})
  BY <1>1, Zenon DEF MapFails
<1>3. Null \in MapRecord /\ Null.state = "null" /\ Bare(Null)
  BY DEF Null, MapRecord, Bare
<1>4. job' \in JobRecord /\ job'.slot = "none" /\ job'.pc = "idle"
      /\ ~(job'.fd > 0) /\ job'.data = "failed" /\ job'.fd = 0
  BY <1>2, IdleIsJob DEF Idle
<1>5. Locals'
  BY <1>4 DEF Locals
<1>6. ASSUME NEW k \in Nat PROVE <<job.slot, k>> \notin fds' /\ <<job.slot, k>> \notin regions'
  <2>1. <<job.slot, k>> \in fds => <<job.slot, k>> \in FdsOf(job.slot) \/ (job.fd > 0 /\ k = job.fd)
    BY BeforeStep, <1>2 DEF FdsOf
  <2>2. <<job.slot, k>> \in regions =>
            <<job.slot, k>> \in SegsOf(job.slot) \/ (job.data = "region" /\ k = job.i)
    BY BeforeStep, <1>2 DEF SegsOf
  <2>3. <<job.slot, k>> \notin fds'
    BY <1>2, <2>1
  <2>4. <<job.slot, k>> \notin regions'
    BY <1>2, <2>2
  <2> QED BY <2>3, <2>4
<1>7. ASSUME NEW s \in Slots \ {job.slot}, NEW k \in Nat
      PROVE  (<<s, k>> \in fds' <=> <<s, k>> \in fds) /\ (<<s, k>> \in regions' <=> <<s, k>> \in regions)
  <2>1. <<s, k>> \notin FdsOf(job.slot) /\ <<s, k>> \notin SegsOf(job.slot)
    BY DEF FdsOf, SegsOf
  <2> QED BY <1>2, <2>1
<1>8. fds' \subseteq Slots \X Nat /\ regions' \subseteq Slots \X Nat
  BY BeforeStep, <1>2
<1> QED BY BeforeStep, OneMapChanges, <1>2, <1>3, <1>4, <1>5, <1>6, <1>7, <1>8 DEF Bare

LEMMA PreadKeeps == ASSUME MapInv, Pread PROVE MapInv' /\ OthersKept
<1>1. job.pc = "pread" /\ UNCHANGED <<disk, maps, fds, regions>>
  BY Zenon DEF Pread
<1>2. job \in JobRecord /\ job.fd = 0 /\ job.data = "failed" /\ job.slot \in Slots
      /\ Len(Map.paths) = 1
  BY <1>1 DEF MapInv, MapTypes, Locals, JobRecord
<1>3. ASSUME NEW n \in 1 .. Left,
             job' = [job EXCEPT !.got = @ \o [k \in 1 .. n |-> <<Map.paths[1], NextCell + k - 1>>]]
      PROVE  job' \in JobRecord /\ job'.pc = "pread" /\ job'.slot = job.slot
             /\ job'.fd = 0 /\ job'.data = job.data
  <2> DEFINE new == [k \in 1 .. n |-> <<Map.paths[1], NextCell + k - 1>>]
  <2>1. job.got \in Seq(Paths \X Int) /\ Len(job.got) \in Nat /\ job.len \in Int /\ job.off \in Int
    BY <1>2 DEF JobRecord
  <2>2. n \in Nat /\ NextCell \in Int
    BY <1>3, <2>1 DEF Left, NextCell
  <2>3. Map.paths[1] \in Paths
    BY <1>1, <1>2 DEF MapInv, MapTypes, MapRecord
  <2>4. new \in Seq(Paths \X Int)
    <3>1. \A k \in 1 .. n : <<Map.paths[1], NextCell + k - 1>> \in Paths \X Int
      BY <2>2, <2>3
    <3>2. new \in [1 .. n -> Paths \X Int]
      BY <3>1
    <3> QED BY <2>2, <3>2
  <2> HIDE DEF new
  <2>5. job.got \o new \in Seq(Paths \X Int)
    BY <2>1, <2>4
  <2>6. job' = [job EXCEPT !.got = job.got \o new]
    BY <1>3 DEF new
  <2> QED BY <1>1, <1>2, <2>5, <2>6 DEF JobRecord
<1>4. CASE job' = [job EXCEPT !.pc = "read", !.status = "error"]
  <2>1. job' \in JobRecord /\ job'.pc = "read" /\ job'.slot = job.slot
        /\ job'.fd = 0 /\ job'.data = job.data
    BY <1>2, <1>4 DEF JobRecord
  <2> QED BY NothingChanges, <1>1, <1>2, <2>1
<1> QED BY NothingChanges, <1>1, <1>2, <1>3, <1>4 DEF Pread

LEMMA PreadEndsKeeps == ASSUME MapInv, PreadEnds PROVE MapInv' /\ OthersKept
<1>1. job.pc = "pread" /\ UNCHANGED <<disk, maps, fds, regions>>
      /\ job' = [job EXCEPT !.pc = "read", !.status = "ok"]
  BY Zenon DEF PreadEnds
<1>2. job \in JobRecord /\ job.fd = 0 /\ job.data = "failed" /\ job.slot \in Slots
      /\ Len(Map.paths) = 1
  BY <1>1 DEF MapInv, MapTypes, Locals, JobRecord
<1>3. job' \in JobRecord /\ job'.pc = "read" /\ job'.slot = job.slot
      /\ job'.fd = 0 /\ job'.data = job.data
  BY <1>1, <1>2 DEF JobRecord
<1> QED BY NothingChanges, <1>1, <1>2, <1>3

LEMMA MapStepKeeps == ASSUME MapInv, MapStep PROVE MapInv' /\ OthersKept /\ disk' = disk
<1>1. MapInv' /\ OthersKept
  BY StatKeeps, OpenPieceKeeps, MapPieceKeeps, ProbeKeeps, MapRefusedKeeps, MapFailsKeeps, PreadKeeps,
     PreadEndsKeeps, Zenon DEF MapStep
<1> QED BY <1>1, Zenon DEF MapStep, Stat, OpenPiece, MapPiece, Probe, MapRefused, MapFails,
                  Pread, PreadEnds

(***************************************************************************)
(* The calls of mapped_file.c                                              *)
(***************************************************************************)
LEMMA NullIsMap == /\ Null \in MapRecord /\ Null.state = "null" /\ Null.paths = <<>>
                   /\ Null.fds = {} /\ Null.segs = {}
<1>1. <<>> \in Seq(Paths) /\ <<>> \in Seq(Int)
  OBVIOUS
<1> QED BY <1>1 DEF Null, MapRecord

LEMMA StartMapKeeps ==
    ASSUME MapInv, job.pc = "idle", NEW s \in Slots, NEW paths \in Seq(Paths), Len(paths) > 0,
           maps[s].state = "null", StartMap(s, paths), disk' = disk
    PROVE  MapInv' /\ \A t \in Slots \ {s} : maps'[t] = maps[t]
<1> DEFINE m == [Null EXCEPT !.state = "making", !.paths = paths]
<1>1. /\ job' = [Idle EXCEPT !.pc = "stat", !.slot = s, !.i = 1]
      /\ maps' = [maps EXCEPT ![s] = m] /\ UNCHANGED <<fds, regions>>
  BY Zenon DEF StartMap
<1>2. m \in MapRecord /\ m.state = "making" /\ m.paths = paths /\ m.fds = {} /\ m.segs = {}
  BY NullIsMap DEF MapRecord
<1> HIDE DEF m
<1>3. /\ job' \in JobRecord /\ job'.pc = "stat" /\ job'.slot = s /\ job'.i = 1
      /\ job'.fd = 0 /\ job'.data = "failed" /\ ~(job'.fd > 0)
  <2>1. Idle \in JobRecord /\ Idle.fd = 0 /\ Idle.data = "failed"
    BY IdleIsJob DEF Idle
  <2>2. job' = [[[Idle EXCEPT !.pc = "stat"] EXCEPT !.slot = s] EXCEPT !.i = 1]
    BY <1>1, <2>1 DEF JobRecord
  <2>3. job' \in JobRecord
    BY <2>1, <2>2 DEF JobRecord
  <2>4. job'.pc = "stat" /\ job'.slot = s /\ job'.i = 1 /\ job'.fd = 0 /\ job'.data = "failed"
    BY <2>1, <2>2 DEF JobRecord
  <2> QED BY <2>3, <2>4
<1>4. /\ maps' \in [Slots -> MapRecord] /\ maps'[s] = m
      /\ \A t \in Slots \ {s} : maps'[t] = maps[t]
  BY <1>1, <1>2 DEF MapInv, MapTypes
<1>5. job.fd = 0 /\ job.data # "region" /\ ~(job.fd > 0)
  BY DEF MapInv, Locals
<1>6. Bare(maps[s])
  BY Zenon DEF MapInv, NullsEmpty
<1>7. MapTypes'
  BY <1>3, <1>4 DEF MapInv, MapTypes
<1>8. Locals'
  <2>1. 1 \in 1 .. Len(paths)
    BY SMT
  <2> QED BY <1>2, <1>3, <1>4, <2>1 DEF Locals
<1>9. FdsKnown'
  <2>1. \A t \in Slots, k \in Nat : <<t, k>> \in fds <=> k \in maps[t].fds
    BY <1>5, Zenon DEF MapInv, FdsKnown
  <2>2. \A t \in Slots : maps'[t].fds = maps[t].fds
    BY <1>2, <1>4, <1>6 DEF Bare
  <2> QED BY <1>1, <1>3, <2>1, <2>2, Zenon DEF MapInv, FdsKnown
<1>10. RegionsKnown'
  <2>1. \A t \in Slots, k \in Nat : <<t, k>> \in regions <=> k \in maps[t].segs
    BY <1>5, Zenon DEF MapInv, RegionsKnown
  <2>2. \A t \in Slots : maps'[t].segs = maps[t].segs
    BY <1>2, <1>4, <1>6 DEF Bare
  <2>3. job'.data # "region"
    BY <1>3
  <2> QED BY <1>1, <2>1, <2>2, <2>3, Zenon DEF MapInv, RegionsKnown
<1>11. MakingKnown'
  BY <1>2, <1>3, <1>4 DEF MapInv, MakingKnown
<1>12. NullsEmpty'
  BY <1>2, <1>4 DEF MapInv, NullsEmpty
<1> QED BY <1>4, <1>7, <1>8, <1>9, <1>10, <1>11, <1>12, Zenon DEF MapInv

LEMMA UnmapKeeps ==
    ASSUME MapInv, job.pc \in {"idle", "read"}, job' \in {job, Idle}, job'.pc = "idle",
           NEW s \in Slots, NEW left \in {"null", "freed"}, Unmap(s, left), disk' = disk
    PROVE  /\ MapInv' /\ maps'[s].state = left
           /\ \A t \in Slots \ {s} : maps'[t] = maps[t]
<1> DEFINE m == [Null EXCEPT !.state = left]
<1>1. /\ fds' = fds \ FdsOf(s) /\ regions' = regions \ SegsOf(s)
      /\ maps' = [maps EXCEPT ![s] = m]
  BY Zenon DEF Unmap
<1>2. m \in MapRecord /\ m.state = left /\ m.fds = {} /\ m.segs = {}
  BY NullIsMap DEF MapRecord
<1> HIDE DEF m
<1>3. job' \in JobRecord /\ job'.fd = 0 /\ ~(job'.fd > 0) /\ job'.data = "failed"
  <2>1. job \in JobRecord /\ job.fd = 0 /\ job.data = "failed"
    BY DEF MapInv, MapTypes, Locals, JobRecord
  <2>2. Idle \in JobRecord /\ Idle.fd = 0 /\ Idle.data = "failed"
    BY IdleIsJob DEF Idle
  <2>3. CASE job' = job
    BY <2>1, <2>3
  <2>4. CASE job' = Idle
    BY <2>2, <2>4
  <2> QED BY <2>3, <2>4
<1>4. /\ maps' \in [Slots -> MapRecord] /\ maps'[s] = m
      /\ \A t \in Slots \ {s} : maps'[t] = maps[t]
  BY <1>1, <1>2 DEF MapInv, MapTypes
<1>5. job.fd = 0 /\ job.data # "region" /\ ~(job.fd > 0)
  BY DEF MapInv, Locals
<1>6. MapTypes'
  BY <1>3, <1>4 DEF MapInv, MapTypes
<1>7. Locals'
  BY <1>3 DEF Locals
<1>8. FdsKnown'
  <2>1. ASSUME NEW t \in Slots, NEW k \in Nat PROVE <<t, k>> \in fds' <=> k \in maps'[t].fds
    <3>1. <<t, k>> \in fds <=> k \in maps[t].fds
      BY <1>5, Zenon DEF MapInv, FdsKnown
    <3>2. <<t, k>> \in FdsOf(s) <=> t = s /\ k \in maps[s].fds
      BY DEF FdsOf
    <3> QED BY <1>1, <1>2, <1>4, <3>1, <3>2
  <2>2. fds' \subseteq Slots \X Nat
    BY <1>1 DEF MapInv, FdsKnown
  <2> QED BY <1>3, <2>1, <2>2, Zenon DEF FdsKnown
<1>9. RegionsKnown'
  <2>1. ASSUME NEW t \in Slots, NEW k \in Nat
        PROVE  <<t, k>> \in regions' <=> k \in maps'[t].segs
    <3>1. <<t, k>> \in regions <=> k \in maps[t].segs
      BY <1>5, Zenon DEF MapInv, RegionsKnown
    <3>2. <<t, k>> \in SegsOf(s) <=> t = s /\ k \in maps[s].segs
      BY DEF SegsOf
    <3> QED BY <1>1, <1>2, <1>4, <3>1, <3>2
  <2>2. regions' \subseteq Slots \X Nat
    BY <1>1 DEF MapInv, RegionsKnown
  <2> QED BY <1>3, <2>1, <2>2, Zenon DEF RegionsKnown
<1>10. MakingKnown'
  BY <1>2, <1>4 DEF MapInv, MakingKnown
<1>11. NullsEmpty'
  BY <1>2, <1>4 DEF MapInv, NullsEmpty, Bare
<1> QED BY <1>2, <1>4, <1>6, <1>7, <1>8, <1>9, <1>10, <1>11, Zenon DEF MapInv

LEMMA StartPreadKeeps ==
    ASSUME MapInv, job.pc = "idle", NEW s \in Slots, NEW off \in Int, NEW len \in Int,
           maps[s].state = "pread", StartPread(s, off, len), disk' = disk
    PROVE  MapInv' /\ maps' = maps
<1>1. /\ job' = [Idle EXCEPT !.pc = "pread", !.slot = s, !.off = off, !.len = len]
      /\ UNCHANGED <<maps, fds, regions>>
  BY Zenon DEF StartPread
<1>2. Idle \in JobRecord /\ Idle.fd = 0 /\ Idle.data = "failed"
  BY IdleIsJob DEF Idle
<1>3. job' \in JobRecord /\ job'.pc = "pread" /\ job'.slot = s
      /\ job'.fd = 0 /\ job'.data = "failed"
  BY <1>1, <1>2 DEF JobRecord
<1>4. Len(maps[s].paths) = 1
  BY Zenon DEF MapInv, NullsEmpty
<1> QED BY NothingChanges, <1>1, <1>3, <1>4

LEMMA MapsSame == ASSUME MapInv, UNCHANGED <<disk, mapVars>> PROVE MapInv'
BY Zenon DEF MapInv, MapTypes, Locals, FdsKnown, RegionsKnown, MakingKnown, NullsEmpty, mapVars, Single

(***************************************************************************)
(* pkg.c                                                                   *)
(***************************************************************************)
\* Which maps are there in each phase of a package, and when none is made.
NoMap(s) == maps[s].state = "null"
PkgInv == /\ phase \in {"closed", "failed", "counted"} => NoMap("probe") /\ NoMap("pkg")
          /\ phase \in {"probe", "probing", "probed"} => NoMap("pkg")
          /\ phase \in {"map", "header", "entries", "open", "reading", "undo"} => NoMap("probe")
          /\ phase \in {"probed", "counted", "entries", "undo"} => Ready
PkgStays == MapInv' /\ PkgInv' /\ maps'["pfs"] = maps["pfs"]

LEMMA SlotsThere == "probe" \in Slots /\ "pkg" \in Slots /\ "pfs" \in Slots
BY PkgAssumption, LineAssumption

LEMMA PositiveQuotient ==
    ASSUME NEW q \in Int, NEW b \in Nat \ {0}, NEW r \in 0 .. b - 1, NEW x \in Int,
           x = b * q + r, x >= b
    PROVE  q \in Nat /\ q > 0
<1>1. SUFFICES ASSUME q <= 0 PROVE FALSE
  OBVIOUS
<1>2. b * q <= 0 /\ b * q \in Int
  BY <1>1, SMT
<1> QED BY <1>2

LEMMA PiecesThere ==
    /\ <<Package>> \in Seq(Paths) /\ <<Piece[0]>> \in Seq(Paths)
    /\ Len(<<Package>>) > 0 /\ Len(<<Piece[0]>>) > 0
    /\ Pieces \in Seq(Paths) /\ Len(Pieces) > 0
<1>1. PackageSize \in Nat /\ PackageSize > 0 /\ PieceSize \in Nat \ {0}
  BY PkgAssumption DEF PackageSize
<1>2. PieceCount \in Nat /\ PieceCount > 0
  <2>1. ASSUME NEW a \in Nat, a > 0, NEW b \in Nat \ {0}
        PROVE  (a + b - 1) \div b \in Nat /\ (a + b - 1) \div b > 0
    <3>1. /\ (a + b - 1) \div b \in Int /\ (a + b - 1) % b \in 0 .. b - 1
          /\ a + b - 1 = b * ((a + b - 1) \div b) + ((a + b - 1) % b)
      BY SMT
    <3>2. a + b - 1 \in Int /\ a + b - 1 >= b
      BY <2>1
    <3> QED BY <3>1, <3>2, PositiveQuotient, Zenon
  <2> QED BY <1>1, <2>1 DEF PieceCount
<1>3. \A k \in 1 .. PieceCount : Piece[k - 1] \in Paths
  BY <1>2, PieceAssumption
<1>4. Pieces \in [1 .. PieceCount -> Paths]
  BY <1>3 DEF Pieces
<1> QED BY <1>2, <1>3, <1>4, PieceAssumption

LEMMA AllocKeeps == ASSUME MapInv, PkgInv, NEW kind, Alloc(kind) PROVE PkgStays
<1>1. phase = "closed" /\ Ready /\ disk' = disk /\ NoMap("probe") /\ NoMap("pkg")
  BY DEF Alloc, PkgInv
<1>2. CASE phase' = "probe" /\ StartMap("probe", <<Piece[0]>>)
  <2>1. MapInv' /\ maps'["pkg"] = maps["pkg"] /\ maps'["pfs"] = maps["pfs"]
    BY <1>1, <1>2, StartMapKeeps, SlotsThere, PiecesThere DEF Ready, NoMap
  <2> QED BY <1>1, <1>2, <2>1 DEF PkgStays, PkgInv, NoMap
<1>3. CASE phase' = "map" /\ StartMap("pkg", <<Package>>)
  <2>1. MapInv' /\ maps'["probe"] = maps["probe"] /\ maps'["pfs"] = maps["pfs"]
    BY <1>1, <1>3, StartMapKeeps, SlotsThere, PiecesThere DEF Ready, NoMap
  <2> QED BY <1>1, <1>3, <2>1 DEF PkgStays, PkgInv, NoMap
<1> QED BY <1>2, <1>3, Zenon DEF Alloc

LEMMA ProbeHeaderKeeps == ASSUME MapInv, PkgInv, ProbeHeader PROVE PkgStays
<1>1. phase = "probe" /\ Ready /\ disk' = disk /\ NoMap("pkg")
  BY DEF ProbeHeader, PkgInv
<1>2. CASE maps["probe"].state = "null" /\ phase' = "failed" /\ UNCHANGED <<maps, job, fds, regions>>
  BY <1>1, <1>2, MapsSame DEF PkgStays, PkgInv, NoMap, mapVars
<1>3. CASE maps["probe"].state = "pread" /\ phase' = "probing" /\ StartPread("probe", 0, HeaderSize)
  <2>1. MapInv' /\ maps' = maps
    BY <1>1, <1>3, StartPreadKeeps, SlotsThere, PkgAssumption DEF Ready
  <2> QED BY <1>1, <1>3, <2>1 DEF PkgStays, PkgInv, NoMap
<1>4. CASE phase' \in {"probed", "crashed"} /\ UNCHANGED <<maps, job, fds, regions>>
  BY <1>1, <1>4, MapsSame DEF PkgStays, PkgInv, NoMap, Ready, mapVars
<1> QED BY <1>2, <1>3, <1>4 DEF ProbeHeader, Crash

LEMMA ProbeReadKeeps == ASSUME MapInv, PkgInv, ProbeRead PROVE PkgStays
<1>1. phase = "probing" /\ job.pc = "read" /\ disk' = disk /\ NoMap("pkg") /\ job' = Idle
      /\ job'.pc = "idle"
  BY DEF ProbeRead, PkgInv, Idle
<1>2. CASE phase' = "probed" /\ UNCHANGED <<maps, fds, regions>>
  <2>1. MapInv'
    BY <1>1, <1>2, NothingChanges, IdleIsJob DEF Idle
  <2> QED BY <1>1, <1>2, <2>1 DEF PkgStays, PkgInv, NoMap, Ready
<1>3. CASE phase' = "failed" /\ Unmap("probe", "null")
  <2>1. /\ MapInv' /\ maps'["probe"].state = "null"
        /\ maps'["pkg"] = maps["pkg"] /\ maps'["pfs"] = maps["pfs"]
    BY <1>1, <1>3, UnmapKeeps, SlotsThere
  <2> QED BY <1>1, <1>3, <2>1 DEF PkgStays, PkgInv, NoMap
<1> QED BY <1>2, <1>3 DEF ProbeRead

LEMMA ProbeUnmapKeeps == ASSUME MapInv, PkgInv, ProbeUnmap PROVE PkgStays
<1>1. phase = "probed" /\ Ready /\ UNCHANGED <<disk, job>> /\ NoMap("pkg") /\ phase' = "counted"
      /\ Unmap("probe", "null")
  BY DEF ProbeUnmap, PkgInv
<1>2. /\ MapInv' /\ maps'["probe"].state = "null"
      /\ maps'["pkg"] = maps["pkg"] /\ maps'["pfs"] = maps["pfs"]
  BY <1>1, UnmapKeeps, SlotsThere DEF Ready
<1> QED BY <1>1, <1>2 DEF PkgStays, PkgInv, NoMap, Ready

LEMMA MapPiecesKeeps == ASSUME MapInv, PkgInv, MapPieces PROVE PkgStays
<1>1. Ready /\ disk' = disk /\ NoMap("probe") /\ NoMap("pkg") /\ phase' = "map"
      /\ StartMap("pkg", Pieces)
  BY DEF MapPieces, PkgInv
<1>2. MapInv' /\ maps'["probe"] = maps["probe"] /\ maps'["pfs"] = maps["pfs"]
  BY <1>1, StartMapKeeps, SlotsThere, PiecesThere DEF Ready, NoMap
<1> QED BY <1>1, <1>2 DEF PkgStays, PkgInv, NoMap

LEMMA HeaderKeeps == ASSUME MapInv, PkgInv, Header PROVE PkgStays
<1>1. Ready /\ disk' = disk /\ NoMap("probe")
  BY DEF Header, PkgInv
<1>2. CASE maps["pkg"].state = "null" /\ phase' = "failed" /\ UNCHANGED <<maps, job, fds, regions>>
  BY <1>1, <1>2, MapsSame DEF PkgStays, PkgInv, NoMap, mapVars
<1>3. CASE maps["pkg"].state = "pread" /\ phase' = "header" /\ StartPread("pkg", 0, HeaderSize)
  <2>1. MapInv' /\ maps' = maps
    BY <1>1, <1>3, StartPreadKeeps, SlotsThere, PkgAssumption DEF Ready
  <2> QED BY <1>1, <1>3, <2>1 DEF PkgStays, PkgInv, NoMap
<1>4. CASE phase' \in {"entries", "crashed"} /\ UNCHANGED <<maps, job, fds, regions>>
  BY <1>1, <1>4, MapsSame DEF PkgStays, PkgInv, NoMap, Ready, mapVars
<1> QED BY <1>2, <1>3, <1>4 DEF Header, Crash

LEMMA HeaderReadKeeps == ASSUME MapInv, PkgInv, HeaderRead PROVE PkgStays
<1>1. /\ job.pc = "read" /\ job' = Idle /\ UNCHANGED <<disk, maps, fds, regions>>
      /\ NoMap("probe") /\ phase' \in {"entries", "undo"}
  BY DEF HeaderRead, PkgInv
<1>2. MapInv' /\ job'.pc = "idle"
  BY <1>1, NothingChanges, IdleIsJob DEF Idle
<1> QED BY <1>1, <1>2 DEF PkgStays, PkgInv, NoMap, Ready

LEMMA EntriesKeeps == ASSUME MapInv, PkgInv, Entries PROVE PkgStays
<1>1. /\ UNCHANGED <<disk, maps, job, fds, regions>> /\ Ready /\ NoMap("probe")
      /\ phase' \in {"open", "undo", "crashed"}
  BY DEF Entries, PkgInv, Crash
<1> QED BY <1>1, MapsSame DEF PkgStays, PkgInv, NoMap, Ready, mapVars

LEMMA EntryDataKeeps == ASSUME MapInv, PkgInv, EntryData PROVE PkgStays
<1>1. /\ UNCHANGED <<disk, maps, job, fds, regions>> /\ phase = "open"
      /\ phase' \in {"open", "crashed"}
  BY DEF EntryData, Crash
<1> QED BY <1>1, MapsSame DEF PkgStays, PkgInv, NoMap, Ready, mapVars

\* The error exit of pkg_alloc, and pkg_free.
LEMMA GiveBackKeeps ==
    ASSUME MapInv, PkgInv, Ready, phase \in {"undo", "open"}, GiveBack,
           UNCHANGED <<disk, job>>, phase' \in {"failed", "closed"}
    PROVE  PkgStays
<1>1. NoMap("probe")
  BY DEF PkgInv
<1>2. /\ MapInv' /\ maps'["pkg"].state = "null"
      /\ maps'["probe"] = maps["probe"] /\ maps'["pfs"] = maps["pfs"]
  BY UnmapKeeps, SlotsThere DEF GiveBack, Ready
<1> QED BY <1>1, <1>2 DEF PkgStays, PkgInv, NoMap

LEMMA UndoKeeps == ASSUME MapInv, PkgInv, Undo PROVE PkgStays
BY GiveBackKeeps DEF Undo, PkgInv

LEMMA FreeKeeps == ASSUME MapInv, PkgInv, Free PROVE PkgStays
BY GiveBackKeeps DEF Free

LEMMA FailedKeeps == ASSUME MapInv, PkgInv, Failed PROVE PkgStays
<1>1. UNCHANGED <<disk, mapVars>> /\ phase = "failed" /\ phase' = "closed"
  BY DEF Failed
<1> QED BY <1>1, MapsSame DEF PkgStays, PkgInv, NoMap, Ready, mapVars

LEMMA ReadImageKeeps == ASSUME MapInv, PkgInv, ReadImage PROVE PkgStays
<1>1. phase = "open" /\ Ready /\ disk' = disk /\ NoMap("probe")
  BY DEF ReadImage, PkgInv
<1>2. CASE UNCHANGED mapVars /\ phase' \in {"open", "crashed"}
  BY <1>1, <1>2, MapsSame DEF PkgStays, PkgInv, NoMap, mapVars
<1>3. ASSUME NEW r \in Requests, maps["pkg"].state = "pread", phase' = "reading",
             StartPread("pkg", ImageAt + r.off, r.len)
      PROVE  PkgStays
  <2>1. ImageAt + r.off \in Int /\ r.len \in Int
    BY PkgAssumption
  <2>2. MapInv' /\ maps' = maps
    BY <1>1, <1>3, <2>1, StartPreadKeeps, SlotsThere DEF Ready
  <2> QED BY <1>1, <1>3, <2>2 DEF PkgStays, PkgInv, NoMap
<1> QED BY <1>1, <1>2, <1>3 DEF ReadImage, Crash, mapVars

LEMMA ImageReadKeeps == ASSUME MapInv, PkgInv, ImageRead PROVE PkgStays
<1>1. /\ job.pc = "read" /\ job' = Idle /\ UNCHANGED <<disk, maps, fds, regions>>
      /\ NoMap("probe") /\ phase' = "open"
  BY DEF ImageRead, PkgInv
<1>2. MapInv' /\ job'.pc = "idle"
  BY <1>1, NothingChanges, IdleIsJob DEF Idle
<1> QED BY <1>1, <1>2 DEF PkgStays, PkgInv, NoMap, Ready

LEMMA MapStepStays ==
    ASSUME MapInv, PkgInv, MapStep, UNCHANGED pkgVars
    PROVE  MapInv' /\ PkgInv' /\ OthersKept
<1>1. MapInv' /\ OthersKept
  BY MapStepKeeps
<1>2. job.pc # "idle"
  BY DEF MapStep, Stat, OpenPiece, MapPiece, Probe, MapRefused, MapFails, Pread, PreadEnds
<1>3. \A s \in Slots : NoMap(s) => NoMap(s)'
  BY <1>1 DEF OthersKept, NoMap
<1>4. PkgInv'
  BY <1>2, <1>3, SlotsThere DEF PkgInv, pkgVars, Ready
<1> QED BY <1>1, <1>4

LEMMA PkgSame == ASSUME MapInv, PkgInv, UNCHANGED fileVars PROVE PkgStays
BY MapsSame DEF fileVars, pkgVars, mapVars, PkgStays, PkgInv, NoMap, Ready

LEMMA FileChangesKeeps == ASSUME MapInv, PkgInv, FileChanges PROVE PkgStays /\ UNCHANGED <<maps, phase>>
<1>1. UNCHANGED <<mapVars, pkgVars>>
  BY DEF FileChanges
<1>2. PICK p \in Used : \E n \in Sizes[p] \ {Absent} : disk' = [disk EXCEPT ![p] = n]
  BY DEF FileChanges
<1>3. p \in Paths
  BY DEF Used, MapInv, MapTypes, MapRecord
<1>4. Sizes[p] \subseteq Int
  BY <1>3, MapAssumption DEF Absent
<1>5. disk' \in [Paths -> Int]
  BY <1>2, <1>4 DEF MapInv, MapTypes
<1>6. MapInv'
  BY <1>1, <1>5, Zenon DEF MapInv, MapTypes, Locals, FdsKnown, RegionsKnown, MakingKnown, NullsEmpty, mapVars, Single
<1> QED BY <1>1, <1>6 DEF mapVars, pkgVars, PkgStays, PkgInv, NoMap, Ready

LEMMA PkgStepKeeps ==
    ASSUME MapInv, PkgInv, PkgStep \/ PkgUse
    PROVE  PkgStays /\ phase # "closed"
<1>1. phase # "closed"
  BY DEF PkgStep, PkgUse, ProbeHeader, ProbeRead, ProbeUnmap, MapPieces, Header, HeaderRead,
         Entries, EntryData, Undo, Failed, ReadImage, ImageRead
<1>2. PkgStays
  BY ProbeHeaderKeeps, ProbeReadKeeps, ProbeUnmapKeeps, MapPiecesKeeps, HeaderKeeps, HeaderReadKeeps,
     EntriesKeeps, EntryDataKeeps, UndoKeeps, FailedKeeps, ReadImageKeeps, ImageReadKeeps, Zenon
  DEF PkgStep, PkgUse
<1> QED BY <1>1, <1>2

(***************************************************************************)
(* main.c                                                                  *)
(***************************************************************************)
CmdTypes == /\ package \in Contents /\ {spfs, images} \subseteq BOOLEAN
            /\ at \in Nat \ {0}
\* Before the package, and before the image given with it.
Before == /\ pc \in {"args", "input", "output", "pfs"} => NoMap("pfs")
          /\ pc \in {"args", "input", "output", "pfs", "mapping"} =>
                phase = "closed" /\ done = {} /\ spfs = FALSE
          /\ pc \in {"mapping", "package", "handler"} => maps["pfs"].state # "freed"
GivenImage == Given("pfs_image_data_file")
\* Where the handler's image comes from.
WhoseImage ==
    /\ pc \in {"pfs", "mapping"} => ~package.pkg \/ GivenImage
    /\ pc = "package" => package.pkg /\ spfs = GivenImage
    /\ pc = "handler" => \/ package.pkg /\ spfs = GivenImage /\ images = OpensImages
                         \/ ~package.pkg /\ spfs = TRUE
\* setup_pfs failed, has given the map back, and process_pkg will again.
Twice == maps["pfs"].state = "freed" /\ pc = "cleanup" =>
            package.pkg /\ GivenImage /\ phase = "closed" /\ done = {}
CmdInv == CmdTypes /\ Before /\ WhoseImage /\ Twice /\ ReleasedOnce /\ HandlersHaveImages
LineInv == MapInv /\ PkgInv /\ CmdInv

\* A step that is not main.c's own.
LEMMA CmdSame ==
    ASSUME CmdInv, UNCHANGED cmdVars, phase' = phase \/ phase # "closed" \/ pc = "package",
           NoMap("pfs") => NoMap("pfs")', maps'["pfs"].state = "freed" => maps["pfs"].state = "freed"
    PROVE  CmdInv'
<1> USE DEF cmdVars
<1>1. CmdTypes'
  BY DEF CmdInv, CmdTypes
<1>2. Before'
  BY DEF CmdInv, Before
<1>3. WhoseImage'
  BY Zenon DEF CmdInv, WhoseImage, GivenImage, Given, OpensImages, Keyset, SkipKeygen
<1>4. Twice'
  BY DEF CmdInv, Twice, GivenImage, Given
<1>5. ReleasedOnce'
  BY DEF CmdInv, ReleasedOnce, Given
<1>6. HandlersHaveImages'
  BY Zenon DEF CmdInv, HandlersHaveImages, Given
<1> QED BY <1>1, <1>2, <1>3, <1>4, <1>5, <1>6, Zenon DEF CmdInv

\* A step of main.c to a place of no image and no damage.
LEMMA CmdElsewhere ==
    ASSUME CmdTypes', pc' \in {"exit", "free", "ended", "crashed"}
    PROVE  CmdInv'
BY DEF CmdInv, Before, WhoseImage, Twice, ReleasedOnce, HandlersHaveImages

LEMMA InPackageKeeps == ASSUME LineInv, InPackage PROVE LineInv'
<1>1. UNCHANGED cmdVars
  BY Zenon DEF InPackage
<1>2. CASE MapStep /\ UNCHANGED pkgVars
  <2>1. MapInv' /\ PkgInv' /\ OthersKept
    BY <1>2, MapStepStays DEF LineInv
  <2>2. CmdInv'
    BY <1>1, <1>2, <2>1, CmdSame, SlotsThere DEF LineInv, OthersKept, NoMap, pkgVars
  <2> QED BY <2>1, <2>2 DEF LineInv
<1>3. CASE PkgStep
  <2>1. PkgStays /\ phase # "closed"
    BY <1>3, PkgStepKeeps DEF LineInv
  <2> QED BY <1>1, <2>1, CmdSame DEF LineInv, PkgStays, NoMap
<1> QED BY <1>2, <1>3, Zenon DEF InPackage

LEMMA PackageUseKeeps ==
    ASSUME LineInv, AllocPackage \/ ReadsImages \/ Reads \/ Changes PROVE LineInv'
<1>1. CASE AllocPackage
  <2>1. PkgStays /\ UNCHANGED cmdVars /\ pc = "package"
    BY <1>1, AllocKeeps DEF AllocPackage, LineInv
  <2> QED BY <2>1, CmdSame DEF LineInv, PkgStays, NoMap
<1>2. CASE ReadsImages \/ Reads
  <2>1. UNCHANGED cmdVars /\ (EntryData \/ ReadImage)
    BY <1>2 DEF ReadsImages, Reads
  <2>2. PkgStays /\ phase # "closed"
    BY <2>1, PkgStepKeeps DEF PkgUse, LineInv
  <2> QED BY <2>1, <2>2, CmdSame DEF LineInv, PkgStays, NoMap
<1>3. CASE Changes
  <2>1. PkgStays /\ UNCHANGED <<maps, phase>> /\ UNCHANGED cmdVars
    BY <1>3, FileChangesKeeps DEF Changes, LineInv
  <2> QED BY <2>1, CmdSame DEF LineInv, PkgStays, NoMap
<1> QED BY <1>1, <1>2, <1>3

\* From the arguments to the image given or the package.
LEMMA ArgumentsKeep == ASSUME LineInv, ParseArgs \/ Input \/ Output PROVE LineInv'
<1>1. PkgStays /\ UNCHANGED <<maps, phase, spfs, images, at, done>>
  BY PkgSame DEF LineInv, ParseArgs, Input, Output, fileVars, mapVars, pkgVars
<1>2. package' \in Contents
  BY DEF LineInv, CmdInv, CmdTypes, ParseArgs, Input, Output, Contents
<1>3. CmdTypes'
  BY <1>1, <1>2 DEF LineInv, CmdInv, CmdTypes
<1>4. CASE pc' = "exit"
  BY <1>1, <1>3, <1>4, CmdElsewhere DEF LineInv, PkgStays
<1>5. CASE pc' \in {"input", "output"}
  <2>1. pc \in {"args", "input"}
    BY <1>5 DEF ParseArgs, Input, Output, Exit
  <2>2. Before'
    BY <1>1, <1>5, <2>1 DEF LineInv, CmdInv, Before, NoMap
  <2>3. WhoseImage' /\ Twice' /\ ReleasedOnce' /\ HandlersHaveImages'
    BY <1>5 DEF WhoseImage, Twice, ReleasedOnce, HandlersHaveImages
  <2> QED BY <1>1, <1>3, <2>2, <2>3 DEF LineInv, PkgStays, CmdInv
<1>6. CASE pc' \in {"package", "pfs"} /\ Output
  <2>1. UNCHANGED <<package, line>> /\ pc = "output"
        /\ pc' = IF package.pkg /\ ~GivenImage THEN "package" ELSE "pfs"
    BY <1>6 DEF Output, GivenImage, Exit
  <2>2. Before'
    BY <1>1, <1>6, <2>1 DEF LineInv, CmdInv, Before, NoMap
  <2>3. WhoseImage'
    <3>1. GivenImage' = GivenImage /\ GivenImage \in BOOLEAN
      BY <2>1 DEF GivenImage, Given
    <3>2. spfs' = FALSE /\ package'.pkg = package.pkg /\ package.pkg \in BOOLEAN
      BY <1>1, <2>1 DEF LineInv, CmdInv, CmdTypes, Before, Contents
    <3>3. CASE package.pkg /\ ~GivenImage
      BY <2>1, <3>1, <3>2, <3>3 DEF WhoseImage
    <3>4. CASE ~(package.pkg /\ ~GivenImage)
      BY <2>1, <3>1, <3>2, <3>4 DEF WhoseImage
    <3> QED BY <3>3, <3>4
  <2>4. Twice' /\ ReleasedOnce' /\ HandlersHaveImages'
    BY <1>6 DEF Twice, ReleasedOnce, HandlersHaveImages
  <2> QED BY <1>1, <1>3, <2>2, <2>3, <2>4 DEF LineInv, PkgStays, CmdInv
<1> QED BY <1>4, <1>5, <1>6 DEF ParseArgs, Input, Output, Exit

\* setup_pfs
LEMMA SetupKeeps ==
    ASSUME LineInv, MapPfs \/ PfsMapFails \/ PfsCrash \/ PfsAlloc \/ PfsAllocFails PROVE LineInv'
<1>1. /\ pc \in {"pfs", "mapping"} /\ Ready /\ phase = "closed" /\ phase' = phase
      /\ UNCHANGED <<disk, line, package, images, at, done>> /\ done = {} /\ spfs = FALSE
      /\ NoMap("probe") /\ NoMap("pkg") /\ (~package.pkg \/ GivenImage)
  BY DEF LineInv, CmdInv, Before, WhoseImage, PkgInv, MapPfs, PfsMapFails, PfsCrash, PfsAlloc,
         PfsAllocFails, fileVars, pkgVars
<1>2. CmdTypes' /\ GivenImage' = GivenImage /\ GivenImage \in BOOLEAN /\ package.pkg \in BOOLEAN
  <2>1. spfs' \in BOOLEAN
    BY <1>1 DEF MapPfs, PfsMapFails, PfsCrash, PfsAlloc, PfsAllocFails
  <2>2. CmdTypes'
    BY <1>1, <2>1 DEF LineInv, CmdInv, CmdTypes
  <2>3. GivenImage' = GivenImage /\ GivenImage \in BOOLEAN
    BY <1>1 DEF GivenImage, Given
  <2>4. package.pkg \in BOOLEAN
    BY DEF LineInv, CmdInv, CmdTypes, Contents
  <2> QED BY <2>2, <2>3, <2>4
<1>3. CASE MapPfs
  <2> DEFINE one == <<IF package.pkg THEN Image ELSE Package>>
  <2>1. StartMap("pfs", one) /\ NoMap("pfs") /\ pc' = "mapping" /\ spfs' = FALSE
    BY <1>1, <1>3 DEF LineInv, CmdInv, Before, MapPfs
  <2>2. one \in Seq(Paths) /\ Len(one) > 0
    BY PieceAssumption, LineAssumption
  <2>3. /\ MapInv' /\ maps'["probe"] = maps["probe"] /\ maps'["pkg"] = maps["pkg"]
        /\ maps'["pfs"].state # "freed"
    <3>1. MapInv' /\ maps'["probe"] = maps["probe"] /\ maps'["pkg"] = maps["pkg"]
      <4> HIDE DEF one
      <4> QED BY <1>1, <2>1, <2>2, StartMapKeeps, SlotsThere DEF LineInv, Ready, NoMap
    <3>2. maps' = [maps EXCEPT !["pfs"] = [Null EXCEPT !.state = "making", !.paths = one]]
      BY <2>1, Zenon DEF StartMap
    <3>3. maps'["pfs"].state = "making"
      BY <3>2, NullIsMap, SlotsThere DEF LineInv, MapInv, MapTypes, MapRecord
    <3> QED BY <3>1, <3>3
  <2>4. PkgInv'
    BY <1>1, <2>3 DEF PkgInv, NoMap
  <2>5. Before' /\ WhoseImage'
    BY <1>1, <1>2, <2>1, <2>3 DEF Before, WhoseImage
  <2>6. Twice' /\ ReleasedOnce' /\ HandlersHaveImages'
    BY <2>1 DEF Twice, ReleasedOnce, HandlersHaveImages
  <2> QED BY <1>2, <2>3, <2>4, <2>5, <2>6 DEF LineInv, CmdInv
<1>4. ASSUME NotSetUp, UNCHANGED spfs,
             maps'["pfs"].state = "freed" \/ maps'["pfs"].state = "null"
      PROVE  CmdInv'
  <2>1. CASE ~package.pkg
    BY <1>2, <1>4, <2>1, CmdElsewhere DEF NotSetUp, Exit
  <2>2. CASE package.pkg
    <3>1. pc' = "cleanup" /\ GivenImage' /\ package'.pkg /\ done' = {} /\ phase' = "closed"
      BY <1>1, <1>2, <1>4, <2>2 DEF NotSetUp
    <3> QED BY <1>2, <3>1 DEF CmdInv, Before, WhoseImage, Twice, ReleasedOnce, HandlersHaveImages
  <2> QED BY <2>1, <2>2
<1>5. CASE PfsMapFails
  <2>1. PkgStays /\ maps' = maps /\ NotSetUp /\ UNCHANGED spfs /\ maps["pfs"].state = "null"
    BY <1>5, PkgSame DEF LineInv, PfsMapFails, fileVars, mapVars
  <2> QED BY <1>4, <2>1 DEF LineInv, PkgStays
<1>6. CASE PfsCrash
  <2>1. PkgStays /\ pc' = "crashed"
    BY <1>6, PkgSame DEF LineInv, PfsCrash
  <2> QED BY <1>2, <2>1, CmdElsewhere DEF LineInv, PkgStays
<1>7. CASE PfsAlloc
  <2>1. PkgStays /\ maps' = maps /\ spfs' = TRUE /\ maps["pfs"].state = "mapped"
        /\ pc' = IF package.pkg THEN "package" ELSE "handler"
    BY <1>7, PkgSame DEF LineInv, PfsAlloc, fileVars, mapVars, PfsReadable
  <2>2. Before' /\ WhoseImage'
    BY <1>1, <1>2, <2>1 DEF Before, WhoseImage
  <2>3. Twice' /\ ReleasedOnce' /\ HandlersHaveImages'
    BY <2>1 DEF Twice, ReleasedOnce, HandlersHaveImages
  <2> QED BY <1>2, <2>1, <2>2, <2>3 DEF LineInv, PkgStays, CmdInv
<1>8. CASE PfsAllocFails
  <2>1. NotSetUp /\ UNCHANGED <<job, spfs>> /\ Unmap("pfs", "freed")
    BY <1>8 DEF PfsAllocFails
  <2>2. /\ MapInv' /\ maps'["probe"] = maps["probe"] /\ maps'["pkg"] = maps["pkg"]
        /\ maps'["pfs"].state = "freed"
    BY <1>1, <2>1, UnmapKeeps, SlotsThere DEF LineInv, Ready
  <2>3. PkgInv'
    BY <1>1, <2>2 DEF PkgInv, NoMap
  <2> QED BY <1>4, <2>1, <2>2, <2>3 DEF LineInv
<1> QED BY <1>3, <1>5, <1>6, <1>7, <1>8

LEMMA PackageEndsKeep == ASSUME LineInv, HavePackage \/ NoPackage PROVE LineInv'
<1>1. UNCHANGED <<line, package, spfs, at, done>> /\ pc = "package"
      /\ images' \in {images, OpensImages}
  BY DEF HavePackage, NoPackage
<1>2. OpensImages' = OpensImages /\ OpensImages \in BOOLEAN /\ GivenImage' = GivenImage
  BY <1>1 DEF OpensImages, Keyset, SkipKeygen, GivenImage, Given
<1>3. CmdTypes'
  BY <1>1, <1>2 DEF LineInv, CmdInv, CmdTypes
<1>4. CASE HavePackage
  <2>1. PkgStays /\ maps' = maps /\ pc' = "handler" /\ images' = OpensImages
    BY <1>4, PkgSame DEF LineInv, HavePackage, fileVars, mapVars
  <2>2. maps["pfs"].state # "freed" /\ package.pkg /\ spfs = GivenImage
    BY <1>1 DEF LineInv, CmdInv, Before, WhoseImage
  <2>3. Before'
    BY <2>1, <2>2 DEF Before
  <2>4. WhoseImage'
    BY <1>1, <1>2, <2>1, <2>2 DEF WhoseImage
  <2>5. Twice' /\ ReleasedOnce' /\ HandlersHaveImages'
    BY <2>1 DEF Twice, ReleasedOnce, HandlersHaveImages
  <2> QED BY <1>3, <2>1, <2>3, <2>4, <2>5 DEF LineInv, PkgStays, CmdInv
<1>5. CASE NoPackage
  <2>1. PkgStays /\ pc' = "exit"
    BY <1>5, FailedKeeps, FreeKeeps DEF LineInv, NoPackage, Exit
  <2> QED BY <1>3, <2>1, CmdElsewhere DEF LineInv, PkgStays
<1> QED BY <1>4, <1>5

\* A handler with no image: only a listing, for which no keys were made.
LEMMA NoImageKeeps == ASSUME LineInv, NoImage PROVE LineInv'
<1>1. PkgStays /\ pc = "handler" /\ pc' = "aborted" /\ Wanted(Part) /\ FromImage /\ at <= Len(Parts)
      /\ UNCHANGED <<line, package, spfs, images, at, done, maps, phase>> /\ ~spfs /\ ~images
  BY PkgSame DEF LineInv, NoImage, Handling, fileVars, mapVars, pkgVars
<1>2. package.pkg /\ ~GivenImage /\ ~OpensImages
  BY <1>1 DEF LineInv, CmdInv, CmdTypes, WhoseImage
<1>3. SkipKeygen # 0
  BY <1>1, <1>2 DEF OpensImages, Keyset
<1>4. line.cmd # "info"
  BY <1>1, <1>2 DEF FromImage, Part, Parts, LineInv, CmdInv, CmdTypes
<1>5. ~package.newAlgo /\ ~Given("gp4_file") /\ Given("no_unpack") /\ Given("unpack_sc_entries")
  BY <1>3, <1>4 DEF SkipKeygen
<1>6. Part = "list"
  BY <1>1, <1>5 DEF FromImage, Wanted, Asked, OptionOf
<1>7. line.cmd = "list"
  BY <1>1, <1>2, <1>6 DEF Part, Parts, LineInv, CmdInv, CmdTypes
<1>8. HandlersHaveImages'
  BY <1>1, <1>2, <1>5, <1>7 DEF HandlersHaveImages, Given, GivenImage
<1>9. CmdTypes' /\ Before' /\ WhoseImage' /\ Twice' /\ ReleasedOnce'
  BY <1>1 DEF LineInv, CmdInv, CmdTypes, Before, WhoseImage, Twice, ReleasedOnce
<1> QED BY <1>1, <1>8, <1>9 DEF LineInv, PkgStays, CmdInv

LEMMA HandlersKeep ==
    ASSUME LineInv, Skip \/ Makes \/ Warns \/ GivesUp \/ ErrorExit \/ Handled PROVE LineInv'
<1>1. /\ PkgStays /\ pc = "handler" /\ pc' \in {"handler", "cleanup", "exit"}
      /\ UNCHANGED <<line, package, spfs, images, maps, phase>> /\ at' \in {at, at + 1}
  BY PkgSame DEF LineInv, Skip, Makes, Warns, GivesUp, ErrorExit, Handled, Handling, Exit,
                 fileVars, mapVars, pkgVars
<1>2. OpensImages' = OpensImages /\ GivenImage' = GivenImage
  BY <1>1 DEF OpensImages, Keyset, SkipKeygen, GivenImage, Given
<1>3. CmdTypes'
  BY <1>1 DEF LineInv, CmdInv, CmdTypes
<1>4. Before' /\ WhoseImage' /\ Twice'
  BY <1>1, <1>2 DEF LineInv, CmdInv, Before, WhoseImage, Twice
<1>5. ReleasedOnce' /\ HandlersHaveImages'
  BY <1>1 DEF ReleasedOnce, HandlersHaveImages
<1> QED BY <1>1, <1>3, <1>4, <1>5 DEF LineInv, PkgStays, CmdInv

\* cleanup_pfs: what setup_pfs has left in ctx.
LEMMA CleanupPfsKeeps == ASSUME LineInv, CleanupPfs PROVE LineInv'
<1>1. /\ pc = "cleanup" /\ Ready /\ UNCHANGED <<disk, job, phase, line, package, images, at, done>>
      /\ spfs' = FALSE
  BY DEF CleanupPfs, pkgVars
<1>2. CmdTypes' /\ GivenImage' = GivenImage
  BY <1>1 DEF LineInv, CmdInv, CmdTypes, GivenImage, Given
<1>3. CASE pc' = "free" /\ Unmap("pfs", "null")
  <2>1. /\ MapInv' /\ maps'["probe"] = maps["probe"] /\ maps'["pkg"] = maps["pkg"]
    BY <1>1, <1>3, UnmapKeeps, SlotsThere DEF LineInv, Ready
  <2>2. PkgInv'
    BY <1>1, <2>1 DEF LineInv, PkgInv, NoMap, Ready
  <2> QED BY <1>2, <1>3, <2>1, <2>2, CmdElsewhere DEF LineInv
<1>4. CASE pc' = "free" /\ UNCHANGED <<maps, fds, regions>>
  <2>1. MapInv' /\ PkgInv'
    BY <1>1, <1>4, MapsSame DEF LineInv, mapVars, PkgInv, NoMap, Ready
  <2> QED BY <1>2, <1>4, <2>1, CmdElsewhere DEF LineInv
<1>5. CASE maps["pfs"].state = "freed" /\ pc' = "undefined" /\ UNCHANGED <<maps, fds, regions>>
  <2>1. MapInv' /\ PkgInv'
    BY <1>1, <1>5, MapsSame DEF LineInv, mapVars, PkgInv, NoMap, Ready
  <2>2. package.pkg /\ GivenImage /\ phase = "closed" /\ done = {}
    BY <1>1, <1>5, Zenon DEF LineInv, CmdInv, Twice
  <2>3. ReleasedOnce'
    BY <1>1, <1>2, <2>2 DEF ReleasedOnce, GivenImage
  <2>4. Before' /\ WhoseImage' /\ Twice' /\ HandlersHaveImages'
    BY <1>5 DEF Before, WhoseImage, Twice, HandlersHaveImages
  <2> QED BY <1>2, <2>1, <2>3, <2>4 DEF LineInv, CmdInv
<1> QED BY <1>3, <1>4, <1>5 DEF CleanupPfs

LEMMA FreePackageKeeps == ASSUME LineInv, FreePackage PROVE LineInv'
<1>1. PkgStays
  BY FreeKeeps, PkgSame DEF FreePackage, LineInv
<1>2. CmdTypes' /\ pc' \in {"exit", "ended"}
  BY DEF FreePackage, LineInv, CmdInv, CmdTypes
<1> QED BY <1>1, <1>2, CmdElsewhere DEF LineInv, PkgStays

(***************************************************************************)
(* A run of the tool                                                       *)
(***************************************************************************)
LEMMA LineInitInv == LineInit => LineInv
<1> SUFFICES ASSUME LineInit PROVE LineInv
  OBVIOUS
<1>1. /\ disk \in Disks /\ maps = [s \in Slots |-> Null] /\ job = Idle /\ fds = {} /\ regions = {}
      /\ phase = "closed" /\ pc = "args" /\ package \in Contents /\ spfs = FALSE /\ images = FALSE
      /\ at = 1 /\ done = {}
  BY DEF LineInit, FileInit, MapInit, PkgInit
<1>2. /\ Idle.pc = "idle" /\ Idle.fd = 0 /\ Idle.data = "failed" /\ ~(Idle.fd > 0)
  BY DEF Idle
<1>3. disk \in [Paths -> Int]
  <2>1. DOMAIN disk = Paths /\ disk = [p \in Paths |-> disk[p]] /\ \A p \in Paths : disk[p] \in Sizes[p]
    BY <1>1 DEF Disks
  <2>2. \A p \in Paths : Sizes[p] \subseteq Int
    BY MapAssumption DEF Absent
  <2> QED BY <2>1, <2>2, Zenon
<1>4. MapTypes
  BY <1>1, <1>2, <1>3, IdleIsJob, NullIsMap DEF MapTypes
<1>5. Locals
  BY <1>1, <1>2 DEF Locals
<1>6. FdsKnown /\ RegionsKnown
  BY <1>1, <1>2, NullIsMap DEF FdsKnown, RegionsKnown
<1>7. MakingKnown /\ NullsEmpty
  BY <1>1, <1>2, NullIsMap DEF MakingKnown, NullsEmpty, Bare
<1>8. PkgInv
  BY <1>1, NullIsMap, SlotsThere DEF PkgInv, NoMap
<1>9. CmdInv
  <2>1. maps["pfs"].state = "null"
    BY <1>1, NullIsMap, SlotsThere
  <2>2. CmdTypes
    <3>1. package \in Contents /\ at \in Nat \ {0}
      BY <1>1
    <3>2. {spfs, images} \subseteq BOOLEAN
      BY <1>1, Zenon
    <3> QED BY <3>1, <3>2 DEF CmdTypes
  <2>3. Before
    BY <1>1, <2>1 DEF Before, NoMap
  <2>4. WhoseImage /\ Twice /\ ReleasedOnce /\ HandlersHaveImages
    <3>1. pc = "args"
      BY <1>1
    <3> QED BY <3>1 DEF WhoseImage, Twice, ReleasedOnce, HandlersHaveImages
  <2> QED BY <2>2, <2>3, <2>4, Zenon DEF CmdInv
<1> QED BY <1>4, <1>5, <1>6, <1>7, <1>8, <1>9 DEF LineInv, MapInv

LEMMA LineStepInv == LineInv /\ [LineNext]_lineVars => LineInv'
<1> SUFFICES ASSUME LineInv, [LineNext]_lineVars PROVE LineInv'
  OBVIOUS
<1>1. CASE UNCHANGED lineVars
  <2>1. UNCHANGED fileVars /\ UNCHANGED cmdVars
    BY <1>1 DEF lineVars
  <2>2. PkgStays /\ phase' = phase
    BY <2>1, PkgSame DEF LineInv, fileVars, pkgVars
  <2> QED BY <2>1, <2>2, CmdSame DEF LineInv, PkgStays, NoMap
<1>2. CASE Ended
  BY <1>1, <1>2 DEF Ended
<1>3. CASE LineNext /\ ~Ended
  BY <1>3, ArgumentsKeep, SetupKeeps, PackageUseKeeps, InPackageKeeps, PackageEndsKeep, HandlersKeep,
     NoImageKeeps, CleanupPfsKeeps, FreePackageKeeps, Zenon DEF LineNext
<1> QED BY <1>1, <1>2, <1>3

\* Whatever fails on the way, the process has open and mapped what the maps and
\* the locals of map_files know of (mapped_file.c:231).
THEOREM WhatIsOpenIsKnown == LineSpec => []NothingLost
<1>1. LineInv => NothingLost
  BY KnownIsNothingLost DEF LineInv
<1> QED BY <1>1, LineInitInv, LineStepInv, PTL DEF LineSpec

\* cleanup_pfs is called for a map that is gone in one case only (main.c:841).
THEOREM ReleasedTwiceInOneCase == LineSpec => []ReleasedOnce
<1>1. LineInv => ReleasedOnce
  BY DEF LineInv, CmdInv
<1> QED BY <1>1, LineInitInv, LineStepInv, PTL DEF LineSpec

\* With any options and any package a handler has its image, but for the listing
\* with the two options that make keys unnecessary (main.c:872).
THEOREM OneCommandHasNoImage == LineSpec => []HandlersHaveImages
<1>1. LineInv => HandlersHaveImages
  BY DEF LineInv, CmdInv
<1> QED BY <1>1, LineInitInv, LineStepInv, PTL DEF LineSpec

(***************************************************************************)
(* The exit status                                                         *)
(***************************************************************************)
PartSeen(p) == Asked(p) => p \in done \cup warned \/ Ignored(p)
\* The handler passes no part that was asked for without making it or a warning,
\* and what it has passed when it ends is all that was asked for.
SeenInv ==
    /\ pc \in {"args", "input", "output", "pfs", "mapping", "package"} => at = 1
    /\ pc = "handler" => \A k \in 1 .. Len(Parts) : k < at => PartSeen(Parts[k])
    /\ pc \in {"cleanup", "free", "exit", "ended"} /\ status = 0 =>
          \A p \in PartsOf : PartSeen(p)

\* The parts of a command are those of its handler, or none of this input's.
LEMMA PartsAreComplete ==
    ASSUME NEW p \in PartsOf, ~(~package.pkg /\ p \notin {"list", "files"})
    PROVE  \E k \in 1 .. Len(Parts) : Parts[k] = p
<1>1. CASE line.cmd = "list"
  <2>1. p = "list" /\ Parts = <<"list">>
    BY <1>1 DEF PartsOf, Parts
  <2> QED BY <2>1
<1>2. CASE line.cmd = "info"
  <2>1. p \in {"sc", "sfo", "playgo"}
    BY <1>2 DEF PartsOf
  <2>2. Parts = <<"sc", "sfo", "playgo">>
    BY <1>2, <2>1 DEF Parts
  <2> QED BY <2>1, <2>2
<1>3. CASE line.cmd = "unpack" /\ package.pkg
  <2>1. Parts = <<"sc", "sfo", "playgo", "gp4", "outer", "inner", "files">>
    BY <1>3 DEF Parts
  <2>2. p \in {"sc", "sfo", "playgo", "gp4", "outer", "inner", "files"}
    BY <1>3 DEF PartsOf, OptionOf
  <2>3. /\ Len(Parts) = 7 /\ Parts[1] = "sc" /\ Parts[2] = "sfo" /\ Parts[3] = "playgo"
        /\ Parts[4] = "gp4" /\ Parts[5] = "outer" /\ Parts[6] = "inner" /\ Parts[7] = "files"
    BY <2>1
  <2> QED BY <2>2, <2>3
<1>4. CASE line.cmd = "unpack" /\ ~package.pkg
  <2>1. p \in DOMAIN OptionOf \cup {"files"}
    BY <1>4 DEF PartsOf
  <2>2. p = "files" /\ Parts = <<"files">>
    BY <1>4, <2>1 DEF OptionOf, Parts
  <2> QED BY <2>2
<1> QED BY <1>1, <1>2, <1>3, <1>4 DEF PartsOf

\* Without its image a part is not asked for, or is one of those ignored.
LEMMA SkippedIsSeen == ASSUME LineInv, Skip PROVE PartSeen(Part)
<1>1. pc = "handler" /\ at \in 1 .. Len(Parts) /\ ~Wanted(Part)
  BY DEF Skip, Handling, LineInv, CmdInv, CmdTypes, Parts
<1>2. CASE ~Asked(Part)
  BY <1>2 DEF PartSeen
<1>3. CASE Part \in {"outer", "inner"} /\ ~images
  <2>1. package.pkg
    BY <1>1, <1>3 DEF Part, Parts
  <2>2. line.cmd # "info"
    BY <1>1, <1>3, <2>1 DEF Part, Parts
  <2>3. spfs = GivenImage /\ images = OpensImages
    BY <1>1, <2>1 DEF LineInv, CmdInv, WhoseImage
  <2>4. ~Keyset \/ GivenImage
    BY <1>3, <2>3 DEF OpensImages
  <2>5. NoOuter
    BY <2>2, <2>4 DEF Keyset, SkipKeygen, NoOuter, Given, GivenImage
  <2> QED BY <1>3, <2>5 DEF PartSeen, Ignored
<1> QED BY <1>1, <1>2, <1>3 DEF Wanted

LEMMA SeenInit == LineInit => SeenInv
BY DEF LineInit, SeenInv

\* A step of the handler past the part that is next.
LEMMA NextPartSeen ==
    ASSUME LineInv, SeenInv, pc = "handler", pc' = pc, at' = at + 1, UNCHANGED <<line, package>>,
           done \subseteq done', warned \subseteq warned', NEW p, p = Part, PartSeen(p)'
    PROVE  SeenInv'
<1>1. Parts' = Parts /\ at \in Nat
  BY DEF Parts, LineInv, CmdInv, CmdTypes
<1>2. ASSUME NEW k \in 1 .. Len(Parts), k < at' PROVE PartSeen(Parts[k])'
  <2>1. CASE k < at
    <3>1. PartSeen(Parts[k])
      BY <2>1 DEF SeenInv
    <3> QED BY <1>1, <3>1 DEF PartSeen, Asked, Given, Ignored, NoOuter
  <2>2. CASE k = at
    <3>1. Parts[k]' = p
      BY <1>1, <2>2 DEF Part
    <3> QED BY <3>1
  <2> QED BY <1>1, <1>2, <2>1, <2>2
<1> QED BY <1>1, <1>2 DEF SeenInv

LEMMA SeenStep == ASSUME LineInv, SeenInv, [LineNext]_lineVars PROVE SeenInv'
<1> DEFINE Same == UNCHANGED <<line, package, done, warned>>
<1>1. CASE UNCHANGED cmdVars
  BY <1>1, ZenonT(30) DEF cmdVars, SeenInv, Parts, PartSeen, Asked, Given, Ignored, NoOuter, PartsOf
<1>2. CASE ParseArgs
  <2>1. pc' = "exit" /\ status' = 0 => line'.cmd = "none"
    BY <1>2 DEF ParseArgs, Exit
  <2>2. pc' \in {"exit", "input"} /\ pc = "args" /\ at' = at
    BY <1>2 DEF ParseArgs, Exit
  <2> QED BY <2>1, <2>2 DEF SeenInv, PartsOf
<1>3. CASE Input
  BY <1>3 DEF Input, Exit, SeenInv
<1>4. CASE Output
  <2>1. /\ pc' \in {"exit", "package", "pfs"} /\ pc = "output" /\ at' = at /\ Same
        /\ pc' = "exit" /\ status' = 0 => ~package.pkg /\ line.cmd = "info"
    BY <1>4 DEF Output, Exit
  <2>2. ASSUME pc' = "exit", status' = 0, NEW p \in PartsOf' PROVE PartSeen(p)'
    <3>1. p \in {"sc", "sfo", "playgo"} /\ ~package'.pkg
      BY <2>1, <2>2 DEF PartsOf
    <3> QED BY <3>1 DEF PartSeen, Ignored
  <2> QED BY <2>1, <2>2 DEF SeenInv
<1>5. CASE MapPfs \/ PfsMapFails \/ PfsCrash \/ PfsAlloc \/ PfsAllocFails \/ HavePackage \/ NoPackage
  <2>1. /\ pc \in {"pfs", "mapping", "package"} /\ at' = at
        /\ \/ pc' \in {"mapping", "package", "handler", "crashed"}
           \/ pc' \in {"cleanup", "exit"} /\ status' = 1
    BY <1>5 DEF MapPfs, PfsMapFails, PfsCrash, PfsAlloc, PfsAllocFails, HavePackage, NoPackage,
                NotSetUp, Exit
  <2>2. at' = 1
    BY <2>1 DEF SeenInv
  <2> QED BY <2>1, <2>2 DEF SeenInv
<1>6. CASE Skip
  <2>1. pc = "handler" /\ pc' = pc /\ at' = at + 1 /\ Same /\ PartSeen(Part)
    BY <1>6, SkippedIsSeen DEF Skip, Handling
  <2>2. PICK p : p = Part
    OBVIOUS
  <2>3. PartSeen(p)'
    BY <2>1, <2>2 DEF PartSeen, Asked, Given, Ignored, NoOuter
  <2> QED BY <2>1, <2>2, <2>3, NextPartSeen
<1>7. CASE Makes \/ Warns
  <2>1. /\ pc = "handler" /\ pc' = pc /\ at' = at + 1 /\ UNCHANGED <<line, package>>
        /\ done \subseteq done' /\ warned \subseteq warned' /\ Part \in done' \cup warned'
    BY <1>7 DEF Makes, Warns, Handling
  <2>2. PICK p : p = Part
    OBVIOUS
  <2>3. PartSeen(p)'
    BY <2>1, <2>2 DEF PartSeen
  <2> QED BY <2>1, <2>2, <2>3, NextPartSeen
<1>8. CASE GivesUp \/ ErrorExit \/ NoImage
  <2>1. pc' = "aborted" \/ (pc' \in {"cleanup", "exit"} /\ status' = 1)
    BY <1>8 DEF GivesUp, ErrorExit, NoImage, Exit, Ret
  <2> QED BY <2>1 DEF SeenInv
<1>9. CASE Handled
  <2>1. pc = "handler" /\ at > Len(Parts) /\ pc' = "cleanup" /\ Same
    BY <1>9 DEF Handled
  <2>2. ASSUME NEW p \in PartsOf PROVE PartSeen(p)
    <3>1. CASE ~package.pkg /\ p \notin {"list", "files"}
      BY <3>1 DEF PartSeen, Ignored
    <3>2. CASE ~(~package.pkg /\ p \notin {"list", "files"})
      <4>1. PICK k \in 1 .. Len(Parts) : Parts[k] = p
        BY <3>2, PartsAreComplete
      <4>2. Len(Parts) \in Nat /\ at \in Nat
        BY DEF Parts, LineInv, CmdInv, CmdTypes
      <4> QED BY <2>1, <4>1, <4>2 DEF SeenInv
    <3> QED BY <3>1, <3>2
  <2>3. \A p \in PartsOf' : PartSeen(p)'
    BY <2>1, <2>2 DEF PartsOf, PartSeen, Asked, Given, Ignored, NoOuter
  <2> QED BY <2>1, <2>3 DEF SeenInv
<1>10. CASE CleanupPfs \/ FreePackage
  <2>1. /\ pc \in {"cleanup", "free", "exit"} /\ pc' \in {"free", "exit", "ended", "undefined"}
        /\ Same /\ status' = status
    BY <1>10 DEF CleanupPfs, FreePackage
  <2> QED BY <2>1 DEF SeenInv, PartsOf, PartSeen, Asked, Given, Ignored, NoOuter
<1>11. CASE AllocPackage \/ InPackage \/ ReadsImages \/ Reads \/ Changes \/ Ended
  BY <1>1, <1>11 DEF AllocPackage, InPackage, ReadsImages, Reads, Changes, Ended, lineVars
<1>12. CASE UNCHANGED lineVars
  BY <1>1, <1>12 DEF lineVars
<1> QED BY <1>2, <1>3, <1>4, <1>5, <1>6, <1>7, <1>8, <1>9, <1>10, <1>11, <1>12, Zenon DEF LineNext

\* After exit status 0 each part of the output that was asked for was made or
\* warned about, or is one that this input does not have (main.c:1188).
THEOREM StatusIsTrue == LineSpec => []ExitTellsTruth
<1>1. LineInit => SeenInv
  BY SeenInit
<1>2. LineInv /\ SeenInv /\ [LineNext]_lineVars => SeenInv'
  BY SeenStep
<1>3. SeenInv => ExitTellsTruth
  BY DEF SeenInv, ExitTellsTruth, PartSeen
<1> QED BY <1>1, <1>2, <1>3, LineInitInv, LineStepInv, PTL DEF LineSpec
=============================================================================
