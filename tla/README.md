# Pkg_pfs_tool for iOS, in TLA+

A verification development for this repository: an iOS application (`src/PKGExtractor`, Swift)
that lists and extracts PS4 packages with a C engine (`src/pkg_pfs_tool/src`) behind a small C
bridge (`src/PKGExtractor/Bridge`), and the command-line tool the engine comes from. The modules model the program's own logic, TLC checks them on
small instances, TLAPS proves the main results for every value of the constants. Line numbers below
are those of the files under `src/`.

## 1. Inventory

| component | state it keeps | operations | what makes it correct |
|---|---|---|---|
| **iOS front end**: `ContentView.swift`, `ExtractionManager.swift`, `PKGExtractorApp.swift` | published state of the manager (listing, error, progress, output), listing cache, credentials (memory and `UserDefaults`), sheets of the view, one background task per extraction | tap, retry with keys, cancel, select, extract, done, delete, relaunch; detached tasks that list and extract | one task at a time in the C layer, with its package's keys; flags that are reset; a cache that is current; counts that add up; a picker that is never stranded |
| **C bridge**: `pkg_ios_wrapper.c`, `pkg_ios_abort.h` | credentials (`s_user_passcode`, `s_user_ekc`), per thread: the armed `jmp_buf`, `last_error` | `pkg_ios_set_credentials`, `pkg_ios_list_files(_ex)`, `pkg_ios_extract` | every way out (returns after each acquisition, `longjmp` from `error()`) takes down exactly what was brought up, and explains itself |
| **Engine life cycle**: `keymgr.c`, `pkg.c` (alloc, free), `crypto.c` (init, finalize) | registry of title keysets, crypto contexts, the open package | register, find, choose a keyset; open outer PFS, image, inner PFS | the right keys open the package; no key outlives its call |
| **PFS tree walks**: `pfs_parsers.c`, `pfs_lookup.c`, extraction in `pfs.c`, `make_directories` | recursion stack, output files | enumerate, look a path up, unpack | what is listed is what is extracted, each file with the contents of its entry |
| **PFS reading**: `pfs_block.c`, `pfs_io.c`, file opening in `pfs.c` | block list, temporary block, PFSC table and work buffer of an open file | open, read, close | a read that succeeds returns the file; the list fits its allocation |
| **Inode table**: `pfs_dinode.c`, `pfs_get_block_no_sino` | none | dinode of an inode number | the block it finds is the one the super root's list has |
| **SELF conversion**: `SELFConverter.swift` | output buffer | convert, test the magic | an ELF whose program headers and segments are where its header says |
| **File matching**: `wildcard.c`, masks in `main.c` | position in name and mask, one place to fall back to | match, make masks of an argument, ask for a directory or file | the answer is that of the definition of a mask; a file that is named is reached through its directories |
| **Mapped files**: `mapped_file.c`, the file side of `pkg.c` | mapping in pieces or descriptor, header, offset of the outer PFS | map, `pread`, unmap, find entries, read the image | a read returns the package's cells; nothing open is lost or given back twice |
| **Command line**: `main.c` | options, package, plain PFS, status | parse, set up, info, list, unpack, clean up | an image for each handler; an exit status that says what was made |
| **Metadata tools**: `gp4.c`, the offset queries of `pfs_io.c`, `playgo.c`, `sfo.c` | XML trees | say where a file is in the package, which chunks it is in | what is said of a file is true of its place |
| **Configuration**: `config.c`, `dict.c` | section, line, keys of the dictionary | parse, look up | one pass over `config.ini` |
| **Not modelled at all**: ciphers, key tables, zlib, mbedtls, uthash, `self.c` (behind `ENABLE_REPACK_SUPPORT`, never defined), `pfs_sd.c`, `pfs_dump.c`, crash logger, Windows shims | | | |

How they interact. SwiftUI handlers call the manager on the main actor. The manager starts detached
tasks that call the bridge; a progress callback from C queues a closure for the main actor per file,
and the task reports its result there. The bridge uses process-wide statics without a lock, so it
is correct only if tasks exclude each other, which nothing but the manager's flags ensures. The
bridge brings the crypto layer, the registry and a package up; the package stacks three readers
(outer PFS from the mapped file, the image file in it, the inner PFS in the image), each of them
the device of the next through seek/read callbacks. The walk opens files by path. The command line uses the
same engine without the bridge: it may also map a PFS image itself, and its callbacks choose files by masks.

What is hard here: queued main-actor closures and detached tasks in any order; SwiftUI's `onChange`,
which compares values at view updates and may miss a change; a background task that expires while
the work goes on; the process killed at any time; `longjmp` across three layers; per-thread error
state on a thread pool; images that are damaged or whose structures contradict each other; reads
in pieces of two sizes over buffers left by earlier reads; files that iOS refuses to map, that are cut while they are
mapped, or that come in pieces; options that together decide whether there is an image at all. `PROJECT.json` lists each hazard at its line.

## 2. Modules

| module | models | kind |
|---|---|---|
| `ExtractionManager` | the front end, its tasks, and the statics of the C layer they share | system, with environment |
| `EngineSpec` | what a call of the bridge promises | abstract specification |
| `PkgEngine` | bridge, registry, choice of keys, resources, abort path; implements `EngineSpec` | detailed specification |
| `PfsTree` | the two walks and the lookup by path, the output directory | component |
| `PfsRead` | the block list of a dinode, PFSC files, reads | component |
| `InodeTable` | the other lookup of a block, on `PfsRead`'s files | extends `PfsRead` |
| `Gp4File` | what a GP4 project says of a file: place, size in the package, chunks | extends `InodeTable` |
| `SelfConvert` | the conversion of `eboot.bin` to `eboot.elf` | component |
| `Wildcard` | the matching loop of `wildcard_match_common` | component, with its reference definition |
| `Selection` | masks made of arguments, directories and files asked for | extends `Wildcard` |
| `MappedFile` | `map_files`, `unmap_file`, `map_pread` | component |
| `PkgFile` | a package on maps: pieces, header, entries, image callbacks | composes with `MappedFile` |
| `CommandLine` | a run of the tool from its arguments to its exit status | composes with `PkgFile` |
| `MC*` | instances of these for TLC | |
| `*_proofs` | theorems about these | |

### ExtractionManager

Its variables are the `@Published` and private properties of the manager, the `@State` of the view,
one program counter and job per detached task, the queued closures (a count of progress closures, a
set of delayed prompts) and the C statics. An action is one main-actor turn, one handler, or one step
of a task between two points at which another thread's step can be seen: `apply` (hand the credentials
over), `register` (crypto and key manager come up), `alloc`, `scan` (one action per file), `close`,
`convert`, `report`, and after the report `checkBg`/`endBg`. `.onChange(of: listError)` is a main-queue
action of its own that compares `listError` with the value SwiftUI saw last; that models how SwiftUI
coalesces changes. `Relaunch` may happen at any time and keeps only what `UserDefaults` keeps.

Data: a package on disk is a version, which stands for its mtime and its contents; 0 is no file. A
listing is the pair of package and version it was read from. Credentials are opaque, some are
malformed. `wanted` (the files an extraction set out to extract), `carried` (closures that were still queued when it
began), `requested` and the credentials of a cache entry are history variables for the properties.

### EngineSpec and PkgEngine

`PkgEngine` is one process's sequence of calls; that they do not overlap is
`ExtractionManager`'s `ExclusiveEngine`. Each acquisition is an action and so is each
failure: crypto contexts and their seeding, the registry, mapping the file, the header, the choice of
a keyset (`config.ini` title section, EKC, image key entry, default passcode), outer PFS, image, inner
PFS; then the walk with its callbacks and `Finalize`. `error()` raises the `longjmp`. What the abort branch
does to the local `pkg`, which is not `volatile`, is left open: the package is freed or lost, because
the build may have kept it in a register. `heap` is what `pkg_free` would free, as long as a pointer reaches it; memory that is lost
is not counted, on the jump or on ordinary paths (`keymgr.c:282`, and where `pfs_alloc` and `pfs_get_file_ex` fail, `pfs.c:534`, `pfs.c:674`). Keys are named by the package they decrypt. `config.ini` is part of the bundle and therefore
constant (`Title`). `EngineSpec` has four actions (begin, report an entry, end, set credentials) and says
that a call reports only while it runs, that it succeeds only with its package open, that an error is
never without a reason, and that nothing is left behind between calls.

### PfsTree

The image is fixed and is a finite set of inodes with directory contents, kinds and defects: `bad` (the
dinode cannot be read) and `torn` (its data cannot). A path is a sequence of names. The stack holds the
directories that are open with the position in each. `pfs_enum_user_root_directory` (the listing)
and `pfs_unpack_*` (the extraction) are different code and different actions. Extraction looks every file up again by path, one
name per step. The output directory has leftovers of earlier calls, and the disk may become full or
free at any step. Three calls are modelled: the bridge's listing (both variants), its
extraction filtered by what was listed, and the command line's unpack with files and directories given. What an image *has* is said
without a walk: a trail is a sequence of places (a directory and a position in it) from the root, each in the directory the one
before it stands at. `CompleteUnlessSkipped` and `ListingMatchesExtraction` are about all trails of at most `MaxDepth` places.

### PfsRead

A file is a sequence of cells; a block has `BlockSize` cells; a pointer, a table entry and a unit of data
take one each. `Direct`, `MeetContiguous`, `Follow`, `Prepare`, `Load`, `Indirect`, `LoopEnds` are the
loops of `pfs_get_block_list`; `OpenPlain`, `OpenCompressed` the rest of `pfs_get_file_ex`; `ReadRaw`
one round of `pfs_file_read_raw`, `ReadPacked` and `Inflate` one of `pfs_file_read_compressed`. Buffers
keep what earlier reads left in them. An index past the end of a list or a buffer is undefined behaviour and leads to
the phase `wild`. The device may fail at any read. Decryption is left out: a block is read as its plain contents.

The properties about contents hold for *sound* files, and the model says exactly what the code needs a file
to be (`Sound`): a compressed file lies in one piece, because an unaligned read takes the next physical
block for the next of the file (`pfs_io.c:291`); its compressed form is no longer than itself, because
`pfs_lbn_to_size` measures with the uncompressed size (`pfs.h:542`); a unit is no longer than a block; the rounded
size is a whole number of units and no less than the file, because the table has all units and an entry behind the last one only then
(`pfs.c:645`, `pfs_io.c:402`). Compressed reads must not begin inside a unit and leave it
(`pfs_io.c:407`). The instance has files that break each of these, and the `wild` and wrong outcomes are reached.

What a file's writer has put on the device is said apart from the code that reads it: `BlockAt` and `Way` have the blocks and the
pointers that lead to them, `CellAt` the cells in these blocks, `PlainContents` and `PackedContents` what they are. `DataCell(n)` is the
n-th cell of the file's data, which is what a read of it has to return.

### InodeTable and Gp4File

Both ask questions of a file that `PfsRead` has open. `Lookup` is `pfs_get_block_no_sino`: a run of blocks or the direct
ones. `InodeTableAgrees` compares it with the list for every block of the file. In `Gp4File` that file is the image
file `pfs_image.dat` of the outer PFS, raw or compressed, and `InnerFiles` are files of the PFS in it, given as lists of
blocks. The io callbacks call each other across the layers; `RawSize` takes the query of the layer below as a
function (`InImage`, and `InPackage` below that). `Chunks` is `playgo_get_chunks`, sorted as its caller does, and `Say` one
round of the loop that prints ranges. The reference is not a second computation of the offsets: `FirstBlocks` and
`PackedCells` look in the device for the cells that have the file's data.

### SelfConvert

A SELF is a sequence of cells that are named by their position: the header, one cell per entry, the ELF header, one
per program header, then data. The output is a sequence of such names, 0 for padding, so that a property can say
which part of the SELF is where in the ELF. `ReadEntry` and `PlacePhdr`/`PlaceSegment` are one round
each of the two loops of `convert`; `Version` is what follows the last entry's data and joins the segments. An entry
carries the number of the program header it was made for (in a SELF it is in the properties
word), which the code ignores: it finds data by size (`SELFConverter.swift:200`). `ToldApart` says when
that is unambiguous: taking the first unused entry of the right size, for program header after program header, must hit the
entry made for it, that is, among the entries with data of one size the n-th is made for the n-th header of that size (`CountTo`), and no
header has two entries of its size (the second would stay in the list and be taken for a later one). `NoDataTwice` does without `ToldApart`: the wrong program header may
get a segment, but never two the same. `Int(...)` traps and padding beyond memory are the action `Trap`, every guard that throws is in `CutShort`.

### Wildcard and Selection

The pointers of the C loop are indices, 0 for the place before the first character. `Star`, `Step`, `Differs` and `End` are the
branches of one round; `Fallback` takes one character more for the last `*`. `Fits` defines a match without a loop, as a
way to cut the name into as many parts as the mask has characters. `Selection` has what `parse_args` makes of an argument (`Masks`: what
stands before each separator, and the whole) and what `pkg_pfs_unpack_pre_cb` answers; `Unpacked` says that a file is
reached when each directory above it is. There `Matches` is the definition, which `MatchesTheMask` shows the loop to compute.

### MappedFile, PkgFile, CommandLine

A map is a record of what the *code* knows (pieces, sizes, descriptors, regions); `fds` and `regions` are
what the *process* has. `job` holds the locals of the `map_files` or `map_pread` that runs, between two system calls of
which each may fail: `stat`, the reservation, `open`, `fstat`, `mmap`. A refused `mmap` of a single file leads to a map that is read with
`pread` (`__APPLE__`). A read behind the last page, or of pages a file no longer has, is a `SIGBUS` (`Readable`); the first such read is
`map_files`' own, of a fresh mapping (`Probe`, `mapped_file.c:155`). Between the reservation for several pieces and the first `mmap` the local
`data` is NULL, and the error exit unmaps from address 0 on (`mapped_file.c:235`): that does nothing or ends the process (`Fault`). Standard input
is taken to be open, so that no piece gets descriptor 0, which neither `map_files` nor `unmap_file` would close (`fd > 0`).

`PkgFile` follows `pkg_alloc` on such maps: the probe of the first piece, the count of pieces, the header (in
the map, or in a buffer of its own), entry table and data, and the seek and read callbacks of the outer PFS. `wild` records the
reads through `pkg->hdr` that leave the header's buffer; what is there is other memory or none, so such a read goes on or ends the process. `FileChanges` is another program; it may cut or extend a file at any time.

`CommandLine` runs it: `ParseArgs`, `Input`, `Output`, `setup_pfs` (`MapPfs` to `PfsAllocFails`), `pkg_alloc` with the callback that
decides `skip_keygen`, the three handlers as sequences of parts, `cleanup_pfs` and `pkg_free`. A part of the output is skipped,
made, warned about, or ends the run. What is inside an image is the other modules' subject. `pc` ends in `ended`, or in one of
`undefined` (a pointer given back twice), `aborted` (a handler without an image), `crashed`.

## 3. Runs

| run | instance | shows |
|---|---|---|
| `em_two` | two packages with different keys, one of which changes, goes and comes back between listings; two task slots, three tasks per launch, one queued closure | safety of the front end: exclusive use of the C layer, keys of the right package, coherent picker and Done screen (its number of files too), a current cache, keys that survive |
| `em_live` | one package, two files, malformed credentials | listings, extractions and background tasks end |
| `em_scantime` | package changes at any time | violated: the cache entry has the mtime of the report, not of the scan |
| `em_stuck` | malformed credentials twice | violated: the picker stays open on an error that equals the one before |
| `engine_calls` | five packages (game data, one with a config title, fake-signed, unprotected, add-on), two passcodes and EKCs, two threads | clean-up, errors, keys, and the refinement of `EngineSpec` |
| `tree_walk` | ten images, trails of up to three places (sound, damaged, names equal but for case, inconsistent kinds), leftovers, up to two chosen files | contents, completeness, agreement of listing and extraction, what may fail |
| `read_files` | twenty files: direct, contiguous, three levels of indirect blocks, empty, compressed with stored and short units, and malformed ones; six inner files, nine layouts of chunks | contents of every successful read, bounds, causes of failure; the inode table's lookup; the lines of a GP4 project |
| `self_files` | SELFs with digests and two segments in 64 layouts, cut short at every length, out of order, with huge numbers, not a SELF | segments at their offsets, no data used twice |
| `self_headers` | the same | violated: program headers are not where `e_phoff` says |
| `wildcard` | every name and every mask of at most four characters, with and without case | the answer, the end of the loop, and that a file whose names agree with an argument is unpacked |
| `pkg_pread` | a complete package, in one file or two pieces | violated: of a package that cannot be mapped, entries are read behind the header's buffer |
| `cmd_lines` | 33 command lines; files absent, short, whole, changing; every system call may fail | nothing lost, the package's cells, what may crash, be freed twice or abort, the exit status |

Bounds, and why they are enough. `MaxJobs` (tasks per launch, 2 or 3) allows a task, one that follows or
overtakes it, and one after both; `MaxPending` = 1 keeps a late progress closure alive across
extractions (p1 has one file there: a count that is kept shows as 2 of 1; theorem `DoneCountIsExact` is about any number); two task slots suffice because `ExclusiveEngine` and `EngineServesItsTask`
are about two tasks. `MaxDepth` = 3 is the depth of the
deepest image, so no file is left out there. `MaxEntries` = 2: the first entry and another. `MaxChosen` = 2 of
three files. `BlockSize` = 4, `DirectMax` = 2, `PerBlock` = 2 make a file of nine blocks use every level
of indirection; `Grain` and `Lengths` give aligned and unaligned reads, empty, inside a block, across blocks and to
the end. Three entries and three program headers of the sizes 0 to 2 give equal sizes, different ones and a header without
data; `Room` < `IntMax` < the largest offset tell memory, `Int` and 64 bits apart. Reads of different offsets follow each
other without a bound, so stale buffers occur. `MaxLen` = 4 over a letter in two cases, the separator and both wildcards
has every mask with two separated `*` (two places to fall back to), adjacent `*`, and paths of two names. The
package has seven cells, pieces four and pages two, the header is one cell: entries lie behind it, the
image begins in the first piece and ends in the second, a file can be cut within a page and by a page. `Sources` are
the options that decide where images come from, in every combination with `unpack` and `list`. `InnerFiles` have one block, part
of one, a run, and blocks out of order; `Playgos` no chunk, one for all, one a block, runs with and without a gap, two mchunks in one place.

Fairness. `ExtractionManager`: weak fairness of each task's steps (threads are scheduled) and of the
main queue's closures (the run loop runs), none of the user or the environment. `PkgEngine` and `PfsTree`: weak
fairness of the call's steps (`Step`), none of the caller or of the disk. `Wildcard`: weak fairness of the loop, which
is one thread's. The other modules state no liveness: their loops are bounded by counts, and no property here is about their end.

Deadlock is checked in every run but `pkg_pread`, where all of a package's users may be done with it. `Return` and `Ended` say where
a call or a run has ended.

## 4. Proofs

Assumptions are the named `ASSUME`s of the modules: sets are disjoint from the values that stand for
nothing, functions have their domains, bounds are naturals. TLC evaluates them in every run.

* **`ExtractionManager_proofs`**: all state properties of the front end and both action properties, for any number of packages,
  files, credentials and tasks, but for liveness. `TypeInv` adds what a program counter says of its job. `ServiceInv` is the
  inductive core: a flag is set exactly while one active task has a job of its kind, at most one task is active, and what the C
  statics hold is a function of that task's program counter. `KeysAreKept` needs little more. `CountInv`
is behind `DoneCountIsExact`: what is counted and what is queued are, for an extraction that began with an empty queue, as many as the files
its task has reported so far. Closures that an earlier extraction left are counted with the next one by the code; the property says
nothing of such an extraction (`carried` > 0), and the hazard at `ExtractionManager.swift:291` is on no property's account. The others
  say what a report finds when it arrives: `DoneInv`, that a task that extracts works for the request made last; `PickerInv`, that a
  task that lists while the picker is open does so for the picker's package, and that cached listings and saved selections are of the
  package they are kept for; `CacheInv`, that a scan that has read its package, and the cache entry made of it, have the version
  that is on disk, or that the entry's mtime says. `CacheIsCurrent` has the hypothesis that packages do not change *during* a scan (`FileChanges # "anytime"`);
  without it the property is false, as the run `em_scantime` shows.
* **`PkgEngine_proofs`**: the run's six invariants, and that initial states and steps are those of `EngineSpec` under
  the mapping of phases. The invariant is a conjunction: `Jump` (the jump is armed on the thread of the
  call and from which point), `Layers` (which layers are up at each program counter), `Owned` (which resources
  are), `Explained`, `KeysOfThisCall`, `Chosen` (what the keyset that opens the package can hold, hence `RightKeysOpen`: the right passcode or EKC opens it unless another source comes first). None
  of them is inductive alone: the abort path leaves from every point, so what it takes down must be known there.
* **`PfsTree_proofs`**: type correctness and all safety properties. The lookup by path ends at the entry the recursion stands at
  (`RightContents`); one incomplete file at most; only the disk fails in a readable image. `Chain` says
  that the open directories are a chain of entries from the root whose names spell the current path,
  `Looking` that the lookup has followed a prefix of it, `Partial` that only the file being written is incomplete. The stack is the
  witness for these. For what a walk leaves behind it is not enough: there the trails are compared with it. A path, or a
  trail, is behind the walk when it leaves the stack at an entry the walk has passed (`Past`, `Passed`). `Counting` says that the
  callbacks name the files opened, each once, because each is behind the walk when the next is named; `Completing` that every trail
  passed to a file is written or below something that was warned about; `Listing` that what is listed are the entries at the
  end of the trails passed; `Everything` that, where kinds agree, an extraction of all opens exactly the files so listed. `MaxDepth` is any natural,
  so the theorems hold for images of every depth.
* **`PfsRead_proofs`**: `pfs_get_block_list` never writes behind its allocation, whatever the image holds; for a file whose
  pointers are where the format has them the list names the file's blocks in their order; for a sound file, a read that succeeds has
  returned the file's data, and one that fails has a cause. While the list is being filled its blocks count as whole blocks and are less than the file
  (`FillInv`); `LoopInv` says that each loop has a block to go on from. The arithmetic is in the lemmas
  `WholeBlocks`, `LastPart`, `RoundedUp`, `NextBlock`. `BlockAt` is the format's account of where block k is: a direct pointer, or the entry of
  the index blocks that k's digits to the base `PerBlock` select; no loop, no list. `MapInv` compares the list with it while the
  loops run: the length of the list is the number whose digits are the places the loops stand at. Hence `InodeTableAgreement`: the lookup without a list finds the same blocks.

  `ReadsReturnTheFile` and `FailuresHaveACause` rest on `ContentInv`, which follows a read down its three layers. `CompleteInv`: a list
  that is in use has the whole file, since no pointer is missing on the way and the loops end for no other reason. `RawAt(off, len)`: `pfs_file_read_raw` has gone through whole
  blocks, and what it copied are the file's cells from `off` on, up to the file's end (a whole unit is read from where its compressed form
  begins, so the rest is not the file's). `TableInv`: the offsets in memory are the table's. `PackedAt(off, len)`: `pfs_file_read_compressed` has gone
  through whole units, and what it copied is data. `CopyInv` says which of these holds in which phase. They need each other: that the list
  is long enough makes a raw read right, that makes the table right, the table makes the next raw read begin at its unit, and the unit's compressed form
  in `workData` makes `Inflates` true. `FileRead` (one block or two of the list are consecutive cells of the file) and `RawRound` are where
  unaligned reads are argued, `CopyFits` where a read that begins inside a unit is. Sequences are built by lemmas
  (`Joined`, `Sliced`, `Appended`, `Overlaid`) about `Cells(s, n)`, a sequence of n cells.
* **`SelfConvert_proofs`**: the converter copies from inside the file only and its output is bounded (`TypeOK`),
  segments are in their places, and no data is used twice. `SliceInv` (every segment still to be used lies
  in the file) is what makes the first inductive, with lemmas on the first match (`Least`), removal (`RemovedOne`) and
  growing and overwriting (`WrittenTo`). For the second, `Enumerates` says that the list has, in order, the data that is `Left`: of each size as much is
  gone as program headers of that size have been read. A round takes the first that is left, which by `ToldApart` is its own. `PlacedInv` has the headers
  that are done: their data is in the output (`HasAt`), and no later round touches it, because segments are disjoint (`Layout`).
  For the third, `OnceInv` says of every cell in the output that it is `Spent`: a header that was read, or data that is in nothing that is left.
* **`Wildcard_proofs`**: for every name and mask the loop answers what `Fits` says, never compares a character before the
  first (`ComparesInside`), and is type correct. The first lemmas take a match apart from its end (`FitsEmpty`, `FitsCharacter`
  and one for `*`). What has to be argued is that *one* place to fall back to is enough:
  once the loop, going backwards, has met another `*`, all that was matched behind it may stay as it is, because that `*` can take
  whatever a longer part for the earlier one would have taken. `Behind` says it as an equivalence: the whole matches iff the
  mask before the last `*` matches the name up to some place not behind the fallback. `FilesAreReached` is about the masks that
  an argument becomes: names of a path are numbered by the separators before them (`NthFirst`, `NthLast`), matches that follow one another are
  a match (`FitsOn`), and the beginnings of an argument fit the beginnings of a path of as many names (`BeginningsFit`, by a least counterexample).
* **`CommandLine_proofs`**: `NothingLost`, `ReleasedOnce` and `HandlersHaveImages` for every package, set of command lines
  and behaviour of the disk. `LineInv` is `MapInv` (what the locals of `map_files` hold at each of its steps, and that
  `fds` and `regions` are what maps and locals know of, one descriptor at a time), `PkgInv` (which maps there are in each phase of
  the package) and `CmdInv` (where a handler's image comes from, when a given-back map may still be pointed to). Each layer's
  lemmas say that its steps leave the others' maps alone. `StatusIsTrue` adds the history of the parts (`SeenInv`: every part before the
  one a handler is at was made, warned about or not asked for).
* **`PkgFile_proofs`**, on top of it: a read of the image has the package's cells, and a crash has one of the
  causes that `CrashesForACause` lists, for pieces of every size. The lemmas about `Base` say where the pieces of a map begin and that an offset lies in exactly one. `MapsKnown` says that
  the sizes of a map are those its files had when it was made, `ReadInv` which files the package's map has and what a `pread` has read
  so far: the cells of its one file from the offset on, round after round. A mapped read may cross the border of two pieces.

Only model-checked: liveness (`ListingEnds` and its like, `CallsReturn`, the end of `Wildcard`'s loop), since fairness and ENABLED are out
of the prover's reach; `LineIsTrue`, whose sizes are sums over a file's blocks and whose ranges are folds over its chunks: both are recursion over
data, of which nothing can be proved for every length. The properties
of the runs that expect a violation are false, so no theorem states them.

## 5. What the checks found

Four places where the code does not do what a comment of it says are runs that expect a violation
(`em_scantime`, `em_stuck`, `self_headers`, `pkg_pread`), each quoted under "findings" in `PROJECT.json`. What else the models
show, and the properties state as it is:

* An EKC the user has given is not tried for a title that `config.ini` has a passcode or a key for (`pkg.c:1122`; `RightKeysOpen`).
* Listing an image creates the image's directories below `/tmp` (`PfsTree`).
* A path with a `%`, in the name of a folder too, is taken for a pattern of pieces (`pkg.c:1014`).
* A mapped package that is shorter than its header says, or that is cut while it is read, ends the process (`pkg.c:1627`); of a package
  that could not be mapped, what is addressed behind the header may (`pkg.c:1060`, `:1379`); so may `munmap` from address 0
  on when the pieces of a package cannot be mapped (`mapped_file.c:235`). There is no other cause (`CrashesForACause`). `main.c`'s own callback
  for a plain PFS knows nothing of `pread` (`PfsReadable`).
* `cleanup_pfs` runs twice when the file given as a package's image is no PFS (`ReleasedOnce`); `list` with
  `--no-unpack --unpack-sc-entries` has no image (`HandlersHaveImages`); the outer and inner images are left out
  silently, with exit status 0, where another image is used or keys were not needed (`ExitTellsTruth`).
* An argument with a leading `/` matches nothing, and a mask of a name alone does not get into directories (`Selection`).
* In a GP4 project, the last range of chunks is left with its first chunk when two mchunks of its last chunk hold the block,
  and a file has no line when a compressed image ends within its last block (`LineIsTrue`). `playgo_get_chunks` looks at the
  first block only, as a TODO there says.

## 6. Assumptions and omissions

* `LayoutAssumption` and `ContentsAssumption` (`PfsRead`) have the blocks of a file, and the blocks of pointers on the way to them, where the format has them
  and on the device, a file no longer than its pointers reach, and in its blocks its data, plain or as header, table and units. They are about the files whose contents
  are known (`blocks` is not empty); malformed files are in the model and in the theorem about the allocation, but no property says
  what their blocks are. TLC evaluates both for the instance's files.
* Calls of the bridge are sequential in `PkgEngine`; small allocations succeed there. Images are trees and
  paths fit their buffers in `PfsTree`. Encryption, digests and signatures are not modelled: a wrong
  key gives an image that does not open.
* `keymgr_initialize` fails only for a `config.ini` that cannot be read or parsed, which `error()` reports by
  `longjmp`; the wrapper's branch for a returned failure is dead code and is not modelled. So is the `!inner_pfs` branch.
* Opening an image (`pfs_alloc`: superblock, super root, user root) is one step of `PkgEngine` and `CommandLine` that succeeds or
  fails; what it reads is `PfsRead`'s subject.
* Not modelled: most lines under `src/` are vendored headers (mbedtls, psa, zlib, mxml, uthash: about 50,000 of 69,500), which
  hold no logic of this program. Of its own 18,500 lines `PROJECT.json` maps about 4,400. The others are, in the
  order of their size: ciphers, digests and constant key tables; printing and XML (`pfs_dump.c`, `sfo.c`, `playgo.c`, `gp4.c` around the
  file lines, dumps in `main.c`), one pass over a table each; `self.c`, `map_file_sub_region`, `map_file_for_write`,
  `pfs_file_write_raw` and `pfs_put_dinode`, which only the repack command calls and no build has; `config.c` and `dict.c`, one pass into a hash
  table whose result is a choice of `PkgEngine`; save-data keys (`pfs_sd.c`); `compression.c`, a call of zlib; layout and texts
  of the views; the crash logger and the Windows shims. A short write (`util_ios.c:225`) is not looked at by its callers; the
  model's disk fails or writes all.

## 7. Plan

Done, in this order: `ExtractionManager`, `EngineSpec` and `PkgEngine`, `PfsTree`, `PfsRead`, `SelfConvert`; then `Wildcard` and
`Selection`, `InodeTable`, `MappedFile` with `PkgFile`, `CommandLine`, `Gp4File`; with the proofs of section 4. Next:

1. `pfs_alloc` in steps (sanity checks, super root, user root, clean-up after each failure), composed with `PfsRead`.
2. `CommandLine`'s unpack composed with `PfsTree` and `Selection`: one set of masks, the walk, the directories.
3. `config.c` as a machine on lines, with what `keymgr.c` makes of its sections.
4. Proofs: all invariants of the passing runs but `LineIsTrue` are theorems; what is left needs induction over data.
