---------------------------- MODULE PfsTree_proofs ----------------------------
(***************************************************************************)
(* Proofs about PfsTree, for every image, output directory and filter.     *)
(*                                                                         *)
(* The argument: the open directories form a chain from the root, each     *)
(* reached by the entry its parent stands at (Chain).  The names of these  *)
(* entries are the path that is looked up, so a lookup that has consumed n *)
(* names of it stands, if no directory confuses it, in the (n+1)-st open   *)
(* directory (Looking).  It finds what the walk found, and has nothing to  *)
(* fail on but the output directory.                                       *)
(*                                                                         *)
(* What is below a directory is told by trails, the ways from the root.    *)
(* Those the walk has behind it (Past, Passed) are compared with what it   *)
(* has counted (Counting), written (Completing) and listed (Listing); when *)
(* it ends it has passed them all (Everything).                            *)
(***************************************************************************)
EXTENDS PfsTree, SequenceTheorems, FiniteSetTheorems, FunctionTheorems,
        WellFoundedInduction, TLAPS

HasEntry == stack # <<>> /\ Top.pos \in DOMAIN Entries(Top.ino)

Chain ==
    /\ stack # <<>> => stack[1].ino = Root
    /\ \A i \in 1 .. Len(stack) : Readable(stack[i].ino)
    /\ \A i \in 1 .. (Len(stack) - 1) :
          /\ stack[i].pos \in DOMAIN Entries(stack[i].ino)
          /\ EntryOf(stack[i]).ino = stack[i + 1].ino

Looking ==
    /\ pc = "lookup" => look.n <= Len(stack)
    /\ pc = "lookup" /\ WellNamed =>
          look.ino = IF look.n < Len(stack) THEN stack[look.n + 1].ino ELSE Here.ino
    /\ RightContents

\* Files are incomplete only while, or where, writing ended.
Partial ==
    /\ pc \in {"lookup", "open", "write"} => call # "list_ex"
    /\ pc # "idle" => result = "none"
    /\ pc \in {"open", "write"} => told # <<>> /\ told[Len(told)].path = Path
    /\ pc = "write" => Path \in opened
    /\ pc \in {"entry", "lookup", "open"} => \A p \in opened : files[p].whole
    /\ \A p \in opened : ~files[p].whole =>
          /\ pc = "write" => p = Path
          /\ pc = "idle" => result = "failed"
          /\ told # <<>> /\ told[Len(told)].path = p

Inv == TypeOK /\ Chain /\ Looking /\ Partial

(***************************************************************************)
(* The image and the recursion                                             *)
(***************************************************************************)
\* What is known of an image's entries.
LEMMA EntryTypes ==
    ASSUME image \in Images, NEW i \in Inodes
    PROVE  /\ Entries(i) \in Seq(Entry)
           /\ \A k \in DOMAIN Entries(i) :
                 /\ k \in Nat \ {0}
                 /\ Entries(i)[k].name \in Names
                 /\ Entries(i)[k].ino \in Inodes
                 /\ Entries(i)[k].kind \in Kinds
<1>1. image \in Image
  BY ImagesAssumption
<1>2. image.entries \in [Inodes -> Seq(Entry)]
  BY <1>1 DEF Image
<1>3. Entries(i) \in Seq(Entry)
  BY <1>2 DEF Entries
<1> DEFINE s == Entries(i)
<1> HIDE DEF s
<1>4. s \in Seq(Entry)
  BY <1>3 DEF s
<1>5. \A k \in DOMAIN s : k \in Nat \ {0} /\ s[k] \in Entry
  BY <1>4
<1>6. \A e \in Entry : e.name \in Names /\ e.ino \in Inodes /\ e.kind \in Kinds
  BY DEF Entry
<1> QED
  BY <1>3, <1>5, <1>6 DEF s

\* The frames on the stack.
LEMMA FrameTypes ==
    ASSUME stack \in Seq(Frames)
    PROVE  /\ Len(stack) \in Nat /\ DOMAIN stack = 1 .. Len(stack)
           /\ \A i \in 1 .. Len(stack) : stack[i] \in Frames /\ stack[i].ino \in Inodes
                                         /\ stack[i].pos \in Nat \ {0}
           /\ stack # <<>> => Len(stack) \in 1 .. Len(stack) /\ Top \in Frames
                              /\ Top.ino \in Inodes
<1>1. \A f \in Frames : f.ino \in Inodes /\ f.pos \in Nat \ {0}
  BY DEF Frames
<1>2. Len(stack) \in Nat /\ DOMAIN stack = 1 .. Len(stack)
  OBVIOUS
<1>3. \A i \in 1 .. Len(stack) : stack[i] \in Frames
  OBVIOUS
<1>4. stack # <<>> => Len(stack) \in 1 .. Len(stack)
  OBVIOUS
<1> QED
  BY <1>1, <1>2, <1>3, <1>4 DEF Top

\* The path of the current entry is a path, as long as the stack is high.
LEMMA PathType ==
    ASSUME TypeOK, Chain, HasEntry
    PROVE  /\ Path \in Paths
           /\ Len(Path) = Len(stack)
           /\ \A i \in 1 .. Len(stack) : /\ Path[i] = EntryOf(stack[i]).name
                                         /\ stack[i].pos \in DOMAIN Entries(stack[i].ino)
           /\ Here.ino \in Inodes
<1>1. stack \in Seq(Frames) /\ image \in Images
  BY DEF TypeOK
<1>2. ASSUME NEW i \in 1 .. Len(stack)
      PROVE  /\ stack[i].pos \in DOMAIN Entries(stack[i].ino)
             /\ EntryOf(stack[i]).name \in Names
             /\ EntryOf(stack[i]).ino \in Inodes
  <2>1. stack[i].ino \in Inodes
    BY <1>1, FrameTypes
  <2>2. stack[i].pos \in DOMAIN Entries(stack[i].ino)
    <3>1. Len(stack) \in Nat
      BY <1>1
    <3>2. i = Len(stack) \/ i \in 1 .. (Len(stack) - 1)
      BY <3>1
    <3> QED
      BY <3>2 DEF Chain, HasEntry, Top
  <2> QED
    BY <1>1, <2>1, <2>2, EntryTypes DEF EntryOf
<1>3. Path = [i \in 1 .. Len(stack) |-> EntryOf(stack[i]).name]
  BY <1>1, FrameTypes DEF Path
<1>4. Path \in Paths /\ Len(Path) = Len(stack)
  BY <1>1, <1>2, <1>3, FrameTypes DEF Paths
<1>5. Here.ino \in Inodes
  BY <1>1, <1>2, FrameTypes DEF Here, Top, HasEntry
<1> QED
  BY <1>2, <1>3, <1>4, <1>5

LEMMA NatMin ==
    ASSUME NEW S \in SUBSET Nat, S # {}
    PROVE  \E m \in S : \A n \in S : m <= n
<1>1. PICK m \in S : \A n \in S : ~(<<n, m>> \in OpToRel(<, Nat))
  BY NatLessThanWellFounded, WFMin
<1>2. \A n \in S : ~(n < m)
  BY <1>1 DEF OpToRel
<1> QED
  BY <1>2

\* The lookup's entry is an entry, and the only one of its name in a
\* directory whose names are distinct.
LEMMA FirstMatches ==
    ASSUME image \in Images, NEW i \in Inodes, NEW n \in Names, Matches(i, n) # {}
    PROVE  First(i, n) \in Matches(i, n) /\ Entries(i)[First(i, n)].ino \in Inodes
<1>1. Matches(i, n) \subseteq DOMAIN Entries(i)
  BY DEF Matches
<1>2. Matches(i, n) \in SUBSET Nat
  BY <1>1, EntryTypes
<1>3. \E k \in Matches(i, n) : \A l \in Matches(i, n) : k <= l
  BY <1>2, NatMin
<1>4. First(i, n) \in Matches(i, n)
  BY <1>3 DEF First
<1> QED
  BY <1>1, <1>4, EntryTypes

LEMMA OnlyMatch ==
    ASSUME image \in Images, WellNamed, NEW i \in Inodes, NEW k \in DOMAIN Entries(i)
    PROVE  LET n == Entries(i)[k].name
           IN  Matches(i, n) # {} /\ First(i, n) = k
<1> DEFINE n == Entries(i)[k].name
<1>1. n \in Names
  BY EntryTypes
<1>2. k \in Matches(i, n)
  BY DEF Matches, Same
<1>3. First(i, n) \in DOMAIN Entries(i) /\ Same(Entries(i)[First(i, n)].name, n)
  BY <1>1, <1>2, FirstMatches DEF Matches
<1> QED
  BY <1>2, <1>3 DEF WellNamed

\* Moving to the next entry of the innermost directory.
LEMMA AdvanceKeeps ==
    ASSUME NEW s \in Seq(Frames), s # <<>>
    PROVE  /\ Advance(s) \in Seq(Frames) /\ Len(Advance(s)) = Len(s)
           /\ Advance(s) # <<>>
           /\ \A i \in 1 .. Len(s) : Advance(s)[i].ino = s[i].ino
           /\ \A i \in 1 .. (Len(s) - 1) : Advance(s)[i] = s[i]
<1> DEFINE r == [s[Len(s)] EXCEPT !.pos = @ + 1]
<1>1. Len(s) \in 1 .. Len(s) /\ s[Len(s)] \in Frames
  OBVIOUS
<1>2. r \in Frames /\ r.ino = s[Len(s)].ino
  BY <1>1 DEF Frames
<1>3. Advance(s) = [s EXCEPT ![Len(s)] = r]
  BY <1>1 DEF Advance, Frames
<1> HIDE DEF r
<1> QED
  BY <1>1, <1>2, <1>3

LEMMA LeaveKeeps ==
    ASSUME TypeOK, Chain, stack # <<>>, Leave(stack), image' = image
    PROVE  stack' \in Seq(Frames) /\ stack' # <<>> /\ Chain'
<1>1. stack \in Seq(Frames)
  BY DEF TypeOK
<1>2. stack' = Advance(stack)
  BY DEF Leave
<1> QED
  BY <1>1, <1>2, AdvanceKeeps, FrameTypes DEF Chain, Readable, Entries, EntryOf

LEMMA GoIntoKeeps ==
    ASSUME TypeOK, Chain, HasEntry, Readable(Here.ino), GoInto(Here.ino), image' = image
    PROVE  stack' \in Seq(Frames) /\ stack' # <<>> /\ Chain'
<1> DEFINE f == [ino |-> Here.ino, pos |-> 1]
<1>1. stack \in Seq(Frames) /\ stack # <<>>
  BY DEF TypeOK, HasEntry
<1>2. f \in Frames
  BY PathType DEF Frames
<1>3. stack' = Append(stack, f)
  BY DEF GoInto, Open
<1>4. /\ stack' \in Seq(Frames) /\ stack' # <<>> /\ Len(stack') = Len(stack) + 1
      /\ \A i \in 1 .. Len(stack) : stack'[i] = stack[i]
      /\ stack'[Len(stack) + 1] = f
  BY <1>1, <1>2, <1>3
<1>5. Chain'
  <2>1. stack'[1].ino = Root
    BY <1>1, <1>4 DEF Chain
  <2>2. \A i \in 1 .. Len(stack') : Readable(stack'[i].ino)
    BY <1>1, <1>4 DEF Chain
  <2>3. ASSUME NEW i \in 1 .. (Len(stack') - 1)
        PROVE  /\ stack'[i].pos \in DOMAIN Entries(stack'[i].ino)
               /\ EntryOf(stack'[i]).ino = stack'[i + 1].ino
    <3>1. CASE i = Len(stack)
      BY <3>1, <1>1, <1>4, PathType DEF Here, Top
    <3>2. CASE i \in 1 .. (Len(stack) - 1)
      BY <3>2, <1>1, <1>4 DEF Chain
    <3> QED
      BY <3>1, <3>2, <1>1, <1>4
  <2> QED
    BY <2>1, <2>2, <2>3 DEF Chain, Readable, Entries, EntryOf
<1> QED
  BY <1>4, <1>5

LEMMA CloseKeeps ==
    ASSUME TypeOK, Chain, Len(stack) > 1,
           Leave(SubSeq(stack, 1, Len(stack) - 1)), image' = image
    PROVE  stack' \in Seq(Frames) /\ stack' # <<>> /\ Chain'
<1> DEFINE s == SubSeq(stack, 1, Len(stack) - 1)
<1>1. stack \in Seq(Frames)
  BY DEF TypeOK
<1>2. /\ s \in Seq(Frames) /\ s # <<>> /\ Len(s) = Len(stack) - 1
      /\ \A i \in 1 .. Len(s) : s[i] = stack[i]
  <2>1. Len(stack) \in Nat /\ \A i \in 1 .. Len(stack) - 1 : stack[i] \in Frames
    BY <1>1
  <2>2. /\ s \in Seq(Frames) /\ Len(s) = Len(stack) - 1
        /\ \A i \in 1 .. Len(stack) - 1 : s[i] = stack[1 + i - 1]
    BY <2>1, SubSeqProperties
  <2> HIDE DEF s
  <2> QED
    BY <2>1, <2>2
<1>3. stack' = Advance(s)
  BY DEF Leave
<1> HIDE DEF s
<1>4. /\ stack' \in Seq(Frames) /\ Len(stack') = Len(s) /\ stack' # <<>>
      /\ \A i \in 1 .. Len(s) : stack'[i].ino = s[i].ino
      /\ \A i \in 1 .. (Len(s) - 1) : stack'[i] = s[i]
  BY <1>2, <1>3, AdvanceKeeps
<1>5. Len(stack) \in Nat /\ Len(s) \in Nat \ {0}
  BY <1>1, <1>2
<1>6. stack'[1].ino = Root
  BY <1>2, <1>4, <1>5 DEF Chain
<1>7. \A i \in 1 .. Len(stack') : Readable(stack'[i].ino)
  BY <1>2, <1>4, <1>5 DEF Chain
<1>8. ASSUME NEW i \in 1 .. (Len(stack') - 1)
      PROVE  /\ stack'[i].pos \in DOMAIN Entries(stack'[i].ino)
             /\ EntryOf(stack'[i]).ino = stack'[i + 1].ino
  <2>1. stack'[i] = stack[i] /\ stack'[i + 1].ino = stack[i + 1].ino
    BY <1>2, <1>4, <1>5
  <2>2. i \in 1 .. (Len(stack) - 1)
    BY <1>2, <1>4, <1>5
  <2> QED
    BY <2>1, <2>2 DEF Chain
<1> QED
  BY <1>4, <1>6, <1>7, <1>8 DEF Chain, Readable, Entries, EntryOf

(***************************************************************************)
(* Each action preserves the invariant                                     *)
(***************************************************************************)
LEMMA StartKeeps ==
    ASSUME Inv, NEW c \in Calls, NEW filter \in SUBSET Paths, Start(c, filter)
    PROVE  Inv'
<1> USE DEF Inv, Start
<1> DEFINE f == [ino |-> Root, pos |-> 1]
<1>1. f \in Frames
  BY NamesAssumption DEF Frames
<1>2. CASE Readable(Root)
  <2>1. stack' = <<f>> /\ pc' = "entry" /\ result' = "none"
    BY <1>2
  <2> HIDE DEF f
  <2>2. stack' \in Seq(Frames) /\ stack' # <<>> /\ Len(stack') = 1 /\ stack'[1] = f
    BY <1>1, <2>1
  <2>3. TypeOK'
    BY <2>1, <2>2 DEF TypeOK, Paths
  <2>4. Chain'
    BY <1>2, <2>2 DEF Chain, Readable, f
  <2>5. Looking' /\ Partial'
    BY <2>1 DEF Looking, RightContents, Partial
  <2> QED
    BY <2>3, <2>4, <2>5
<1>3. CASE ~Readable(Root)
  <2>1. stack' = <<>> /\ pc' = "idle" /\ result' = "failed"
    BY <1>3
  <2>2. TypeOK'
    BY <2>1, <1>3 DEF TypeOK, Paths
  <2>3. Chain' /\ Looking' /\ Partial'
    BY <2>1 DEF Chain, Looking, RightContents, Partial
  <2> QED
    BY <2>2, <2>3
<1> QED
  BY <1>2, <1>3

\* What every action needs of the current entry.
LEMMA AtEntryFacts ==
    ASSUME Inv, AtEntry
    PROVE  HasEntry /\ Path \in Paths /\ Here.ino \in Inodes /\ image \in Images
  BY PathType DEF Inv, AtEntry, HasEntry, TypeOK

\* Going on to another entry, the file being written, if any, done.
LEMMA WalkOn ==
    ASSUME Inv, Chain', stack' \in Seq(Frames), stack' # <<>>,
           pc' = "entry", pc # "idle", look' \in [ino : Inodes, n : Nat],
           UNCHANGED <<image, call, asked, full, opened, listed, result>>,
           DOMAIN files' = DOMAIN files, \A p \in DOMAIN files : files'[p] \in Node,
           \A p \in opened : files'[p].whole,
           directories' \in SUBSET Paths, scratch' \in SUBSET Paths,
           skipped' \in SUBSET Paths, told' \in Seq(Listed)
    PROVE  Inv'
<1>1. TypeOK'
  BY DEF Inv, TypeOK
<1>2. Looking'
  BY DEF Looking, RightContents
<1>3. Partial'
  BY DEF Inv, Partial
<1> QED
  BY <1>1, <1>2, <1>3 DEF Inv

LEMMA SkipEntryKeeps == Inv /\ SkipEntry => Inv'
<1> SUFFICES ASSUME Inv, SkipEntry PROVE Inv'
  OBVIOUS
<1>1. AtEntry /\ HasEntry /\ Path \in Paths
  BY AtEntryFacts DEF SkipEntry
<1>2. Chain' /\ stack' \in Seq(Frames) /\ stack' # <<>>
  BY <1>1, LeaveKeeps DEF Inv, SkipEntry, AtEntry
<1>3. pc' = "entry" /\ pc = "entry" /\ look' \in [ino : Inodes, n : Nat]
  BY NamesAssumption DEF SkipEntry, Leave, AtRoot, AtEntry
<1>4. \A p \in opened : files'[p].whole
  BY <1>3 DEF Inv, Partial, SkipEntry, output
<1> QED
  BY <1>1, <1>2, <1>3, <1>4, WalkOn DEF Inv, TypeOK, SkipEntry, output

LEMMA EnumerateKeeps == Inv /\ Enumerate => Inv'
<1> SUFFICES ASSUME Inv, Enumerate PROVE Inv'
  OBVIOUS
<1>1. AtEntry /\ HasEntry /\ Path \in Paths
  BY AtEntryFacts DEF Enumerate
<1>2. Chain' /\ stack' \in Seq(Frames) /\ stack' # <<>>
  <2>1. CASE Leave(stack)
    BY <1>1, <2>1, LeaveKeeps DEF Inv, Enumerate, AtEntry
  <2>2. CASE GoInto(Here.ino) /\ Here.ino \notin image.torn
    BY <1>1, <2>2, GoIntoKeeps DEF Inv, Enumerate, Readable
  <2> QED
    BY <2>1, <2>2 DEF Enumerate
<1>3. pc' = "entry" /\ pc = "entry" /\ look' \in [ino : Inodes, n : Nat]
  BY NamesAssumption DEF Enumerate, Leave, GoInto, AtRoot, AtEntry, Inv, TypeOK
<1>4. \A p \in opened : files'[p].whole
  BY <1>3 DEF Inv, Partial, Enumerate, output
<1>5. told' \in Seq(Listed)
  BY <1>1 DEF Enumerate, Listed, Inv, TypeOK
<1>6. skipped' \in SUBSET Paths
  BY <1>1 DEF Enumerate, Inv, TypeOK
<1> QED
  BY <1>1, <1>2, <1>3, <1>4, <1>5, <1>6, WalkOn DEF Inv, TypeOK, Enumerate, output

\* Directories above a path.
LEMMA AbovePaths ==
    ASSUME NEW p \in Paths
    PROVE  Above(p) \in SUBSET Paths /\ (p # <<>> => Front(p) \in Paths)
<1>1. Len(p) \in Nat /\ \A j \in 1 .. Len(p) : p[j] \in Names
  BY DEF Paths
<1>2. ASSUME NEW n \in 0 .. Len(p) PROVE SubSeq(p, 1, n) \in Paths
  BY <1>1, <1>2, SubSeqProperties DEF Paths
<1>3. p # <<>> => Len(p) - 1 \in 0 .. Len(p)
  BY <1>1 DEF Paths
<1> QED
  BY <1>2, <1>3 DEF Above, Front

LEMMA MakeDirectoriesType ==
    ASSUME TypeOK, NEW p \in Paths, MakeDirectories(p)
    PROVE  /\ directories' \in SUBSET Paths /\ scratch' \in SUBSET Paths
           /\ files' = files
  BY AbovePaths DEF TypeOK, MakeDirectories, MadeOnDisk

LEMMA ReportType ==
    ASSUME TypeOK, NEW p \in Paths, NEW k \in {"file", "directory"}, told' = Report(p, k)
    PROVE  told' \in Seq(Listed)
<1>1. [path |-> p, kind |-> k] \in Listed
  BY DEF Listed
<1> QED
  BY <1>1 DEF TypeOK, Report

LEMMA UnpackDirectoryKeeps == Inv /\ UnpackDirectory => Inv'
<1> SUFFICES ASSUME Inv, UnpackDirectory PROVE Inv'
  OBVIOUS
<1>1. AtEntry /\ HasEntry /\ Path \in Paths
  BY AtEntryFacts DEF UnpackDirectory
<1>2. Chain' /\ stack' \in Seq(Frames) /\ stack' # <<>>
  <2>1. CASE Leave(stack)
    BY <1>1, <2>1, LeaveKeeps DEF Inv, UnpackDirectory, AtEntry
  <2>2. CASE GoInto(Here.ino) /\ Here.ino \notin image.torn
    BY <1>1, <2>2, GoIntoKeeps DEF Inv, UnpackDirectory, Readable
  <2> QED
    BY <2>1, <2>2 DEF UnpackDirectory
<1>3. pc' = "entry" /\ pc = "entry" /\ look' \in [ino : Inodes, n : Nat]
  BY NamesAssumption DEF UnpackDirectory, Leave, GoInto, AtRoot, AtEntry, Inv, TypeOK
<1>4. /\ directories' \in SUBSET Paths /\ scratch' \in SUBSET Paths
      /\ files' = files
  BY <1>1, MakeDirectoriesType DEF UnpackDirectory, Inv, TypeOK, output
<1>5. \A p \in opened : files'[p].whole
  BY <1>3, <1>4 DEF Inv, Partial
<1>6. told' \in Seq(Listed)
  BY <1>1, ReportType DEF UnpackDirectory, Inv, TypeOK
<1>7. skipped' \in SUBSET Paths
  BY <1>1 DEF UnpackDirectory, Inv, TypeOK
<1>8. \A p \in DOMAIN files : files'[p] \in Node
  BY <1>4 DEF Inv, TypeOK
<1> QED
  BY <1>1, <1>2, <1>3, <1>4, <1>5, <1>6, <1>7, <1>8, WalkOn DEF UnpackDirectory

LEMMA UnpackFileKeeps == Inv /\ UnpackFile => Inv'
<1> SUFFICES ASSUME Inv, UnpackFile PROVE Inv'
  OBVIOUS
<1> USE DEF UnpackFile, output, report
<1>1. AtEntry /\ HasEntry /\ pc = "entry" /\ stack # <<>>
  BY AtEntryFacts DEF AtEntry
<1>2. look' = [ino |-> Root, n |-> 0] /\ look' \in [ino : Inodes, n : Nat]
  BY NamesAssumption DEF AtRoot
<1>3. TypeOK'
  BY <1>1, <1>2 DEF Inv, TypeOK, HasEntry, Top, Entries
<1>4. Chain'
  BY DEF Inv, Chain, Readable, Entries, EntryOf
<1>5. Looking'
  <2>1. Len(stack) \in Nat \ {0} /\ stack[1].ino = Root
    BY <1>1 DEF Inv, TypeOK, Chain
  <2> QED
    BY <1>2, <2>1 DEF Looking, RightContents
<1>6. Partial'
  BY <1>1 DEF Inv, Partial, Enumerating
<1> QED
  BY <1>3, <1>4, <1>5, <1>6 DEF Inv

\* Where the lookup is going while the stack stays as it is.
LEMMA LookupFacts ==
    ASSUME Inv, pc \in {"lookup", "open", "write"}
    PROVE  /\ HasEntry /\ stack # <<>> /\ Path \in Paths /\ Len(Path) = Len(stack)
           /\ Len(stack) \in Nat \ {0} /\ Here.ino \in Inodes
           /\ look.ino \in Inodes /\ look.n \in Nat /\ image \in Images
<1>1. stack # <<>> /\ HasEntry
  BY DEF Inv, TypeOK, HasEntry
<1>2. Len(stack) \in Nat \ {0}
  BY <1>1 DEF Inv, TypeOK
<1> QED
  BY <1>1, <1>2, PathType DEF Inv, TypeOK

\* Unless names clash, the next name leads where the walk went, and the place
\* can be read.
LEMMA LookupFollowsWalk ==
    ASSUME Inv, pc = "lookup", WellNamed, look.n < Len(stack)
    PROVE  LET n == Path[look.n + 1]
           IN  /\ Readable(look.ino) /\ Matches(look.ino, n) # {}
               /\ Entries(look.ino)[First(look.ino, n)].ino
                     = IF look.n + 1 < Len(stack) THEN stack[look.n + 2].ino ELSE Here.ino
<1> DEFINE m == look.n + 1
<1>1. m \in 1 .. Len(stack) /\ look.ino = stack[m].ino
  BY LookupFacts DEF Inv, Looking
<1>2. /\ stack[m].pos \in DOMAIN Entries(stack[m].ino)
      /\ Path[m] = Entries(stack[m].ino)[stack[m].pos].name
  BY <1>1, PathType, LookupFacts DEF Inv, EntryOf
<1>3. Readable(look.ino)
  BY <1>1 DEF Inv, Chain
<1>4. Matches(look.ino, Path[m]) # {} /\ First(look.ino, Path[m]) = stack[m].pos
  BY <1>1, <1>2, OnlyMatch, LookupFacts
<1>5. EntryOf(stack[m]).ino = IF m < Len(stack) THEN stack[m + 1].ino ELSE Here.ino
  <2>1. CASE m < Len(stack)
    <3>1. m \in 1 .. (Len(stack) - 1)
      BY <2>1, <1>1, LookupFacts
    <3> QED
      BY <2>1, <3>1 DEF Inv, Chain
  <2>2. CASE m = Len(stack)
    BY <2>2 DEF Here, Top
  <2> QED
    BY <2>1, <2>2, <1>1, LookupFacts
<1>6. m + 1 = look.n + 2
  BY LookupFacts
<1> QED
  BY <1>1, <1>3, <1>4, <1>5, <1>6 DEF EntryOf

LEMMA LookUpKeeps == Inv /\ LookUp => Inv'
<1> SUFFICES ASSUME Inv, LookUp PROVE Inv'
  OBVIOUS
<1> USE DEF LookUp, output, report
<1> DEFINE n == Path[look.n + 1]
<1>1. pc = "lookup" /\ pc' = "lookup" /\ look.n < Len(stack) /\ stack' = stack
  OBVIOUS
<1>2. n \in Names
  <2>1. look.n + 1 \in 1 .. Len(Path)
    BY <1>1, LookupFacts
  <2> QED
    BY <2>1, <1>1, LookupFacts DEF Paths
<1>3. Entries(look.ino)[First(look.ino, n)].ino \in Inodes
  BY <1>1, <1>2, LookupFacts, FirstMatches
<1>4. look' = [ino |-> Entries(look.ino)[First(look.ino, n)].ino, n |-> look.n + 1]
  OBVIOUS
<1> HIDE DEF n
<1>5. TypeOK'
  BY <1>1, <1>3, <1>4, LookupFacts DEF Inv, TypeOK, Top, Entries
<1>6. Chain'
  BY DEF Inv, Chain, Readable, Entries, EntryOf
<1>7. Looking'
  <2>1. look'.n = look.n + 1 /\ look'.n <= Len(stack)
    BY <1>1, <1>4, LookupFacts
  <2>2. WellNamed =>
          look'.ino = IF look.n + 1 < Len(stack) THEN stack[look.n + 2].ino ELSE Here.ino
    BY <1>1, <1>4, LookupFollowsWalk DEF n
  <2>3. look.n + 2 = look'.n + 1
    BY <2>1, LookupFacts
  <2>4. WellNamed' = WellNamed /\ Here' = Here
    BY DEF WellNamed, Same, Here, Top, Entries, EntryOf
  <2> QED
    BY <1>1, <2>1, <2>2, <2>3, <2>4 DEF Looking, RightContents
<1>8. Partial'
  BY <1>1 DEF Inv, Partial
<1> QED
  BY <1>5, <1>6, <1>7, <1>8 DEF Inv

LEMMA ScratchType == ASSUME TypeOK, RemoveScratch PROVE scratch' \in SUBSET Paths
  BY DEF TypeOK, RemoveScratch

\* error(), wherever it is called from
LEMMA AbortKeeps ==
    ASSUME Inv, pc # "idle", Abort
    PROVE  Inv'
<1> USE DEF Abort, Return, report
<1>1. TypeOK'
  BY ScratchType, NamesAssumption DEF Inv, TypeOK, AtRoot
<1>2. Chain'
  BY DEF Chain
<1>3. Looking'
  BY DEF Looking, RightContents
<1>4. Partial'
  BY DEF Inv, Partial
<1> QED
  BY <1>1, <1>2, <1>3, <1>4 DEF Inv

LEMMA FailuresKeep ==
    Inv /\ (LookUpFails \/ GetFileFails \/ OpenFails \/ WriteFails) => Inv'
  BY AbortKeeps DEF LookUpFails, GetFileFails, OpenFails, WriteFails

LEMMA AnnounceKeeps == Inv /\ Announce => Inv'
<1> SUFFICES ASSUME Inv, Announce PROVE Inv'
  OBVIOUS
<1> DEFINE kind == KindOf(look.ino)
<1>1. pc = "lookup" /\ kind \in {"file", "directory"}
  BY DEF Announce, KindOf
<1>2. told' = Report(Path, kind) /\ told' \in Seq(Listed)
  BY <1>1, LookupFacts, ReportType DEF Announce, Inv
<1>3. MakeDirectories(Path) \/ MakeDirectories(Front(Path)) \/ UNCHANGED output
  BY DEF Announce
<1>4. Front(Path) \in Paths
  BY <1>1, LookupFacts, AbovePaths
<1>5. /\ directories' \in SUBSET Paths /\ scratch' \in SUBSET Paths
      /\ files' = files
  BY <1>1, <1>3, <1>4, LookupFacts, MakeDirectoriesType DEF Inv, TypeOK, output
<1>6. \A p \in opened : files'[p].whole
  BY <1>1, <1>5 DEF Inv, Partial
<1>7. CASE Leave(stack)
  <2>1. Chain' /\ stack' \in Seq(Frames) /\ stack' # <<>>
    BY <1>1, <1>7, LookupFacts, LeaveKeeps DEF Inv, Announce
  <2>2. pc' = "entry" /\ look' \in [ino : Inodes, n : Nat]
    BY <1>7, NamesAssumption DEF Leave, AtRoot
  <2> QED
    BY <1>1, <1>2, <1>5, <1>6, <2>1, <2>2, WalkOn DEF Announce, Inv, TypeOK
<1>8. CASE /\ pc' = "open" /\ UNCHANGED <<stack, look>>
           /\ Needed(Path, kind) /\ kind # "directory"
  <2>1. TypeOK'
    BY <1>1, <1>2, <1>5, <1>8 DEF Inv, TypeOK, Announce, Top, Entries
  <2>2. Chain'
    BY <1>8 DEF Inv, Chain, Readable, Entries, EntryOf, Announce
  <2>3. Looking'
    <3>1. WellNamed' = WellNamed /\ Here' = Here
      BY <1>8 DEF WellNamed, Same, Here, Top, Entries, EntryOf, Announce
    <3>2. look.n = Len(stack)
      BY DEF Announce
    <3>3. WellNamed => look.ino = Here.ino
      BY <1>1, <3>2, LookupFacts DEF Inv, Looking
    <3> QED
      BY <1>8, <3>1, <3>3 DEF Looking, RightContents
  <2>4. Partial'
    <3>1. Reported(Path, kind)
      <4>1. call \in {"list", "extract", "unpack"}
        BY <1>1 DEF Inv, TypeOK, Partial, Calls
      <4> QED
        BY <4>1, <1>8 DEF Reported
    <3>2. told' = Append(told, [path |-> Path, kind |-> kind])
      BY <1>2, <3>1 DEF Report
    <3>3. told' # <<>> /\ told'[Len(told')].path = Path
      BY <3>2 DEF Inv, TypeOK
    <3>4. Path' = Path
      BY <1>8 DEF Path, Entries, EntryOf, Announce
    <3> QED
      BY <1>1, <1>6, <1>8, <3>3, <3>4 DEF Inv, Partial, Announce
  <2> QED
    BY <2>1, <2>2, <2>3, <2>4 DEF Inv
<1> QED
  BY <1>7, <1>8 DEF Announce

LEMMA OpenFileKeeps == Inv /\ OpenFile => Inv'
<1> SUFFICES ASSUME Inv, OpenFile PROVE Inv'
  OBVIOUS
<1>1. /\ pc = "open" /\ pc' = "write" /\ UNCHANGED <<image, stack, look, told, call, result>>
      /\ opened' = opened \cup {Path}
  BY DEF OpenFile
<1>2. Path \in Paths /\ look.ino \in Inodes
  BY <1>1, LookupFacts
<1>3. /\ DOMAIN files' = DOMAIN files \cup {Path}
      /\ \A p \in DOMAIN files' :
            files'[p] = IF p = Path THEN [of |-> look.ino, whole |-> FALSE] ELSE files[p]
  BY DEF OpenFile, Put
<1>4. TypeOK'
  <2>1. DOMAIN files' \in SUBSET Paths
    BY <1>2, <1>3 DEF Inv, TypeOK
  <2>2. [of |-> look.ino, whole |-> FALSE] \in Node
    BY <1>2 DEF Node
  <2>3. \A p \in DOMAIN files' : files'[p] \in Node
    BY <1>3, <2>2 DEF Inv, TypeOK
  <2>4. opened' \in SUBSET DOMAIN files'
    BY <1>1, <1>3 DEF Inv, TypeOK
  <2> QED
    BY <1>1, <2>1, <2>3, <2>4 DEF Inv, TypeOK, OpenFile, Top, Entries
<1>5. Chain'
  BY <1>1 DEF Inv, Chain, Readable, Entries, EntryOf
<1>6. Path' = Path /\ WellNamed' = WellNamed /\ Here' = Here
  BY <1>1 DEF Path, WellNamed, Same, Here, Top, Entries, EntryOf
<1>7. Looking'
  BY <1>1, <1>6 DEF Inv, Looking, RightContents
<1>8. Partial'
  <2>1. told # <<>> /\ told[Len(told)].path = Path
    BY <1>1 DEF Inv, Partial
  <2>2. \A p \in opened' : p # Path => files'[p].whole
    BY <1>1, <1>3 DEF Inv, Partial, TypeOK
  <2> QED
    BY <1>1, <1>6, <2>1, <2>2 DEF Inv, Partial
<1> QED
  BY <1>4, <1>5, <1>7, <1>8 DEF Inv

LEMMA WriteFileKeeps == Inv /\ WriteFile => Inv'
<1> SUFFICES ASSUME Inv, WriteFile PROVE Inv'
  OBVIOUS
<1>1. pc = "write" /\ Leave(stack) /\ files' = [files EXCEPT ![Path].whole = TRUE]
  BY DEF WriteFile
<1>2. Path \in opened /\ Path \in DOMAIN files /\ files[Path] \in Node
  BY <1>1 DEF Inv, Partial, TypeOK
<1>3. /\ DOMAIN files' = DOMAIN files
      /\ \A p \in DOMAIN files : p # Path => files'[p] = files[p]
      /\ files'[Path] \in Node /\ files'[Path].whole
  BY <1>1, <1>2 DEF Node
<1>4. \A p \in opened : files'[p].whole
  BY <1>1, <1>3 DEF Inv, Partial, TypeOK
<1>5. Chain' /\ stack' \in Seq(Frames) /\ stack' # <<>>
  BY <1>1, LookupFacts, LeaveKeeps DEF Inv, WriteFile
<1>6. pc' = "entry" /\ look' \in [ino : Inodes, n : Nat]
  BY <1>1, NamesAssumption DEF Leave, AtRoot
<1>7. \A p \in DOMAIN files : files'[p] \in Node
  BY <1>3 DEF Inv, TypeOK
<1> QED
  BY <1>1, <1>3, <1>4, <1>5, <1>6, <1>7, WalkOn DEF Inv, TypeOK, WriteFile, report

LEMMA CloseDirectoryKeeps == Inv /\ CloseDirectory => Inv'
<1> SUFFICES ASSUME Inv, CloseDirectory PROVE Inv'
  OBVIOUS
<1>1. Chain' /\ stack' \in Seq(Frames) /\ stack' # <<>>
  BY CloseKeeps DEF Inv, CloseDirectory
<1>2. pc = "entry" /\ pc' = "entry" /\ look' \in [ino : Inodes, n : Nat]
  BY NamesAssumption DEF CloseDirectory, AtEnd, Leave, AtRoot
<1>3. \A p \in opened : files'[p].whole
  BY <1>2 DEF Inv, Partial, CloseDirectory, output
<1> QED
  BY <1>1, <1>2, <1>3, WalkOn DEF Inv, TypeOK, CloseDirectory, output, report

LEMMA FinishKeeps == Inv /\ Finish => Inv'
<1> SUFFICES ASSUME Inv, Finish PROVE Inv'
  OBVIOUS
<1> USE DEF Finish, Return, report
<1>1. TypeOK'
  BY ScratchType, NamesAssumption DEF Inv, TypeOK, AtRoot
<1>2. Chain' /\ Looking'
  BY DEF Chain, Looking, RightContents
<1>3. Partial'
  BY DEF Inv, Partial, AtEnd
<1> QED
  BY <1>1, <1>2, <1>3 DEF Inv

LEMMA StandStillKeeps ==
    ASSUME Inv, UNCHANGED <<image, call, asked, walk, output, report, listed, result>>,
           full' \in BOOLEAN
    PROVE  Inv'
<1> USE DEF walk, output, report
<1>1. TypeOK'
  BY DEF Inv, TypeOK, Top, Entries
<1>2. Chain'
  BY DEF Inv, Chain, Readable, Entries, EntryOf
<1>3. Looking'
  <2>1. WellNamed' <=> WellNamed
    BY DEF WellNamed, Same, Entries
  <2>2. Here' = Here
    BY DEF Here, Top, Entries, EntryOf
  <2> QED BY <2>1, <2>2 DEF Inv, Looking, RightContents
<1>4. Partial'
  BY DEF Inv, Partial, Path, Entries, EntryOf
<1> QED
  BY <1>1, <1>2, <1>3, <1>4 DEF Inv

LEMMA CallsKeep == Inv /\ (List \/ Extract \/ Unpack) => Inv'
<1>1. Inv /\ List => Inv'
  BY StartKeeps DEF List, Calls
<1>2. Inv /\ Extract => Inv'
  <2> SUFFICES ASSUME Inv, Extract PROVE Inv'
    OBVIOUS
  <2>1. \A i \in DOMAIN listed : listed[i].path \in Paths
    <3>1. \A i \in DOMAIN listed : listed[i] \in Listed
      BY DEF Inv, TypeOK
    <3> QED
      BY <3>1 DEF Listed
  <2>2. Choices \subseteq SUBSET Paths
    BY <2>1 DEF Choices
  <2> QED
    BY <2>2, StartKeeps DEF Extract, Calls
<1>3. Inv /\ Unpack => Inv'
  BY RequestsAssumption, StartKeeps DEF Unpack, Calls
<1> QED
  BY <1>1, <1>2, <1>3

LEMMA InitInv == Init => Inv
<1> SUFFICES ASSUME Init PROVE Inv
  OBVIOUS
<1>1. PICK d \in Leftovers :
          /\ directories = d.directories
          /\ files = [p \in d.files |-> [of |-> Root, whole |-> TRUE]]
  BY DEF Init
<1>2. [of |-> Root, whole |-> TRUE] \in Node
  BY DEF Node
<1>3. /\ directories \in SUBSET Paths /\ DOMAIN files \in SUBSET Paths
      /\ \A p \in DOMAIN files : files[p] \in Node
  BY <1>1, <1>2, LeftoversAssumption
<1>4. stack \in Seq(Frames) /\ told \in Seq(Listed) /\ listed \in Seq(Listed)
  BY DEF Init
<1>5. look \in [ino : Inodes, n : Nat]
  BY NamesAssumption DEF Init, AtRoot
<1>6. directories \in SUBSET Paths /\ opened \in SUBSET DOMAIN files
      /\ scratch \in SUBSET Paths /\ skipped \in SUBSET Paths /\ asked \in SUBSET Paths
  BY <1>3 DEF Init
<1>7. TypeOK
  BY <1>3, <1>4, <1>5, <1>6 DEF Init, TypeOK, Calls
<1> QED
  BY <1>7 DEF Inv, Init, Chain, Looking, RightContents, Partial

LEMMA NextInv == Inv /\ [Next]_vars => Inv'
<1> SUFFICES ASSUME Inv, [Next]_vars PROVE Inv'
  OBVIOUS
<1>1. CASE List \/ Extract \/ Unpack
  BY <1>1, CallsKeep
<1>2. CASE Step
  BY <1>2, SkipEntryKeeps, EnumerateKeeps, UnpackDirectoryKeeps, UnpackFileKeeps,
     LookUpKeeps, FailuresKeep, AnnounceKeeps, OpenFileKeeps, WriteFileKeeps,
     CloseDirectoryKeeps, FinishKeeps DEF Step
<1>3. CASE DiskChanges
  BY <1>3, StandStillKeeps DEF DiskChanges
<1>4. CASE UNCHANGED vars
  <2>1. full' \in BOOLEAN
    BY <1>4 DEF Inv, TypeOK, vars
  <2> QED
    BY <1>4, <2>1, StandStillKeeps DEF vars
<1> QED
  BY <1>1, <1>2, <1>3, <1>4 DEF Next

\* The open directories are a chain of entries from the root, the lookup
\* follows it, and only the file being written is incomplete.
THEOREM Invariant == Spec => []Inv
  BY InitInv, NextInv, PTL DEF Spec

(***************************************************************************)
(* What follows                                                            *)
(***************************************************************************)
\* Every variable keeps its type: positions and paths stay inside the image.
THEOREM TypeCorrect == Spec => []TypeOK
<1>1. Inv => TypeOK
  BY DEF Inv
<1> QED
  BY <1>1, Invariant, PTL

\* In an image without clashing names a file is extracted from the inode its
\* entry names, although pfs_unpack_single finds it by path.
THEOREM LookupFindsTheEntry == Spec => []RightContents
<1>1. Inv => RightContents
  BY DEF Inv, Looking
<1> QED
  BY <1>1, Invariant, PTL

\* An extraction leaves at most one incomplete file, the one it named last.
THEOREM OneFileAtRisk == Spec => []OnePartialFile
<1>1. Inv => OnePartialFile
  <2> SUFFICES ASSUME Inv, NEW p \in opened, ~files[p].whole
               PROVE  /\ pc = "write" \/ result = "failed"
                      /\ told # <<>> /\ told[Len(told)].path = p
    BY DEF OnePartialFile
  <2>1. pc \in {"idle", "write"}
    BY DEF Inv, TypeOK, Partial
  <2> QED
    BY <2>1 DEF Inv, Partial
<1> QED
  BY <1>1, Invariant, PTL

\* In a readable image without clashing names nothing but the output directory
\* makes a call fail that has begun: the lookup cannot miss.
THEOREM OnlyTheDirectoryFails == Spec => OnlyTheDiskFails
<1> DEFINE Bad == (pc = "open" /\ ~Openable) \/ (pc \in {"open", "write"} /\ full)
<1>1. ASSUME Inv, [Next]_vars, Sound, pc # "idle", result' = "failed"
      PROVE  Bad
  <2>1. result # "failed"
    BY <1>1 DEF Inv, Partial
  <2>2. ~LookUpFails
    BY <1>1, LookupFollowsWalk DEF LookUpFails, Sound
  <2>3. ~GetFileFails
    BY <1>1 DEF GetFileFails, Sound
  <2>4. OpenFails => Bad
    BY DEF OpenFails
  <2>5. WriteFails => Bad
    BY <1>1 DEF WriteFails, Sound
  <2>6. ~(List \/ Extract \/ Unpack)
    BY <1>1 DEF List, Extract, Unpack, Start
  <2>7. ~Finish
    BY <1>1 DEF Finish, Return
  <2>8. CASE UNCHANGED result
    BY <1>1, <2>1, <2>8
  <2> QED
    BY <1>1, <2>2, <2>3, <2>4, <2>5, <2>6, <2>7, <2>8
       DEF Next, Step, vars, SkipEntry, Enumerate, UnpackDirectory, UnpackFile, LookUp,
           Announce, OpenFile, WriteFile, CloseDirectory, DiskChanges
<1>2. Inv /\ [Next]_vars => [Sound /\ pc # "idle" /\ result' = "failed" => Bad]_vars
  BY <1>1
<1> QED
  BY <1>2, Invariant, PTL DEF Spec, OnlyTheDiskFails

(***************************************************************************)
(* What is named once                                                      *)
(***************************************************************************)
\* A path that a walk with these open directories is past: it leaves the
\* current path by an earlier entry.
Past(s, p) ==
    \E d \in DOMAIN s :
        /\ d <= Len(p)
        /\ \A k \in 1 .. d - 1 : p[k] = EntryOf(s[k]).name
        /\ \E m \in DOMAIN Entries(s[d].ino) :
              m < s[d].pos /\ p[d] = Entries(s[d].ino)[m].name
ToldPaths == {told[i].path : i \in DOMAIN told}
Distinct == \A i, j \in DOMAIN told : told[i].path = told[j].path => i = j
\* An extraction names a file when it is about to open it, and is then past it.
Counting ==
    call = "extract" =>
        /\ pc # "idle" \/ result = "ok" =>
              ToldPaths = opened \cup (IF pc = "open" THEN {Path} ELSE {})
        /\ pc # "idle" => \A i \in DOMAIN told :
              Past(stack, told[i].path) \/ (pc \in {"open", "write"} /\ told[i].path = Path)
        /\ WellNamed => Distinct

LEMMA AdvanceMoves ==
    ASSUME NEW s \in Seq(Frames), s # <<>>
    PROVE  Advance(s)[Len(s)].pos = s[Len(s)].pos + 1
<1> DEFINE r == [s[Len(s)] EXCEPT !.pos = @ + 1]
<1>1. Len(s) \in 1 .. Len(s) /\ s[Len(s)] \in Frames
  OBVIOUS
<1>2. r.pos = s[Len(s)].pos + 1
  BY <1>1 DEF Frames
<1>3. Advance(s) = [s EXCEPT ![Len(s)] = r]
  BY <1>1 DEF Advance, Frames
<1> HIDE DEF r
<1> QED
  BY <1>1, <1>2, <1>3

\* Nothing that the walk is past comes back.
LEMMA StaysPast ==
    ASSUME image \in Images, NEW s \in Seq(Frames), s # <<>>, NEW p, Past(s, p)
    PROVE  Past(Advance(s), p)
<1> DEFINE t == Advance(s)
<1>1. /\ Len(s) \in 1 .. Len(s) /\ Len(s) \in Nat
      /\ DOMAIN s = 1 .. Len(s) /\ \A i \in DOMAIN s : s[i] \in Frames
  OBVIOUS
<1>2. /\ t \in Seq(Frames) /\ Len(t) = Len(s) /\ DOMAIN t = DOMAIN s
      /\ \A i \in DOMAIN s : t[i].ino = s[i].ino
      /\ \A i \in 1 .. Len(s) - 1 : t[i] = s[i]
      /\ t[Len(s)].pos = s[Len(s)].pos + 1
  BY <1>1, AdvanceKeeps, AdvanceMoves
<1> HIDE DEF t
<1>3. PICK d \in DOMAIN s :
        /\ d <= Len(p)
        /\ \A k \in 1 .. d - 1 : p[k] = EntryOf(s[k]).name
        /\ \E m \in DOMAIN Entries(s[d].ino) :
              m < s[d].pos /\ p[d] = Entries(s[d].ino)[m].name
  BY DEF Past
<1>4. PICK m \in DOMAIN Entries(s[d].ino) :
              m < s[d].pos /\ p[d] = Entries(s[d].ino)[m].name
  BY <1>3
<1>5. ASSUME NEW k \in 1 .. d - 1 PROVE p[k] = EntryOf(t[k]).name
  <2>1. t[k] = s[k]
    BY <1>1, <1>2
  <2> QED
    BY <1>3, <2>1
<1>6. m < t[d].pos
  <2>1. s[d].pos \in Nat /\ m \in Nat
    BY <1>1, EntryTypes DEF Frames
  <2>2. t[d].pos = s[d].pos \/ t[d].pos = s[d].pos + 1
    BY <1>1, <1>2
  <2> QED
    BY <1>4, <2>1, <2>2
<1>7. m \in DOMAIN Entries(t[d].ino) /\ p[d] = Entries(t[d].ino)[m].name /\ d \in DOMAIN t
  BY <1>2, <1>4
<1>8. Past(t, p)
  BY <1>3, <1>5, <1>6, <1>7 DEF Past
<1> QED
  BY <1>8 DEF t

\* The entry it moves on from is behind it.
LEMMA NowPast ==
    ASSUME TypeOK, Chain, HasEntry
    PROVE  Past(Advance(stack), Path)
<1> DEFINE d == Len(stack)
           m == stack[d].pos
           t == Advance(stack)
           p == Path
<1>1. /\ stack \in Seq(Frames) /\ stack # <<>> /\ d \in 1 .. d /\ d \in Nat
      /\ DOMAIN stack = 1 .. d /\ m \in Nat
  BY FrameTypes DEF TypeOK, HasEntry
<1>2. /\ DOMAIN t = DOMAIN stack
      /\ \A i \in DOMAIN stack : t[i].ino = stack[i].ino
      /\ \A i \in 1 .. d - 1 : t[i] = stack[i]
      /\ t[d].pos = m + 1
  BY <1>1, AdvanceKeeps, AdvanceMoves
<1>3. /\ Len(p) = d
      /\ \A i \in 1 .. d : p[i] = EntryOf(stack[i]).name
      /\ m \in DOMAIN Entries(stack[d].ino)
  BY <1>1, PathType
<1>4. p[d] = Entries(stack[d].ino)[m].name
  BY <1>1, <1>3 DEF EntryOf
<1> HIDE DEF p, m, t
<1>5. ASSUME NEW k \in 1 .. d - 1 PROVE p[k] = EntryOf(t[k]).name
  <2>1. t[k] = stack[k] /\ k \in 1 .. d
    BY <1>1, <1>2
  <2> QED
    BY <1>3, <2>1
<1>6. /\ m \in DOMAIN Entries(t[d].ino) /\ m < t[d].pos
      /\ p[d] = Entries(t[d].ino)[m].name /\ d \in DOMAIN t /\ d <= Len(p)
  BY <1>1, <1>2, <1>3, <1>4
<1>7. Past(t, p)
  BY <1>5, <1>6 DEF Past
<1> QED
  BY <1>7 DEF t, p

\* Going into a directory is no step on.
LEMMA InsidePast ==
    ASSUME NEW s \in Seq(Frames), NEW f, NEW p, Past(s, p)
    PROVE  Past(Append(s, f), p)
<1> DEFINE t == Append(s, f)
<1>1. /\ Len(s) \in Nat /\ DOMAIN s = 1 .. Len(s) /\ DOMAIN t = 1 .. Len(s) + 1
      /\ \A i \in 1 .. Len(s) : t[i] = s[i]
  OBVIOUS
<1> HIDE DEF t
<1>2. PICK d \in DOMAIN s :
        /\ d <= Len(p)
        /\ \A k \in 1 .. d - 1 : p[k] = EntryOf(s[k]).name
        /\ \E m \in DOMAIN Entries(s[d].ino) :
              m < s[d].pos /\ p[d] = Entries(s[d].ino)[m].name
  BY DEF Past
<1>3. d \in DOMAIN t /\ t[d] = s[d] /\ \A k \in 1 .. d - 1 : t[k] = s[k]
  BY <1>1
<1>4. Past(t, p)
  BY <1>2, <1>3 DEF Past
<1> QED
  BY <1>4 DEF t

\* What was past inside a directory is past behind it.
LEMMA OutsidePast ==
    ASSUME TypeOK, Chain, Len(stack) > 1, NEW p, Past(stack, p)
    PROVE  Past(Advance(SubSeq(stack, 1, Len(stack) - 1)), p)
<1> DEFINE n == Len(stack)
           s == SubSeq(stack, 1, n - 1)
           t == Advance(s)
<1>1. /\ stack \in Seq(Frames) /\ n \in Nat /\ n > 1 /\ image \in Images
      /\ DOMAIN stack = 1 .. n /\ \A i \in 1 .. n : stack[i] \in Frames
  BY DEF TypeOK
<1>2. /\ s \in Seq(Frames) /\ Len(s) = n - 1 /\ s # <<>> /\ DOMAIN s = 1 .. n - 1
      /\ \A i \in 1 .. n - 1 : s[i] = stack[i]
  <2>1. \A i \in 1 .. n - 1 : stack[i] \in Frames
    BY <1>1
  <2>2. /\ s \in Seq(Frames) /\ Len(s) = n - 1
        /\ \A i \in 1 .. n - 1 : s[i] = stack[1 + i - 1]
    BY <1>1, <2>1, SubSeqProperties
  <2> HIDE DEF s
  <2> QED
    BY <1>1, <2>2
<1> HIDE DEF s
<1>3. PICK d \in DOMAIN stack :
        /\ d <= Len(p)
        /\ \A k \in 1 .. d - 1 : p[k] = EntryOf(stack[k]).name
        /\ \E m \in DOMAIN Entries(stack[d].ino) :
              m < stack[d].pos /\ p[d] = Entries(stack[d].ino)[m].name
  BY DEF Past
<1>4. CASE d < n
  <2>1. d \in DOMAIN s /\ s[d] = stack[d] /\ \A k \in 1 .. d - 1 : s[k] = stack[k]
    BY <1>1, <1>2, <1>4
  <2>2. Past(s, p)
    BY <1>3, <2>1 DEF Past
  <2>3. Past(t, p)
    BY <1>1, <1>2, <2>2, StaysPast
  <2> QED
    BY <2>3 DEF t, s
<1>5. CASE d = n
  <2> DEFINE m == stack[n - 1].pos
  <2>1. m \in Nat /\ m \in DOMAIN Entries(stack[n - 1].ino) /\ n - 1 \in 1 .. n - 1
    BY <1>1 DEF Chain, Frames
  <2>2. p[n - 1] = Entries(stack[n - 1].ino)[m].name
    BY <1>1, <1>3, <1>5 DEF EntryOf
  <2>3. /\ DOMAIN t = 1 .. n - 1 /\ t[n - 1].ino = stack[n - 1].ino /\ t[n - 1].pos = m + 1
        /\ \A i \in 1 .. n - 1 - 1 : t[i] = stack[i]
    <3>1. /\ DOMAIN t = 1 .. n - 1 /\ t[n - 1].ino = s[n - 1].ino
          /\ t[n - 1].pos = s[n - 1].pos + 1 /\ \A i \in 1 .. n - 1 - 1 : t[i] = s[i]
      <4>1. /\ t \in Seq(Frames) /\ Len(t) = Len(s) /\ \A i \in 1 .. Len(s) : t[i].ino = s[i].ino
            /\ \A i \in 1 .. Len(s) - 1 : t[i] = s[i]
            /\ t[Len(s)].pos = s[Len(s)].pos + 1
        BY <1>2, AdvanceKeeps, AdvanceMoves
      <4>2. n - 1 \in 1 .. n - 1
        BY <1>1
      <4> HIDE DEF n, t
      <4> QED
        BY <1>2, <4>1, <4>2
    <3> QED
      BY <1>1, <1>2, <3>1
  <2> HIDE DEF t, m
  <2>4. \A k \in 1 .. n - 1 - 1 : p[k] = EntryOf(t[k]).name
    <3> SUFFICES ASSUME NEW k \in 1 .. n - 1 - 1 PROVE p[k] = EntryOf(t[k]).name
      OBVIOUS
    <3>1. k \in 1 .. d - 1
      BY <1>1, <1>5
    <3> QED
      BY <1>3, <2>3, <3>1
  <2>5. /\ n - 1 \in DOMAIN t /\ m \in DOMAIN Entries(t[n - 1].ino) /\ m < t[n - 1].pos
        /\ p[n - 1] = Entries(t[n - 1].ino)[m].name
    BY <2>1, <2>2, <2>3
  <2>6. n - 1 <= Len(p)
    BY <1>1, <1>3, <1>5
  <2>7. Past(t, p)
    BY <2>4, <2>5, <2>6 DEF Past
  <2> QED
    BY <2>7 DEF t, s
<1> QED
  BY <1>1, <1>3, <1>4, <1>5

\* A path with distinct names is new when the walk comes to it.
LEMMA NotYetPast ==
    ASSUME TypeOK, Chain, HasEntry, WellNamed
    PROVE  ~Past(stack, Path)
<1> SUFFICES ASSUME Past(stack, Path) PROVE FALSE
  OBVIOUS
<1>1. PICK d \in DOMAIN stack : \E m \in DOMAIN Entries(stack[d].ino) :
              m < stack[d].pos /\ Path[d] = Entries(stack[d].ino)[m].name
  BY DEF Past
<1>2. PICK m \in DOMAIN Entries(stack[d].ino) :
              m < stack[d].pos /\ Path[d] = Entries(stack[d].ino)[m].name
  BY <1>1
<1>3. /\ d \in 1 .. Len(stack) /\ stack[d].ino \in Inodes /\ stack[d].pos \in Nat
      /\ image \in Images
  BY FrameTypes DEF TypeOK
<1>4. Path[d] = Entries(stack[d].ino)[stack[d].pos].name
      /\ stack[d].pos \in DOMAIN Entries(stack[d].ino)
  BY <1>3, PathType DEF EntryOf
<1>5. m = stack[d].pos
  BY <1>2, <1>3, <1>4 DEF WellNamed, Same
<1>6. m \in Nat
  BY <1>3, EntryTypes
<1> QED
  BY <1>2, <1>5, <1>6

\* A step that names and opens nothing and goes on in the walk.
LEMMA CountOn ==
    ASSUME Counting, UNCHANGED <<image, call, told, opened>>,
           pc \in {"entry", "lookup", "write"}, pc' \in {"entry", "lookup"},
           \A p : Past(stack, p) => Past(stack', p),
           pc = "write" => Past(stack', Path)
    PROVE  Counting'
<1> SUFFICES ASSUME call = "extract" PROVE Counting'
  BY DEF Counting
<1>1. \A i \in DOMAIN told : Past(stack', told[i].path)
  BY DEF Counting
<1>2. ASSUME NEW i \in DOMAIN told PROVE Past(stack, told[i].path)'
  <2>1. Past(stack', told[i].path)
    BY <1>1
  <2> QED
    BY <2>1 DEF Past, Entries, EntryOf
<1>3. ToldPaths' = opened'
  BY DEF Counting, ToldPaths
<1>4. WellNamed' => Distinct'
  BY DEF Counting, WellNamed, Distinct, Same, Entries
<1> QED
  BY <1>2, <1>3, <1>4 DEF Counting

\* The same of a step to the next entry.
LEMMA CountLeave ==
    ASSUME Inv, Counting, UNCHANGED <<image, call, told, opened>>,
           pc \in {"entry", "lookup", "write"}, stack # <<>>, Leave(stack)
    PROVE  Counting'
<1>1. stack \in Seq(Frames) /\ image \in Images
  BY DEF Inv, TypeOK
<1>2. \A p : Past(stack, p) => Past(Advance(stack), p)
  BY <1>1, StaysPast
<1>3. pc = "write" => Past(Advance(stack), Path)
  BY LookupFacts, NowPast DEF Inv
<1> QED
  BY <1>2, <1>3, CountOn DEF Leave

LEMMA CountInto ==
    ASSUME Inv, Counting, UNCHANGED <<image, call, told, opened>>,
           pc = "entry", GoInto(Here.ino)
    PROVE  Counting'
<1> DEFINE f == [ino |-> Here.ino, pos |-> 1]
<1>1. stack \in Seq(Frames)
  BY DEF Inv, TypeOK
<1>2. \A p : Past(stack, p) => Past(Append(stack, f), p)
  BY <1>1, InsidePast
<1> QED
  BY <1>2, CountOn DEF GoInto, Open

LEMMA AnnounceCounts == Inv /\ Counting /\ Announce => Counting'
<1> SUFFICES ASSUME Inv, Counting, Announce, call = "extract" PROVE Counting'
  BY DEF Counting, Announce
<1> DEFINE kind == KindOf(look.ino)
<1>1. /\ pc = "lookup" /\ kind \in {"file", "directory"} /\ UNCHANGED <<image, call, opened>>
      /\ told' = Report(Path, kind) /\ stack # <<>> /\ told \in Seq(Listed)
  BY LookupFacts DEF Announce, KindOf, Inv, TypeOK
<1>2. CASE Leave(stack) /\ (~Needed(Path, kind) \/ kind = "directory")
  <2>1. told' = told
    BY <1>1, <1>2 DEF Report, Reported
  <2> QED
    BY <1>1, <1>2, <2>1, CountLeave
<1>3. CASE /\ Needed(Path, kind) /\ kind # "directory" /\ pc' = "open"
           /\ UNCHANGED <<stack, look>>
  <2> DEFINE e == [path |-> Path, kind |-> kind]
             n == Len(told)
  <2>1. told' = Append(told, e) /\ n \in Nat
    BY <1>1, <1>3 DEF Report, Reported
  <2>2. /\ DOMAIN told = 1 .. n /\ DOMAIN told' = 1 .. n + 1
        /\ \A i \in 1 .. n : told'[i] = told[i]
        /\ told'[n + 1] = e /\ told'[n + 1].path = Path
    BY <1>1, <2>1
  <2> HIDE DEF e, n
  <2>3. Path' = Path
    BY <1>1, <1>3 DEF Path, Entries, EntryOf
  <2>4. ToldPaths = opened /\ \A i \in 1 .. n : Past(stack, told[i].path)
    BY <1>1, <2>2 DEF Counting
  <2>5. ToldPaths' = opened' \cup {Path'}
    <3>1. ASSUME NEW i \in 1 .. n + 1 PROVE i \in 1 .. n \/ i = n + 1
      BY <2>1
    <3>2. ASSUME NEW i \in 1 .. n PROVE i \in 1 .. n + 1
      BY <2>1
    <3>3. n + 1 \in 1 .. n + 1
      BY <2>1
    <3>4. ToldPaths' = ToldPaths \cup {Path}
      BY <2>2, <3>1, <3>2, <3>3 DEF ToldPaths
    <3> QED
      BY <1>1, <2>3, <2>4, <3>4
  <2>6. ASSUME NEW i \in DOMAIN told'
        PROVE  Past(stack, told[i].path)' \/ told'[i].path = Path'
    <3>1. CASE i \in 1 .. n
      <4>1. Past(stack, told[i].path) /\ told'[i] = told[i]
        BY <2>2, <2>4, <3>1
      <4> QED
        BY <1>1, <1>3, <4>1 DEF Past, Entries, EntryOf
    <3>2. CASE i = n + 1
      BY <2>2, <2>3, <3>2
    <3> QED
      BY <2>1, <2>2, <3>1, <3>2
  <2>7. WellNamed' => Distinct'
    <3> SUFFICES ASSUME WellNamed PROVE Distinct'
      BY <1>1 DEF WellNamed, Same, Entries
    <3>1. ~Past(stack, Path)
      BY <1>1, LookupFacts, NotYetPast DEF Inv
    <3>2. \A i \in 1 .. n : told[i].path # Path
      BY <2>4, <3>1
    <3>3. \A i, j \in 1 .. n : told[i].path = told[j].path => i = j
      BY <1>1, <2>2 DEF Counting, Distinct
    <3>4. ASSUME NEW i \in 1 .. n + 1, NEW j \in 1 .. n + 1, told'[i].path = told'[j].path
          PROVE  i = j
      <4>1. (i \in 1 .. n \/ i = n + 1) /\ (j \in 1 .. n \/ j = n + 1)
        BY <2>1
      <4> QED
        BY <2>2, <3>2, <3>3, <3>4, <4>1
    <3> QED
      BY <2>2, <3>4 DEF Distinct
  <2> QED
    BY <1>1, <1>3, <2>5, <2>6, <2>7 DEF Counting
<1> QED
  BY <1>2, <1>3 DEF Announce

LEMMA OpenFileCounts == Inv /\ Counting /\ OpenFile => Counting'
<1> SUFFICES ASSUME Inv, Counting, OpenFile, call = "extract" PROVE Counting'
  BY DEF Counting, OpenFile
<1>1. /\ pc = "open" /\ pc' = "write" /\ UNCHANGED <<image, call, told, stack>>
      /\ opened' = opened \cup {Path}
  BY DEF OpenFile
<1>2. Path' = Path
  BY <1>1 DEF Path, Entries, EntryOf
<1>3. ToldPaths' = opened'
  BY <1>1 DEF Counting, ToldPaths
<1>4. ASSUME NEW i \in DOMAIN told
      PROVE  Past(stack, told[i].path)' \/ told'[i].path = Path'
  <2>1. Past(stack, told[i].path) \/ told[i].path = Path
    BY <1>1 DEF Counting
  <2> QED
    BY <1>1, <1>2, <2>1 DEF Past, Entries, EntryOf
<1>5. WellNamed' => Distinct'
  BY <1>1 DEF Counting, WellNamed, Distinct, Same, Entries
<1> QED
  BY <1>1, <1>3, <1>4, <1>5 DEF Counting

LEMMA CloseDirectoryCounts == Inv /\ Counting /\ CloseDirectory => Counting'
<1> SUFFICES ASSUME Inv, Counting, CloseDirectory PROVE Counting'
  OBVIOUS
<1> DEFINE s == SubSeq(stack, 1, Len(stack) - 1)
<1>1. Len(stack) > 1 /\ Leave(s) /\ pc = "entry" /\ UNCHANGED <<image, call, told, opened>>
  BY DEF CloseDirectory, AtEnd, report
<1>2. \A p : Past(stack, p) => Past(Advance(s), p)
  BY <1>1, OutsidePast DEF Inv
<1> HIDE DEF s
<1> QED
  BY <1>1, <1>2, CountOn DEF Leave

\* A call that ends, or begins.
LEMMA EndsCount == Inv /\ Counting /\ (Finish \/ (pc # "idle" /\ Abort)) => Counting'
<1> SUFFICES ASSUME Inv, Counting, Finish \/ (pc # "idle" /\ Abort), call = "extract"
             PROVE  Counting'
  BY DEF Counting, Finish, Abort
<1>1. UNCHANGED <<image, call, told, opened>> /\ pc' = "idle"
  BY DEF Finish, Abort, Return, report
<1>2. WellNamed' => Distinct'
  BY <1>1 DEF Counting, WellNamed, Distinct, Same, Entries
<1>3. CASE Finish
  <2>1. ToldPaths' = opened'
    BY <1>1, <1>3 DEF Counting, ToldPaths, Finish, AtEnd
  <2> QED
    BY <1>1, <1>2, <2>1 DEF Counting
<1>4. CASE Abort
  <2>1. result' = "failed"
    BY <1>4 DEF Abort, Return
  <2> QED
    BY <1>1, <1>2, <2>1 DEF Counting
<1> QED
  BY <1>3, <1>4

LEMMA StartCounts ==
    ASSUME NEW c, NEW filter, Start(c, filter)
    PROVE  Counting'
<1>1. told' = <<>> /\ opened' = {} /\ (pc' = "entry" \/ pc' = "idle") /\ DOMAIN told' = {}
  BY DEF Start
<1> QED
  BY <1>1 DEF Counting, ToldPaths, Distinct

LEMMA NextCounts == Inv /\ Counting /\ [Next]_vars => Counting'
<1> SUFFICES ASSUME Inv, Counting, [Next]_vars PROVE Counting'
  OBVIOUS
<1> USE DEF output, report, walk
<1>1. CASE List \/ Extract \/ Unpack
  BY <1>1, StartCounts DEF List, Extract, Unpack
<1>2. CASE SkipEntry
  BY <1>2, CountLeave DEF SkipEntry, AtEntry
<1>3. CASE Enumerate
  BY <1>3 DEF Enumerate, Enumerating, Counting
<1>4. CASE UnpackDirectory
  <2> SUFFICES ASSUME call = "extract" PROVE Counting'
    BY <1>4 DEF UnpackDirectory, Counting
  <2>1. told' = told
    BY <1>4 DEF UnpackDirectory, Report, Reported
  <2>2. pc = "entry" /\ stack # <<>> /\ UNCHANGED <<image, call, opened>>
    BY <1>4 DEF UnpackDirectory, AtEntry
  <2>3. Leave(stack) \/ GoInto(Here.ino)
    BY <1>4 DEF UnpackDirectory
  <2> QED
    BY <2>1, <2>2, <2>3, CountLeave, CountInto
<1>5. CASE UnpackFile \/ LookUp
  <2>1. pc \in {"entry", "lookup"} /\ pc' = "lookup" /\ stack' = stack
        /\ UNCHANGED <<image, call, told, opened>>
    BY <1>5 DEF UnpackFile, LookUp, AtEntry
  <2>2. \A p : Past(stack, p) => Past(stack', p)
    BY <2>1
  <2> QED
    BY <2>1, <2>2, CountOn
<1>6. CASE Announce
  BY <1>6, AnnounceCounts
<1>7. CASE OpenFile
  BY <1>7, OpenFileCounts
<1>8. CASE WriteFile
  BY <1>8, CountLeave, LookupFacts DEF WriteFile
<1>9. CASE CloseDirectory
  BY <1>9, CloseDirectoryCounts
<1>10. CASE Finish \/ LookUpFails \/ GetFileFails \/ OpenFails \/ WriteFails
  BY <1>10, EndsCount DEF LookUpFails, GetFileFails, OpenFails, WriteFails
<1>11. CASE DiskChanges \/ UNCHANGED vars
  <2>1. UNCHANGED <<image, call, told, opened, stack, pc, result>>
    BY <1>11 DEF DiskChanges, vars
  <2>2. ToldPaths' = ToldPaths /\ (Distinct' <=> Distinct) /\ Path' = Path
    BY <2>1, Zenon DEF ToldPaths, Distinct, Path, Entries, EntryOf
  <2>3. WellNamed' <=> WellNamed
    BY <2>1 DEF WellNamed, Same, Entries
  <2>4. \A p : Past(stack, p)' <=> Past(stack, p)
    BY <2>1, Zenon DEF Past, Entries, EntryOf
  <2> QED
    BY <2>1, <2>2, <2>3, <2>4, Zenon DEF Counting
<1> QED
  BY <1>1, <1>2, <1>3, <1>4, <1>5, <1>6, <1>7, <1>8, <1>9, <1>10, <1>11 DEF Next, Step

\* The progress callbacks of a successful extraction are its files, each named
\* once: as many as the picker's Done screen says.
THEOREM CallbacksAreFiles == Spec => []CountIsFiles
<1>1. Init => Inv /\ Counting
  BY InitInv DEF Init, Counting
<1>2. (Inv /\ Counting) /\ [Next]_vars => (Inv /\ Counting)'
  BY NextInv, NextCounts
<1>3. Inv /\ Counting => CountIsFiles
  <2> SUFFICES ASSUME Inv, Counting, pc = "idle", result = "ok", call = "extract", WellNamed
               PROVE  ToldPaths = opened /\ Len(told) = Cardinality(opened)
    BY DEF CountIsFiles, ToldPaths
  <2>1. ToldPaths = opened /\ Distinct
    BY DEF Counting
  <2>2. told \in Seq(Listed) /\ Len(told) \in Nat /\ DOMAIN told = 1 .. Len(told)
    BY DEF Inv, TypeOK
  <2> DEFINE g == [i \in 1 .. Len(told) |-> told[i].path]
  <2>3. g \in Bijection(1 .. Len(told), opened)
    BY <2>1, <2>2, Fun_IsBij DEF ToldPaths, Distinct
  <2>4. ExistsBijection(1 .. Len(told), opened)
    BY <2>3, Zenon DEF ExistsBijection
  <2>5. Cardinality(opened) = Len(told)
    BY <2>2, <2>4, FS_CountingElements
  <2> QED
    BY <2>1, <2>5
<1> QED
  BY <1>1, <1>2, <1>3, PTL DEF Spec

(***************************************************************************)
(* The trails of an image, and which of them the walk has passed           *)
(***************************************************************************)
\* Trails of any length.
AllTrails == {c \in Seq(Frames) :
                 /\ c # <<>> /\ IsTrail(c)
                 /\ \A k \in DOMAIN c : c[k].pos \in DOMAIN Entries(c[k].ino)}
\* A walk with these open directories is behind this trail, or inside it.
Passed(s, c) ==
    \/ \E d \in DOMAIN s \cap DOMAIN c :
          /\ \A k \in 1 .. d - 1 : c[k] = s[k]
          /\ c[d].ino = s[d].ino /\ c[d].pos < s[d].pos
    \/ Len(c) < Len(s) /\ \A k \in DOMAIN c : c[k] = s[k]
\* A trail through, or to, the entry the walk stands at.
Through(c) == Len(c) >= Len(stack) /\ \A k \in 1 .. Len(stack) : c[k] = stack[k]

LEMMA TrailFacts ==
    ASSUME image \in Images, NEW c \in AllTrails
    PROVE  /\ c \in Seq(Frames) /\ Len(c) \in Nat \ {0} /\ DOMAIN c = 1 .. Len(c)
           /\ \A k \in 1 .. Len(c) : /\ c[k] \in Frames /\ c[k].ino \in Inodes
                                     /\ c[k].pos \in Nat \ {0}
                                     /\ c[k].pos \in DOMAIN Entries(c[k].ino)
                                     /\ ~Special(EntryOf(c[k]).name)
           /\ c[1].ino = Root
           /\ \A k \in 1 .. Len(c) - 1 : /\ EntryOf(c[k]).kind = "directory"
                                         /\ EntryOf(c[k]).ino = c[k + 1].ino
<1>1. c \in Seq(Frames) /\ c # <<>> /\ IsTrail(c)
      /\ \A k \in DOMAIN c : c[k].pos \in DOMAIN Entries(c[k].ino)
  BY DEF AllTrails
<1>2. Len(c) \in Nat \ {0} /\ DOMAIN c = 1 .. Len(c)
  BY <1>1
<1>3. \A k \in 1 .. Len(c) : c[k] \in Frames /\ c[k].ino \in Inodes /\ c[k].pos \in Nat \ {0}
  <2>1. \A k \in 1 .. Len(c) : c[k] \in Frames
    BY <1>1
  <2>2. \A f \in Frames : f.ino \in Inodes /\ f.pos \in Nat \ {0}
    BY DEF Frames
  <2> QED
    BY <2>1, <2>2
<1> QED
  BY <1>1, <1>2, <1>3 DEF IsTrail

\* Two frames of the same place are the same.
LEMMA SameFrame ==
    ASSUME NEW f \in Frames, NEW g \in Frames, f.ino = g.ino, f.pos = g.pos
    PROVE  f = g
BY DEF Frames

\* The step to the next entry passes what is through this one.
LEMMA LeavePasses ==
    ASSUME TypeOK, stack # <<>>, NEW c \in AllTrails, Passed(Advance(stack), c)
    PROVE  Passed(stack, c) \/ Through(c)
<1> DEFINE n == Len(stack)
           t == Advance(stack)
<1>1. /\ stack \in Seq(Frames) /\ n \in Nat \ {0} /\ DOMAIN stack = 1 .. n
      /\ image \in Images /\ \A i \in 1 .. n : stack[i] \in Frames /\ stack[i].pos \in Nat
  BY FrameTypes DEF TypeOK
<1>2. /\ Len(t) = n /\ DOMAIN t = 1 .. n
      /\ \A i \in 1 .. n : t[i].ino = stack[i].ino
      /\ \A i \in 1 .. n - 1 : t[i] = stack[i]
      /\ t[n].pos = stack[n].pos + 1
  <2>1. /\ t \in Seq(Frames) /\ Len(t) = n /\ \A i \in 1 .. n : t[i].ino = stack[i].ino
        /\ \A i \in 1 .. n - 1 : t[i] = stack[i]
        /\ t[n].pos = stack[n].pos + 1
    BY <1>1, AdvanceKeeps, AdvanceMoves
  <2> HIDE DEF n, t
  <2> QED
    BY <1>1, <2>1
<1>3. /\ Len(c) \in Nat \ {0} /\ DOMAIN c = 1 .. Len(c)
      /\ \A k \in 1 .. Len(c) : c[k] \in Frames /\ c[k].pos \in Nat
  BY <1>1, TrailFacts
<1> HIDE DEF t, n
<1>4. ASSUME NEW d \in DOMAIN t \cap DOMAIN c, \A k \in 1 .. d - 1 : c[k] = t[k],
             c[d].ino = t[d].ino, c[d].pos < t[d].pos
      PROVE  Passed(stack, c) \/ Through(c)
  <2>1. \A k \in 1 .. d - 1 : c[k] = stack[k]
    BY <1>1, <1>2, <1>4
  <2>2. c[d].ino = stack[d].ino /\ d \in DOMAIN stack \cap DOMAIN c
    BY <1>1, <1>2, <1>4
  <2>3. CASE c[d].pos < stack[d].pos
    BY <2>1, <2>2, <2>3 DEF Passed
  <2>4. CASE ~(c[d].pos < stack[d].pos)
    <3>1. d = n /\ c[d].pos = stack[d].pos
      BY <1>1, <1>2, <1>3, <1>4, <2>4
    <3>2. c[d] = stack[d]
      BY <1>1, <1>3, <2>2, <3>1, SameFrame
    <3>3. \A k \in 1 .. n : c[k] = stack[k]
      BY <1>1, <2>1, <3>1, <3>2
    <3>4. Len(c) >= n
      BY <1>1, <1>3, <1>4, <3>1
    <3> QED
      BY <3>3, <3>4 DEF Through, n
  <2> QED
    BY <2>3, <2>4
<1>5. ASSUME Len(c) < Len(t), \A k \in DOMAIN c : c[k] = t[k]
      PROVE  Passed(stack, c)
  <2>1. \A k \in DOMAIN c : c[k] = stack[k]
    BY <1>1, <1>2, <1>3, <1>5
  <2>2. Len(c) < Len(stack)
    BY <1>2, <1>5 DEF n
  <2> QED
    BY <2>1, <2>2 DEF Passed
<1> QED
  BY <1>4, <1>5 DEF Passed, t

\* The step into a directory passes its own trail.
LEMMA IntoPasses ==
    ASSUME TypeOK, stack # <<>>, NEW i, NEW c \in AllTrails,
           Passed(Append(stack, [ino |-> i, pos |-> 1]), c)
    PROVE  Passed(stack, c) \/ c = stack
<1> DEFINE n == Len(stack)
           t == Append(stack, [ino |-> i, pos |-> 1])
<1>1. /\ stack \in Seq(Frames) /\ n \in Nat \ {0} /\ DOMAIN stack = 1 .. n /\ image \in Images
  BY FrameTypes DEF TypeOK
<1>2. /\ Len(t) = n + 1 /\ DOMAIN t = 1 .. n + 1
      /\ \A k \in 1 .. n : t[k] = stack[k]
      /\ t[n + 1].pos = 1
  BY <1>1
<1>3. /\ c \in Seq(Frames) /\ Len(c) \in Nat \ {0} /\ DOMAIN c = 1 .. Len(c)
      /\ \A k \in 1 .. Len(c) : c[k].pos \in Nat \ {0}
  BY <1>1, TrailFacts
<1> HIDE DEF t, n
<1>4. ASSUME NEW d \in DOMAIN t \cap DOMAIN c, \A k \in 1 .. d - 1 : c[k] = t[k],
             c[d].ino = t[d].ino, c[d].pos < t[d].pos
      PROVE  Passed(stack, c)
  <2>1. d # n + 1
    BY <1>2, <1>3, <1>4
  <2>2. d \in 1 .. n /\ t[d] = stack[d] /\ \A k \in 1 .. d - 1 : t[k] = stack[k]
    BY <1>1, <1>2, <1>4, <2>1
  <2> QED
    BY <1>1, <1>4, <2>2 DEF Passed
<1>5. ASSUME Len(c) < Len(t), \A k \in DOMAIN c : c[k] = t[k]
      PROVE  Passed(stack, c) \/ c = stack
  <2>1. \A k \in DOMAIN c : c[k] = stack[k]
    BY <1>1, <1>2, <1>3, <1>5
  <2>2. CASE Len(c) < n
    BY <2>1, <2>2 DEF Passed, n
  <2>3. CASE Len(c) = n
    <3>1. Len(c) = Len(stack) /\ \A k \in 1 .. Len(c) : c[k] = stack[k]
      BY <1>1, <1>3, <2>1, <2>3 DEF n
    <3> QED
      BY <1>1, <1>3, <3>1, SeqEqual
  <2>4. Len(c) < n \/ Len(c) = n
    <3>1. Len(c) < n + 1
      BY <1>2, <1>5, Zenon
    <3>2. Len(c) \in Int /\ n \in Int
      BY <1>1, <1>3
    <3> QED
      BY <3>1, <3>2
  <2> QED
    BY <2>2, <2>3, <2>4
<1> QED
  BY <1>4, <1>5 DEF Passed, t

\* At the end of a directory everything in it has been passed.
LEMMA OutPasses ==
    ASSUME TypeOK, Chain, AtEnd, Len(stack) > 1, NEW c \in AllTrails,
           Passed(Advance(SubSeq(stack, 1, Len(stack) - 1)), c)
    PROVE  Passed(stack, c)
<1> DEFINE n == Len(stack)
           s == SubSeq(stack, 1, n - 1)
           t == Advance(s)
<1>1. /\ stack \in Seq(Frames) /\ n \in Nat /\ n > 1 /\ image \in Images
      /\ DOMAIN stack = 1 .. n
      /\ \A i \in 1 .. n : stack[i] \in Frames /\ stack[i].pos \in Nat \ {0}
                           /\ stack[i].ino \in Inodes
  BY FrameTypes DEF TypeOK
<1>2. /\ s \in Seq(Frames) /\ Len(s) = n - 1 /\ s # <<>> /\ DOMAIN s = 1 .. n - 1
      /\ \A i \in 1 .. n - 1 : s[i] = stack[i]
  <2>1. \A i \in 1 .. n - 1 : stack[i] \in Frames
    BY <1>1
  <2>2. /\ s \in Seq(Frames) /\ Len(s) = n - 1
        /\ \A i \in 1 .. n - 1 : s[i] = stack[1 + i - 1]
    BY <1>1, <2>1, SubSeqProperties
  <2> HIDE DEF s
  <2> QED
    BY <1>1, <2>2
<1> HIDE DEF s
<1>3. /\ Len(t) = n - 1 /\ DOMAIN t = 1 .. n - 1
      /\ \A i \in 1 .. n - 1 : t[i].ino = stack[i].ino
      /\ \A i \in 1 .. n - 1 - 1 : t[i] = stack[i]
      /\ t[n - 1].pos = stack[n - 1].pos + 1
  <2>1. /\ t \in Seq(Frames) /\ Len(t) = Len(s) /\ \A i \in 1 .. Len(s) : t[i].ino = s[i].ino
        /\ \A i \in 1 .. Len(s) - 1 : t[i] = s[i]
        /\ t[Len(s)].pos = s[Len(s)].pos + 1
    BY <1>2, AdvanceKeeps, AdvanceMoves
  <2>2. n - 1 \in 1 .. n - 1 /\ \A i \in 1 .. n - 1 - 1 : i \in 1 .. n - 1
    BY <1>1
  <2> HIDE DEF n, t
  <2> QED
    BY <1>2, <2>1, <2>2
<1>4. /\ Len(c) \in Nat \ {0} /\ DOMAIN c = 1 .. Len(c)
      /\ \A k \in 1 .. Len(c) : /\ c[k] \in Frames /\ c[k].pos \in Nat \ {0}
                                /\ c[k].pos \in DOMAIN Entries(c[k].ino)
      /\ \A k \in 1 .. Len(c) - 1 : EntryOf(c[k]).ino = c[k + 1].ino
  BY <1>1, TrailFacts
<1>5. /\ EntryOf(stack[n - 1]).ino = stack[n].ino /\ stack[n].ino \in Inodes
      /\ stack[n].pos \notin DOMAIN Entries(stack[n].ino)
  <2>1. n - 1 \in 1 .. n - 1 /\ n - 1 + 1 = n /\ n \in 1 .. n
    BY <1>1
  <2> QED
    BY <1>1, <2>1 DEF Chain, AtEnd, Top
<1> HIDE DEF t, n
<1>6. ASSUME NEW d \in DOMAIN t \cap DOMAIN c, \A k \in 1 .. d - 1 : c[k] = t[k],
             c[d].ino = t[d].ino, c[d].pos < t[d].pos
      PROVE  Passed(stack, c)
  <2>1. \A k \in 1 .. d - 1 : c[k] = stack[k]
    BY <1>1, <1>3, <1>6
  <2>2. c[d].ino = stack[d].ino /\ d \in DOMAIN stack \cap DOMAIN c
    BY <1>1, <1>3, <1>6
  <2>3. CASE c[d].pos < stack[d].pos
    BY <2>1, <2>2, <2>3 DEF Passed
  <2>4. CASE ~(c[d].pos < stack[d].pos)
    <3>1. d = n - 1 /\ c[d].pos = stack[d].pos
      <4>1. d \in 1 .. n - 1 /\ d \in 1 .. n /\ c[d].pos \in Nat /\ stack[d].pos \in Nat
        BY <1>1, <1>3, <1>4, <1>6
      <4>2. d = n - 1
        <5>1. SUFFICES ASSUME d # n - 1 PROVE FALSE
          OBVIOUS
        <5>2. t[d] = stack[d]
          BY <1>1, <1>3, <4>1, <5>1
        <5> QED
          BY <1>6, <2>4, <5>2
      <4>3. c[d].pos < stack[d].pos + 1
        BY <1>3, <1>6, <4>2
      <4> QED
        BY <2>4, <4>1, <4>2, <4>3
    <3>2. c[d] = stack[d]
      BY <1>1, <1>4, <2>2, <3>1, SameFrame
    <3>3. \A k \in 1 .. n - 1 : c[k] = stack[k]
      BY <1>1, <2>1, <3>1, <3>2
    <3>4. CASE Len(c) = n - 1
      <4>1. Len(c) < Len(stack) /\ \A k \in DOMAIN c : c[k] = stack[k]
        BY <1>1, <1>4, <3>3, <3>4 DEF n
      <4> QED
        BY <4>1 DEF Passed
    <3>5. CASE Len(c) >= n
      <4>1. c[n].ino = stack[n].ino
        <5>1. n - 1 \in 1 .. Len(c) - 1 /\ n - 1 + 1 = n
          BY <1>1, <1>4, <3>5
        <5> QED
          BY <1>4, <1>5, <3>1, <3>2, <5>1
      <4>2. c[n].pos < stack[n].pos
        <5>1. n \in 1 .. Len(c)
          BY <1>1, <1>4, <3>5
        <5>2. c[n].pos \in DOMAIN Entries(stack[n].ino) /\ c[n].pos \in Nat
          BY <1>4, <4>1, <5>1
        <5>3. PICK m \in Nat : DOMAIN Entries(stack[n].ino) = 1 .. m
          <6>1. Entries(stack[n].ino) \in Seq(Entry)
            BY <1>1, <1>5, EntryTypes
          <6> QED
            BY <6>1
        <5>4. stack[n].pos \in Nat \ {0}
          BY <1>1
        <5> QED
          BY <1>5, <5>2, <5>3, <5>4
      <4>3. n \in DOMAIN stack \cap DOMAIN c
        BY <1>1, <1>4, <3>5
      <4> QED
        BY <3>3, <4>1, <4>2, <4>3 DEF Passed
    <3>6. Len(c) = n - 1 \/ Len(c) >= n
      BY <1>1, <1>4, <1>6, <3>1
    <3> QED
      BY <3>4, <3>5, <3>6
  <2> QED
    BY <2>3, <2>4
<1>7. ASSUME Len(c) < Len(t), \A k \in DOMAIN c : c[k] = t[k]
      PROVE  Passed(stack, c)
  <2>1. \A k \in DOMAIN c : c[k] = stack[k]
    BY <1>1, <1>3, <1>4, <1>7
  <2>2. Len(c) < Len(stack)
    BY <1>1, <1>3, <1>4, <1>7 DEF n
  <2> QED
    BY <2>1, <2>2 DEF Passed
<1> QED
  BY <1>6, <1>7 DEF Passed, t, s, n

\* At the end of the root everything has been passed.
LEMMA AllPassed ==
    ASSUME TypeOK, Chain, AtEnd, Len(stack) = 1, NEW c \in AllTrails
    PROVE  Passed(stack, c)
<1>1. /\ image \in Images /\ stack[1].pos \in Nat \ {0} /\ stack[1].ino = Root
      /\ stack[1].pos \notin DOMAIN Entries(Root) /\ 1 \in DOMAIN stack
  BY FrameTypes DEF TypeOK, Chain, AtEnd, Top
<1>2. /\ 1 \in DOMAIN c /\ c[1].ino = Root /\ c[1].pos \in DOMAIN Entries(Root)
      /\ c[1].pos \in Nat
  BY <1>1, TrailFacts
<1>3. PICK m \in Nat : DOMAIN Entries(Root) = 1 .. m
  <2>1. Entries(Root) \in Seq(Entry)
    BY <1>1, NamesAssumption, EntryTypes
  <2> QED
    BY <2>1
<1>4. c[1].pos < stack[1].pos
  BY <1>1, <1>2, <1>3
<1> QED
  BY <1>1, <1>2, <1>4 DEF Passed

\* At the start nothing has.
LEMMA NonePassed ==
    ASSUME image \in Images, NEW c \in AllTrails,
           NEW s, s = <<[ino |-> Root, pos |-> 1]>>
    PROVE  ~Passed(s, c)
<1>1. DOMAIN s = {1} /\ Len(s) = 1 /\ s[1].pos = 1
  OBVIOUS
<1>2. Len(c) \in Nat \ {0} /\ 1 \in 1 .. Len(c) /\ c[1].pos \in Nat \ {0}
  BY TrailFacts
<1> QED
  BY <1>1, <1>2 DEF Passed

(***************************************************************************)
(* The entries the walk is in and at                                       *)
(***************************************************************************)
\* It went through directories it could read, and looks up, opens and writes
\* files that are asked for.
Ways ==
    /\ \A i \in 1 .. Len(stack) - 1 : /\ ~Special(EntryOf(stack[i]).name)
                                      /\ EntryOf(stack[i]).kind = "directory"
    /\ pc \in {"lookup", "open", "write"} =>
          ~Special(Here.name) /\ Here.kind = "file" /\ Here.ino \notin image.bad
    /\ pc = "write" => files[Path] = [of |-> look.ino, whole |-> FALSE]

LEMMA WaysLeave ==
    ASSUME TypeOK, Ways, stack # <<>>, Leave(stack), image' = image
    PROVE  Ways'
<1>1. stack \in Seq(Frames) /\ Len(stack) \in Nat \ {0}
  BY DEF TypeOK
<1>2. /\ Len(stack') = Len(stack) /\ \A i \in 1 .. Len(stack) - 1 : stack'[i] = stack[i]
      /\ pc' = "entry"
  BY <1>1, AdvanceKeeps DEF Leave
<1> QED
  BY <1>2 DEF Ways, EntryOf, Entries

LEMMA WaysInto ==
    ASSUME TypeOK, Ways, HasEntry, pc = "entry", GoInto(Here.ino), image' = image,
           ~Special(Here.name), Here.kind = "directory"
    PROVE  Ways'
<1>1. stack \in Seq(Frames) /\ Len(stack) \in Nat \ {0}
  BY DEF TypeOK, HasEntry
<1>2. /\ Len(stack') = Len(stack) + 1 /\ \A i \in 1 .. Len(stack) : stack'[i] = stack[i]
      /\ pc' = "entry"
  BY <1>1 DEF GoInto, Open
<1>3. ASSUME NEW i \in 1 .. Len(stack') - 1
      PROVE  ~Special(EntryOf(stack'[i]).name) /\ EntryOf(stack'[i]).kind = "directory"
  <2>1. stack'[i] = stack[i] /\ (i \in 1 .. Len(stack) - 1 \/ i = Len(stack))
    BY <1>1, <1>2
  <2> QED
    BY <2>1 DEF Ways, Here, Top
<1> QED
  BY <1>2, <1>3 DEF Ways, EntryOf, Entries

LEMMA WaysOut ==
    ASSUME TypeOK, Ways, Len(stack) > 1,
           Leave(SubSeq(stack, 1, Len(stack) - 1)), image' = image
    PROVE  Ways'
<1> DEFINE s == SubSeq(stack, 1, Len(stack) - 1)
<1>1. stack \in Seq(Frames) /\ Len(stack) \in Nat /\ Len(stack) > 1
  BY DEF TypeOK
<1>2. /\ s \in Seq(Frames) /\ Len(s) = Len(stack) - 1 /\ s # <<>>
      /\ \A i \in 1 .. Len(s) : s[i] = stack[i]
  <2>1. \A i \in 1 .. Len(stack) - 1 : stack[i] \in Frames
    BY <1>1
  <2>2. /\ s \in Seq(Frames) /\ Len(s) = Len(stack) - 1
        /\ \A i \in 1 .. Len(stack) - 1 : s[i] = stack[1 + i - 1]
    BY <1>1, <2>1, SubSeqProperties
  <2> HIDE DEF s
  <2> QED
    BY <1>1, <2>2
<1>3. stack' = Advance(s) /\ pc' = "entry"
  BY DEF Leave
<1> HIDE DEF s
<1>4. Len(stack') = Len(s) /\ \A i \in 1 .. Len(s) - 1 : stack'[i] = s[i]
  BY <1>2, <1>3, AdvanceKeeps
<1>5. \A i \in 1 .. Len(stack') - 1 : stack'[i] = stack[i] /\ i \in 1 .. Len(stack) - 1
  BY <1>1, <1>2, <1>4
<1> QED
  BY <1>3, <1>5 DEF Ways, EntryOf, Entries

LEMMA NextWays == Inv /\ Ways /\ [Next]_vars => Ways'
<1> SUFFICES ASSUME Inv, Ways, [Next]_vars PROVE Ways'
  OBVIOUS
<1> USE DEF output, report, walk
<1>0. TypeOK /\ Chain
  BY DEF Inv
<1>1. CASE List \/ Extract \/ Unpack
  <2>1. (stack' = <<>> \/ stack' = <<[ino |-> Root, pos |-> 1]>>) /\ pc' \in {"idle", "entry"}
    BY <1>1 DEF List, Extract, Unpack, Start
  <2>2. Len(stack') = 0 \/ Len(stack') = 1
    BY <2>1
  <2>3. ASSUME NEW i \in 1 .. Len(stack') - 1 PROVE FALSE
    BY <2>2, SMTT(20)
  <2>4. pc' \notin {"lookup", "open", "write"}
    BY <2>1
  <2> QED
    BY <2>3, <2>4 DEF Ways
<1>2. CASE SkipEntry
  BY <1>0, <1>2, WaysLeave DEF SkipEntry, AtEntry
<1>3. CASE Enumerate
  BY <1>0, <1>3, WaysLeave, WaysInto DEF Enumerate, AtEntry, HasEntry
<1>4. CASE UnpackDirectory
  BY <1>0, <1>4, WaysLeave, WaysInto DEF UnpackDirectory, AtEntry, HasEntry
<1>5. CASE UnpackFile \/ LookUp
  <2>1. UNCHANGED <<image, stack>> /\ pc' = "lookup"
        /\ ~Special(Here.name) /\ Here.kind = "file" /\ Here.ino \notin image.bad
    BY <1>5 DEF UnpackFile, LookUp, Ways
  <2> QED
    BY <2>1 DEF Ways, EntryOf, Entries, Here, Top
<1>6. CASE Announce
  <2>1. stack # <<>> /\ image' = image /\ pc = "lookup"
    BY <1>6, LookupFacts DEF Announce
  <2>2. CASE Leave(stack)
    BY <1>0, <2>1, <2>2, WaysLeave
  <2>3. CASE pc' = "open" /\ UNCHANGED <<stack, look>>
    BY <2>1, <2>3 DEF Ways, EntryOf, Entries, Here, Top
  <2> QED
    BY <1>6, <2>2, <2>3 DEF Announce
<1>7. CASE OpenFile
  <2>1. /\ UNCHANGED <<image, stack, look>> /\ pc = "open" /\ pc' = "write"
        /\ files' = Put(files, Path, [of |-> look.ino, whole |-> FALSE])
    BY <1>7 DEF OpenFile
  <2>2. Path' = Path
    BY <2>1 DEF Path, Entries, EntryOf
  <2>3. files'[Path] = [of |-> look.ino, whole |-> FALSE]
    BY <2>1 DEF Put
  <2> QED
    BY <2>1, <2>2, <2>3 DEF Ways, EntryOf, Entries, Here, Top
<1>8. CASE WriteFile
  BY <1>0, <1>8, WaysLeave, LookupFacts DEF WriteFile
<1>9. CASE CloseDirectory
  BY <1>0, <1>9, WaysOut DEF CloseDirectory
<1>10. CASE Finish \/ LookUpFails \/ GetFileFails \/ OpenFails \/ WriteFails
  <2>1. stack' = <<>> /\ pc' = "idle" /\ Len(stack') = 0
    BY <1>10 DEF Finish, LookUpFails, GetFileFails, OpenFails, WriteFails, Abort, Return
  <2> QED
    BY <2>1 DEF Ways
<1>11. CASE DiskChanges \/ UNCHANGED vars
  <2>1. UNCHANGED <<image, stack, pc, files, look>>
    BY <1>11 DEF DiskChanges, vars
  <2> QED
    BY <2>1 DEF Ways, Path, EntryOf, Entries, Here, Top
<1> QED
  BY <1>1, <1>2, <1>3, <1>4, <1>5, <1>6, <1>7, <1>8, <1>9, <1>10, <1>11 DEF Next, Step

\* What is known of an entry at the end of a trail, and of those on the way.
Item(c) == [path |-> NamesOf(c),
            kind |-> IF LastOf(c).kind = "directory" THEN "directory" ELSE "file"]
Seen(c) == /\ \A k \in 1 .. Len(c) - 1 : Readable(EntryOf(c[k]).ino)
           /\ LastOf(c).ino \notin image.bad

LEMMA SameImage ==
    ASSUME image' = image, NEW c
    PROVE  /\ NamesOf(c)' = NamesOf(c) /\ LastOf(c)' = LastOf(c) /\ Item(c)' = Item(c)
           /\ (c \in AllTrails)' <=> (c \in AllTrails)
           /\ Seen(c)' <=> Seen(c)
           /\ (WellNamed)' <=> WellNamed
           /\ Consistent' <=> Consistent
<1>1. NamesOf(c)' = NamesOf(c) /\ LastOf(c)' = LastOf(c)
  BY DEF NamesOf, LastOf, EntryOf, Entries
<1>2. Item(c)' = Item(c)
  BY <1>1 DEF Item
<1>3. (c \in AllTrails)' <=> (c \in AllTrails)
  BY DEF AllTrails, IsTrail, EntryOf, Entries
<1>4. Seen(c)' <=> Seen(c)
  BY <1>1 DEF Seen, Readable, EntryOf, Entries
<1>5. (WellNamed)' <=> WellNamed
  BY DEF WellNamed, Same, Entries
<1>6. Consistent' <=> Consistent
  BY DEF Consistent, KindOf, Entries
<1> QED
  BY <1>1, <1>2, <1>3, <1>4, <1>5, <1>6

\* The walk's own trail.
LEMMA OwnTrail ==
    ASSUME Inv, Ways, HasEntry, ~Special(Here.name)
    PROVE  /\ stack \in AllTrails /\ NamesOf(stack) = Path /\ LastOf(stack) = Here
           /\ Here.ino \notin image.bad => Seen(stack)
<1>1. /\ stack \in Seq(Frames) /\ stack # <<>> /\ Len(stack) \in Nat \ {0}
      /\ DOMAIN stack = 1 .. Len(stack)
  BY DEF Inv, TypeOK, HasEntry
<1>2. \A i \in 1 .. Len(stack) : stack[i].pos \in DOMAIN Entries(stack[i].ino)
  BY PathType DEF Inv
<1>3. IsTrail(stack)
  <2>1. stack[1].ino = Root
    BY <1>1 DEF Inv, Chain
  <2>2. ASSUME NEW i \in 1 .. Len(stack) PROVE ~Special(EntryOf(stack[i]).name)
    <3> DEFINE n == Len(stack)
    <3>1. i \in 1 .. n - 1 \/ i = n
      <4>1. n \in Nat /\ i \in 1 .. n
        BY <1>1
      <4> HIDE DEF n
      <4> QED
        BY <4>1
    <3>2. CASE i \in 1 .. Len(stack) - 1
      BY <3>2, Zenon DEF Ways
    <3>3. CASE i = Len(stack)
      BY <3>3, Zenon DEF Here, Top
    <3> QED
      BY <3>1, <3>2, <3>3
  <2>3. \A i \in 1 .. Len(stack) - 1 : /\ EntryOf(stack[i]).kind = "directory"
                                       /\ EntryOf(stack[i]).ino = stack[i + 1].ino
    BY DEF Ways, Inv, Chain
  <2> QED
    BY <1>1, <2>1, <2>2, <2>3 DEF IsTrail
<1>4. stack \in AllTrails
  BY <1>1, <1>2, <1>3 DEF AllTrails
<1>5. NamesOf(stack) = Path /\ LastOf(stack) = Here
  BY DEF NamesOf, Path, LastOf, Here, Top
<1>6. ASSUME NEW i \in 1 .. Len(stack) - 1 PROVE Readable(EntryOf(stack[i]).ino)
  <2>1. i + 1 \in 1 .. Len(stack)
    BY <1>1
  <2> QED
    BY <2>1 DEF Inv, Chain
<1> QED
  BY <1>4, <1>5, <1>6 DEF Seen

\* A trail through the entry the walk is at: this entry, or below it.
LEMMA ThroughHere ==
    ASSUME Inv, Ways, HasEntry, NEW c \in AllTrails, Through(c)
    PROVE  /\ ~Special(Here.name)
           /\ Path \in Prefixes(NamesOf(c))
           /\ c = stack \/ Here.kind = "directory"
           /\ c # stack /\ Seen(c) => Readable(Here.ino)
           /\ Seen(c) => Here.ino \notin image.bad
<1> DEFINE n == Len(stack)
<1>1. /\ stack \in Seq(Frames) /\ stack # <<>> /\ n \in Nat \ {0} /\ image \in Images
      /\ Path \in Paths /\ Len(Path) = n
      /\ \A i \in 1 .. n : Path[i] = EntryOf(stack[i]).name
  BY PathType DEF Inv, TypeOK, HasEntry
<1>2. /\ c \in Seq(Frames) /\ Len(c) \in Nat \ {0} /\ DOMAIN c = 1 .. Len(c)
      /\ Len(c) >= n /\ \A k \in 1 .. n : c[k] = stack[k]
      /\ \A k \in 1 .. Len(c) : /\ c[k].ino \in Inodes
                                /\ c[k].pos \in DOMAIN Entries(c[k].ino)
                                /\ ~Special(EntryOf(c[k]).name)
      /\ \A k \in 1 .. Len(c) - 1 : EntryOf(c[k]).kind = "directory"
  BY <1>1, TrailFacts DEF Through
<1>3. n \in 1 .. n /\ n \in 1 .. Len(c) /\ c[n] = stack[n] /\ EntryOf(c[n]) = Here
  BY <1>1, <1>2 DEF Here, Top
<1>4. CASE Len(c) = n
  <2>1. c = stack
    BY <1>1, <1>2, <1>4, SeqEqual
  <2>2. LastOf(c) = Here
    BY <1>3, <1>4 DEF LastOf
  <2>3. NamesOf(c) = Path
    BY <2>1 DEF NamesOf, Path
  <2>4. Path \in Prefixes(Path)
    <3>1. SubSeq(Path, 1, n) = Path
      BY <1>1 DEF Paths
    <3> QED
      BY <1>1, <1>3, <3>1 DEF Prefixes
  <2> QED
    BY <1>2, <1>3, <2>1, <2>2, <2>3, <2>4 DEF Seen
<1>5. CASE Len(c) > n
  <2>1. n \in 1 .. Len(c) - 1
    BY <1>1, <1>2, <1>5
  <2>2. Here.kind = "directory"
    BY <1>2, <1>3, <2>1
  <2>3. Seen(c) => Readable(Here.ino)
    BY <1>3, <2>1 DEF Seen
  <2>4. Path \in Prefixes(NamesOf(c))
    <3> DEFINE p == NamesOf(c)
    <3>1. p \in Paths /\ Len(p) = Len(c) /\ \A k \in 1 .. Len(c) : p[k] = EntryOf(c[k]).name
      <4>1. p = [k \in 1 .. Len(c) |-> EntryOf(c[k]).name]
        BY <1>2 DEF NamesOf
      <4>2. \A k \in 1 .. Len(c) : EntryOf(c[k]).name \in Names
        BY <1>1, <1>2, EntryTypes DEF EntryOf
      <4> QED
        BY <1>2, <4>1, <4>2 DEF Paths
    <3> HIDE DEF p
    <3>2. \A k \in 1 .. n : p[k] = Path[k]
      BY <1>1, <1>2, <3>1
    <3>3. /\ SubSeq(p, 1, n) \in Seq(Names) /\ Len(SubSeq(p, 1, n)) = n
          /\ \A k \in 1 .. n : SubSeq(p, 1, n)[k] = p[k]
      <4>1. \A k \in 1 .. n : p[k] \in Names
        BY <1>1, <3>2 DEF Paths
      <4>2. /\ SubSeq(p, 1, n) \in Seq(Names)
            /\ Len(SubSeq(p, 1, n)) = IF 1 <= n THEN n - 1 + 1 ELSE 0
            /\ \A k \in 1 .. n - 1 + 1 : SubSeq(p, 1, n)[k] = p[1 + k - 1]
        BY <1>1, <4>1, SubSeqProperties
      <4> QED
        BY <1>1, <4>2
    <3>4. SubSeq(p, 1, n) = Path
      BY <1>1, <3>2, <3>3, SeqEqual DEF Paths
    <3>5. n \in 1 .. Len(p)
      BY <1>1, <1>2, <1>5, <3>1
    <3> QED
      BY <3>4, <3>5 DEF Prefixes, p
  <2> QED
    BY <1>2, <1>3, <2>2, <2>3, <2>4 DEF Readable
<1> QED
  BY <1>1, <1>2, <1>4, <1>5

\* A trail the walk is past names another file than the one it stands at.
LEMMA PassedNames ==
    ASSUME TypeOK, Chain, HasEntry, WellNamed, NEW c \in AllTrails, Passed(stack, c)
    PROVE  NamesOf(c) # Path
<1> DEFINE p == NamesOf(c)
           n == Len(stack)
<1>1. /\ DOMAIN stack = 1 .. n /\ n \in Nat /\ image \in Images /\ Len(Path) = n
      /\ \A i \in 1 .. n : stack[i].pos \in Nat
  BY FrameTypes, PathType DEF TypeOK
<1>2. /\ c \in Seq(Frames) /\ Len(c) \in Nat /\ DOMAIN c = 1 .. Len(c)
      /\ \A k \in 1 .. Len(c) : c[k].pos \in DOMAIN Entries(c[k].ino)
  BY <1>1, TrailFacts
<1>3. Len(p) = Len(c) /\ \A k \in 1 .. Len(c) : p[k] = EntryOf(c[k]).name
  <2>1. p = [k \in 1 .. Len(c) |-> EntryOf(c[k]).name]
    BY <1>2 DEF NamesOf
  <2> HIDE DEF p
  <2> QED
    BY <1>2, <2>1
<1> HIDE DEF p
<1>4. CASE Len(c) < Len(stack)
  BY <1>1, <1>2, <1>3, <1>4 DEF p
<1>5. CASE \E d \in DOMAIN stack \cap DOMAIN c :
              /\ \A k \in 1 .. d - 1 : c[k] = stack[k]
              /\ c[d].ino = stack[d].ino /\ c[d].pos < stack[d].pos
  <2>1. PICK d \in DOMAIN stack \cap DOMAIN c :
              /\ \A k \in 1 .. d - 1 : c[k] = stack[k]
              /\ c[d].ino = stack[d].ino /\ c[d].pos < stack[d].pos
    BY <1>5
  <2>2. d \in 1 .. n /\ d \in 1 .. Len(c) /\ d <= Len(p)
    BY <1>1, <1>2, <1>3, <2>1
  <2>3. ASSUME NEW k \in 1 .. d - 1 PROVE p[k] = EntryOf(stack[k]).name
    <3>1. k \in 1 .. Len(c)
      BY <1>2, <2>2
    <3> QED
      BY <1>3, <2>1, <2>3, <3>1
  <2>4. c[d].pos \in DOMAIN Entries(stack[d].ino) /\ p[d] = Entries(stack[d].ino)[c[d].pos].name
    BY <1>2, <1>3, <2>1, <2>2 DEF EntryOf
  <2>5. Past(stack, p)
    BY <2>1, <2>2, <2>3, <2>4 DEF Past
  <2> QED
    BY <2>5, NotYetPast DEF p
<1> QED
  BY <1>4, <1>5 DEF Passed

\* The trails of the properties are trails.
LEMMA TrailsAreTrails == TypeOK => Trails \subseteq AllTrails
<1> SUFFICES ASSUME TypeOK, NEW c \in Trails PROVE c \in AllTrails
  OBVIOUS
<1>1. PICK n \in 1 .. MaxDepth : c \in [1 .. n -> Places]
  BY DEF Trails
<1>2. n \in Nat \ {0}
  BY BoundAssumption
<1>3. image \in Images
  BY DEF TypeOK
<1>4. \A f \in Places : f \in Frames /\ f.pos \in DOMAIN Entries(f.ino)
  <2> SUFFICES ASSUME NEW i \in Inodes, NEW f \in [ino : {i}, pos : DOMAIN Entries(i)]
               PROVE  f \in Frames /\ f.pos \in DOMAIN Entries(f.ino)
    BY DEF Places
  <2>1. f.ino = i /\ f.pos \in DOMAIN Entries(i) /\ f = [ino |-> f.ino, pos |-> f.pos]
    OBVIOUS
  <2>2. f.pos \in Nat \ {0}
    BY <1>3, <2>1, EntryTypes
  <2> QED
    BY <2>1, <2>2 DEF Frames
<1>5. c \in Seq(Frames) /\ c # <<>> /\ DOMAIN c = 1 .. n
  BY <1>1, <1>2, <1>4
<1>6. \A k \in DOMAIN c : c[k].pos \in DOMAIN Entries(c[k].ino)
  BY <1>1, <1>4
<1> QED
  BY <1>5, <1>6 DEF Trails, AllTrails

(***************************************************************************)
(* What has been passed has been written, or warned about                  *)
(***************************************************************************)
Written(c) ==
    LET p == NamesOf(c)
        e == LastOf(c)
    IN  e.kind = "file" /\ KindOf(e.ino) = "file" /\ AskedFor(p) =>
            \/ p \in opened /\ files[p] = [of |-> e.ino, whole |-> TRUE]
            \/ \E q \in Prefixes(p) : q \in skipped

Completing ==
    Extracting /\ WellNamed =>
        /\ pc # "idle" => \A c \in AllTrails : Passed(stack, c) => Written(c)
        /\ pc = "idle" /\ result = "ok" => \A c \in AllTrails : Written(c)

\* What is written stays so while its file does.
LEMMA StaysWritten ==
    ASSUME NEW c, Written(c), UNCHANGED <<image, asked>>,
           opened \subseteq opened', skipped \subseteq skipped',
           NamesOf(c) \in opened => files'[NamesOf(c)] = files[NamesOf(c)]
    PROVE  Written(c)'
<1> DEFINE p == NamesOf(c)
           e == LastOf(c)
<1>1. /\ NamesOf(c)' = p /\ LastOf(c)' = e /\ KindOf(e.ino)' = KindOf(e.ino)
      /\ AskedFor(p)' <=> AskedFor(p)
  BY SameImage DEF KindOf, AskedFor
<1>2. e.kind = "file" /\ KindOf(e.ino) = "file" /\ AskedFor(p) =>
            \/ p \in opened /\ files[p] = [of |-> e.ino, whole |-> TRUE]
            \/ \E q \in Prefixes(p) : q \in skipped
  BY DEF Written
<1> HIDE DEF p, e
<1>3. e.kind = "file" /\ KindOf(e.ino) = "file" /\ AskedFor(p) =>
            \/ p \in opened' /\ files'[p] = [of |-> e.ino, whole |-> TRUE]
            \/ \E q \in Prefixes(p) : q \in skipped'
  BY <1>2 DEF p
<1> QED
  BY <1>1, <1>3 DEF Written, KindOf, AskedFor

\* A step that goes on with the walk.
LEMMA CompleteOn ==
    ASSUME Completing, UNCHANGED <<image, call, asked>>, pc # "idle", pc' # "idle",
           opened \subseteq opened', skipped \subseteq skipped',
           Extracting /\ WellNamed =>
              \A c \in AllTrails : Passed(stack', c) =>
                 \/ Written(c)'
                 \/ /\ Passed(stack, c)
                    /\ NamesOf(c) \in opened => files'[NamesOf(c)] = files[NamesOf(c)]
    PROVE  Completing'
<1> SUFFICES ASSUME Extracting, WellNamed, NEW c \in AllTrails, Passed(stack', c)
             PROVE  Written(c)'
  <2>1. Extracting' => Extracting
    BY DEF Extracting
  <2>2. WellNamed' => WellNamed
    BY SameImage
  <2>3. \A c : (c \in AllTrails)' => c \in AllTrails
    BY SameImage
  <2> QED
    BY <2>1, <2>2, <2>3 DEF Completing, Passed
<1>1. CASE /\ Passed(stack, c)
           /\ NamesOf(c) \in opened => files'[NamesOf(c)] = files[NamesOf(c)]
  <2>1. Written(c)
    BY <1>1 DEF Completing
  <2> QED
    BY <1>1, <2>1, StaysWritten
<1> QED
  BY <1>1

LEMMA SkipEntryCompletes == Inv /\ Ways /\ Completing /\ SkipEntry => Completing'
<1> SUFFICES ASSUME Inv, Ways, Completing, SkipEntry PROVE Completing'
  OBVIOUS
<1>1. /\ UNCHANGED <<image, call, asked, opened, files>> /\ skipped \subseteq skipped'
      /\ pc = "entry" /\ pc' = "entry" /\ stack' = Advance(stack) /\ HasEntry
  BY DEF SkipEntry, AtEntry, Leave, HasEntry, output
<1>2. \/ Path \in skipped'
      \/ Special(Here.name)
      \/ ~Enumerating /\ Here.kind \notin {"file", "directory"}
  BY DEF SkipEntry
<1>3. ASSUME Extracting, NEW c \in AllTrails, Passed(stack', c)
      PROVE  Written(c)' \/ Passed(stack, c)
  <2>1. Passed(stack, c) \/ Through(c)
    BY <1>1, <1>3, LeavePasses DEF Inv, HasEntry
  <2>2. CASE Through(c)
    <3>1. /\ ~Special(Here.name) /\ Path \in Prefixes(NamesOf(c))
          /\ c = stack \/ Here.kind = "directory"
      BY <1>1, <2>2, ThroughHere
    <3>2. CASE Path \in skipped'
      <4>1. NamesOf(c)' = NamesOf(c)
        BY <1>1, SameImage
      <4> QED
        BY <3>1, <3>2, <4>1 DEF Written, Prefixes
    <3>3. CASE Here.kind \notin {"file", "directory"}
      <4>1. LastOf(c) = Here
        BY <3>1, <3>3 DEF LastOf, Here, Top
      <4>2. LastOf(c)' = Here
        BY <1>1, <4>1, SameImage
      <4> QED
        BY <3>3, <4>2 DEF Written
    <3> QED
      BY <1>2, <3>1, <3>2, <3>3
  <2> QED
    BY <2>1, <2>2
<1> QED
  BY <1>1, <1>3, CompleteOn

LEMMA UnpackDirectoryCompletes == Inv /\ Ways /\ Completing /\ UnpackDirectory => Completing'
<1> SUFFICES ASSUME Inv, Ways, Completing, UnpackDirectory PROVE Completing'
  OBVIOUS
<1>1. /\ UNCHANGED <<image, call, asked, opened>> /\ skipped \subseteq skipped'
      /\ pc = "entry" /\ pc' = "entry" /\ HasEntry /\ stack # <<>>
      /\ ~Special(Here.name) /\ Here.kind = "directory" /\ files' = files
  BY DEF UnpackDirectory, AtEntry, Leave, GoInto, HasEntry, output, MakeDirectories
<1>2. \/ stack' = Advance(stack) /\ Path \in skipped'
      \/ stack' = Advance(stack) /\ ~Needed(Path, "directory")
      \/ stack' = Append(stack, [ino |-> Here.ino, pos |-> 1])
  BY DEF UnpackDirectory, Leave, GoInto, Open
<1>3. ASSUME Extracting, NEW c \in AllTrails, Passed(stack', c)
      PROVE  Written(c)' \/ Passed(stack, c)
  <2>1. /\ NamesOf(c)' = NamesOf(c) /\ LastOf(c)' = LastOf(c)
    BY <1>1, SameImage
  <2>2. CASE stack' = Append(stack, [ino |-> Here.ino, pos |-> 1])
    <3>1. Passed(stack, c) \/ c = stack
      BY <1>1, <1>3, <2>2, IntoPasses DEF Inv
    <3>2. ASSUME c = stack PROVE Written(c)'
      <4>1. LastOf(c)' = Here
        BY <2>1, <3>2 DEF LastOf, Here, Top
      <4> QED
        BY <1>1, <4>1 DEF Written
    <3> QED
      BY <3>1, <3>2
  <2>3. CASE stack' = Advance(stack)
    <3>1. Passed(stack, c) \/ Through(c)
      BY <1>1, <1>3, <2>3, LeavePasses DEF Inv
    <3>2. ASSUME Through(c) PROVE Path \in Prefixes(NamesOf(c))
      BY <1>1, <3>2, ThroughHere
    <3>3. CASE Path \in skipped' /\ Through(c)
      BY <2>1, <3>2, <3>3 DEF Written, Prefixes
    <3>4. CASE ~Needed(Path, "directory") /\ Through(c)
      <4>1. asked # {} /\ Path \notin FilePaths
        BY <1>3, <3>4 DEF Needed, NeededByExtract, NeededByUnpack, Extracting
      <4>2. NamesOf(c) \notin asked
        BY <3>2, <3>4, <4>1 DEF FilePaths
      <4>3. ~AskedFor(NamesOf(c))'
        BY <1>1, <2>1, <4>1, <4>2 DEF AskedFor
      <4> QED
        BY <4>3, Zenon DEF Written
    <3>5. Path \in skipped' \/ ~Needed(Path, "directory")
      <4>1. Advance(stack) # Append(stack, [ino |-> Here.ino, pos |-> 1])
        <5>1. stack \in Seq(Frames) /\ Len(Advance(stack)) = Len(stack) /\ Len(stack) \in Nat
          BY <1>1, AdvanceKeeps DEF Inv, TypeOK
        <5>2. Len(Append(stack, [ino |-> Here.ino, pos |-> 1])) = Len(stack) + 1
          BY <5>1
        <5> QED
          BY <5>1, <5>2
      <4> QED
        BY <1>2, <2>3, <4>1
    <3> QED
      BY <3>1, <3>3, <3>4, <3>5
  <2> QED
    BY <1>2, <2>2, <2>3
<1> QED
  BY <1>1, <1>3, CompleteOn

LEMMA AnnounceCompletes == Inv /\ Ways /\ Completing /\ Announce => Completing'
<1> SUFFICES ASSUME Inv, Ways, Completing, Announce PROVE Completing'
  OBVIOUS
<1> DEFINE kind == KindOf(look.ino)
<1>1. /\ UNCHANGED <<image, call, asked, opened, skipped>> /\ pc = "lookup"
      /\ pc' # "idle" /\ files' = files /\ HasEntry /\ stack # <<>>
      /\ ~Special(Here.name) /\ Here.kind = "file"
      /\ look.n = Len(stack) /\ kind \in {"file", "directory"}
  BY LookupFacts DEF Announce, Leave, MakeDirectories, output, Ways, KindOf
<1>2. \/ stack' = stack
      \/ stack' = Advance(stack) /\ (~Needed(Path, kind) \/ kind = "directory")
  BY DEF Announce, Leave
<1>3. ASSUME Extracting, WellNamed, NEW c \in AllTrails, Passed(stack', c)
      PROVE  Written(c)' \/ Passed(stack, c)
  <2>1. CASE stack' = stack
    BY <1>3, <2>1
  <2>2. CASE stack' = Advance(stack) /\ (~Needed(Path, kind) \/ kind = "directory")
    <3>1. Passed(stack, c) \/ Through(c)
      BY <1>1, <1>3, <2>2, LeavePasses DEF Inv
    <3>2. CASE Through(c)
      <4>1. c = stack /\ Path \in Prefixes(NamesOf(c))
        BY <1>1, <3>2, ThroughHere
      <4>2. NamesOf(c) = Path /\ LastOf(c) = Here
        BY <1>1, <4>1, OwnTrail
      <4>3. NamesOf(c)' = Path /\ LastOf(c)' = Here
        BY <1>1, <4>2, SameImage
      <4>4. CASE kind = "directory"
        <5>1. look.ino = Here.ino
          BY <1>1, <1>3 DEF Inv, Looking
        <5>2. (KindOf(LastOf(c).ino))' = "directory"
          BY <1>1, <4>3, <4>4, <5>1 DEF KindOf
        <5> QED
          BY <5>2 DEF Written
      <4>5. CASE ~Needed(Path, kind) /\ kind = "file"
        <5>1. asked # {} /\ Path \notin asked
          <6>1. Path \in asked => Path \in FilePaths
            BY <4>1, <4>2 DEF FilePaths
          <6> QED
            BY <1>3, <4>5, <6>1 DEF Needed, NeededByExtract, NeededByUnpack, Extracting
        <5>2. ~AskedFor(NamesOf(c))'
          BY <1>1, <4>3, <5>1 DEF AskedFor
        <5> QED
          BY <5>2, Zenon DEF Written
      <4> QED
        BY <1>1, <2>2, <4>4, <4>5
    <3> QED
      BY <3>1, <3>2
  <2> QED
    BY <1>2, <2>1, <2>2
<1> QED
  BY <1>1, <1>3, CompleteOn

LEMMA OpenFileCompletes == Inv /\ Ways /\ Completing /\ OpenFile => Completing'
<1> SUFFICES ASSUME Inv, Ways, Completing, OpenFile PROVE Completing'
  OBVIOUS
<1>1. /\ UNCHANGED <<image, call, asked, skipped, stack>> /\ opened \subseteq opened'
      /\ pc = "open" /\ pc' # "idle" /\ HasEntry /\ opened \subseteq DOMAIN files
      /\ files' = Put(files, Path, [of |-> look.ino, whole |-> FALSE])
  BY LookupFacts DEF OpenFile, Inv, TypeOK
<1>2. ASSUME WellNamed, NEW c \in AllTrails, Passed(stack', c)
      PROVE  Passed(stack, c) /\ (NamesOf(c) \in opened => files'[NamesOf(c)] = files[NamesOf(c)])
  <2>1. Passed(stack, c) /\ NamesOf(c) # Path
    BY <1>1, <1>2, PassedNames DEF Inv
  <2> QED
    BY <1>1, <2>1 DEF Put
<1> QED
  BY <1>1, <1>2, CompleteOn

LEMMA WriteFileCompletes == Inv /\ Ways /\ Completing /\ WriteFile => Completing'
<1> SUFFICES ASSUME Inv, Ways, Completing, WriteFile PROVE Completing'
  OBVIOUS
<1>1. /\ UNCHANGED <<image, call, asked, opened, skipped>> /\ pc = "write" /\ pc' = "entry"
      /\ HasEntry /\ stack # <<>> /\ stack' = Advance(stack) /\ opened \subseteq DOMAIN files
      /\ files' = [files EXCEPT ![Path].whole = TRUE]
      /\ ~Special(Here.name) /\ Here.kind = "file"
  BY LookupFacts DEF WriteFile, Leave, Inv, TypeOK, Ways, report
<1>2. /\ Path \in opened /\ Path \in DOMAIN files
      /\ files[Path] = [of |-> look.ino, whole |-> FALSE]
  BY <1>1 DEF Inv, Partial, Ways
<1>3. /\ files'[Path] = [of |-> look.ino, whole |-> TRUE]
      /\ \A p \in DOMAIN files : p # Path => files'[p] = files[p]
  <2> DEFINE q == Path
             r == [files[q] EXCEPT !.whole = TRUE]
  <2>1. r = [of |-> look.ino, whole |-> TRUE]
    <3>1. files[q] \in Node
      <4>1. Path \in DOMAIN files
        BY <1>2
      <4> QED
        BY <4>1 DEF Inv, TypeOK
    <3>2. files[q].of = look.ino
      BY <1>2
    <3> HIDE DEF q
    <3>3. r \in Node /\ r.of = look.ino /\ r.whole = TRUE
      BY <3>1, <3>2 DEF Node
    <3> HIDE DEF r
    <3>4. \A x \in Node : x = [of |-> x.of, whole |-> x.whole]
      BY DEF Node
    <3> QED
      BY <3>3, <3>4
  <2>2. files' = [files EXCEPT ![q] = r] /\ q \in DOMAIN files
    BY <1>1, <1>2
  <2> HIDE DEF q, r
  <2>3. /\ files'[q] = r
        /\ \A p \in DOMAIN files : p # q => files'[p] = files[p]
    BY <2>2
  <2> QED
    BY <2>1, <2>3 DEF q
<1>4. ASSUME WellNamed, NEW c \in AllTrails, Passed(stack', c)
      PROVE  \/ Written(c)'
             \/ /\ Passed(stack, c)
                /\ NamesOf(c) \in opened => files'[NamesOf(c)] = files[NamesOf(c)]
  <2>1. Passed(stack, c) \/ Through(c)
    BY <1>1, <1>4, LeavePasses DEF Inv
  <2>2. CASE Passed(stack, c)
    <3>1. NamesOf(c) # Path
      BY <1>1, <1>4, <2>2, PassedNames DEF Inv
    <3> QED
      BY <1>1, <1>3, <2>2, <3>1
  <2>3. CASE Through(c)
    <3>1. c = stack
      BY <1>1, <2>3, ThroughHere
    <3>2. NamesOf(c) = Path /\ LastOf(c) = Here
      BY <1>1, <3>1, OwnTrail
    <3>3. NamesOf(c)' = Path /\ LastOf(c)' = Here
      BY <1>1, <3>2, SameImage
    <3>4. look.ino = Here.ino
      BY <1>1, <1>4 DEF Inv, Looking, RightContents
    <3>5. Path \in opened' /\ files'[Path] = [of |-> Here.ino, whole |-> TRUE]
      BY <1>1, <1>2, <1>3, <3>4
    <3> QED
      BY <3>3, <3>5, Zenon DEF Written
  <2> QED
    BY <2>1, <2>2, <2>3
<1> QED
  BY <1>1, <1>4, CompleteOn

LEMMA CloseDirectoryCompletes == Inv /\ Completing /\ CloseDirectory => Completing'
<1> SUFFICES ASSUME Inv, Completing, CloseDirectory PROVE Completing'
  OBVIOUS
<1>1. /\ UNCHANGED <<image, call, asked, opened, skipped, files>> /\ pc = "entry"
      /\ pc' = "entry" /\ AtEnd /\ Len(stack) > 1
      /\ stack' = Advance(SubSeq(stack, 1, Len(stack) - 1))
  BY DEF CloseDirectory, AtEnd, Leave, output, report
<1>2. ASSUME NEW c \in AllTrails, Passed(stack', c) PROVE Passed(stack, c)
  BY <1>1, <1>2, OutPasses DEF Inv
<1> QED
  BY <1>1, <1>2, CompleteOn

\* The end of the walk, and its beginning.
LEMMA FinishCompletes == Inv /\ Completing /\ Finish => Completing'
<1> SUFFICES ASSUME Inv, Completing, Finish PROVE Completing'
  OBVIOUS
<1> SUFFICES ASSUME Extracting, WellNamed, NEW c \in AllTrails PROVE Written(c)'
  <2>1. image' = image /\ call' = call /\ pc' = "idle" /\ Finish
    BY DEF Finish, Return
  <2>2. Extracting' => Extracting
    BY <2>1 DEF Extracting
  <2>3. /\ WellNamed' => WellNamed
        /\ \A c : (c \in AllTrails)' => c \in AllTrails
    BY <2>1, SameImage
  <2> QED
    BY <2>1, <2>2, <2>3 DEF Completing
<1>1. /\ UNCHANGED <<image, call, asked, opened, skipped, files>>
      /\ AtEnd /\ Len(stack) = 1 /\ pc # "idle"
  BY DEF Finish, AtEnd, report
<1>2. Written(c)
  BY <1>1, AllPassed DEF Inv, Completing
<1> QED
  BY <1>1, <1>2, StaysWritten

LEMMA StartCompletes ==
    ASSUME Inv, NEW c, NEW filter, Start(c, filter)
    PROVE  Completing'
<1>1. /\ image' = image /\ image \in Images
      /\ \/ pc' = "entry" /\ stack' = <<[ino |-> Root, pos |-> 1]>>
         \/ pc' = "idle" /\ result' = "failed"
  BY DEF Start, Inv, TypeOK
<1>2. CASE pc' = "entry" /\ stack' = <<[ino |-> Root, pos |-> 1]>>
  <2>1. \A t \in AllTrails : ~Passed(stack', t)
    BY <1>1, <1>2, NonePassed
  <2>2. \A t : (t \in AllTrails)' => t \in AllTrails
    BY <1>1, SameImage
  <2> QED
    BY <1>2, <2>1, <2>2 DEF Completing, Passed
<1>3. CASE pc' = "idle" /\ result' = "failed"
  BY <1>3 DEF Completing
<1> QED
  BY <1>1, <1>2, <1>3

LEMMA NextCompletes == Inv /\ Ways /\ Completing /\ [Next]_vars => Completing'
<1> SUFFICES ASSUME Inv, Ways, Completing, [Next]_vars PROVE Completing'
  OBVIOUS
<1>1. CASE List \/ Extract \/ Unpack
  BY <1>1, StartCompletes DEF List, Extract, Unpack
<1>2. CASE Enumerate
  BY <1>2 DEF Enumerate, Enumerating, Extracting, Completing
<1>3. CASE UnpackFile \/ LookUp
  <2>1. /\ UNCHANGED <<image, call, asked, opened, skipped, files, stack>>
        /\ pc # "idle" /\ pc' # "idle"
    BY <1>3 DEF UnpackFile, LookUp, AtEntry, report, output
  <2> QED
    BY <2>1, CompleteOn
<1>4. CASE LookUpFails \/ GetFileFails \/ OpenFails \/ WriteFails
  <2>1. pc' = "idle" /\ result' = "failed"
    BY <1>4 DEF LookUpFails, GetFileFails, OpenFails, WriteFails, Abort, Return
  <2> QED
    BY <2>1 DEF Completing
<1>5. CASE DiskChanges \/ UNCHANGED vars
  <2>1. UNCHANGED <<image, call, asked, opened, skipped, files, stack, pc, result>>
    BY <1>5 DEF DiskChanges, vars, walk, output, report
  <2>2. Extracting' => Extracting
    BY <2>1 DEF Extracting
  <2>3. /\ WellNamed' => WellNamed
        /\ \A c : (c \in AllTrails)' => c \in AllTrails
    BY <2>1, SameImage
  <2>4. \A c : Written(c) => Written(c)'
    BY <2>1, StaysWritten
  <2> QED
    BY <2>1, <2>2, <2>3, <2>4 DEF Completing, Passed
<1> QED
  BY <1>1, <1>2, <1>3, <1>4, <1>5, SkipEntryCompletes, UnpackDirectoryCompletes,
     AnnounceCompletes, OpenFileCompletes, WriteFileCompletes, CloseDirectoryCompletes,
     FinishCompletes DEF Next, Step

LEMMA InitWays == Init => Ways /\ Completing
<1> SUFFICES ASSUME Init PROVE Ways /\ Completing
  OBVIOUS
<1>1. stack = <<>> /\ pc = "idle" /\ Len(stack) = 0 /\ result = "none"
  BY DEF Init
<1>2. ASSUME NEW i \in 1 .. Len(stack) - 1 PROVE FALSE
  BY <1>1
<1> QED
  BY <1>1, <1>2 DEF Ways, Completing

\* A successful extraction has written every file it was asked for, whole and
\* with the contents its directory entry names, but for what was warned about.
THEOREM ExtractionIsComplete == Spec => []CompleteUnlessSkipped
<1>1. Init => Inv /\ Ways /\ Completing
  BY InitInv, InitWays
<1>2. (Inv /\ Ways /\ Completing) /\ [Next]_vars => (Inv /\ Ways /\ Completing)'
  BY NextInv, NextWays, NextCompletes
<1>3. Inv /\ Ways /\ Completing => CompleteUnlessSkipped
  <2> SUFFICES ASSUME Inv, Completing, Succeeded({"extract", "unpack"}), WellNamed,
                      NEW c \in Trails
               PROVE  Written(c)
    BY Zenon DEF CompleteUnlessSkipped, Written
  <2>1. c \in AllTrails
    BY TrailsAreTrails DEF Inv
  <2> QED
    BY <2>1 DEF Completing, Succeeded, Extracting
<1> QED
  BY <1>1, <1>2, <1>3, PTL DEF Spec

(***************************************************************************)
(* What has been passed has been listed                                    *)
(***************************************************************************)
Listing ==
    /\ call = "list_ex" /\ pc # "idle" =>
          /\ \A i \in DOMAIN told : \E c \in AllTrails : Seen(c) /\ told[i] = Item(c)
          /\ \A c \in AllTrails : Seen(c) /\ Passed(stack, c) =>
                \E i \in DOMAIN told : told[i] = Item(c)
    /\ listed # <<>> =>
          /\ \A i \in DOMAIN listed : \E c \in AllTrails : Seen(c) /\ listed[i] = Item(c)
          /\ \A c \in AllTrails : Seen(c) => \E i \in DOMAIN listed : listed[i] = Item(c)

\* Entries added, and the trails passed among them.
LEMMA ListingOn ==
    ASSUME Listing, image' = image, call' = call, listed' = listed, pc # "idle",
           call = "list_ex" =>
              /\ \A i \in DOMAIN told' :
                    \/ i \in DOMAIN told /\ told'[i] = told[i]
                    \/ \E c \in AllTrails : Seen(c) /\ told'[i] = Item(c)
              /\ \A i \in DOMAIN told : i \in DOMAIN told' /\ told'[i] = told[i]
              /\ \A c \in AllTrails : Seen(c) /\ Passed(stack', c) =>
                    Passed(stack, c) \/ \E i \in DOMAIN told' : told'[i] = Item(c)
    PROVE  Listing'
<1>1. \A c : Item(c)' = Item(c) /\ ((c \in AllTrails)' <=> c \in AllTrails) /\ (Seen(c)' <=> Seen(c))
  BY SameImage
<1>2. ASSUME call = "list_ex"
      PROVE  /\ \A i \in DOMAIN told' : \E c \in AllTrails : Seen(c) /\ told'[i] = Item(c)
             /\ \A c \in AllTrails : Seen(c) /\ Passed(stack', c) =>
                   \E i \in DOMAIN told' : told'[i] = Item(c)
  <2>1. ASSUME NEW i \in DOMAIN told'
        PROVE  \E c \in AllTrails : Seen(c) /\ told'[i] = Item(c)
    BY <1>2 DEF Listing
  <2>2. ASSUME NEW c \in AllTrails, Seen(c), Passed(stack', c)
        PROVE  \E i \in DOMAIN told' : told'[i] = Item(c)
    <3>1. CASE Passed(stack, c)
      <4>1. PICK i \in DOMAIN told : told[i] = Item(c)
        BY <1>2, <2>2, <3>1 DEF Listing
      <4> QED
        BY <1>2, <4>1
    <3> QED
      BY <1>2, <2>2, <3>1
  <2> QED
    BY <2>1, <2>2
<1> QED
  BY <1>1, <1>2 DEF Listing, Passed

LEMMA SkipEntryLists == Inv /\ Ways /\ Listing /\ SkipEntry => Listing'
<1> SUFFICES ASSUME Inv, Ways, Listing, SkipEntry PROVE Listing'
  OBVIOUS
<1>1. /\ UNCHANGED <<image, call, told, listed>> /\ pc = "entry" /\ HasEntry
      /\ stack' = Advance(stack)
      /\ \/ Here.ino \in image.bad \/ Special(Here.name) \/ ~Enumerating
  BY DEF SkipEntry, AtEntry, Leave, HasEntry
<1>2. ASSUME call = "list_ex", NEW c \in AllTrails, Seen(c), Passed(stack', c)
      PROVE  Passed(stack, c)
  <2>1. Passed(stack, c) \/ Through(c)
    BY <1>1, <1>2, LeavePasses DEF Inv, HasEntry
  <2>2. Through(c) => ~Special(Here.name) /\ Here.ino \notin image.bad
    BY <1>1, <1>2, ThroughHere
  <2> QED
    BY <1>1, <1>2, <2>1, <2>2 DEF Enumerating
<1> QED
  BY <1>1, <1>2, ListingOn

LEMMA EnumerateLists == Inv /\ Ways /\ Listing /\ Enumerate => Listing'
<1> SUFFICES ASSUME Inv, Ways, Listing, Enumerate PROVE Listing'
  OBVIOUS
<1> DEFINE e == [path |-> Path, kind |-> IF Here.kind = "directory" THEN "directory" ELSE "file"]
           n == Len(told)
<1>1. /\ UNCHANGED <<image, call, listed>> /\ pc = "entry" /\ HasEntry /\ stack # <<>>
      /\ Here.ino \notin image.bad /\ ~Special(Here.name)
      /\ told' = Append(told, e) /\ told \in Seq(Listed) /\ n \in Nat
  BY DEF Enumerate, AtEntry, HasEntry, Inv, TypeOK
<1>2. \/ stack' = Advance(stack) /\ (Here.kind # "directory" \/ Here.ino \in image.torn)
      \/ stack' = Append(stack, [ino |-> Here.ino, pos |-> 1])
  BY DEF Enumerate, Leave, GoInto, Open
<1>3. stack \in AllTrails /\ Seen(stack) /\ e = Item(stack)
  BY <1>1, OwnTrail DEF Item
<1>4. /\ DOMAIN told = 1 .. n /\ DOMAIN told' = 1 .. n + 1
      /\ \A i \in 1 .. n : told'[i] = told[i]
      /\ told'[n + 1] = e
  BY <1>1
<1> HIDE DEF e, n
<1>5. /\ \A i \in 1 .. n + 1 : i \in 1 .. n \/ i = n + 1
      /\ \A i \in 1 .. n : i \in 1 .. n + 1
      /\ n + 1 \in 1 .. n + 1
  BY <1>1
<1>6. ASSUME NEW c \in AllTrails, Seen(c), Passed(stack', c)
      PROVE  Passed(stack, c) \/ c = stack
  <2>1. CASE stack' = Append(stack, [ino |-> Here.ino, pos |-> 1])
    BY <1>1, <1>6, <2>1, IntoPasses DEF Inv
  <2>2. CASE /\ stack' = Advance(stack)
             /\ Here.kind # "directory" \/ Here.ino \in image.torn
    <3>1. Passed(stack, c) \/ Through(c)
      BY <1>1, <1>6, <2>2, LeavePasses DEF Inv
    <3>2. ASSUME Through(c) PROVE c = stack
      <4>1. /\ c = stack \/ Here.kind = "directory"
            /\ c # stack => Readable(Here.ino)
        BY <1>1, <1>6, <3>2, ThroughHere
      <4> QED
        BY <2>2, <4>1 DEF Readable
    <3> QED
      BY <3>1, <3>2
  <2> QED
    BY <1>2, <2>1, <2>2
<1>7. \A i \in DOMAIN told' : \/ i \in DOMAIN told /\ told'[i] = told[i]
                              \/ \E c \in AllTrails : Seen(c) /\ told'[i] = Item(c)
  BY <1>3, <1>4, <1>5
<1>8. \A i \in DOMAIN told : i \in DOMAIN told' /\ told'[i] = told[i]
  BY <1>4, <1>5
<1>9. \A c \in AllTrails : Seen(c) /\ Passed(stack', c) =>
          Passed(stack, c) \/ \E i \in DOMAIN told' : told'[i] = Item(c)
  BY <1>3, <1>4, <1>5, <1>6
<1> QED
  BY <1>1, <1>7, <1>8, <1>9, ListingOn

LEMMA CloseDirectoryLists == Inv /\ Listing /\ CloseDirectory => Listing'
<1> SUFFICES ASSUME Inv, Listing, CloseDirectory PROVE Listing'
  OBVIOUS
<1>1. /\ UNCHANGED <<image, call, told, listed>> /\ pc = "entry" /\ AtEnd /\ Len(stack) > 1
      /\ stack' = Advance(SubSeq(stack, 1, Len(stack) - 1))
  BY DEF CloseDirectory, AtEnd, Leave, report
<1>2. ASSUME NEW c \in AllTrails, Passed(stack', c) PROVE Passed(stack, c)
  BY <1>1, <1>2, OutPasses DEF Inv
<1> QED
  BY <1>1, <1>2, ListingOn

LEMMA FinishLists == Inv /\ Listing /\ Finish => Listing'
<1> SUFFICES ASSUME Inv, Listing, Finish PROVE Listing'
  OBVIOUS
<1>1. /\ UNCHANGED <<image, call>> /\ pc' = "idle" /\ AtEnd /\ Len(stack) = 1 /\ pc # "idle"
      /\ listed' = IF Enumerating THEN told ELSE listed
  BY DEF Finish, Return, AtEnd
<1>2. \A c : Item(c)' = Item(c) /\ ((c \in AllTrails)' <=> c \in AllTrails) /\ (Seen(c)' <=> Seen(c))
  BY <1>1, SameImage
<1>3. \A c \in AllTrails : Passed(stack, c)
  BY <1>1, AllPassed DEF Inv
<1>4. listed' # <<>> =>
          /\ \A i \in DOMAIN listed' : \E c \in AllTrails : Seen(c) /\ listed'[i] = Item(c)
          /\ \A c \in AllTrails : Seen(c) => \E i \in DOMAIN listed' : listed'[i] = Item(c)
  BY <1>1, <1>3 DEF Listing, Enumerating
<1> QED
  BY <1>1, <1>2, <1>4 DEF Listing

\* A call that begins, or fails.
LEMMA StartLists ==
    ASSUME Inv, Listing, NEW c, NEW filter, Start(c, filter)
    PROVE  Listing'
<1>1. /\ image' = image /\ image \in Images /\ call' = c /\ told' = <<>>
      /\ listed' = IF c = "list_ex" THEN <<>> ELSE listed
      /\ \/ pc' = "entry" /\ stack' = <<[ino |-> Root, pos |-> 1]>>
         \/ pc' = "idle"
  BY DEF Start, Inv, TypeOK
<1>2. \A t : Item(t)' = Item(t) /\ ((t \in AllTrails)' <=> t \in AllTrails) /\ (Seen(t)' <=> Seen(t))
  BY <1>1, SameImage
<1>3. pc' # "idle" => \A t \in AllTrails : ~Passed(stack', t)
  BY <1>1, NonePassed
<1>4. DOMAIN told' = {}
  BY <1>1
<1>5. listed' # <<>> => listed' = listed
  BY <1>1
<1>6. listed' # <<>> =>
          /\ \A i \in DOMAIN listed' : \E t \in AllTrails : Seen(t) /\ listed'[i] = Item(t)
          /\ \A t \in AllTrails : Seen(t) => \E i \in DOMAIN listed' : listed'[i] = Item(t)
  BY <1>5 DEF Listing
<1> QED
  BY <1>2, <1>3, <1>4, <1>6 DEF Listing, Passed

LEMMA NextLists == Inv /\ Ways /\ Listing /\ [Next]_vars => Listing'
<1> SUFFICES ASSUME Inv, Ways, Listing, [Next]_vars PROVE Listing'
  OBVIOUS
<1>1. CASE List \/ Extract \/ Unpack
  BY <1>1, StartLists DEF List, Extract, Unpack
<1>2. CASE UnpackDirectory \/ UnpackFile
  <2>1. call # "list_ex" /\ UNCHANGED <<image, call, listed>> /\ pc # "idle"
    BY <1>2 DEF UnpackDirectory, UnpackFile, Enumerating, AtEntry
  <2> QED
    BY <2>1, ListingOn
<1>3. CASE LookUp \/ Announce \/ OpenFile \/ WriteFile
  <2>1. UNCHANGED <<image, call, listed>> /\ pc \in {"lookup", "open", "write"}
    BY <1>3 DEF LookUp, Announce, OpenFile, WriteFile
  <2>2. call # "list_ex" /\ pc # "idle"
    BY <2>1 DEF Inv, Partial
  <2> QED
    BY <2>1, <2>2, ListingOn
<1>4. CASE LookUpFails \/ GetFileFails \/ OpenFails \/ WriteFails
  <2>1. pc' = "idle" /\ UNCHANGED <<image, call, listed>>
    BY <1>4 DEF LookUpFails, GetFileFails, OpenFails, WriteFails, Abort, Return
  <2>2. \A c : Item(c)' = Item(c) /\ ((c \in AllTrails)' <=> c \in AllTrails) /\ (Seen(c)' <=> Seen(c))
    BY <2>1, SameImage
  <2> QED
    BY <2>1, <2>2 DEF Listing
<1>5. CASE DiskChanges \/ UNCHANGED vars
  <2>1. UNCHANGED <<image, call, told, listed, stack, pc>>
    BY <1>5 DEF DiskChanges, vars, walk, report
  <2>2. \A c : Item(c)' = Item(c) /\ ((c \in AllTrails)' <=> c \in AllTrails) /\ (Seen(c)' <=> Seen(c))
    BY <2>1, SameImage
  <2> QED
    BY <2>1, <2>2 DEF Listing, Passed
<1> QED
  BY <1>1, <1>2, <1>3, <1>4, <1>5, SkipEntryLists, EnumerateLists, CloseDirectoryLists,
     FinishLists DEF Next, Step

(***************************************************************************)
(* "Extract All" writes what the listing shows                             *)
(***************************************************************************)
EverythingWanted == call = "extract" /\ asked = {} /\ WellNamed /\ Consistent

Everything ==
    EverythingWanted =>
        /\ \A p \in opened : \E c \in AllTrails :
              Seen(c) /\ Item(c) = [path |-> p, kind |-> "file"]
        /\ \A c \in AllTrails :
              Seen(c) /\ Item(c).kind = "file"
                /\ (IF pc = "idle" THEN result = "ok" ELSE Passed(stack, c)) =>
                  NamesOf(c) \in opened

\* A step that goes on with the walk.
LEMMA EverythingOn ==
    ASSUME Everything, UNCHANGED <<image, call, asked>>, pc # "idle", pc' # "idle",
           opened \subseteq opened',
           EverythingWanted =>
              /\ \A p \in opened' \ opened : \E c \in AllTrails :
                    Seen(c) /\ Item(c) = [path |-> p, kind |-> "file"]
              /\ \A c \in AllTrails :
                    Seen(c) /\ Item(c).kind = "file" /\ Passed(stack', c) =>
                       Passed(stack, c) \/ NamesOf(c) \in opened'
    PROVE  Everything'
<1>1. /\ \A c : /\ Item(c)' = Item(c) /\ NamesOf(c)' = NamesOf(c)
                /\ ((c \in AllTrails)' <=> c \in AllTrails) /\ (Seen(c)' <=> Seen(c))
      /\ EverythingWanted' <=> EverythingWanted
  BY SameImage DEF EverythingWanted
<1>2. ASSUME EverythingWanted, NEW p \in opened'
      PROVE  \E c \in AllTrails : Seen(c) /\ Item(c) = [path |-> p, kind |-> "file"]
  BY <1>2 DEF Everything
<1>3. ASSUME EverythingWanted, NEW c \in AllTrails, Seen(c), Item(c).kind = "file",
             Passed(stack', c)
      PROVE  NamesOf(c) \in opened'
  <2>1. Passed(stack, c) \/ NamesOf(c) \in opened'
    BY <1>3
  <2>2. Passed(stack, c) => NamesOf(c) \in opened
    BY <1>3 DEF Everything
  <2> QED
    BY <2>1, <2>2
<1> QED
  BY <1>1, <1>2, <1>3 DEF Everything, Passed

\* A listed file is one that is unpacked, by its entry and by its inode.
LEMMA FilesAgree ==
    ASSUME image \in Images, Consistent, NEW c \in AllTrails, Item(c).kind = "file"
    PROVE  LastOf(c).kind = "file" /\ KindOf(LastOf(c).ino) = "file"
<1>1. LastOf(c).kind # "directory"
  BY DEF Item
<1>2. /\ Len(c) \in 1 .. Len(c) /\ c[Len(c)].ino \in Inodes
      /\ c[Len(c)].pos \in DOMAIN Entries(c[Len(c)].ino)
      /\ ~Special(EntryOf(c[Len(c)]).name)
  <2>1. Len(c) \in 1 .. Len(c)
    BY TrailFacts
  <2> QED
    BY <2>1, TrailFacts
<1>3. LastOf(c).kind = KindOf(LastOf(c).ino)
  BY <1>2 DEF Consistent, LastOf, EntryOf
<1> QED
  BY <1>1, <1>3 DEF KindOf

LEMMA SkipEntryAll == Inv /\ Ways /\ Everything /\ SkipEntry => Everything'
<1> SUFFICES ASSUME Inv, Ways, Everything, SkipEntry PROVE Everything'
  OBVIOUS
<1>1. /\ UNCHANGED <<image, call, asked, opened>> /\ pc = "entry" /\ pc' = "entry"
      /\ HasEntry /\ stack' = Advance(stack) /\ image \in Images
      /\ \/ Here.ino \in image.bad \/ Special(Here.name)
         \/ Here.kind \notin {"file", "directory"}
  BY DEF SkipEntry, AtEntry, Leave, HasEntry, Inv, TypeOK
<1>2. ASSUME Consistent, NEW c \in AllTrails, Seen(c), Item(c).kind = "file",
             Passed(stack', c)
      PROVE  Passed(stack, c)
  <2>1. Passed(stack, c) \/ Through(c)
    BY <1>1, <1>2, LeavePasses DEF Inv, HasEntry
  <2>2. ASSUME Through(c) PROVE FALSE
    <3>1. /\ ~Special(Here.name) /\ Here.ino \notin image.bad
          /\ c = stack \/ Here.kind = "directory"
      BY <1>1, <1>2, <2>2, ThroughHere
    <3>2. Here.kind \notin {"file", "directory"} /\ c = stack
      BY <1>1, <3>1
    <3>3. LastOf(c) = Here
      BY <3>2 DEF LastOf, Here, Top
    <3>4. LastOf(c).kind = "file"
      BY <1>1, <1>2, FilesAgree
    <3> QED
      BY <3>2, <3>3, <3>4
  <2> QED
    BY <2>1, <2>2
<1> QED
  BY <1>1, <1>2, EverythingOn DEF EverythingWanted

LEMMA UnpackDirectoryAll == Inv /\ Ways /\ Everything /\ UnpackDirectory => Everything'
<1> SUFFICES ASSUME Inv, Ways, Everything, UnpackDirectory PROVE Everything'
  OBVIOUS
<1>1. /\ UNCHANGED <<image, call, asked, opened>> /\ pc = "entry" /\ pc' = "entry"
      /\ HasEntry /\ stack # <<>> /\ Here.kind = "directory"
  BY DEF UnpackDirectory, AtEntry, Leave, GoInto, HasEntry
<1>2. \/ stack' = Advance(stack) /\ Here.ino \in image.torn
      \/ stack' = Advance(stack) /\ ~Needed(Path, "directory")
      \/ stack' = Append(stack, [ino |-> Here.ino, pos |-> 1])
  BY DEF UnpackDirectory, Leave, GoInto, Open
<1>3. ASSUME EverythingWanted, NEW c \in AllTrails, Seen(c), Item(c).kind = "file",
             Passed(stack', c)
      PROVE  Passed(stack, c)
  <2>1. c # stack
    <3>1. LastOf(stack) = Here
      BY DEF LastOf, Here, Top
    <3> QED
      BY <1>1, <1>3, <3>1 DEF Item
  <2>2. CASE stack' = Append(stack, [ino |-> Here.ino, pos |-> 1])
    BY <1>1, <1>3, <2>1, <2>2, IntoPasses DEF Inv
  <2>3. CASE stack' = Advance(stack) /\ Here.ino \in image.torn
    <3>1. Passed(stack, c) \/ Through(c)
      BY <1>1, <1>3, <2>3, LeavePasses DEF Inv
    <3>2. Through(c) => Readable(Here.ino)
      BY <1>1, <1>3, <2>1, ThroughHere
    <3> QED
      BY <2>3, <3>1, <3>2 DEF Readable
  <2>4. Needed(Path, "directory")
    BY <1>3 DEF EverythingWanted, Needed, NeededByExtract
  <2> QED
    BY <1>2, <2>2, <2>3, <2>4
<1> QED
  BY <1>1, <1>3, EverythingOn

LEMMA AnnounceAll == Inv /\ Ways /\ Everything /\ Announce => Everything'
<1> SUFFICES ASSUME Inv, Ways, Everything, Announce PROVE Everything'
  OBVIOUS
<1> DEFINE kind == KindOf(look.ino)
<1>1. /\ UNCHANGED <<image, call, asked, opened>> /\ pc = "lookup"
      /\ pc' # "idle" /\ HasEntry /\ stack # <<>> /\ look.n = Len(stack)
      /\ ~Special(Here.name) /\ Here.kind = "file"
  BY LookupFacts DEF Announce, Leave, Ways
<1>2. \/ stack' = stack
      \/ ~Needed(Path, kind) \/ kind = "directory"
  BY DEF Announce
<1>3. ASSUME EverythingWanted PROVE stack' = stack
  <2>1. Needed(Path, kind)
    BY <1>3 DEF EverythingWanted, Needed, NeededByExtract
  <2>2. look.ino = Here.ino
    BY <1>1, <1>3 DEF Inv, Looking, EverythingWanted
  <2>3. /\ Len(stack) \in 1 .. Len(stack) /\ stack[Len(stack)].ino \in Inodes
        /\ stack[Len(stack)].pos \in DOMAIN Entries(stack[Len(stack)].ino)
    <3>1. Len(stack) \in 1 .. Len(stack)
      BY <1>1, LookupFacts
    <3> QED
      BY <1>1, <3>1, FrameTypes, PathType DEF Inv, TypeOK
  <2>4. Here.kind = KindOf(Here.ino)
    BY <1>1, <1>3, <2>3 DEF EverythingWanted, Consistent, Here, Top, EntryOf
  <2>5. kind = "file"
    BY <1>1, <2>2, <2>4
  <2> QED
    BY <1>2, <2>1, <2>5
<1> QED
  BY <1>1, <1>3, EverythingOn

LEMMA OpenFileAll == Inv /\ Ways /\ Everything /\ OpenFile => Everything'
<1> SUFFICES ASSUME Inv, Ways, Everything, OpenFile PROVE Everything'
  OBVIOUS
<1>1. /\ UNCHANGED <<image, call, asked, stack>> /\ opened' = opened \cup {Path}
      /\ pc = "open" /\ pc' # "idle" /\ HasEntry
      /\ ~Special(Here.name) /\ Here.kind = "file" /\ Here.ino \notin image.bad
  BY LookupFacts DEF OpenFile, Ways
<1>2. stack \in AllTrails /\ Seen(stack) /\ Item(stack) = [path |-> Path, kind |-> "file"]
  BY <1>1, OwnTrail DEF Item
<1>3. \A p \in opened' \ opened : \E c \in AllTrails :
          Seen(c) /\ Item(c) = [path |-> p, kind |-> "file"]
  BY <1>1, <1>2
<1> QED
  BY <1>1, <1>3, EverythingOn

LEMMA WriteFileAll == Inv /\ Ways /\ Everything /\ WriteFile => Everything'
<1> SUFFICES ASSUME Inv, Ways, Everything, WriteFile PROVE Everything'
  OBVIOUS
<1>1. /\ UNCHANGED <<image, call, asked, opened>> /\ pc = "write" /\ pc' = "entry"
      /\ HasEntry /\ stack # <<>> /\ stack' = Advance(stack)
      /\ ~Special(Here.name) /\ Here.kind = "file" /\ Path \in opened
  BY LookupFacts DEF WriteFile, Leave, Inv, Partial, Ways, report
<1>2. ASSUME NEW c \in AllTrails, Passed(stack', c)
      PROVE  Passed(stack, c) \/ NamesOf(c) \in opened'
  <2>1. Passed(stack, c) \/ Through(c)
    BY <1>1, <1>2, LeavePasses DEF Inv
  <2>2. Through(c) => c = stack
    BY <1>1, <1>2, ThroughHere
  <2>3. NamesOf(stack) = Path
    BY DEF NamesOf, Path
  <2> QED
    BY <1>1, <2>1, <2>2, <2>3
<1> QED
  BY <1>1, <1>2, EverythingOn

LEMMA CloseDirectoryAll == Inv /\ Everything /\ CloseDirectory => Everything'
<1> SUFFICES ASSUME Inv, Everything, CloseDirectory PROVE Everything'
  OBVIOUS
<1>1. /\ UNCHANGED <<image, call, asked, opened>> /\ pc = "entry"
      /\ pc' = "entry" /\ AtEnd /\ Len(stack) > 1
      /\ stack' = Advance(SubSeq(stack, 1, Len(stack) - 1))
  BY DEF CloseDirectory, AtEnd, Leave, report
<1>2. ASSUME NEW c \in AllTrails, Passed(stack', c) PROVE Passed(stack, c)
  BY <1>1, <1>2, OutPasses DEF Inv
<1> QED
  BY <1>1, <1>2, EverythingOn

\* The end of the walk, and its beginning.
LEMMA FinishAll == Inv /\ Everything /\ Finish => Everything'
<1> SUFFICES ASSUME Inv, Everything, Finish PROVE Everything'
  OBVIOUS
<1>1. /\ UNCHANGED <<image, call, asked, opened>> /\ pc' = "idle"
      /\ AtEnd /\ Len(stack) = 1 /\ pc # "idle"
  BY DEF Finish, Return, AtEnd, report
<1>2. /\ \A c : /\ Item(c)' = Item(c) /\ NamesOf(c)' = NamesOf(c)
                /\ ((c \in AllTrails)' <=> c \in AllTrails) /\ (Seen(c)' <=> Seen(c))
      /\ EverythingWanted' <=> EverythingWanted
  BY <1>1, SameImage DEF EverythingWanted
<1>3. \A c \in AllTrails : Passed(stack, c)
  BY <1>1, AllPassed DEF Inv
<1> QED
  BY <1>1, <1>2, <1>3 DEF Everything

LEMMA StartAll ==
    ASSUME Inv, NEW c, NEW filter, Start(c, filter)
    PROVE  Everything'
<1>1. /\ image' = image /\ image \in Images /\ opened' = {}
      /\ \/ pc' = "entry" /\ stack' = <<[ino |-> Root, pos |-> 1]>>
         \/ pc' = "idle" /\ result' = "failed"
  BY DEF Start, Inv, TypeOK
<1>2. CASE pc' = "entry" /\ stack' = <<[ino |-> Root, pos |-> 1]>>
  <2>1. \A t \in AllTrails : ~Passed(stack', t)
    BY <1>1, <1>2, NonePassed
  <2>2. \A t : (t \in AllTrails)' => t \in AllTrails
    BY <1>1, SameImage
  <2> QED
    BY <1>1, <1>2, <2>1, <2>2 DEF Everything, Passed
<1>3. CASE pc' = "idle" /\ result' = "failed"
  BY <1>1, <1>3 DEF Everything
<1> QED
  BY <1>1, <1>2, <1>3

LEMMA NextAll == Inv /\ Ways /\ Everything /\ [Next]_vars => Everything'
<1> SUFFICES ASSUME Inv, Ways, Everything, [Next]_vars PROVE Everything'
  OBVIOUS
<1>1. CASE List \/ Extract \/ Unpack
  BY <1>1, StartAll DEF List, Extract, Unpack
<1>2. CASE Enumerate
  BY <1>2 DEF Enumerate, Enumerating, Everything, EverythingWanted
<1>3. CASE UnpackFile \/ LookUp
  <2>1. UNCHANGED <<image, call, asked, opened, stack>> /\ pc # "idle" /\ pc' # "idle"
    BY <1>3 DEF UnpackFile, LookUp, AtEntry, report
  <2> QED
    BY <2>1, EverythingOn
<1>4. CASE LookUpFails \/ GetFileFails \/ OpenFails \/ WriteFails
  <2>1. /\ pc' = "idle" /\ result' = "failed" /\ UNCHANGED <<image, call, asked, opened>>
        /\ pc # "idle"
    BY <1>4 DEF LookUpFails, GetFileFails, OpenFails, WriteFails, Abort, Return, report
  <2>2. /\ \A c : /\ Item(c)' = Item(c) /\ NamesOf(c)' = NamesOf(c)
                  /\ ((c \in AllTrails)' <=> c \in AllTrails) /\ (Seen(c)' <=> Seen(c))
        /\ EverythingWanted' <=> EverythingWanted
    BY <2>1, SameImage DEF EverythingWanted
  <2> QED
    BY <2>1, <2>2 DEF Everything
<1>5. CASE DiskChanges \/ UNCHANGED vars
  <2>1. UNCHANGED <<image, call, asked, opened, stack, pc, result>>
    BY <1>5 DEF DiskChanges, vars, walk, report
  <2>2. /\ \A c : /\ Item(c)' = Item(c) /\ NamesOf(c)' = NamesOf(c)
                  /\ ((c \in AllTrails)' <=> c \in AllTrails) /\ (Seen(c)' <=> Seen(c))
        /\ EverythingWanted' <=> EverythingWanted
    BY <2>1, SameImage DEF EverythingWanted
  <2> QED
    BY <2>1, <2>2 DEF Everything, Passed
<1> QED
  BY <1>1, <1>2, <1>3, <1>4, <1>5, SkipEntryAll, UnpackDirectoryAll, AnnounceAll,
     OpenFileAll, WriteFileAll, CloseDirectoryAll, FinishAll DEF Next, Step

\* "Extract All" writes exactly the files the picker lists, though the two
\* walks decide by different data what is a directory and what is left out.
THEOREM ListingAndExtractionAgree == Spec => []ListingMatchesExtraction
<1>1. Init => Inv /\ Ways /\ Listing /\ Everything
  <2>1. Init => Listing /\ Everything
    BY DEF Init, Listing, Everything, EverythingWanted
  <2> QED
    BY <2>1, InitInv, InitWays
<1>2. (Inv /\ Ways /\ Listing /\ Everything) /\ [Next]_vars =>
          (Inv /\ Ways /\ Listing /\ Everything)'
  BY NextInv, NextWays, NextLists, NextAll
<1>3. Inv /\ Listing /\ Everything => ListingMatchesExtraction
  <2> SUFFICES ASSUME Inv, Listing, Everything, Succeeded({"extract"}), asked = {},
                      listed # <<>>, WellNamed, Consistent
               PROVE  {listed[i].path : i \in {j \in DOMAIN listed : listed[j].kind = "file"}}
                         = opened
    BY DEF ListingMatchesExtraction
  <2>1. EverythingWanted /\ pc = "idle" /\ result = "ok"
    BY DEF EverythingWanted, Succeeded
  <2>2. ASSUME NEW i \in DOMAIN listed, listed[i].kind = "file"
        PROVE  listed[i].path \in opened
    <3>1. PICK c \in AllTrails : Seen(c) /\ listed[i] = Item(c)
      BY DEF Listing
    <3>2. NamesOf(c) \in opened
      BY <2>1, <2>2, <3>1 DEF Everything
    <3> QED
      BY <3>1, <3>2 DEF Item
  <2>3. ASSUME NEW p \in opened
        PROVE  \E i \in DOMAIN listed : listed[i].kind = "file" /\ listed[i].path = p
    <3>1. PICK c \in AllTrails : Seen(c) /\ Item(c) = [path |-> p, kind |-> "file"]
      BY <2>1 DEF Everything
    <3>2. PICK i \in DOMAIN listed : listed[i] = Item(c)
      BY <3>1 DEF Listing
    <3> QED
      BY <3>1, <3>2
  <2> QED
    BY <2>2, <2>3
<1> QED
  BY <1>1, <1>2, <1>3, PTL DEF Spec
=============================================================================
