------------------------- MODULE SelfConvert_proofs -------------------------
(***************************************************************************)
(* For every SELF: the converter's slices stay inside the file, its output *)
(* inside memory; what is placed is where the ELF header says, each piece  *)
(* with the data that is its own (PlacedInv): taking the first entry of a  *)
(* size, in order, counts the same way as the program headers do           *)
(* (Enumerates); and the data that is left is not in the output (OnceInv). *)
(***************************************************************************)
EXTENDS SelfConvert, FiniteSetTheorems, SequenceTheorems, WellFoundedInduction, TLAPS

(***************************************************************************)
(* Sequences                                                               *)
(***************************************************************************)
LEMMA Least ==
    ASSUME NEW S \in SUBSET Nat, S # {}
    PROVE  \E m \in S : \A k \in S : m <= k
<1>1. \E m \in S : \A k \in S : ~(<<k, m>> \in OpToRel(<, Nat))
  BY NatLessThanWellFounded, WFMin, Zenon
<1>2. PICK m \in S : \A k \in S : ~(<<k, m>> \in OpToRel(<, Nat))
  BY <1>1
<1>3. ASSUME NEW k \in S PROVE m <= k
  <2>1. <<k, m>> \in Nat \X Nat /\ ~(k < m)
    BY <1>2, <1>3 DEF OpToRel
  <2> QED BY <2>1
<1> QED BY <1>3

LEMMA MadeSeq ==
    ASSUME NEW n \in Nat, NEW S, NEW f \in [1 .. n -> S]
    PROVE  f \in Seq(S) /\ Len(f) = n
OBVIOUS

LEMMA WiderSeq ==
    ASSUME NEW S, NEW T, S \subseteq T, NEW s \in Seq(S)
    PROVE  s \in Seq(T)
OBVIOUS

LEMMA Joined ==
    ASSUME NEW S, NEW s \in Seq(S), NEW t \in Seq(S)
    PROVE  /\ s \o t \in Seq(S) /\ Len(s \o t) = Len(s) + Len(t)
           /\ \A k \in 1 .. Len(s) + Len(t) :
                 (s \o t)[k] = IF k <= Len(s) THEN s[k] ELSE t[k - Len(s)]
OBVIOUS

LEMMA Slice ==
    ASSUME NEW S, NEW s \in Seq(S), NEW m \in Nat, NEW n \in Nat,
           m >= 1, m <= n, n <= Len(s)
    PROVE  /\ SubSeq(s, m, n) \in Seq(S) /\ Len(SubSeq(s, m, n)) = n - m + 1
           /\ \A x \in 1 .. n - m + 1 : SubSeq(s, m, n)[x] = s[m + x - 1]
<1>1. ASSUME NEW x \in m .. n PROVE s[x] \in S
  <2>1. x \in 1 .. Len(s)
    OBVIOUS
  <2> QED BY <2>1
<1> QED BY <1>1, SubSeqProperties

\* segments.remove(at:) leaves the other segments.
LEMMA RemovedOne ==
    ASSUME NEW S, NEW s \in Seq(S), NEW k \in DOMAIN s
    PROVE  /\ Without(s, k) \in Seq(S)
           /\ \A n \in DOMAIN Without(s, k) : \E m \in DOMAIN s : Without(s, k)[n] = s[m]
<1> DEFINE w == Without(s, k)
<1>1. Len(s) \in Nat \ {0} /\ DOMAIN s = 1 .. Len(s) /\ k \in 1 .. Len(s)
  OBVIOUS
<1>2. DOMAIN w = 1 .. Len(s) - 1
  BY DEF Without
<1>3. ASSUME NEW n \in 1 .. Len(s) - 1
      PROVE  \E m \in DOMAIN s : w[n] = s[m]
  <2>1. n \in DOMAIN s /\ n + 1 \in DOMAIN s
    BY <1>1
  <2>2. w[n] = IF n < k THEN s[n] ELSE s[n + 1]
    BY DEF Without
  <2> QED BY <2>1, <2>2
<1>4. w \in [1 .. Len(s) - 1 -> S]
  <2>1. ASSUME NEW n \in 1 .. Len(s) - 1 PROVE w[n] \in S
    BY <1>3
  <2>2. w = [n \in 1 .. Len(s) - 1 |-> w[n]]
    BY DEF Without
  <2> QED BY <2>1, <2>2
<1> QED BY <1>1, <1>2, <1>3, <1>4, MadeSeq

\* The buffer has these cells at this offset.
HasAt(o, off, cells) == \A k \in 1 .. Len(cells) : o[off + k] = cells[k]
\* The second buffer has what the first one has, but for n cells at this offset.
SameBut(o, w, off, n) ==
    \A k \in 1 .. Len(o) : k \notin off + 1 .. off + n => w[k] = o[k]

\* Growing and overwriting leaves a buffer as long as it was, or as far as the
\* written part reaches; it has the cells, and what it had elsewhere.
LEMMA WrittenTo ==
    ASSUME NEW S, 0 \in S, NEW o \in Seq(S), NEW off \in Nat, NEW cells \in Seq(S)
    PROVE  /\ Written(o, off, cells) \in Seq(S)
           /\ Len(Written(o, off, cells)) = IF Len(o) < off + Len(cells)
                                            THEN off + Len(cells) ELSE Len(o)
           /\ HasAt(Written(o, off, cells), off, cells)
           /\ SameBut(o, Written(o, off, cells), off, Len(cells))
<1> DEFINE end == off + Len(cells)
           pad == end - Len(o)
           grown == IF Len(o) < end THEN o \o Zeros(pad) ELSE o
           len == IF Len(o) < end THEN end ELSE Len(o)
<1>1. end \in Nat /\ Len(o) \in Nat /\ len \in Nat
  OBVIOUS
<1>2. grown \in Seq(S) /\ Len(grown) = len
  <2>1. CASE Len(o) < end
    <3>1. pad \in Nat /\ Zeros(pad) \in [1 .. pad -> S]
      BY <1>1, <2>1 DEF Zeros
    <3>2. Zeros(pad) \in Seq(S) /\ Len(Zeros(pad)) = pad
      BY <3>1, MadeSeq
    <3>3. o \o Zeros(pad) \in Seq(S) /\ Len(o \o Zeros(pad)) = Len(o) + pad
      BY <3>2
    <3> QED BY <1>1, <2>1, <3>3
  <2> QED BY <2>1
<1> HIDE DEF grown
<1>3. \A k \in 1 .. len : (IF k \in off + 1 .. end THEN cells[k - off] ELSE grown[k]) \in S
  <2>1. ASSUME NEW k \in 1 .. len, k \in off + 1 .. end PROVE cells[k - off] \in S
    <3>1. k - off \in 1 .. Len(cells)
      BY <1>1, <2>1
    <3> QED BY <3>1
  <2>2. ASSUME NEW k \in 1 .. len PROVE grown[k] \in S
    BY <1>1, <1>2, <2>2
  <2> QED BY <2>1, <2>2
<1>4. Written(o, off, cells)
        = [k \in 1 .. len |-> IF k \in off + 1 .. end THEN cells[k - off] ELSE grown[k]]
  <2>1. DOMAIN grown = 1 .. len
    BY <1>2
  <2> QED BY <2>1 DEF Written, grown
<1> HIDE DEF len, end
<1>5. Written(o, off, cells) \in [1 .. len -> S]
  BY <1>3, <1>4
<1>6. Written(o, off, cells) \in Seq(S) /\ Len(Written(o, off, cells)) = len
  BY <1>1, <1>5, MadeSeq
<1>7. ASSUME NEW k \in 1 .. Len(cells) PROVE Written(o, off, cells)[off + k] = cells[k]
  <2>1. Len(cells) \in Nat /\ Len(o) \in Nat
    OBVIOUS
  <2>2. off + k \in off + 1 .. end /\ off + k \in 1 .. len /\ off + k - off = k
    BY <2>1 DEF end, len
  <2> QED BY <1>4, <2>2
<1>8. ASSUME NEW k \in 1 .. Len(o), k \notin off + 1 .. end
      PROVE  Written(o, off, cells)[k] = o[k]
  <2>1. k \in 1 .. len
    BY <1>1, <1>8 DEF len
  <2>2. grown[k] = o[k]
    <3>1. CASE Len(o) < end
      <4>1. pad \in Nat
        BY <1>1, <3>1
      <4>2. Zeros(pad) \in Seq({0})
        BY <4>1, MadeSeq DEF Zeros
      <4>3. (o \o Zeros(pad))[k] = o[k]
        BY <1>1, <1>8, <4>2
      <4> QED BY <3>1, <4>3 DEF grown
    <3> QED BY <3>1 DEF grown
  <2> QED BY <1>4, <1>8, <2>1, <2>2
<1>9. HasAt(Written(o, off, cells), off, cells)
  BY <1>7 DEF HasAt
<1>10. SameBut(o, Written(o, off, cells), off, Len(cells))
  BY <1>8 DEF SameBut, end
<1> QED BY <1>6, <1>9, <1>10 DEF len, end

(***************************************************************************)
(* The invariant                                                           *)
(***************************************************************************)
\* What is known of the loop and the buffer in a phase of the conversion.
PhaseInv == /\ pc \in {"header", "elf"} => i = 1
            /\ pc = "entries" => i <= EntryCount + 1
            /\ pc = "phdrs" => i <= PhNum + 1 /\ Len(output) <= Room + i
            /\ pc \in {"header", "entries", "elf"} => output = <<>>
\* Every slice of the file that is kept is inside it.
SliceInv == /\ last <= bin.len
            /\ \A k \in DOMAIN segments : End(segments[k]) <= bin.len
Inv == TypeOK /\ PhaseInv /\ SliceInv

LEMMA Parts ==
    ASSUME NEW b \in Selfs
    PROVE  /\ b.len \in Nat /\ b.magic \in BOOLEAN
           /\ b.entries \in Seq(Entry) /\ b.phdrs \in Seq(Region)
           /\ Len(b.entries) \in Nat /\ Len(b.phdrs) \in Nat
<1>1. b \in Self
  BY SelfsAssumption
<1> QED BY <1>1 DEF Self

LEMMA InitInv == Init => Inv
<1> SUFFICES ASSUME Init PROVE Inv
  OBVIOUS
<1>1. bin \in Selfs /\ EntryCount \in Nat /\ PhNum \in Nat /\ bin.len \in Nat
  BY Parts DEF Init, EntryCount, PhNum
<1>2. TypeOK
  BY <1>1, RoomAssumption DEF Init, TypeOK, Ended
<1>3. PhaseInv /\ SliceInv
  BY <1>1 DEF Init, PhaseInv, SliceInv
<1> QED BY <1>2, <1>3 DEF Inv

(***************************************************************************)
(* The steps                                                               *)
(***************************************************************************)
\* What every step below starts from: numbers, and sequences.
LEMMA Counts ==
    ASSUME Inv
    PROVE  /\ bin.len \in Nat /\ EntryCount \in Nat /\ PhNum \in Nat
           /\ IntMax \in Nat /\ Room \in Nat /\ Room <= IntMax
           /\ i \in Nat /\ i >= 1 /\ i <= EntryCount + PhNum + 1 /\ last \in Nat
<1>1. bin.len \in Nat /\ EntryCount \in Nat /\ PhNum \in Nat
  BY Parts DEF Inv, TypeOK, EntryCount, PhNum
<1>2. i \in 1 .. EntryCount + PhNum + 1 /\ last \in Nat
  BY DEF Inv, TypeOK
<1>3. i \in Nat /\ i >= 1 /\ i <= EntryCount + PhNum + 1
  BY <1>1, <1>2
<1>4. IntMax \in Nat /\ Room \in Nat /\ Room <= IntMax
  BY RoomAssumption
<1> QED BY <1>1, <1>2, <1>3, <1>4, Zenon

LEMMA Known ==
    ASSUME Inv
    PROVE  /\ bin \in Selfs /\ EntryCount = Len(bin.entries) /\ PhNum = Len(bin.phdrs)
           /\ segments \in Seq(Region) /\ elf \in Seq(Nat)
           /\ output \in Seq(0 .. bin.len) /\ Len(output) \in Nat
<1>1. /\ bin \in Selfs /\ segments \in Seq(Region) /\ elf \in Seq(Nat)
      /\ output \in Seq(0 .. bin.len)
  BY DEF Inv, TypeOK
<1>2. EntryCount = Len(bin.entries) /\ PhNum = Len(bin.phdrs)
  BY DEF EntryCount, PhNum
<1>3. Len(output) \in Nat
  BY <1>1
<1> QED BY <1>1, <1>2, <1>3, Zenon

\* A step that only moves on to another phase.
LEMMA MoveInv ==
    ASSUME Inv, UNCHANGED <<bin, segments, last, output, elf>>,
           pc' \in Running \cup Ended, i' = i \/ i' = 1,
           PhaseInv'
    PROVE  Inv'
<1>1. EntryCount' = EntryCount /\ PhNum' = PhNum
  BY DEF EntryCount, PhNum
<1>2. TypeOK'
  <2>1. i' \in 1 .. EntryCount' + PhNum' + 1
    BY <1>1, Counts DEF Inv, TypeOK
  <2> QED BY <1>1, <2>1 DEF Inv, TypeOK
<1>3. SliceInv'
  BY DEF Inv, SliceInv
<1> QED BY <1>2, <1>3 DEF Inv

LEMMA ConvertInv == Inv /\ Convert => Inv'
<1> SUFFICES ASSUME Inv, Convert PROVE Inv'
  OBVIOUS
<1>1. bin' \in Selfs /\ EntryCount' \in Nat /\ PhNum' \in Nat /\ bin'.len \in Nat
  BY Parts DEF Convert, EntryCount, PhNum
<1>2. /\ pc' \in {"header", "failed", "skipped"} /\ i' = 1 /\ segments' = <<>>
      /\ last' = 0 /\ output' = <<>> /\ elf' = elf
  BY DEF Convert
<1>3. TypeOK'
  <2>1. i' \in 1 .. EntryCount' + PhNum' + 1
    <3>1. \A a, b \in Nat : 1 \in 1 .. a + b + 1
      OBVIOUS
    <3> QED BY <1>1, <1>2, <3>1, Zenon
  <2>2. output' \in Seq(0 .. bin'.len) /\ Len(output') = 0
    BY <1>2
  <2>3. Len(output') <= Room + PhNum' + 1
    BY <1>1, <2>2, Counts
  <2>4. segments' \in Seq(Region) /\ last' \in Nat /\ elf' \in Seq(Nat)
    BY <1>2, Known
  <2> QED BY <1>1, <1>2, <2>1, <2>2, <2>3, <2>4 DEF TypeOK, Running, Ended
<1>4. PhaseInv'
  BY <1>1, <1>2 DEF PhaseInv
<1>5. SliceInv'
  <2>1. DOMAIN segments' = {} /\ last' <= bin'.len
    BY <1>1, <1>2
  <2> QED BY <2>1 DEF SliceInv
<1> QED BY <1>3, <1>4, <1>5 DEF Inv

\* The steps between the loops.
LEMMA PassInv == Inv /\ (Header \/ PhdrsEnd \/ Truncated \/ Trap \/ Relaunch) => Inv'
<1> SUFFICES ASSUME Inv, Header \/ PhdrsEnd \/ Truncated \/ Trap \/ Relaunch PROVE Inv'
  OBVIOUS
<1>1. /\ UNCHANGED <<bin, i, segments, last, output, elf>>
      /\ (pc = "header" /\ pc' = "entries") \/ pc' \in {"write", "failed", "trapped"}
  BY DEF Header, PhdrsEnd, Truncated, Trap, Relaunch
<1>2. EntryCount' = EntryCount /\ PhNum' = PhNum
  BY <1>1 DEF EntryCount, PhNum
<1>3. PhaseInv'
  <2>1. i = 1 => i <= EntryCount + 1
    BY Counts
  <2> QED BY <1>1, <1>2, <2>1 DEF Inv, PhaseInv
<1> QED BY <1>1, <1>3, MoveInv DEF Running, Ended

\* A step of the conversion of one file that does not end the process.
LEMMA WorkInv ==
    ASSUME Inv, bin' = bin, elf' = elf, pc' \in Running,
           i' \in 1 .. EntryCount + PhNum + 1,
           segments' \in Seq(Region), last' \in Nat,
           output' \in Seq(0 .. bin.len), Len(output') <= Room + PhNum + 1,
           PhaseInv', SliceInv'
    PROVE  Inv'
<1>1. EntryCount' = EntryCount /\ PhNum' = PhNum
  BY DEF EntryCount, PhNum
<1>2. TypeOK'
  BY <1>1, Known DEF TypeOK
<1> QED BY <1>2 DEF Inv

LEMMA ReadEntryInv == Inv /\ ReadEntry => Inv'
<1> SUFFICES ASSUME Inv, ReadEntry PROVE Inv'
  OBVIOUS
<1> DEFINE s == [off |-> EntryAt.off, size |-> EntryAt.size]
<1>1. /\ bin' = bin /\ elf' = elf /\ pc' = "entries" /\ pc = "entries"
      /\ i' = i + 1 /\ i <= EntryCount /\ last' = EntryEnd /\ EntryEnd <= bin.len
      /\ segments' = Append(segments, s) /\ output' = output
  BY DEF ReadEntry, MoreEntries, Has
<1>2. EntryCount' = EntryCount /\ PhNum' = PhNum
  BY <1>1 DEF EntryCount, PhNum
<1>3. EntryAt \in Entry
  <2>1. bin.entries \in Seq(Entry) /\ Len(bin.entries) = EntryCount
    BY Known, Parts
  <2>2. i \in 1 .. EntryCount
    BY <1>1, Counts
  <2> QED BY <2>1, <2>2 DEF EntryAt
<1>4. s \in Region /\ EntryEnd \in Nat /\ End(s) = EntryEnd
  BY <1>3 DEF Entry, Region, EntryEnd, End
<1> HIDE DEF s
<1>5. /\ segments' \in Seq(Region) /\ Len(segments') = Len(segments) + 1
      /\ \A k \in 1 .. Len(segments) : segments'[k] = segments[k]
      /\ segments'[Len(segments) + 1] = s
  BY <1>1, <1>4, Known
<1>6. i' \in 1 .. EntryCount + PhNum + 1 /\ i' <= EntryCount' + 1
  BY <1>1, <1>2, Counts
<1>7. PhaseInv'
  BY <1>1, <1>6 DEF Inv, PhaseInv
<1>8. SliceInv'
  <2>1. ASSUME NEW k \in DOMAIN segments' PROVE End(segments'[k]) <= bin.len
    <3>1. k \in 1 .. Len(segments) \/ k = Len(segments) + 1
      BY <1>5, Known
    <3>2. CASE k \in 1 .. Len(segments)
      <4>1. segments \in Seq(Region)
        BY Known
      <4>2. k \in DOMAIN segments /\ segments'[k] = segments[k]
        BY <1>5, <3>2, <4>1
      <4> QED BY <4>2 DEF Inv, SliceInv
    <3>3. CASE k = Len(segments) + 1
      BY <1>1, <1>4, <1>5, <3>3
    <3> QED BY <3>1, <3>2, <3>3
  <2> QED BY <1>1, <2>1 DEF SliceInv
<1>9. output' \in Seq(0 .. bin.len) /\ Len(output') <= Room + PhNum + 1
  BY <1>1, Known DEF Inv, TypeOK
<1> QED BY <1>1, <1>4, <1>5, <1>6, <1>7, <1>8, <1>9, WorkInv DEF Running

LEMMA EntriesEndInv == Inv /\ EntriesEnd => Inv'
<1> SUFFICES ASSUME Inv, EntriesEnd PROVE Inv'
  OBVIOUS
<1>1. /\ UNCHANGED <<bin, last, output, elf>> /\ pc = "entries" /\ pc' = "elf" /\ i' = 1
      /\ segments' = segments \o Version
  BY DEF EntriesEnd
<1>2. last <= bin.len
  BY DEF Inv, SliceInv
<1>3. /\ Version \in Seq(Region) /\ Len(Version) \in Nat
      /\ \A k \in DOMAIN Version : End(Version[k]) <= bin.len
  <2> DEFINE v == [off |-> last, size |-> bin.len - last]
  <2>1. CASE bin.len > last
    <3>1. v \in Region /\ End(v) <= bin.len
      BY <2>1, Counts DEF Region, End
    <3>2. Version = <<v>>
      BY <2>1 DEF Version
    <3> HIDE DEF v
    <3> QED BY <3>1, <3>2
  <2>2. CASE ~(bin.len > last)
    BY <2>2 DEF Version
  <2> QED BY <2>1, <2>2
<1>4. /\ segments' \in Seq(Region) /\ Len(segments') = Len(segments) + Len(Version)
      /\ \A k \in 1 .. Len(segments') :
            segments'[k] = IF k <= Len(segments) THEN segments[k]
                           ELSE Version[k - Len(segments)]
  BY <1>1, <1>3, Known
<1>5. SliceInv'
  <2>1. ASSUME NEW k \in DOMAIN segments' PROVE End(segments'[k]) <= bin.len
    <3>1. k \in 1 .. Len(segments) + Len(Version) /\ Len(segments) \in Nat
      BY <1>4, Known
    <3>2. CASE k <= Len(segments)
      <4>1. segments \in Seq(Region) /\ k \in 1 .. Len(segments)
        BY <3>1, <3>2, Known
      <4>2. k \in DOMAIN segments /\ segments'[k] = segments[k]
        BY <1>4, <3>1, <3>2, <4>1
      <4> QED BY <4>2 DEF Inv, SliceInv
    <3>3. CASE ~(k <= Len(segments))
      <4>1. k - Len(segments) \in DOMAIN Version
        BY <1>3, <3>1, <3>3
      <4>2. segments'[k] = Version[k - Len(segments)]
        BY <1>4, <3>1, <3>3
      <4> QED BY <1>3, <4>1, <4>2
    <3> QED BY <3>2, <3>3
  <2> QED BY <1>1, <1>2, <2>1 DEF SliceInv
<1>6. PhaseInv'
  BY <1>1 DEF Inv, PhaseInv
<1>7. output' \in Seq(0 .. bin.len) /\ Len(output') <= Room + PhNum + 1
  BY <1>1, Known DEF Inv, TypeOK
<1>8. i' \in 1 .. EntryCount + PhNum + 1
  BY <1>1, Counts
<1> QED BY <1>1, <1>4, <1>5, <1>6, <1>7, <1>8, Counts, Known, WorkInv DEF Running

LEMMA ElfHeaderInv == Inv /\ ElfHeader => Inv'
<1> SUFFICES ASSUME Inv, ElfHeader PROVE Inv'
  OBVIOUS
<1>1. /\ UNCHANGED <<bin, i, segments, last, elf>> /\ pc = "elf" /\ pc' = "phdrs"
      /\ output' = <<EhdrCell>> /\ EhdrCell <= bin.len /\ i = 1
  BY DEF ElfHeader, Has, Inv, PhaseInv
<1>2. PhNum' = PhNum
  BY <1>1 DEF PhNum
<1>3. EhdrCell \in 0 .. bin.len
  BY <1>1, Counts DEF EhdrCell, EntryCell
<1>4. output' \in Seq(0 .. bin.len) /\ Len(output') = 1
  BY <1>1, <1>3
<1>5. PhaseInv'
  BY <1>1, <1>2, <1>4, Counts, Known DEF PhaseInv
<1>6. SliceInv'
  BY <1>1 DEF Inv, SliceInv
<1>7. Len(output') <= Room + PhNum + 1 /\ i' \in 1 .. EntryCount + PhNum + 1
  BY <1>1, <1>4, Counts
<1> QED BY <1>1, <1>4, <1>5, <1>6, <1>7, Counts, Known, WorkInv DEF Running

\* A buffer and a loop variable, one round on.
LEMMA OneOn ==
    ASSUME NEW n \in Nat, NEW r \in Nat, NEW e \in Nat, NEW p \in Nat, NEW k \in 1 .. p,
           n <= r + k + 1
    PROVE  n <= r + p + 1 /\ k + 1 \in 1 .. e + p + 1 /\ k + 1 <= p + 1
OBVIOUS

\* The program header that both branches of the loop append.
LEMMA PhdrAppended ==
    ASSUME Inv, MorePhdrs, Has(PhdrCell(i))
    PROVE  LET o == Append(output, PhdrCell(i))
           IN  /\ o \in Seq(0 .. bin.len) /\ Len(o) \in Nat /\ Len(o) <= Room + i + 1
               /\ i \in 1 .. PhNum /\ PhdrAt \in Region
<1> DEFINE o == Append(output, PhdrCell(i))
<1>1. i \in 1 .. PhNum /\ Len(output) <= Room + i
  BY Counts DEF MorePhdrs, Inv, PhaseInv
<1>2. PhdrCell(i) \in 0 .. bin.len
  BY Counts DEF PhdrCell, EhdrCell, EntryCell, Has
<1>3. o \in Seq(0 .. bin.len) /\ Len(o) = Len(output) + 1
  BY <1>2, Known
<1>4. PhdrAt \in Region
  <2>1. bin.phdrs \in Seq(Region) /\ Len(bin.phdrs) = PhNum
    BY Known, Parts
  <2> QED BY <1>1, <2>1 DEF PhdrAt
<1> HIDE DEF o
<1>5. Len(o) \in Nat /\ Len(o) <= Room + i + 1
  BY <1>1, <1>3, Counts, Known
<1> QED BY <1>1, <1>3, <1>4, <1>5 DEF o

LEMMA PlacePhdrInv == Inv /\ PlacePhdr => Inv'
<1> SUFFICES ASSUME Inv, PlacePhdr PROVE Inv'
  OBVIOUS
<1>1. /\ UNCHANGED <<bin, pc, segments, last, elf>> /\ pc = "phdrs" /\ i' = i + 1
      /\ output' = Append(output, PhdrCell(i))
  BY DEF PlacePhdr, MorePhdrs
<1>2. PhNum' = PhNum
  BY <1>1 DEF PhNum
<1>3. /\ output' \in Seq(0 .. bin.len) /\ Len(output') \in Nat
      /\ Len(output') <= Room + i + 1 /\ i \in 1 .. PhNum
  BY <1>1, PhdrAppended DEF PlacePhdr
<1>4. PhaseInv'
  <2>1. i' <= PhNum' + 1 /\ Len(output') <= Room + i'
    BY <1>1, <1>2, <1>3, Counts
  <2> QED BY <1>1, <2>1 DEF PhaseInv
<1>5. SliceInv'
  BY <1>1 DEF Inv, SliceInv
<1>6. Len(output') <= Room + PhNum + 1 /\ i' \in 1 .. EntryCount + PhNum + 1
  <2>1. Room \in Nat /\ EntryCount \in Nat /\ PhNum \in Nat
    BY Counts
  <2> QED BY <1>1, <1>3, <2>1, OneOn, Zenon
<1> QED BY <1>1, <1>3, <1>4, <1>5, <1>6, Counts, Known, WorkInv DEF Running

\* The segment that is found has the size of the program header.
LEMMA FoundSegment ==
    ASSUME segments \in Seq(Region), PhdrAt \in Region, Matched
    PROVE  Found \in DOMAIN segments /\ segments[Found].size = PhdrAt.size
<1> DEFINE S == OfSize(PhdrAt.size)
<1>1. S \in SUBSET Nat /\ S # {}
  BY DEF OfSize, Matched
<1>2. \E m \in S : \A k \in S : m <= k
  BY <1>1, Least
<1>3. Found \in S
  BY <1>2, Zenon DEF Found
<1> QED BY <1>3 DEF OfSize

LEMMA PlaceSegmentInv == Inv /\ PlaceSegment => Inv'
<1> SUFFICES ASSUME Inv, PlaceSegment PROVE Inv'
  OBVIOUS
<1> DEFINE o == Append(output, PhdrCell(i))
           seg == segments[Found]
           cells == Cells(seg)
<1>1. /\ UNCHANGED <<bin, pc, last, elf>> /\ pc = "phdrs" /\ i' = i + 1
      /\ segments' = Without(segments, Found) /\ output' = Written(o, PhdrAt.off, cells)
      /\ PhdrAt.off + PhdrAt.size <= Room /\ Matched /\ MorePhdrs /\ Has(PhdrCell(i))
  BY DEF PlaceSegment, MorePhdrs
<1>2. PhNum' = PhNum
  BY <1>1 DEF PhNum
<1>3. /\ o \in Seq(0 .. bin.len) /\ Len(o) \in Nat /\ Len(o) <= Room + i + 1
      /\ i \in 1 .. PhNum /\ PhdrAt \in Region
  BY <1>1, PhdrAppended
<1> HIDE DEF o
<1>4. Found \in DOMAIN segments /\ seg.size = PhdrAt.size
  BY <1>1, <1>3, FoundSegment, Known
<1>5. seg \in Region /\ End(seg) <= bin.len
  BY <1>4, Known DEF Inv, SliceInv
<1> HIDE DEF seg
<1>6. cells \in Seq(0 .. bin.len) /\ Len(cells) = PhdrAt.size
  <2>1. seg.off \in Nat /\ seg.size \in Nat /\ bin.len \in Nat
    BY <1>5, Counts DEF Region
  <2>2. \A k \in 1 .. seg.size : seg.off + k \in 0 .. bin.len
    BY <1>5, <2>1 DEF End
  <2>3. cells \in [1 .. seg.size -> 0 .. bin.len]
    BY <2>2 DEF Cells
  <2>4. cells \in Seq(0 .. bin.len) /\ Len(cells) = seg.size
    BY <2>1, <2>3, MadeSeq
  <2> QED BY <1>4, <2>4
<1> HIDE DEF cells
<1>7. PhdrAt.off \in Nat /\ PhdrAt.size \in Nat
  BY <1>3 DEF Region
<1>8. /\ output' \in Seq(0 .. bin.len)
      /\ Len(output') = IF Len(o) < PhdrAt.off + Len(cells)
                        THEN PhdrAt.off + Len(cells) ELSE Len(o)
  <2> DEFINE S == 0 .. bin.len
             off == PhdrAt.off
  <2>1. 0 \in S
    BY Counts
  <2>2. o \in Seq(S) /\ cells \in Seq(S) /\ off \in Nat /\ output' = Written(o, off, cells)
    BY <1>1, <1>3, <1>6, <1>7, Zenon
  <2> HIDE DEF S, off
  <2>3. /\ Written(o, off, cells) \in Seq(S)
        /\ Len(Written(o, off, cells)) = IF Len(o) < off + Len(cells)
                                         THEN off + Len(cells) ELSE Len(o)
    BY <2>1, <2>2, WrittenTo, SMT
  <2> QED BY <2>2, <2>3, Zenon DEF S, off
<1>9. Len(output') \in Nat /\ Len(output') <= Room + i + 1
  <2>1. Room \in Nat /\ i \in Nat /\ PhdrAt.off + PhdrAt.size \in Nat
    BY <1>7, Counts
  <2>2. PhdrAt.off + PhdrAt.size <= Room + i + 1
    BY <1>1, <2>1
  <2> QED BY <1>3, <1>6, <1>8, <2>1, <2>2
<1>10. PhaseInv'
  <2>1. i' <= PhNum' + 1 /\ Len(output') <= Room + i'
    BY <1>1, <1>2, <1>3, <1>9, Counts
  <2> QED BY <1>1, <2>1 DEF PhaseInv
<1>11. segments' \in Seq(Region) /\ SliceInv'
  <2>1. segments' \in Seq(Region)
    BY <1>1, <1>4, RemovedOne, Known
  <2>2. \A n \in DOMAIN segments' : \E m \in DOMAIN segments : segments'[n] = segments[m]
    BY <1>1, <1>4, RemovedOne, Known
  <2>3. SliceInv'
    BY <1>1, <2>2 DEF Inv, SliceInv
  <2> QED BY <2>1, <2>3
<1>12. Len(output') <= Room + PhNum + 1 /\ i' \in 1 .. EntryCount + PhNum + 1
  <2>1. Room \in Nat /\ EntryCount \in Nat /\ PhNum \in Nat
    BY Counts
  <2> QED BY <1>1, <1>3, <1>9, <2>1, OneOn, Zenon
<1> QED BY <1>1, <1>8, <1>10, <1>11, <1>12, Counts, Known, WorkInv DEF Running

LEMMA WriteInv == Inv /\ Write => Inv'
<1> SUFFICES ASSUME Inv, Write PROVE Inv'
  OBVIOUS
<1>1. /\ UNCHANGED <<bin, i, segments, last, output>> /\ pc' \in {"done", "failed"}
      /\ elf' = output \/ elf' = elf
  BY DEF Write
<1>2. EntryCount' = EntryCount /\ PhNum' = PhNum
  BY <1>1 DEF EntryCount, PhNum
<1>3. output \in Seq(Nat)
  <2>1. 0 .. bin.len \subseteq Nat
    BY Counts
  <2> QED BY <2>1, Known, WiderSeq, Zenon
<1>4. TypeOK'
  BY <1>1, <1>2, <1>3, Known DEF Inv, TypeOK, Ended
<1>5. PhaseInv' /\ SliceInv'
  BY <1>1 DEF Inv, PhaseInv, SliceInv
<1> QED BY <1>4, <1>5 DEF Inv

LEMMA NextInv == Inv /\ [Next]_vars => Inv'
<1> SUFFICES ASSUME Inv, [Next]_vars PROVE Inv'
  OBVIOUS
<1>1. CASE Convert
  BY <1>1, ConvertInv
<1>2. CASE Header \/ PhdrsEnd \/ Truncated \/ Trap \/ Relaunch
  BY <1>2, PassInv
<1>3. CASE ReadEntry
  BY <1>3, ReadEntryInv
<1>4. CASE EntriesEnd
  BY <1>4, EntriesEndInv
<1>5. CASE ElfHeader
  BY <1>5, ElfHeaderInv
<1>6. CASE PlacePhdr
  BY <1>6, PlacePhdrInv
<1>7. CASE PlaceSegment
  BY <1>7, PlaceSegmentInv
<1>8. CASE Write
  BY <1>8, WriteInv
<1>9. CASE UNCHANGED vars
  BY <1>9 DEF vars, Inv, TypeOK, PhaseInv, SliceInv, EntryCount, PhNum
<1> QED BY <1>1, <1>2, <1>3, <1>4, <1>5, <1>6, <1>7, <1>8, <1>9 DEF Next

LEMMA Invariant == Spec => []Inv
<1>1. Init => Inv
  BY InitInv
<1>2. Inv /\ [Next]_vars => Inv'
  BY NextInv
<1> QED BY <1>1, <1>2, PTL DEF Spec

(***************************************************************************)
(* The results                                                             *)
(***************************************************************************)

\* The converter copies only what the file has: every cell of the output is one
\* of the file's or padding, and the output never grows beyond what memory has
\* room for and the program headers.
THEOREM TypeCorrect == Spec => []TypeOK
<1>1. Inv => TypeOK
  BY DEF Inv
<1> QED BY <1>1, Invariant, PTL

(***************************************************************************)
(* Counting the data, and the program headers, of a size                   *)
(***************************************************************************)
LEMMA CountFacts ==
    ASSUME NEW s, NEW n, NEW k \in Nat
    PROVE  /\ CountTo(s, n, k) \in Nat /\ CountTo(s, n, 0) = 0
           /\ CountTo(s, n, k + 1) = CountTo(s, n, k) + IF s[k + 1].size = n THEN 1 ELSE 0
<1> DEFINE S == {j \in 1 .. k : s[j].size = n}
           T == {j \in 1 .. k + 1 : s[j].size = n}
<1>1. IsFiniteSet(S)
  <2>1. IsFiniteSet(1 .. k)
    BY FS_Interval
  <2> QED BY <2>1, FS_Subset
<1>2. Cardinality(S) \in Nat
  BY <1>1, FS_CardinalityType
<1>3. CountTo(s, n, 0) = 0
  <2>1. {j \in 1 .. 0 : s[j].size = n} = {}
    OBVIOUS
  <2> QED BY <2>1, FS_EmptySet DEF CountTo
<1>4. Cardinality(T) = Cardinality(S) + IF s[k + 1].size = n THEN 1 ELSE 0
  <2>1. CASE s[k + 1].size = n
    <3>1. T = S \cup {k + 1} /\ k + 1 \notin S
      BY <2>1
    <3> QED BY <1>1, <2>1, <3>1, FS_AddElement
  <2>2. CASE s[k + 1].size # n
    <3>1. T = S
      BY <2>2
    <3> HIDE DEF S, T
    <3> QED BY <1>2, <2>2, <3>1
  <2> QED BY <2>1, <2>2
<1> QED BY <1>2, <1>3, <1>4 DEF CountTo

LEMMA CountGrows ==
    ASSUME NEW s, NEW n, NEW j \in Nat, NEW k \in Nat, j <= k
    PROVE  CountTo(s, n, j) <= CountTo(s, n, k)
<1> DEFINE S == {l \in 1 .. j : s[l].size = n}
           T == {l \in 1 .. k : s[l].size = n}
<1>1. IsFiniteSet(T)
  <2>1. IsFiniteSet(1 .. k)
    BY FS_Interval
  <2> QED BY <2>1, FS_Subset
<1>2. S \subseteq T
  OBVIOUS
<1>3. Cardinality(S) <= Cardinality(T)
  BY <1>1, <1>2, FS_Subset
<1> QED BY <1>3 DEF CountTo

\* There is one for every number below the count.
LEMMA Numbered ==
    ASSUME NEW s, NEW n, NEW m \in Nat, NEW v \in Nat, v < CountTo(s, n, m)
    PROVE  \E l \in 1 .. m : s[l].size = n /\ CountTo(s, n, l - 1) = v
<1> DEFINE S == {l \in 1 .. m : v < CountTo(s, n, l)}
<1>1. m # 0
  BY CountFacts
<1>2. m \in S /\ S \in SUBSET Nat
  BY <1>1
<1>3. PICK l \in S : \A k \in S : l <= k
  BY <1>2, Least
<1>4. l \in 1 .. m /\ v < CountTo(s, n, l) /\ l - 1 \in Nat /\ l - 1 + 1 = l
  BY <1>3
<1>5. CountTo(s, n, l - 1) <= v
  <2>1. CountTo(s, n, l - 1) \in Nat
    BY <1>4, CountFacts
  <2>2. CASE l = 1
    <3>1. CountTo(s, n, 0) = 0
      BY CountFacts
    <3> QED BY <2>2, <3>1
  <2>3. CASE l # 1
    <3>1. l - 1 \notin S /\ l - 1 \in 1 .. m
      BY <1>3, <1>4, <2>3
    <3> QED BY <2>1, <3>1
  <2> QED BY <2>2, <2>3
<1>6. CountTo(s, n, l) = CountTo(s, n, l - 1) + IF s[l].size = n THEN 1 ELSE 0
  <2>1. CountTo(s, n, l - 1 + 1)
          = CountTo(s, n, l - 1) + IF s[l - 1 + 1].size = n THEN 1 ELSE 0
    BY <1>4, CountFacts
  <2> QED BY <1>4, <2>1
<1>7. s[l].size = n /\ CountTo(s, n, l - 1) = v
  <2>1. CountTo(s, n, l - 1) \in Nat
    BY <1>4, CountFacts
  <2> QED BY <1>4, <1>5, <1>6, <2>1
<1> QED BY <1>4, <1>7

\* And not two.
LEMMA NumberedOnce ==
    ASSUME NEW s, NEW n, NEW k \in Nat \ {0}, NEW l \in Nat \ {0},
           s[k].size = n, s[l].size = n, CountTo(s, n, k - 1) = CountTo(s, n, l - 1)
    PROVE  k = l
<1>1. ASSUME NEW a \in Nat \ {0}, NEW b \in Nat \ {0}, s[a].size = n,
             CountTo(s, n, a - 1) = CountTo(s, n, b - 1)
      PROVE  ~(a < b)
  <2>1. a - 1 \in Nat /\ b - 1 \in Nat /\ a - 1 + 1 = a
    OBVIOUS
  <2>2. CountTo(s, n, a) = CountTo(s, n, a - 1) + 1 /\ CountTo(s, n, a - 1) \in Nat
    <3>1. /\ CountTo(s, n, a - 1) \in Nat
          /\ CountTo(s, n, a - 1 + 1)
               = CountTo(s, n, a - 1) + IF s[a - 1 + 1].size = n THEN 1 ELSE 0
      BY <2>1, CountFacts
    <3> QED BY <1>1, <2>1, <3>1
  <2>3. a < b => CountTo(s, n, a) <= CountTo(s, n, b - 1)
    BY <2>1, CountGrows
  <2> QED BY <1>1, <2>2, <2>3
<1> QED BY <1>1

(***************************************************************************)
(* The segments that are left                                              *)
(***************************************************************************)
Part(e) == [off |-> e.off, size |-> e.size]
\* Of the data of a size, as much is gone as program headers of that size have
\* been read.
Left(j) == {k \in DOMAIN AllData :
               LET n == AllData[k].size
               IN  n > 0 => CountTo(AllData, n, k - 1) >= CountTo(bin.phdrs, n, j - 1)}
\* The segments are the data that is left, in its order.
Enumerates(from, segs, j) ==
    /\ from \in [1 .. Len(segs) -> DOMAIN AllData]
    /\ \A a, b \in 1 .. Len(segs) : a < b => from[a] < from[b]
    /\ \A k \in Left(j) : \E a \in 1 .. Len(segs) : from[a] = k
    /\ \A a \in 1 .. Len(segs) : from[a] \in Left(j) /\ segs[a] = Part(AllData[from[a]])

DataInv ==
    /\ pc = "header" => segments = <<>> /\ last = 0
    /\ pc = "entries" => /\ Len(segments) = i - 1
                         /\ \A k \in 1 .. i - 1 : segments[k] = Part(bin.entries[k])
                         /\ last = IF i = 1 THEN 0 ELSE End(bin.entries[i - 1])
    /\ pc \in {"elf", "phdrs"} => \E from : Enumerates(from, segments, i)

\* An entry that has a program header of its size.
Owned(k) == LET e == bin.entries[k]
            IN  e.seg \in 1 .. PhNum /\ e.size > 0 /\ bin.phdrs[e.seg].size = e.size
\* The data of this entry is where its program header says.
InPlace(o, k) == LET e == bin.entries[k]
                     p == bin.phdrs[e.seg]
                 IN  /\ End(p) <= Len(o)
                     /\ \A x \in 1 .. e.size : o[p.off + x] = e.off + x
PlacedInv ==
    /\ pc \in {"phdrs", "write"} /\ ToldApart /\ Layout =>
          \A k \in 1 .. EntryCount : Owned(k) /\ bin.entries[k].seg < i => InPlace(output, k)
    /\ pc = "write" => i > PhNum

LEMMA DataFacts ==
    ASSUME NEW b \in Selfs, bin = b
    PROVE  /\ AllData \in Seq(Entry)
           /\ Len(AllData) \in Nat /\ DOMAIN AllData = 1 .. Len(AllData)
           /\ EntryCount \in Nat /\ EntryCount <= Len(AllData)
           /\ \A k \in 1 .. EntryCount : AllData[k] = bin.entries[k]
           /\ \A k \in DOMAIN AllData : k > EntryCount => AllData[k].seg = 0
           /\ \A k \in DOMAIN AllData : AllData[k].off \in Nat /\ AllData[k].size \in Nat
           /\ LET end == IF EntryCount = 0 THEN 0 ELSE End(bin.entries[EntryCount])
                  rest == IF bin.len > end THEN 1 ELSE 0
              IN  /\ Len(AllData) = EntryCount + rest
                  /\ rest = 1 => AllData[EntryCount + 1]
                                   = [off |-> end, size |-> bin.len - end, seg |-> 0]
<1> DEFINE end == IF EntryCount = 0 THEN 0 ELSE End(bin.entries[EntryCount])
           s == [k \in 1 .. EntryCount |-> bin.entries[k]]
           v == [off |-> end, size |-> bin.len - end, seg |-> 0]
           t == IF bin.len > end THEN <<v>> ELSE <<>>
<1>1. /\ bin.entries \in Seq(Entry) /\ EntryCount = Len(bin.entries) /\ EntryCount \in Nat
      /\ bin.len \in Nat
  BY Parts DEF EntryCount
<1>2. s \in Seq(Entry) /\ Len(s) = EntryCount /\ \A k \in 1 .. EntryCount : s[k] = bin.entries[k]
  <2>1. ASSUME NEW k \in 1 .. EntryCount PROVE bin.entries[k] \in Entry
    BY <1>1, <2>1
  <2>2. s \in [1 .. EntryCount -> Entry]
    BY <2>1
  <2>3. \A k \in 1 .. EntryCount : s[k] = bin.entries[k]
    OBVIOUS
  <2> HIDE DEF s
  <2> QED BY <1>1, <2>2, <2>3, MadeSeq
<1>3. end \in Nat
  <2>1. CASE EntryCount # 0
    <3>1. bin.entries[EntryCount] \in Entry
      BY <1>1, <2>1
    <3> QED BY <2>1, <3>1 DEF Entry, End
  <2> QED BY <2>1
<1>4. /\ t \in Seq(Entry) /\ Len(t) = IF bin.len > end THEN 1 ELSE 0
      /\ bin.len > end => t[1] = v
  <2>1. CASE bin.len > end
    <3>1. v \in Entry
      BY <1>1, <1>3, <2>1 DEF Entry
    <3>2. t = <<v>>
      BY <2>1
    <3> HIDE DEF v, end, t
    <3> QED BY <2>1, <3>1, <3>2
  <2>2. CASE ~(bin.len > end)
    <3>1. t = <<>>
      BY <2>2
    <3> HIDE DEF v, end, t
    <3> QED BY <2>2, <3>1
  <2> QED BY <2>1, <2>2
<1>5. AllData = s \o t
  BY DEF AllData
<1> HIDE DEF s, t, v, end
<1>6. /\ AllData \in Seq(Entry) /\ Len(AllData) = EntryCount + IF bin.len > end THEN 1 ELSE 0
      /\ \A k \in 1 .. EntryCount : AllData[k] = bin.entries[k]
      /\ bin.len > end => AllData[EntryCount + 1] = v
  <2>1. Len(s) \in Nat /\ Len(t) \in Nat
    BY <1>2, <1>4
  <2>2. /\ s \o t \in Seq(Entry) /\ Len(s \o t) = Len(s) + Len(t)
        /\ \A k \in 1 .. Len(s) + Len(t) :
              (s \o t)[k] = IF k <= Len(s) THEN s[k] ELSE t[k - Len(s)]
    <3>1. s \in Seq(Entry) /\ t \in Seq(Entry)
      BY <1>2, <1>4
    <3> QED BY <3>1, Joined, Zenon
  <2>3. \A k \in 1 .. EntryCount : AllData[k] = bin.entries[k]
    <3>1. ASSUME NEW k \in 1 .. EntryCount PROVE AllData[k] = bin.entries[k]
      <4>1. k \in 1 .. Len(s) + Len(t) /\ k <= Len(s)
        BY <1>1, <1>2, <2>1
      <4> QED BY <1>2, <1>5, <2>2, <4>1
    <3> QED BY <3>1
  <2>4. ASSUME bin.len > end PROVE AllData[EntryCount + 1] = v
    <3>1. Len(t) = 1 /\ t[1] = v
      BY <1>4, <2>4
    <3>2. Len(s) + 1 \in 1 .. Len(s) + Len(t) /\ ~(Len(s) + 1 <= Len(s))
          /\ Len(s) + 1 - Len(s) = 1
      BY <2>1, <3>1
    <3> QED BY <1>2, <1>5, <2>2, <3>1, <3>2
  <2> QED BY <1>2, <1>4, <1>5, <2>2, <2>3, <2>4
<1>7. /\ Len(AllData) \in Nat /\ DOMAIN AllData = 1 .. Len(AllData)
      /\ EntryCount <= Len(AllData)
  <2>1. Len(AllData) \in Nat /\ DOMAIN AllData = 1 .. Len(AllData)
    BY <1>6
  <2> DEFINE rest == IF bin.len > end THEN 1 ELSE 0
  <2>2. Len(AllData) = EntryCount + rest
    BY <1>6
  <2>3. rest \in Nat /\ EntryCount \in Nat
    BY <1>1
  <2> HIDE DEF rest
  <2>4. EntryCount <= EntryCount + rest
    BY <2>3
  <2> QED BY <2>1, <2>2, <2>4, Zenon
<1>8. ASSUME NEW k \in DOMAIN AllData
      PROVE  /\ AllData[k].off \in Nat /\ AllData[k].size \in Nat
             /\ k > EntryCount => AllData[k].seg = 0
  <2>1. AllData[k] \in Entry
    BY <1>6, <1>8
  <2>2. k > EntryCount => AllData[k] = v
    <3>1. ASSUME k > EntryCount PROVE bin.len > end /\ k = EntryCount + 1
      <4>1. k \in Nat /\ k <= Len(AllData) /\ EntryCount \in Nat
        BY <1>1, <1>7
      <4>2. Len(AllData) = EntryCount + IF bin.len > end THEN 1 ELSE 0
        BY <1>6
      <4> QED BY <3>1, <4>1, <4>2
    <3> QED BY <1>6, <3>1
  <2> QED BY <2>1, <2>2 DEF Entry, v
<1>9. LET rest == IF bin.len > end THEN 1 ELSE 0
      IN  /\ Len(AllData) = EntryCount + rest
          /\ rest = 1 => AllData[EntryCount + 1] = v
  BY <1>6
<1>10. /\ \A k \in DOMAIN AllData : k > EntryCount => AllData[k].seg = 0
       /\ \A k \in DOMAIN AllData : AllData[k].off \in Nat /\ AllData[k].size \in Nat
  BY <1>8
<1> QED BY <1>1, <1>6, <1>7, <1>9, <1>10, Zenon DEF v, end

LEMMA SameData ==
    ASSUME bin' = bin
    PROVE  /\ AllData' = AllData /\ EntryCount' = EntryCount /\ PhNum' = PhNum
           /\ \A f : (Enumerates(f, segments, i))' <=> Enumerates(f, segments', i')
           /\ ToldApart' <=> ToldApart
           /\ Layout' <=> Layout
           /\ \A k : Owned(k)' <=> Owned(k)
           /\ \A k : InPlace(output, k)' <=> InPlace(output', k)
<1>1. AllData' = AllData /\ EntryCount' = EntryCount /\ PhNum' = PhNum
  BY DEF AllData, EntryCount, PhNum, End
<1>2. ASSUME NEW f PROVE (Enumerates(f, segments, i))' <=> Enumerates(f, segments', i')
  BY <1>1 DEF Enumerates, Left
<1>3. ToldApart' <=> ToldApart
  BY <1>1 DEF ToldApart
<1>4. Layout' <=> Layout
  BY <1>1 DEF Layout
<1>5. ASSUME NEW k PROVE Owned(k)' <=> Owned(k)
  BY <1>1 DEF Owned
<1>6. ASSUME NEW k PROVE InPlace(output, k)' <=> InPlace(output', k)
  BY DEF InPlace
<1> QED BY <1>1, <1>2, <1>3, <1>4, <1>5, <1>6

\* Before the first program header, all of the data is left.
LEMMA AllLeft ==
    ASSUME NEW b \in Selfs, bin = b
    PROVE  Left(1) = DOMAIN AllData
<1>1. ASSUME NEW k \in DOMAIN AllData
      PROVE  CountTo(AllData, AllData[k].size, k - 1)
               >= CountTo(bin.phdrs, AllData[k].size, 1 - 1)
  <2>1. k - 1 \in Nat
    <3>1. Len(AllData) \in Nat /\ DOMAIN AllData = 1 .. Len(AllData)
      BY DataFacts
    <3> QED BY <1>1, <3>1
  <2>2. CountTo(AllData, AllData[k].size, k - 1) \in Nat
    BY <2>1, CountFacts
  <2>3. CountTo(bin.phdrs, AllData[k].size, 0) = 0 /\ 1 - 1 = 0
    BY CountFacts
  <2> QED BY <2>2, <2>3
<1> QED BY <1>1 DEF Left

\* Reading the entries collects the data; nothing of it is gone then.
LEMMA ReadEntryData == Inv /\ DataInv /\ ReadEntry => DataInv'
<1> SUFFICES ASSUME Inv, DataInv, ReadEntry PROVE DataInv'
  OBVIOUS
<1> DEFINE s == Part(bin.entries[i])
<1>1. /\ pc = "entries" /\ pc' = "entries" /\ bin' = bin /\ i' = i + 1
      /\ last' = End(bin.entries[i]) /\ segments' = Append(segments, s)
  BY DEF ReadEntry, MoreEntries, EntryEnd, EntryAt, End, Part
<1>2. /\ Len(segments) = i - 1
      /\ \A k \in 1 .. i - 1 : segments[k] = Part(bin.entries[k])
  BY <1>1 DEF DataInv
<1>3. i \in Nat /\ i >= 1 /\ segments \in Seq(Region)
  BY Counts, Known
<1> HIDE DEF s
<1>4. /\ Len(segments') = Len(segments) + 1 /\ segments'[Len(segments) + 1] = s
      /\ \A k \in 1 .. Len(segments) : segments'[k] = segments[k]
  BY <1>1, <1>3
<1>5. ASSUME NEW k \in 1 .. i PROVE segments'[k] = Part(bin.entries[k])
  <2>1. CASE k = i
    <3>1. Len(segments) + 1 = i
      BY <1>2, <1>3
    <3> QED BY <1>4, <2>1, <3>1 DEF s
  <2>2. CASE k # i
    <3>1. k \in 1 .. i - 1
      BY <1>3, <2>2
    <3> QED BY <1>2, <1>4, <3>1
  <2> QED BY <2>1, <2>2
<1>6. Len(segments') = i' - 1 /\ i' - 1 = i /\ i' # 1
  BY <1>1, <1>2, <1>3, <1>4
<1> QED BY <1>1, <1>5, <1>6 DEF DataInv

LEMMA EntriesEndData == Inv /\ DataInv /\ EntriesEnd => DataInv'
<1> SUFFICES ASSUME Inv, DataInv, EntriesEnd PROVE DataInv'
  OBVIOUS
<1> DEFINE end == IF EntryCount = 0 THEN 0 ELSE End(bin.entries[EntryCount])
           m == Len(AllData)
<1>1. /\ pc = "entries" /\ pc' = "elf" /\ bin' = bin /\ i' = 1 /\ i > EntryCount
      /\ segments' = segments \o Version
  BY DEF EntriesEnd
<1>2. i = EntryCount + 1 /\ EntryCount \in Nat /\ EntryCount = i - 1
  <2>1. i <= EntryCount + 1
    BY <1>1 DEF Inv, PhaseInv
  <2> QED BY <1>1, <2>1, Counts
<1>3. /\ Len(segments) = EntryCount /\ last = end
      /\ \A k \in 1 .. EntryCount : segments[k] = Part(bin.entries[k])
  <2>1. i = 1 <=> EntryCount = 0
    BY <1>2
  <2> QED BY <1>1, <1>2, <2>1 DEF DataInv
<1>4. bin \in Selfs
  BY Known
<1>5. /\ m \in Nat /\ DOMAIN AllData = 1 .. m
      /\ \A k \in 1 .. EntryCount : AllData[k] = bin.entries[k]
      /\ m = EntryCount + (IF bin.len > end THEN 1 ELSE 0)
      /\ bin.len > end
            => AllData[EntryCount + 1] = [off |-> end, size |-> bin.len - end, seg |-> 0]
  <2>1. /\ LET rest == IF bin.len > end THEN 1 ELSE 0
           IN  /\ m = EntryCount + rest
               /\ rest = 1 => AllData[EntryCount + 1]
                                   = [off |-> end, size |-> bin.len - end, seg |-> 0]
    BY <1>4, DataFacts, Zenon
  <2>2. /\ m \in Nat /\ DOMAIN AllData = 1 .. m
        /\ \A k \in 1 .. EntryCount : AllData[k] = bin.entries[k]
    BY <1>4, DataFacts, Zenon
  <2> HIDE DEF m, end
  <2> QED BY <2>1, <2>2
<1>6. /\ Len(Version) = IF bin.len > end THEN 1 ELSE 0
      /\ Version \in Seq(Region)
      /\ bin.len > end => Version[1] = [off |-> end, size |-> bin.len - end]
  <2> DEFINE v == [off |-> end, size |-> bin.len - end]
  <2>1. CASE bin.len > end
    <3>1. end \in Nat /\ bin.len \in Nat
      BY <1>3, Counts
    <3>2. v \in Region
      BY <2>1, <3>1 DEF Region
    <3>3. Version = <<v>>
      BY <1>3, <2>1 DEF Version
    <3> HIDE DEF v, end
    <3>4. Len(Version) = 1 /\ Version \in Seq(Region) /\ Version[1] = v
      BY <3>2, <3>3
    <3> QED BY <2>1, <3>4, Zenon DEF v
  <2>2. CASE ~(bin.len > end)
    <3>1. Version = <<>>
      BY <1>3, <2>2 DEF Version
    <3> HIDE DEF v, end
    <3> QED BY <2>2, <3>1
  <2> QED BY <2>1, <2>2
<1>7. /\ Len(segments') = m
      /\ \A a \in 1 .. m : segments'[a] = IF a <= EntryCount THEN segments[a]
                                          ELSE Version[a - EntryCount]
  <2>1. /\ Len(segments') = Len(segments) + Len(Version)
        /\ \A a \in 1 .. Len(segments) + Len(Version) :
              segments'[a] = IF a <= Len(segments) THEN segments[a]
                             ELSE Version[a - Len(segments)]
    <3>1. segments \in Seq(Region) /\ Version \in Seq(Region)
      BY <1>6, Known, Zenon
    <3> QED BY <1>1, <3>1, Joined, Zenon
  <2>2. m = Len(segments) + Len(Version)
    BY <1>3, <1>5, <1>6
  <2> HIDE DEF m
  <2> QED BY <1>3, <2>1, <2>2
<1> HIDE DEF m, end
<1>8. ASSUME NEW a \in 1 .. m PROVE segments'[a] = Part(AllData[a])
  <2>1. CASE a <= EntryCount
    <3>1. a \in 1 .. EntryCount
      BY <1>2, <1>5, <2>1
    <3> QED BY <1>3, <1>5, <1>7, <2>1, <3>1
  <2>2. CASE ~(a <= EntryCount)
    <3>1. bin.len > end /\ a = EntryCount + 1 /\ a - EntryCount = 1
      BY <1>2, <1>5, <1>8, <2>2
    <3> QED BY <1>5, <1>6, <1>7, <2>2, <3>1 DEF Part
  <2> QED BY <2>1, <2>2
<1> DEFINE from == [a \in 1 .. m |-> a]
<1>9. Enumerates(from, segments', 1)
  <2>1. Left(1) = 1 .. m
    BY <1>4, <1>5, AllLeft
  <2>2. \A a \in 1 .. m : from[a] = a
    OBVIOUS
  <2>3. from \in [1 .. m -> 1 .. m]
    OBVIOUS
  <2> HIDE DEF from
  <2> QED BY <1>5, <1>7, <1>8, <2>1, <2>2, <2>3 DEF Enumerates
<1>10. \E f : (Enumerates(f, segments, i))'
  BY <1>1, <1>9, SameData
<1> QED BY <1>1, <1>10 DEF DataInv

(***************************************************************************)
(* What is left after a program header                                     *)
(***************************************************************************)
LEMMA LeftFacts ==
    ASSUME NEW b \in Selfs, bin = b, NEW j \in Nat \ {0}, NEW k \in DOMAIN AllData
    PROVE  /\ k \in Nat \ {0} /\ k - 1 \in Nat /\ j - 1 \in Nat
           /\ AllData[k].size \in Nat
           /\ LET n == AllData[k].size
              IN  /\ CountTo(AllData, n, k - 1) \in Nat
                  /\ CountTo(bin.phdrs, n, j - 1) \in Nat
                  /\ CountTo(bin.phdrs, n, j) = CountTo(bin.phdrs, n, j - 1)
                                                + IF bin.phdrs[j].size = n THEN 1 ELSE 0
<1>1. Len(AllData) \in Nat /\ DOMAIN AllData = 1 .. Len(AllData) /\ AllData[k].size \in Nat
  BY DataFacts
<1>2. k \in Nat \ {0} /\ k - 1 \in Nat /\ j - 1 \in Nat /\ j - 1 + 1 = j
  BY <1>1
<1> DEFINE n == AllData[k].size
<1>3. CountTo(AllData, n, k - 1) \in Nat
  BY <1>2, CountFacts
<1>4. /\ CountTo(bin.phdrs, n, j - 1) \in Nat
      /\ CountTo(bin.phdrs, n, j - 1 + 1) = CountTo(bin.phdrs, n, j - 1)
                                            + IF bin.phdrs[j - 1 + 1].size = n THEN 1 ELSE 0
  BY <1>2, CountFacts
<1>5. CountTo(bin.phdrs, n, j) = CountTo(bin.phdrs, n, j - 1)
                                 + IF bin.phdrs[j].size = n THEN 1 ELSE 0
  BY <1>2, <1>4
<1> HIDE DEF n
<1> QED BY <1>1, <1>2, <1>3, <1>4, <1>5, Zenon DEF n

\* What is left after a program header was left before it.
LEMMA LeftShrinks ==
    ASSUME NEW b \in Selfs, bin = b, NEW j \in Nat \ {0}
    PROVE  /\ Left(j + 1) \subseteq Left(j)
           /\ \A k \in Left(j) :
                 AllData[k].size # bin.phdrs[j].size \/ AllData[k].size = 0 => k \in Left(j + 1)
<1>0. j + 1 - 1 = j
  OBVIOUS
<1>1. ASSUME NEW k \in Left(j + 1) PROVE k \in Left(j)
  <2> DEFINE n == AllData[k].size
             p == CountTo(bin.phdrs, n, j - 1)
             q == CountTo(bin.phdrs, n, j)
             c == CountTo(AllData, n, k - 1)
  <2>1. k \in DOMAIN AllData /\ (n > 0 => c >= q)
    BY <1>0, <1>1 DEF Left
  <2>2. c \in Nat /\ p \in Nat /\ q = p + IF bin.phdrs[j].size = n THEN 1 ELSE 0
    BY <2>1, LeftFacts
  <2>3. n > 0 => c >= p
    <3> HIDE DEF p, q, c, n
    <3> QED BY <2>1, <2>2
  <2> QED BY <2>1, <2>3 DEF Left
<1>2. ASSUME NEW k \in Left(j),
             AllData[k].size # bin.phdrs[j].size \/ AllData[k].size = 0
      PROVE  k \in Left(j + 1)
  <2> DEFINE n == AllData[k].size
             p == CountTo(bin.phdrs, n, j - 1)
             q == CountTo(bin.phdrs, n, j)
             c == CountTo(AllData, n, k - 1)
  <2>1. k \in DOMAIN AllData /\ (n > 0 => c >= p)
    BY <1>2 DEF Left
  <2>2. c \in Nat /\ p \in Nat /\ q = p + IF bin.phdrs[j].size = n THEN 1 ELSE 0
    BY <2>1, LeftFacts
  <2>3. n > 0 => c >= q
    <3>1. n > 0 => n # 0
      OBVIOUS
    <3>2. bin.phdrs[j].size # n \/ n = 0
      BY <1>2
    <3> HIDE DEF p, q, c, n
    <3> QED BY <2>1, <2>2, <3>1, <3>2
  <2> QED BY <1>0, <2>1, <2>3 DEF Left
<1> QED BY <1>1, <1>2

\* The entry of a program header is left until that one is read.
LEMMA NotGone ==
    ASSUME NEW b \in Selfs, bin = b, ToldApart, NEW k \in 1 .. EntryCount, Owned(k)
    PROVE  k \in Left(bin.entries[k].seg)
<1> DEFINE e == bin.entries[k]
           n == e.size
           j == e.seg
           c == CountTo(AllData, n, k - 1)
           q == CountTo(bin.phdrs, n, j - 1)
<1>1. /\ EntryCount \in Nat /\ EntryCount <= Len(AllData) /\ Len(AllData) \in Nat
      /\ DOMAIN AllData = 1 .. Len(AllData) /\ AllData[k] = e
  BY DataFacts
<1>2. k \in DOMAIN AllData
  BY <1>1
<1>3. j \in 1 .. PhNum /\ n > 0 /\ PhNum \in Nat
  <2>1. bin.phdrs \in Seq(Region)
    BY Parts
  <2>2. PhNum \in Nat
    BY <2>1 DEF PhNum
  <2> QED BY <2>2 DEF Owned
<1>4. j \in Nat \ {0} /\ k \in Nat \ {0} /\ k - 1 \in Nat /\ j - 1 \in Nat
  <2>1. EntryCount \in Nat /\ k \in 1 .. EntryCount
    BY <1>1
  <2> HIDE DEF j
  <2> QED BY <1>3, <2>1
<1>5. c \in Nat /\ q \in Nat
  BY <1>4, CountFacts
<1>6. ASSUME c < q PROVE FALSE
  <2>1. PICK l \in 1 .. j - 1 : bin.phdrs[l].size = n /\ CountTo(bin.phdrs, n, l - 1) = c
    <3>1. j - 1 \in Nat /\ c \in Nat /\ c < CountTo(bin.phdrs, n, j - 1)
      BY <1>4, <1>5, <1>6, Zenon DEF q
    <3> HIDE DEF e, j, n, c, q
    <3>2. \E l \in 1 .. j - 1 : bin.phdrs[l].size = n /\ CountTo(bin.phdrs, n, l - 1) = c
      BY <3>1, Numbered, SMT
    <3> QED BY <3>2, Zenon
  <2>2. l \in 1 .. PhNum /\ l # j
    BY <1>3, <1>4
  <2>3. AllData[k].size = n /\ AllData[k].seg = j
    BY <1>1
  <2>4. AllData[k].seg = l
    BY <1>2, <1>3, <2>1, <2>2, <2>3 DEF ToldApart
  <2> QED BY <2>2, <2>3, <2>4
<1>7. c >= q
  <2> HIDE DEF c, q
  <2> QED BY <1>5, <1>6
<1> QED BY <1>1, <1>2, <1>7 DEF Left

(***************************************************************************)
(* What the program headers place                                          *)
(***************************************************************************)
\* What the buffer has of an entry stays when it grows at the end, and when the
\* segment of another program header is written.
LEMMA StaysOnAppend ==
    ASSUME NEW S, NEW o \in Seq(S), NEW c \in S, NEW k, InPlace(o, k),
           bin.phdrs[bin.entries[k].seg] \in Region, bin.entries[k].size \in Nat,
           bin.phdrs[bin.entries[k].seg].size = bin.entries[k].size
    PROVE  InPlace(Append(o, c), k)
<1> DEFINE e == bin.entries[k]
           p == bin.phdrs[e.seg]
           w == Append(o, c)
<1>1. /\ End(p) <= Len(o) /\ \A x \in 1 .. e.size : o[p.off + x] = e.off + x
  BY DEF InPlace
<1>2. p.off \in Nat /\ e.size \in Nat /\ End(p) = p.off + e.size
  BY DEF Region, End
<1>3. Len(o) \in Nat /\ Len(w) = Len(o) + 1 /\ \A x \in 1 .. Len(o) : w[x] = o[x]
  OBVIOUS
<1> HIDE DEF w, e, p
<1>4. ASSUME NEW x \in 1 .. e.size PROVE w[p.off + x] = e.off + x
  <2>1. p.off + x \in 1 .. Len(o)
    BY <1>1, <1>2, <1>3
  <2> QED BY <1>1, <1>3, <2>1
<1>5. End(p) <= Len(w)
  BY <1>1, <1>2, <1>3
<1> QED BY <1>4, <1>5 DEF InPlace, w, e, p

LEMMA StaysOnWrite ==
    ASSUME NEW o, NEW w, NEW off \in Nat, NEW n \in Nat, SameBut(o, w, off, n),
           Len(o) \in Nat, Len(w) \in Nat, Len(o) <= Len(w), NEW k, InPlace(o, k),
           bin.phdrs[bin.entries[k].seg] \in Region, bin.entries[k].size \in Nat,
           bin.phdrs[bin.entries[k].seg].size = bin.entries[k].size,
           n > 0, bin.entries[k].size > 0,
           Disjoint(bin.phdrs[bin.entries[k].seg], [off |-> off, size |-> n])
    PROVE  InPlace(w, k)
<1> DEFINE e == bin.entries[k]
           p == bin.phdrs[e.seg]
<1>1. /\ End(p) <= Len(o) /\ \A x \in 1 .. e.size : o[p.off + x] = e.off + x
  BY DEF InPlace
<1>2. p.off \in Nat /\ e.size \in Nat /\ End(p) = p.off + e.size
  BY DEF Region, End
<1>3. End(p) <= off \/ off + n <= p.off
  BY DEF Disjoint, End
<1> HIDE DEF e, p
<1>4. ASSUME NEW x \in 1 .. e.size PROVE w[p.off + x] = e.off + x
  <2>1. p.off + x \in 1 .. Len(o) /\ p.off + x \notin off + 1 .. off + n
    BY <1>1, <1>2, <1>3
  <2> QED BY <1>1, <2>1 DEF SameBut
<1>5. End(p) <= Len(w)
  BY <1>1, <1>2
<1> QED BY <1>4, <1>5 DEF InPlace, e, p

\* An entry with a program header, and that header.
LEMMA OwnedFacts ==
    ASSUME Inv, NEW k \in 1 .. EntryCount, Owned(k)
    PROVE  /\ bin.entries[k] \in Entry /\ bin.entries[k].seg \in 1 .. PhNum
           /\ bin.entries[k].seg \in Nat
           /\ bin.entries[k].size \in Nat /\ bin.entries[k].size > 0
           /\ bin.entries[k].off \in Nat
           /\ bin.phdrs[bin.entries[k].seg] \in Region
           /\ bin.phdrs[bin.entries[k].seg].size = bin.entries[k].size
<1>1. /\ bin.entries \in Seq(Entry) /\ bin.phdrs \in Seq(Region)
      /\ EntryCount = Len(bin.entries) /\ PhNum = Len(bin.phdrs)
  BY Known, Parts
<1>2. bin.entries[k] \in Entry
  BY <1>1
<1>3. /\ bin.entries[k].seg \in 1 .. PhNum /\ bin.entries[k].size > 0
      /\ bin.phdrs[bin.entries[k].seg].size = bin.entries[k].size
  BY DEF Owned
<1>4. bin.phdrs[bin.entries[k].seg] \in Region
  BY <1>1, <1>3
<1> QED BY <1>2, <1>3, <1>4 DEF Entry

\* A program header without a segment of its size leaves all there is, and no
\* entry was made for it.
LEMMA PlacePhdrData == Inv /\ DataInv /\ PlacedInv /\ PlacePhdr => DataInv' /\ PlacedInv'
<1> SUFFICES ASSUME Inv, DataInv, PlacedInv, PlacePhdr PROVE DataInv' /\ PlacedInv'
  OBVIOUS
<1>1. /\ UNCHANGED <<bin, pc, segments>> /\ pc = "phdrs" /\ i' = i + 1 /\ ~Matched
      /\ output' = Append(output, PhdrCell(i)) /\ MorePhdrs /\ Has(PhdrCell(i))
  BY DEF PlacePhdr, MorePhdrs
<1>2. bin \in Selfs /\ i \in Nat \ {0} /\ segments \in Seq(Region)
  BY Known, Counts
<1>3. PICK from : Enumerates(from, segments, i)
  BY <1>1 DEF DataInv
<1>4. ASSUME NEW k \in Left(i), AllData[k].size = PhdrAt.size, PhdrAt.size > 0 PROVE FALSE
  <2>1. PICK a \in 1 .. Len(segments) : from[a] = k
    BY <1>3 DEF Enumerates
  <2>2. segments[a] = Part(AllData[k])
    BY <1>3, <2>1 DEF Enumerates
  <2>3. segments[a].size = PhdrAt.size
    BY <1>4, <2>2 DEF Part
  <2>4. a \in DOMAIN segments
    BY <1>2
  <2> QED BY <1>1, <1>4, <2>3, <2>4 DEF Matched, OfSize
<1>5. Left(i + 1) = Left(i)
  <2>1. ASSUME NEW k \in Left(i) PROVE k \in Left(i + 1)
    <3>1. k \in DOMAIN AllData
      BY DEF Left
    <3>2. AllData[k].size \in Nat
      BY <1>2, <3>1, DataFacts
    <3>3. AllData[k].size # PhdrAt.size \/ AllData[k].size = 0
      BY <1>4, <3>2
    <3> QED BY <1>2, <3>3, LeftShrinks DEF PhdrAt
  <2> QED BY <1>2, <2>1, LeftShrinks
<1>6. Enumerates(from, segments', i')
  BY <1>1, <1>3, <1>5 DEF Enumerates
<1>7. DataInv'
  <2>1. \E f : (Enumerates(f, segments, i))'
    BY <1>1, <1>6, SameData
  <2> QED BY <1>1, <2>1 DEF DataInv
<1>8. ASSUME ToldApart, Layout, NEW k \in 1 .. EntryCount, Owned(k), bin.entries[k].seg < i'
      PROVE  InPlace(output', k)
  <2>1. bin.entries[k].seg < i
    <3>1. ASSUME bin.entries[k].seg = i PROVE FALSE
      <4>1. k \in Left(i)
        BY <1>2, <1>8, <3>1, NotGone
      <4>2. AllData[k] = bin.entries[k]
        BY <1>2, DataFacts
      <4>3. bin.entries[k].size = PhdrAt.size /\ PhdrAt.size > 0
        BY <1>8, <3>1 DEF Owned, PhdrAt
      <4> QED BY <1>4, <4>1, <4>2, <4>3
    <3>2. bin.entries[k].seg \in Nat
      BY <1>8, OwnedFacts
    <3> QED BY <1>1, <1>2, <1>8, <3>1, <3>2
  <2>2. InPlace(output, k)
    BY <1>1, <1>8, <2>1 DEF PlacedInv
  <2>3. output \in Seq(0 .. bin.len) /\ PhdrCell(i) \in 0 .. bin.len
    <3>1. PhdrCell(i) \in Nat
      BY Counts DEF PhdrCell, EhdrCell, EntryCell
    <3> QED BY <1>1, <3>1, Known, Counts DEF Has
  <2> QED BY <1>1, <1>8, <2>2, <2>3, OwnedFacts, StaysOnAppend
<1>9. PlacedInv'
  BY <1>1, <1>8, SameData DEF PlacedInv
<1> QED BY <1>7, <1>9

\* Of the data of the program header's size that is left, the one that is taken
\* comes first: no more of it is gone than program headers were read.
LEMMA TakenIsFirst ==
    ASSUME Inv, pc = "phdrs", MorePhdrs, Matched, PhdrAt \in Region,
           NEW from, Enumerates(from, segments, i)
    PROVE  /\ Found \in 1 .. Len(segments) /\ Len(segments) \in Nat /\ PhdrAt.size > 0
           /\ from[Found] \in Left(i)
           /\ segments[Found] = Part(AllData[from[Found]])
           /\ AllData[from[Found]].size = PhdrAt.size
           /\ CountTo(AllData, PhdrAt.size, from[Found] - 1)
                = CountTo(bin.phdrs, PhdrAt.size, i - 1)
<1> DEFINE n == PhdrAt.size
           d == from[Found]
           c == CountTo(AllData, n, d - 1)
           q == CountTo(bin.phdrs, n, i - 1)
<1>1. bin \in Selfs /\ i \in Nat \ {0} /\ segments \in Seq(Region)
  BY Known, Counts
<1>2. Len(segments) \in Nat /\ Found \in 1 .. Len(segments) /\ segments[Found].size = n
  BY <1>1, FoundSegment
<1>3. d \in Left(i) /\ segments[Found] = Part(AllData[d])
  BY <1>2 DEF Enumerates
<1>4. AllData[d].size = n /\ n > 0
  BY <1>2, <1>3 DEF Part, Matched
<1>5. d \in DOMAIN AllData
  BY <1>3 DEF Left
<1>6. d \in Nat \ {0} /\ d - 1 \in Nat /\ i - 1 \in Nat /\ c \in Nat /\ q \in Nat
  BY <1>1, <1>4, <1>5, LeftFacts
<1>7. c >= q
  BY <1>3, <1>4 DEF Left
<1>8. ASSUME q < c PROVE FALSE
  <2>1. PICK l \in 1 .. d - 1 : AllData[l].size = n /\ CountTo(AllData, n, l - 1) = q
    <3> HIDE DEF d, n, q, c
    <3>1. q < CountTo(AllData, n, d - 1)
      BY <1>8 DEF c
    <3> QED BY <1>6, <3>1, Numbered
  <2>2. l \in DOMAIN AllData /\ l < d
    <3>1. DOMAIN AllData = 1 .. Len(AllData) /\ Len(AllData) \in Nat
      BY <1>1, DataFacts
    <3> HIDE DEF d
    <3>2. d <= Len(AllData)
      BY <1>5, <1>6, <3>1
    <3> QED BY <1>6, <3>1, <3>2
  <2>3. l \in Left(i)
    <3> HIDE DEF n
    <3>1. CountTo(AllData, n, l - 1) = CountTo(bin.phdrs, n, i - 1)
      BY <2>1, Zenon DEF q
    <3>2. CountTo(bin.phdrs, n, i - 1) \in Nat
      BY <1>6, Zenon DEF q
    <3>3. CountTo(AllData, n, l - 1) >= CountTo(bin.phdrs, n, i - 1)
      BY <3>1, <3>2
    <3>4. CountTo(AllData, AllData[l].size, l - 1)
            >= CountTo(bin.phdrs, AllData[l].size, i - 1)
      BY <2>1, <3>3, Zenon
    <3> QED BY <2>2, <3>4, Zenon DEF Left
  <2>4. PICK a \in 1 .. Len(segments) : from[a] = l
    BY <2>3 DEF Enumerates
  <2>5. segments[a].size = n
    <3>1. segments[a] = Part(AllData[l])
      BY <2>4, Zenon DEF Enumerates
    <3> HIDE DEF n, d
    <3> QED BY <2>1, <3>1 DEF Part
  <2>6. Found <= a
    <3> DEFINE T == OfSize(PhdrAt.size)
    <3>1. T \in SUBSET Nat /\ T # {}
      BY <1>1 DEF OfSize, Matched
    <3>2. \E m \in T : \A k \in T : m <= k
      BY <3>1, Least
    <3>3. \A k \in T : Found <= k
      BY <3>2, Zenon DEF Found
    <3>4. a \in T
      BY <1>1, <2>4, <2>5 DEF OfSize
    <3> QED BY <3>3, <3>4
  <2>7. Found = a \/ Found < a
    BY <1>2, <2>6
  <2>8. Found < a => d < l
    BY <1>2, <2>4 DEF Enumerates
  <2>9. l \in Nat /\ d \in Nat
    BY <1>6
  <2> HIDE DEF d
  <2>10. ~(d < l) /\ l # d
    BY <2>2, <2>9
  <2> QED BY <2>4, <2>7, <2>8, <2>10 DEF d
<1>9. c = q
  <2> HIDE DEF c, q
  <2> QED BY <1>6, <1>7, <1>8
<1> QED BY <1>2, <1>3, <1>4, <1>9

\* It is gone then, and nothing else.
LEMMA OneTaken ==
    ASSUME NEW b \in Selfs, bin = b, i \in Nat \ {0}, NEW d \in Left(i),
           PhdrAt.size > 0, AllData[d].size = PhdrAt.size,
           CountTo(AllData, PhdrAt.size, d - 1) = CountTo(bin.phdrs, PhdrAt.size, i - 1)
    PROVE  Left(i + 1) = Left(i) \ {d}
<1> DEFINE n == PhdrAt.size
           q == CountTo(bin.phdrs, n, i - 1)
           r == CountTo(bin.phdrs, n, i)
<1>1. d \in DOMAIN AllData
  BY DEF Left
<1>2. d \in Nat \ {0} /\ q \in Nat /\ r = q + 1
  <2>1. bin.phdrs[i].size = n
    BY DEF PhdrAt
  <2> QED BY <1>1, <2>1, LeftFacts
<1>3. i + 1 - 1 = i
  OBVIOUS
<1>4. d \notin Left(i + 1)
  <2>1. d \in Left(i + 1) => CountTo(AllData, n, d - 1) >= r
    <3>1. AllData[d].size = n /\ n > 0
      OBVIOUS
    <3> HIDE DEF n, q, r
    <3>2. d \in Left(i + 1) => (AllData[d].size > 0 =>
             CountTo(AllData, AllData[d].size, d - 1)
               >= CountTo(bin.phdrs, AllData[d].size, i + 1 - 1))
      BY DEF Left
    <3> QED BY <1>3, <3>1, <3>2, Zenon DEF r
  <2> HIDE DEF n
  <2>2. CountTo(AllData, n, d - 1) = q
    BY DEF n, q
  <2> HIDE DEF q, r
  <2> QED BY <1>2, <2>1, <2>2
<1>5. ASSUME NEW k \in Left(i), k # d PROVE k \in Left(i + 1)
  <2>1. k \in DOMAIN AllData
    BY DEF Left
  <2>2. CASE AllData[k].size # n
    BY <2>2, LeftShrinks DEF PhdrAt
  <2>3. CASE AllData[k].size = n
    <3> DEFINE c == CountTo(AllData, n, k - 1)
    <3>1. c >= q
      BY <1>5, <2>3 DEF Left
    <3>2. k \in Nat \ {0} /\ c \in Nat
      BY <2>1, <2>3, LeftFacts
    <3>3. c # q
      <4>1. c = q => c = CountTo(AllData, n, d - 1)
        OBVIOUS
      <4>2. AllData[d].size = n
        OBVIOUS
      <4> HIDE DEF n, q
      <4> QED BY <1>2, <1>5, <2>3, <3>2, <4>1, <4>2, NumberedOnce
    <3>4. c >= r
      <4> HIDE DEF c, q, r
      <4> QED BY <1>2, <3>1, <3>2, <3>3
    <3> QED BY <1>3, <2>1, <2>3, <3>4 DEF Left
  <2> QED BY <2>2, <2>3
<1> QED BY <1>4, <1>5, LeftShrinks

\* What enumerates the segments goes on to when one of them is removed.
LEMMA EnumeratesOn ==
    ASSUME NEW segs \in Seq(Region), NEW f \in DOMAIN segs, NEW j, NEW from,
           Enumerates(from, segs, j), AllData \in Seq(Entry),
           Left(j + 1) = Left(j) \ {from[f]}
    PROVE  Enumerates(Without(from, f), Without(segs, f), j + 1)
<1> DEFINE n == Len(segs)
           g == Without(from, f)
           w == Without(segs, f)
<1>1. n \in Nat \ {0} /\ f \in 1 .. n /\ n - 1 \in Nat /\ DOMAIN segs = 1 .. n
  OBVIOUS
<1>2. /\ from \in [1 .. n -> DOMAIN AllData]
      /\ \A a, b \in 1 .. n : a < b => from[a] < from[b]
      /\ \A k \in Left(j) : \E a \in 1 .. n : from[a] = k
      /\ \A a \in 1 .. n : from[a] \in Left(j) /\ segs[a] = Part(AllData[from[a]])
  BY DEF Enumerates
<1>3. from \in Seq(DOMAIN AllData) /\ Len(from) = n
  BY <1>1, <1>2, MadeSeq
<1>4. /\ g = [a \in 1 .. n - 1 |-> IF a < f THEN from[a] ELSE from[a + 1]]
      /\ w = [a \in 1 .. n - 1 |-> IF a < f THEN segs[a] ELSE segs[a + 1]]
  BY <1>3 DEF Without
<1>5. w \in Seq(Region) /\ Len(w) = n - 1
  <2>1. w \in Seq(Region)
    BY RemovedOne
  <2>2. DOMAIN w = 1 .. n - 1
    BY <1>4
  <2> HIDE DEF w, n
  <2> QED BY <1>1, <2>1, <2>2
<1>6. \A a, b \in 1 .. n : from[a] = from[b] => a = b
  <2>1. ASSUME NEW a \in 1 .. n, NEW b \in 1 .. n, from[a] = from[b], a # b PROVE FALSE
    <3>1. a < b \/ b < a
      BY <1>1, <2>1
    <3>2. from[a] < from[b] \/ from[b] < from[a]
      BY <1>2, <3>1
    <3>3. from[a] \in Nat
      <4>1. from[a] \in DOMAIN AllData
        BY <1>2
      <4> QED BY <4>1
    <3> QED BY <2>1, <3>2, <3>3
  <2> QED BY <2>1
<1> DEFINE At(a) == IF a < f THEN a ELSE a + 1
<1>7. \A a \in 1 .. n - 1 : /\ At(a) \in 1 .. n /\ At(a) # f
                            /\ g[a] = from[At(a)] /\ w[a] = segs[At(a)]
  <2>1. ASSUME NEW a \in 1 .. n - 1 PROVE At(a) \in 1 .. n /\ At(a) # f
    <3> HIDE DEF n
    <3> QED BY <1>1
  <2>2. ASSUME NEW a \in 1 .. n - 1 PROVE g[a] = from[At(a)] /\ w[a] = segs[At(a)]
    BY <1>4
  <2> QED BY <2>1, <2>2
<1> HIDE DEF g, w, n
<1>8. \A a, b \in 1 .. n - 1 : a < b => At(a) < At(b)
  BY <1>1
<1>9. \A c \in 1 .. n : c # f => \E a \in 1 .. n - 1 : At(a) = c
  <2>1. ASSUME NEW c \in 1 .. n, c # f PROVE \E a \in 1 .. n - 1 : At(a) = c
    <3>1. CASE c < f
      <4>1. c \in 1 .. n - 1 /\ At(c) = c
        BY <1>1, <3>1
      <4> QED BY <4>1
    <3>2. CASE ~(c < f)
      <4>1. c - 1 \in 1 .. n - 1 /\ At(c - 1) = c
        BY <1>1, <2>1, <3>2
      <4> QED BY <4>1
    <3> QED BY <3>1, <3>2
  <2> QED BY <2>1
<1> HIDE DEF At
<1>10. g \in [1 .. n - 1 -> DOMAIN AllData]
  <2>1. \A a \in 1 .. n - 1 : g[a] \in DOMAIN AllData
    BY <1>2, <1>7
  <2>2. g = [a \in 1 .. n - 1 |-> g[a]]
    BY <1>4
  <2> QED BY <2>1, <2>2
<1>11. \A a, b \in 1 .. n - 1 : a < b => g[a] < g[b]
  BY <1>2, <1>7, <1>8
<1>12. \A k \in Left(j + 1) : \E a \in 1 .. n - 1 : g[a] = k
  <2>1. ASSUME NEW k \in Left(j + 1) PROVE \E a \in 1 .. n - 1 : g[a] = k
    <3>1. k \in Left(j) /\ k # from[f]
      OBVIOUS
    <3>2. PICK c \in 1 .. n : from[c] = k
      BY <1>2, <3>1
    <3>3. PICK a \in 1 .. n - 1 : At(a) = c
      BY <1>9, <3>1, <3>2
    <3> QED BY <1>7, <3>2, <3>3
  <2> QED BY <2>1
<1>13. \A a \in 1 .. n - 1 : g[a] \in Left(j + 1) /\ w[a] = Part(AllData[g[a]])
  <2>1. ASSUME NEW a \in 1 .. n - 1
        PROVE  g[a] \in Left(j + 1) /\ w[a] = Part(AllData[g[a]])
    <3>1. At(a) \in 1 .. n /\ At(a) # f /\ g[a] = from[At(a)] /\ w[a] = segs[At(a)]
      BY <1>7
    <3>2. from[At(a)] # from[f]
      BY <1>1, <1>6, <3>1
    <3> QED BY <1>2, <3>1, <3>2
  <2> QED BY <2>1
<1>14. Enumerates(g, w, j + 1)
  BY <1>5, <1>10, <1>11, <1>12, <1>13, Zenon DEF Enumerates
<1> QED BY <1>14 DEF g, w

\* What a program header takes is the data of one entry, and this is gone then.
LEMMA Taken ==
    ASSUME Inv, DataInv, PlaceSegment
    PROVE  /\ DataInv'
           /\ LET cells == Cells(segments[Found])
                  n == PhdrAt.size
              IN  \E d \in Left(i) :
                     /\ n > 0 /\ AllData[d].size = n /\ AllData[d].off \in Nat
                     /\ CountTo(AllData, n, d - 1) = CountTo(bin.phdrs, n, i - 1)
                     /\ Left(i + 1) = Left(i) \ {d}
                     /\ cells \in Seq(0 .. bin.len) /\ Len(cells) = n
                     /\ \A x \in 1 .. n : cells[x] = AllData[d].off + x
<1> DEFINE cells == Cells(segments[Found])
           n == PhdrAt.size
<1>1. /\ UNCHANGED <<bin, pc>> /\ pc = "phdrs" /\ i' = i + 1 /\ Matched
      /\ segments' = Without(segments, Found) /\ MorePhdrs /\ Has(PhdrCell(i))
  BY DEF PlaceSegment, MorePhdrs
<1>2. bin \in Selfs /\ i \in Nat \ {0} /\ segments \in Seq(Region)
  BY Known, Counts
<1>3. PhdrAt \in Region /\ n \in Nat
  BY <1>1, PhdrAppended DEF Region
<1>4. PICK from : Enumerates(from, segments, i)
  BY <1>1 DEF DataInv
<1> DEFINE d == from[Found]
<1>5. /\ Found \in 1 .. Len(segments) /\ Len(segments) \in Nat /\ n > 0 /\ d \in Left(i)
      /\ segments[Found] = Part(AllData[d]) /\ AllData[d].size = n
      /\ CountTo(AllData, n, d - 1) = CountTo(bin.phdrs, n, i - 1)
  BY <1>1, <1>3, <1>4, TakenIsFirst, Zenon
<1>6. Left(i + 1) = Left(i) \ {d}
  BY <1>2, <1>5, OneTaken
<1>7. DataInv'
  <2>1. Found \in DOMAIN segments
    BY <1>2, <1>5
  <2>2. AllData \in Seq(Entry)
    BY <1>2, DataFacts
  <2>3. Enumerates(Without(from, Found), Without(segments, Found), i + 1)
    BY <1>2, <1>4, <1>6, <2>1, <2>2, EnumeratesOn
  <2>4. \E f : (Enumerates(f, segments, i))'
    BY <1>1, <2>3, SameData
  <2> QED BY <1>1, <2>4 DEF DataInv
<1>8. /\ AllData[d].off \in Nat
      /\ cells \in Seq(0 .. bin.len) /\ Len(cells) = n
      /\ \A x \in 1 .. n : cells[x] = AllData[d].off + x
  <2>1. End(segments[Found]) <= bin.len /\ segments[Found] \in Region
    <3>1. Found \in DOMAIN segments
      BY <1>2, <1>5
    <3> QED BY <1>2, <3>1 DEF Inv, SliceInv
  <2>2. segments[Found].size = n /\ segments[Found].off = AllData[d].off
    BY <1>5 DEF Part
  <2>3. bin.len \in Nat /\ AllData[d].off \in Nat
    BY <2>1, <2>2, Counts DEF Region
  <2>4. AllData[d].off + n <= bin.len
    BY <2>1, <2>2, Zenon DEF End
  <2>5. cells = [x \in 1 .. n |-> AllData[d].off + x]
    BY <2>2 DEF Cells
  <2> HIDE DEF cells, n, d
  <2>6. \A x \in 1 .. n : AllData[d].off + x \in 0 .. bin.len
    <3> DEFINE z == AllData[d].off
    <3>1. z \in Nat /\ n \in Nat /\ bin.len \in Nat /\ z + n <= bin.len
      BY <1>3, <2>3, <2>4, Zenon
    <3> HIDE DEF z
    <3>2. \A x \in 1 .. n : z + x \in 0 .. bin.len
      BY <3>1
    <3> QED BY <3>2 DEF z
  <2>7. cells \in [1 .. n -> 0 .. bin.len]
    BY <2>5, <2>6
  <2>8. cells \in Seq(0 .. bin.len) /\ Len(cells) = n
    BY <1>3, <2>7, MadeSeq
  <2>9. \A x \in 1 .. n : cells[x] = AllData[d].off + x
    BY <2>5
  <2> QED BY <2>3, <2>8, <2>9
<1> QED BY <1>5, <1>6, <1>7, <1>8

\* The segment that a program header takes is that of its entry, and it is
\* written where no other program header's is.
LEMMA PlaceSegmentData == Inv /\ DataInv /\ PlacedInv /\ PlaceSegment => DataInv' /\ PlacedInv'
<1> SUFFICES ASSUME Inv, DataInv, PlacedInv, PlaceSegment PROVE DataInv' /\ PlacedInv'
  OBVIOUS
<1> DEFINE o == Append(output, PhdrCell(i))
           cells == Cells(segments[Found])
           n == PhdrAt.size
<1>1. /\ UNCHANGED <<bin, pc>> /\ pc = "phdrs" /\ i' = i + 1
      /\ output' = Written(o, PhdrAt.off, cells) /\ MorePhdrs /\ Has(PhdrCell(i))
  BY DEF PlaceSegment, MorePhdrs
<1>2. bin \in Selfs /\ i \in Nat \ {0}
  BY Known, Counts
<1>3. /\ o \in Seq(0 .. bin.len) /\ Len(o) \in Nat /\ i \in 1 .. PhNum
      /\ PhdrAt \in Region /\ PhdrAt.off \in Nat /\ n \in Nat
  BY <1>1, PhdrAppended DEF Region
<1>4. PICK d \in Left(i) :
         /\ n > 0 /\ AllData[d].size = n
         /\ CountTo(AllData, n, d - 1) = CountTo(bin.phdrs, n, i - 1)
         /\ cells \in Seq(0 .. bin.len) /\ Len(cells) = n
         /\ \A x \in 1 .. n : cells[x] = AllData[d].off + x
  BY Taken
<1>5. DataInv'
  BY Taken
<1>9. /\ HasAt(output', PhdrAt.off, cells) /\ SameBut(o, output', PhdrAt.off, n)
      /\ Len(output') \in Nat /\ Len(o) <= Len(output') /\ PhdrAt.off + n <= Len(output')
  <2>1. 0 \in 0 .. bin.len
    BY Counts
  <2> HIDE DEF o, cells
  <2>2. /\ HasAt(output', PhdrAt.off, cells) /\ SameBut(o, output', PhdrAt.off, Len(cells))
        /\ Len(output') = IF Len(o) < PhdrAt.off + Len(cells)
                          THEN PhdrAt.off + Len(cells) ELSE Len(o)
    <3>1. o \in Seq(0 .. bin.len) /\ PhdrAt.off \in Nat /\ cells \in Seq(0 .. bin.len)
      BY <1>3, <1>4, Zenon
    <3>2. output' = Written(o, PhdrAt.off, cells)
      BY <1>1, Zenon
    <3> QED BY <2>1, <3>1, <3>2, WrittenTo
  <2> HIDE DEF n
  <2> QED BY <1>3, <1>4, <2>2
<1> HIDE DEF o, cells
<1>10. ASSUME ToldApart, Layout, NEW k \in 1 .. EntryCount, Owned(k), bin.entries[k].seg < i'
       PROVE  InPlace(output', k)
  <2> DEFINE e == bin.entries[k]
  <2>1. /\ e \in Entry /\ e.seg \in 1 .. PhNum /\ e.seg \in Nat /\ e.size \in Nat
        /\ e.size > 0 /\ bin.phdrs[e.seg] \in Region /\ bin.phdrs[e.seg].size = e.size
    BY <1>10, OwnedFacts
  <2>2. CASE e.seg = i
    <3>1. AllData[d].seg = i
      <4>1. d \in DOMAIN AllData
        BY DEF Left
      <4> QED BY <1>3, <1>4, <1>10, <4>1 DEF ToldApart, PhdrAt
    <3>2. d \in 1 .. EntryCount /\ AllData[d] = bin.entries[d]
      <4>1. d \in DOMAIN AllData
        BY DEF Left
      <4>2. d > EntryCount => AllData[d].seg = 0
        BY <1>2, <4>1, DataFacts
      <4>3. /\ DOMAIN AllData = 1 .. Len(AllData) /\ Len(AllData) \in Nat
            /\ EntryCount \in Nat
        BY <1>2, DataFacts
      <4>4. ~(d > EntryCount)
        BY <1>2, <3>1, <4>2
      <4>5. d \in 1 .. EntryCount
        BY <4>1, <4>3, <4>4
      <4> QED BY <1>2, <4>5, DataFacts
    <3>3. e.size = n
      BY <2>1, <2>2 DEF PhdrAt
    <3>4. k = d
      BY <1>4, <1>10, <2>1, <2>2, <3>1, <3>2, <3>3 DEF ToldApart
    <3>5. \A x \in 1 .. e.size : output'[PhdrAt.off + x] = e.off + x
      <4>1. ASSUME NEW x \in 1 .. n PROVE output'[PhdrAt.off + x] = e.off + x
        <5>1. output'[PhdrAt.off + x] = cells[x]
          BY <1>4, <1>9 DEF HasAt
        <5>2. AllData[d] = e
          BY <3>2, <3>4, Zenon
        <5> QED BY <1>4, <5>1, <5>2
      <4> QED BY <3>3, <4>1
    <3>6. bin.phdrs[e.seg] = PhdrAt /\ End(PhdrAt) <= Len(output')
      BY <1>9, <2>2 DEF PhdrAt, End
    <3> QED BY <3>5, <3>6 DEF InPlace
  <2>3. CASE e.seg # i
    <3>1. e.seg < i
      BY <1>1, <1>2, <1>10, <2>1, <2>3
    <3>2. InPlace(output, k)
      BY <1>1, <1>10, <3>1 DEF PlacedInv
    <3>3. InPlace(o, k)
      <4>1. output \in Seq(0 .. bin.len) /\ PhdrCell(i) \in 0 .. bin.len
        <5>1. PhdrCell(i) \in Nat
          BY Counts DEF PhdrCell, EhdrCell, EntryCell
        <5> QED BY <1>1, <5>1, Known, Counts DEF Has
      <4> QED BY <2>1, <3>2, <4>1, StaysOnAppend DEF o
    <3>4. Disjoint(bin.phdrs[e.seg], [off |-> PhdrAt.off, size |-> n])
      <4>1. Disjoint(bin.phdrs[e.seg], PhdrAt)
        BY <1>3, <1>10, <2>1, <2>3 DEF Layout, PhdrAt
      <4> QED BY <4>1 DEF Disjoint, End
    <3> QED BY <1>3, <1>4, <1>9, <2>1, <3>3, <3>4, StaysOnWrite
  <2> QED BY <2>2, <2>3
<1>11. PlacedInv'
  BY <1>1, <1>10, SameData DEF PlacedInv
<1> QED BY <1>5, <1>11

(***************************************************************************)
(* The segments are in place                                               *)
(***************************************************************************)
LEMMA InitData == Init => DataInv /\ PlacedInv
BY DEF Init, DataInv, PlacedInv

\* Steps that neither collect data nor place it.
LEMMA OtherData ==
    ASSUME Inv, DataInv, PlacedInv,
           Convert \/ Header \/ ElfHeader \/ PhdrsEnd \/ Write \/ Truncated \/ Trap \/ Relaunch
    PROVE  DataInv' /\ PlacedInv'
<1>1. CASE Convert
  <2>1. pc' \in {"header", "failed", "skipped"} /\ segments' = <<>> /\ last' = 0
    BY <1>1 DEF Convert
  <2> QED BY <2>1 DEF DataInv, PlacedInv
<1>2. CASE Header
  <2>1. /\ pc = "header" /\ pc' = "entries" /\ UNCHANGED <<i, segments, last>>
        /\ i = 1 /\ segments = <<>> /\ last = 0
    BY <1>2 DEF Header, Inv, PhaseInv, DataInv
  <2>2. Len(<<>>) = 1 - 1 /\ 1 .. 1 - 1 = {}
    OBVIOUS
  <2> QED BY <2>1, <2>2 DEF DataInv, PlacedInv
<1>3. CASE ElfHeader
  <2>1. /\ pc = "elf" /\ pc' = "phdrs" /\ UNCHANGED <<bin, i, segments>> /\ i = 1
    BY <1>3 DEF ElfHeader, Inv, PhaseInv
  <2>2. PICK f : Enumerates(f, segments, i)
    BY <2>1 DEF DataInv
  <2>3. \E g : (Enumerates(g, segments, i))'
    BY <2>1, <2>2, SameData
  <2>4. ASSUME NEW k \in 1 .. EntryCount, Owned(k) PROVE ~(bin.entries[k].seg < i)
    <3>1. bin.entries[k].seg \in 1 .. PhNum
      BY <2>4 DEF Owned
    <3>2. PhNum \in Nat
      BY Counts
    <3> HIDE DEF PhNum
    <3> QED BY <2>1, <3>1, <3>2
  <2>5. DataInv'
    BY <2>1, <2>3 DEF DataInv
  <2>6. PlacedInv'
    BY <2>1, <2>4, SameData DEF PlacedInv
  <2> QED BY <2>5, <2>6
<1>4. CASE PhdrsEnd
  <2>1. /\ pc = "phdrs" /\ pc' = "write" /\ UNCHANGED <<bin, i, output>> /\ i > PhNum
    BY <1>4 DEF PhdrsEnd
  <2> QED BY <2>1, SameData DEF DataInv, PlacedInv
<1>5. CASE Write \/ Truncated \/ Trap \/ Relaunch
  <2>1. pc' \in {"done", "failed", "trapped"}
    BY <1>5 DEF Write, Truncated, Trap, Relaunch
  <2> QED BY <2>1 DEF DataInv, PlacedInv
<1> QED BY <1>1, <1>2, <1>3, <1>4, <1>5

LEMMA NextData == Inv /\ DataInv /\ PlacedInv /\ [Next]_vars => DataInv' /\ PlacedInv'
<1> SUFFICES ASSUME Inv, DataInv, PlacedInv, [Next]_vars PROVE DataInv' /\ PlacedInv'
  OBVIOUS
<1>1. CASE ReadEntry
  <2>1. pc' = "entries"
    BY <1>1 DEF ReadEntry, MoreEntries
  <2> QED BY <1>1, <2>1, ReadEntryData DEF PlacedInv
<1>2. CASE EntriesEnd
  <2>1. pc' = "elf"
    BY <1>2 DEF EntriesEnd
  <2> QED BY <1>2, <2>1, EntriesEndData DEF PlacedInv
<1>3. CASE PlacePhdr
  BY <1>3, PlacePhdrData
<1>4. CASE PlaceSegment
  BY <1>4, PlaceSegmentData
<1>5. CASE Convert \/ Header \/ ElfHeader \/ PhdrsEnd \/ Write \/ Truncated \/ Trap \/ Relaunch
  BY <1>5, OtherData
<1>6. CASE UNCHANGED vars
  <2>1. UNCHANGED <<bin, pc, i, segments, last, output>>
    BY <1>6 DEF vars
  <2>2. DataInv'
    BY <2>1, SameData DEF DataInv
  <2>3. PlacedInv'
    BY <2>1, SameData DEF PlacedInv
  <2> QED BY <2>2, <2>3
<1> QED BY <1>1, <1>2, <1>3, <1>4, <1>5, <1>6 DEF Next

LEMMA DataInvariant == Spec => [](Inv /\ DataInv /\ PlacedInv)
<1>1. Init => Inv /\ DataInv /\ PlacedInv
  BY InitInv, InitData
<1>2. Inv /\ DataInv /\ PlacedInv /\ [Next]_vars => (Inv /\ DataInv /\ PlacedInv)'
  BY NextInv, NextData
<1> QED BY <1>1, <1>2, PTL DEF Spec

\* Whatever the order of a SELF's entries, its program headers and the offsets
\* in them, the segments are reassembled where the ELF has them, as long as
\* their sizes tell them apart and they do not overlap: the segments that are
\* left are the data that no program header has asked for yet, so the first one
\* of a program header's size is the one that was made for it.
THEOREM SegmentsAreInPlace == Spec => []SegmentsInPlace
<1>1. ASSUME Inv, PlacedInv, pc = "write", ToldApart, Layout, NEW k \in 1 .. EntryCount,
             Owned(k)
      PROVE  LET e == bin.entries[k]
                 p == bin.phdrs[e.seg]
             IN  SubSeq(output, p.off + 1, End(p)) = Cells(e)
  <2> DEFINE e == bin.entries[k]
             p == bin.phdrs[e.seg]
  <2>1. /\ e.seg \in 1 .. PhNum /\ e.seg \in Nat /\ e.size \in Nat /\ e.size > 0
        /\ e.off \in Nat /\ p \in Region /\ p.size = e.size
    BY <1>1, OwnedFacts
  <2>2. p.off \in Nat /\ End(p) = p.off + e.size
    BY <2>1, Zenon DEF Region, End
  <2>3. e.seg < i
    <3>1. i > PhNum /\ i \in Nat /\ PhNum \in Nat
      BY <1>1, Counts DEF PlacedInv
    <3> HIDE DEF e
    <3> QED BY <2>1, <3>1
  <2>4. InPlace(output, k)
    BY <1>1, <2>3 DEF PlacedInv
  <2>5. End(p) <= Len(output) /\ \A x \in 1 .. e.size : output[p.off + x] = e.off + x
    BY <2>4 DEF InPlace
  <2>6. output \in Seq(0 .. bin.len) /\ Len(output) \in Nat
    BY <1>1, Known
  <2> HIDE DEF e, p
  <2> DEFINE m == p.off + 1
             n == End(p)
  <2>7. m \in Nat /\ n \in Nat /\ n + 1 - m = e.size
    BY <2>1, <2>2
  <2>8. /\ SubSeq(output, m, n) \in Seq(0 .. bin.len)
        /\ Len(SubSeq(output, m, n)) = e.size
        /\ \A x \in 1 .. e.size : SubSeq(output, m, n)[x] = output[m + x - 1]
    <3>1. m <= n /\ m >= 1 /\ n - m + 1 = e.size
      BY <2>1, <2>2, <2>7
    <3>2. n <= Len(output)
      BY <2>5, Zenon
    <3> HIDE DEF m, n
    <3>3. /\ SubSeq(output, m, n) \in Seq(0 .. bin.len)
          /\ Len(SubSeq(output, m, n)) = n - m + 1
          /\ \A x \in 1 .. n - m + 1 : SubSeq(output, m, n)[x] = output[m + x - 1]
      <4> DEFINE S == 0 .. bin.len
      <4>1. output \in Seq(S) /\ m \in Nat /\ n \in Nat /\ m >= 1
        BY <2>6, <2>7, <3>1, Zenon
      <4> HIDE DEF S
      <4>2. /\ SubSeq(output, m, n) \in Seq(S)
            /\ Len(SubSeq(output, m, n)) = n - m + 1
            /\ \A x \in 1 .. n - m + 1 : SubSeq(output, m, n)[x] = output[m + x - 1]
        BY <3>1, <3>2, <4>1, Slice, SMT
      <4> QED BY <4>2, Zenon DEF S
    <3> QED BY <3>1, <3>3, Zenon
  <2>9. ASSUME NEW x \in 1 .. e.size PROVE SubSeq(output, m, n)[x] = e.off + x
    <3>1. m + x - 1 = p.off + x
      BY <2>1, <2>2
    <3> HIDE DEF m, n
    <3> QED BY <2>5, <2>8, <3>1
  <2> DEFINE w == SubSeq(output, m, n)
  <2>10. w = [x \in 1 .. e.size |-> e.off + x]
    <3>1. DOMAIN w = 1 .. e.size
      <4>1. w \in Seq(0 .. bin.len) /\ Len(w) = e.size
        BY <2>8, Zenon
      <4> HIDE DEF w
      <4> QED BY <4>1
    <3>3. w = [x \in DOMAIN w |-> w[x]]
      <4>1. w \in Seq(0 .. bin.len)
        BY <2>8, Zenon
      <4> HIDE DEF w
      <4> QED BY <4>1
    <3>2. \A x \in 1 .. e.size : w[x] = e.off + x
      BY <2>9
    <3> HIDE DEF w, m, n
    <3> QED BY <3>1, <3>2, <3>3
  <2> QED BY <2>10 DEF Cells, e, p
<1>2. Inv /\ PlacedInv => SegmentsInPlace
  BY <1>1 DEF SegmentsInPlace, Owned
<1> QED BY <1>2, DataInvariant, PTL

(***************************************************************************)
(* No data twice                                                           *)
(***************************************************************************)
\* This cell of the SELF is one of this data.
In(c, e) == e.off < c /\ c <= End(e)
NoneTwice(o) == \A j, k \in 1 .. Len(o) : o[j] = o[k] /\ o[j] # 0 => j = k
\* Of the SELF, the output has the headers that were read and data that is gone.
Spent(c, n) == \/ c = 0 \/ c < PhdrCell(n)
               \/ c > PhdrCell(PhNum) /\ \A k \in Left(n) : ~In(c, AllData[k])
AllSpent(o, n) == \A j \in 1 .. Len(o) : Spent(o[j], n)
OnceInv == pc \in {"phdrs", "write"} /\ DataApart => NoneTwice(output) /\ AllSpent(output, i)

LEMMA SameOnce ==
    ASSUME bin' = bin
    PROVE  /\ DataApart' <=> DataApart
           /\ \A c, n : Spent(c, n)' <=> Spent(c, n)
           /\ NoneTwice(output)' <=> NoneTwice(output')
           /\ AllSpent(output, i)' <=> AllSpent(output', i')
<1>1. AllData' = AllData /\ PhNum' = PhNum
  BY SameData
<1>2. \A n : PhdrCell(n)' = PhdrCell(n)
  BY DEF PhdrCell, EhdrCell, EntryCell, EntryCount
<1>3. DataApart' <=> DataApart
  BY <1>1, <1>2 DEF DataApart
<1>4. \A n : Left(n)' = Left(n)
  BY <1>1 DEF Left
<1>5. \A c, n : Spent(c, n)' <=> Spent(c, n)
  BY <1>1, <1>2, <1>4 DEF Spent
<1>6. NoneTwice(output)' <=> NoneTwice(output')
  BY DEF NoneTwice
<1>7. AllSpent(output, i)' <=> AllSpent(output', i')
  BY <1>1, <1>2, <1>4 DEF AllSpent, Spent
<1> QED BY <1>3, <1>5, <1>6, <1>7

\* The cells of the headers.
LEMMA HeaderCells ==
    ASSUME Inv
    PROVE  /\ EhdrCell \in Nat \ {0}
           /\ \A n \in Nat : PhdrCell(n) \in Nat \ {0} /\ PhdrCell(n) = EhdrCell + n
<1>1. EhdrCell \in Nat \ {0}
  BY Counts DEF EhdrCell, EntryCell
<1> QED BY <1>1 DEF PhdrCell

\* What was spent before a program header is spent after it.
LEMMA StaysSpent ==
    ASSUME Inv, NEW c \in Nat, Spent(c, i)
    PROVE  Spent(c, i + 1)
<1>1. bin \in Selfs /\ i \in Nat \ {0} /\ i + 1 \in Nat
  BY Known, Counts
<1>2. Left(i + 1) \subseteq Left(i)
  BY <1>1, LeftShrinks
<1>3. c < PhdrCell(i) => c < PhdrCell(i + 1)
  BY <1>1, HeaderCells
<1> QED BY <1>2, <1>3 DEF Spent

\* A program header is not in the output before it is read.
LEMMA OnceAppended ==
    ASSUME Inv, MorePhdrs, NoneTwice(output), AllSpent(output, i), Has(PhdrCell(i))
    PROVE  LET o == Append(output, PhdrCell(i))
           IN  NoneTwice(o) /\ AllSpent(output, i + 1) /\ AllSpent(o, i + 1)
<1> DEFINE c == PhdrCell(i)
           o == Append(output, c)
<1>1. /\ i \in 1 .. PhNum /\ i \in Nat \ {0} /\ i + 1 \in Nat /\ PhNum \in Nat /\ i <= PhNum
  BY Counts, PhdrAppended
<1>2. output \in Seq(Nat) /\ Len(output) \in Nat
  <2>1. 0 .. bin.len \subseteq Nat
    BY Counts
  <2> QED BY <2>1, Known, WiderSeq, Zenon
<1>3. c \in Nat \ {0} /\ c < PhdrCell(i + 1) /\ ~(c > PhdrCell(PhNum)) /\ ~(c < c)
  <2>1. /\ EhdrCell \in Nat \ {0} /\ c = EhdrCell + i /\ PhdrCell(i + 1) = EhdrCell + (i + 1)
        /\ PhdrCell(PhNum) = EhdrCell + PhNum
    BY <1>1, HeaderCells
  <2> HIDE DEF c
  <2> QED BY <1>1, <2>1
<1>4. \A j \in 1 .. Len(output) : output[j] # c
  <2>1. ASSUME NEW j \in 1 .. Len(output), output[j] = c PROVE FALSE
    <3>1. Spent(c, i)
      BY <2>1 DEF AllSpent
    <3>2. c = 0 \/ c < PhdrCell(i) \/ c > PhdrCell(PhNum)
      BY <3>1 DEF Spent
    <3> QED BY <1>3, <3>2
  <2> QED BY <2>1
<1>5. AllSpent(output, i + 1)
  <2>1. ASSUME NEW j \in 1 .. Len(output) PROVE Spent(output[j], i + 1)
    <3>1. output[j] \in Nat /\ Spent(output[j], i)
      BY <1>2, <2>1 DEF AllSpent
    <3> QED BY <3>1, StaysSpent
  <2> QED BY <2>1 DEF AllSpent
<1>6. Spent(c, i + 1)
  <2> HIDE DEF c
  <2> QED BY <1>3 DEF Spent
<1> HIDE DEF c
<1>7. /\ Len(o) = Len(output) + 1 /\ o[Len(output) + 1] = c
      /\ \A j \in 1 .. Len(output) : o[j] = output[j]
  BY <1>2, <1>3
<1> HIDE DEF o
<1>8. NoneTwice(o)
  <2>1. ASSUME NEW j \in 1 .. Len(o), NEW k \in 1 .. Len(o), o[j] = o[k], o[j] # 0
        PROVE  j = k
    <3>1. /\ j \in 1 .. Len(output) \/ j = Len(output) + 1
          /\ k \in 1 .. Len(output) \/ k = Len(output) + 1
      BY <1>2, <1>7
    <3> QED BY <1>4, <1>7, <2>1, <3>1 DEF NoneTwice
  <2> QED BY <2>1 DEF NoneTwice
<1>9. AllSpent(o, i + 1)
  <2>1. ASSUME NEW j \in 1 .. Len(o) PROVE Spent(o[j], i + 1)
    <3>1. j \in 1 .. Len(output) \/ j = Len(output) + 1
      BY <1>2, <1>7
    <3> QED BY <1>5, <1>6, <1>7, <3>1 DEF AllSpent
  <2> QED BY <2>1 DEF AllSpent
<1> QED BY <1>5, <1>8, <1>9 DEF o, c

LEMMA PlacePhdrOnce == Inv /\ OnceInv /\ PlacePhdr => OnceInv'
<1> SUFFICES ASSUME Inv, OnceInv, PlacePhdr PROVE OnceInv'
  OBVIOUS
<1>1. /\ UNCHANGED <<bin, pc>> /\ pc = "phdrs" /\ i' = i + 1
      /\ output' = Append(output, PhdrCell(i)) /\ MorePhdrs /\ Has(PhdrCell(i))
  BY DEF PlacePhdr, MorePhdrs
<1>2. ASSUME DataApart PROVE NoneTwice(output') /\ AllSpent(output', i')
  <2>1. NoneTwice(output) /\ AllSpent(output, i)
    BY <1>1, <1>2 DEF OnceInv
  <2> QED BY <1>1, <2>1, OnceAppended
<1> QED BY <1>1, <1>2, SameOnce DEF OnceInv

\* Writing cells that are distinct and not in a buffer that has none twice.
LEMMA OnceWritten ==
    ASSUME NEW o \in Seq(Nat), NoneTwice(o), NEW off \in Nat, NEW cells \in Seq(Nat),
           \A x, y \in 1 .. Len(cells) : cells[x] = cells[y] => x = y,
           \A x \in 1 .. Len(cells), j \in 1 .. Len(o) : o[j] # 0 => cells[x] # o[j],
           NEW n, AllSpent(o, n), \A x \in 1 .. Len(cells) : Spent(cells[x], n)
    PROVE  NoneTwice(Written(o, off, cells)) /\ AllSpent(Written(o, off, cells), n)
<1> DEFINE end == off + Len(cells)
           w == Written(o, off, cells)
<1>1. Len(o) \in Nat /\ Len(cells) \in Nat /\ end \in Nat
  OBVIOUS
<1>2. ASSUME NEW j \in 1 .. Len(w)
      PROVE  \/ w[j] = 0
             \/ \E x \in 1 .. Len(cells) : j = off + x /\ w[j] = cells[x]
             \/ j \in 1 .. Len(o) /\ w[j] = o[j]
  <2> DEFINE pad == end - Len(o)
             grown == IF Len(o) < end THEN o \o Zeros(pad) ELSE o
  <2>1. /\ DOMAIN grown \in SUBSET Nat
        /\ \A k \in DOMAIN grown : grown[k] = 0 \/ (k \in 1 .. Len(o) /\ grown[k] = o[k])
    <3>1. CASE Len(o) < end
      <4>1. pad \in Nat
        BY <1>1, <3>1
      <4>2. Zeros(pad) \in Seq({0}) /\ Len(Zeros(pad)) = pad
        BY <4>1, MadeSeq DEF Zeros
      <4>3. grown = o \o Zeros(pad)
        BY <3>1
      <4> HIDE DEF pad, grown
      <4>4. /\ DOMAIN grown = 1 .. Len(o) + pad
            /\ \A k \in 1 .. Len(o) + pad :
                  grown[k] = IF k <= Len(o) THEN o[k] ELSE Zeros(pad)[k - Len(o)]
        BY <1>1, <4>1, <4>2, <4>3
      <4>5. \A k \in 1 .. pad : Zeros(pad)[k] = 0
        BY DEF Zeros
      <4>6. ASSUME NEW k \in 1 .. Len(o) + pad, ~(k <= Len(o)) PROVE grown[k] = 0
        <5>1. k - Len(o) \in 1 .. pad
          BY <1>1, <4>1, <4>6
        <5> QED BY <4>4, <4>5, <4>6, <5>1
      <4> QED BY <1>1, <4>1, <4>4, <4>6
    <3>2. CASE ~(Len(o) < end)
      BY <1>1, <3>2
    <3> QED BY <3>1, <3>2
  <2>2. w = [k \in DOMAIN grown |-> IF k \in off + 1 .. end THEN cells[k - off] ELSE grown[k]]
    BY DEF Written
  <2> HIDE DEF grown, w
  <2>3. j \in DOMAIN grown
    <3>1. w \in Seq(Nat)
      BY WrittenTo DEF w
    <3>2. DOMAIN w = 1 .. Len(w)
      BY <3>1
    <3> QED BY <2>2, <3>2
  <2>4. CASE j \in off + 1 .. end
    <3>1. j - off \in 1 .. Len(cells) /\ j = off + (j - off)
      BY <1>1, <2>4
    <3> QED BY <2>2, <2>3, <2>4, <3>1
  <2>5. CASE j \notin off + 1 .. end
    BY <2>1, <2>2, <2>3, <2>5
  <2> QED BY <2>4, <2>5
<1> HIDE DEF w
<1>3. ASSUME NEW j \in 1 .. Len(w), NEW k \in 1 .. Len(w), w[j] = w[k], w[j] # 0
      PROVE  j = k
  <2>1. CASE \E x \in 1 .. Len(cells) : j = off + x /\ w[j] = cells[x]
    <3>1. PICK x \in 1 .. Len(cells) : j = off + x /\ w[j] = cells[x]
      BY <2>1
    <3>2. ~(k \in 1 .. Len(o) /\ w[k] = o[k])
      BY <1>3, <3>1
    <3>3. PICK y \in 1 .. Len(cells) : k = off + y /\ w[k] = cells[y]
      BY <1>2, <1>3, <3>2
    <3> QED BY <1>3, <3>1, <3>3
  <2>2. CASE j \in 1 .. Len(o) /\ w[j] = o[j]
    <3>1. ~\E y \in 1 .. Len(cells) : k = off + y /\ w[k] = cells[y]
      BY <1>3, <2>2
    <3>2. k \in 1 .. Len(o) /\ w[k] = o[k]
      BY <1>2, <1>3, <3>1
    <3> QED BY <1>3, <2>2, <3>2 DEF NoneTwice
  <2> QED BY <1>2, <1>3, <2>1, <2>2
<1>4. ASSUME NEW j \in 1 .. Len(w) PROVE Spent(w[j], n)
  <2>1. Spent(0, n)
    BY DEF Spent
  <2> QED BY <1>2, <2>1 DEF AllSpent
<1> QED BY <1>3, <1>4 DEF NoneTwice, AllSpent, w

\* The data that is taken was left, so the output has none of its cells.
LEMMA PlaceSegmentOnce == Inv /\ DataInv /\ OnceInv /\ PlaceSegment => OnceInv'
<1> SUFFICES ASSUME Inv, DataInv, OnceInv, PlaceSegment PROVE OnceInv'
  OBVIOUS
<1> DEFINE o == Append(output, PhdrCell(i))
           cells == Cells(segments[Found])
           n == PhdrAt.size
<1>1. /\ UNCHANGED <<bin, pc>> /\ pc = "phdrs" /\ i' = i + 1
      /\ output' = Written(o, PhdrAt.off, cells) /\ MorePhdrs /\ Has(PhdrCell(i))
  BY DEF PlaceSegment, MorePhdrs
<1>2. bin \in Selfs /\ i \in Nat \ {0} /\ i + 1 \in Nat /\ PhNum \in Nat /\ i <= PhNum
  BY <1>1, Known, Counts DEF MorePhdrs
<1>3. /\ o \in Seq(0 .. bin.len) /\ PhdrAt.off \in Nat /\ n \in Nat
  BY <1>1, PhdrAppended DEF Region
<1>4. PICK d \in Left(i) :
         /\ n > 0 /\ AllData[d].size = n /\ AllData[d].off \in Nat
         /\ Left(i + 1) = Left(i) \ {d}
         /\ cells \in Seq(0 .. bin.len) /\ Len(cells) = n
         /\ \A x \in 1 .. n : cells[x] = AllData[d].off + x
  BY Taken
<1>5. o \in Seq(Nat) /\ cells \in Seq(Nat)
  <2>1. 0 .. bin.len \subseteq Nat
    BY Counts
  <2> HIDE DEF o, cells
  <2> QED BY <1>3, <1>4, <2>1, WiderSeq, Zenon
<1>6. ASSUME DataApart PROVE NoneTwice(output') /\ AllSpent(output', i')
  <2>1. NoneTwice(output) /\ AllSpent(output, i)
    BY <1>1, <1>6 DEF OnceInv
  <2>2. NoneTwice(o) /\ AllSpent(o, i + 1)
    BY <1>1, <2>1, OnceAppended
  <2>3. d \in DOMAIN AllData /\ AllData[d].off >= PhdrCell(PhNum)
    BY <1>4, <1>6 DEF Left, DataApart
  <2>4. PhdrCell(PhNum) \in Nat /\ PhdrCell(i) \in Nat /\ PhdrCell(i) <= PhdrCell(PhNum)
    BY <1>2, HeaderCells
  <2>5. ASSUME NEW x \in 1 .. n
        PROVE  /\ cells[x] \in Nat /\ cells[x] > PhdrCell(PhNum) /\ In(cells[x], AllData[d])
               /\ \A k \in Left(i + 1) : ~In(cells[x], AllData[k])
    <3> DEFINE c == AllData[d].off + x
    <3>1. cells[x] = c
      BY <1>4, <2>5, Zenon
    <3>2. x \in Nat /\ x >= 1 /\ x <= n
      BY <1>3
    <3>3. c \in Nat /\ c > PhdrCell(PhNum) /\ In(c, AllData[d])
      <4> HIDE DEF n
      <4> QED BY <1>3, <1>4, <2>3, <2>4, <3>2 DEF In, End
    <3>4. ASSUME NEW k \in Left(i + 1), In(c, AllData[k]) PROVE FALSE
      <4>1. k \in DOMAIN AllData /\ k # d
        BY <1>4, <3>4 DEF Left
      <4>2. Disjoint(AllData[k], AllData[d])
        BY <1>6, <2>3, <4>1 DEF DataApart
      <4>3. AllData[k].off \in Nat /\ AllData[k].size \in Nat
        BY <1>2, <4>1, DataFacts
      <4>4. AllData[d].off \in Nat /\ AllData[d].size \in Nat /\ AllData[d].size > 0
        BY <1>3, <1>4
      <4>5. AllData[k].off < c /\ c <= AllData[k].off + AllData[k].size
        BY <3>4 DEF In, End
      <4>6. AllData[d].off < c /\ c <= AllData[d].off + AllData[d].size /\ c \in Nat
        BY <3>3 DEF In, End
      <4>7. \/ AllData[k].size = 0
            \/ AllData[k].off + AllData[k].size <= AllData[d].off
            \/ AllData[d].off + AllData[d].size <= AllData[k].off
        BY <4>2, <4>4 DEF Disjoint, End
      <4> HIDE DEF c
      <4> QED BY <4>3, <4>4, <4>5, <4>6, <4>7
    <3> HIDE DEF c
    <3> QED BY <3>1, <3>3, <3>4
  <2>6. \A x \in 1 .. n : Spent(cells[x], i + 1)
    BY <2>5 DEF Spent
  <2>7. ASSUME NEW x \in 1 .. n, NEW j \in 1 .. Len(o), o[j] # 0 PROVE cells[x] # o[j]
    <3>1. output \in Seq(Nat) /\ Len(output) \in Nat
      <4>1. 0 .. bin.len \subseteq Nat
        BY Counts
      <4> QED BY <4>1, Known, WiderSeq, Zenon
    <3>2. \/ j \in 1 .. Len(output) /\ o[j] = output[j]
          \/ o[j] = PhdrCell(i)
      BY <2>4, <3>1
    <3>3. CASE j \in 1 .. Len(output) /\ o[j] = output[j]
      <4>1. Spent(o[j], i)
        BY <2>1, <3>3 DEF AllSpent
      <4>2. \/ o[j] < PhdrCell(i)
            \/ ~In(o[j], AllData[d])
        BY <1>4, <2>7, <4>1 DEF Spent
      <4>3. ~(cells[x] < PhdrCell(i)) /\ In(cells[x], AllData[d])
        <5> HIDE DEF cells
        <5> QED BY <2>4, <2>5
      <4> HIDE DEF cells, o
      <4> QED BY <4>2, <4>3
    <3>4. CASE o[j] = PhdrCell(i)
      <4> HIDE DEF cells, o
      <4> QED BY <2>4, <2>5, <3>4
    <3> QED BY <3>2, <3>3, <3>4
  <2>8. \A x, y \in 1 .. n : cells[x] = cells[y] => x = y
    <3> HIDE DEF cells, n
    <3> QED BY <1>3, <1>4
  <2>9. NoneTwice(Written(o, PhdrAt.off, cells)) /\ AllSpent(Written(o, PhdrAt.off, cells), i + 1)
    <3>1. Len(cells) = n
      BY <1>4
    <3> HIDE DEF o, cells, n
    <3> QED BY <1>3, <1>5, <2>2, <2>6, <2>7, <2>8, <3>1, OnceWritten
  <2> QED BY <1>1, <2>9
<1> QED BY <1>1, <1>6, SameOnce DEF OnceInv

LEMMA NextOnce == Inv /\ DataInv /\ OnceInv /\ [Next]_vars => OnceInv'
<1> SUFFICES ASSUME Inv, DataInv, OnceInv, [Next]_vars PROVE OnceInv'
  OBVIOUS
<1>1. CASE ElfHeader
  <2>1. /\ pc' = "phdrs" /\ output' = <<EhdrCell>> /\ bin' = bin /\ i' = 1
    BY <1>1 DEF ElfHeader, Inv, PhaseInv
  <2>2. EhdrCell \in Nat /\ EhdrCell < PhdrCell(1)
    BY HeaderCells
  <2>3. Spent(EhdrCell, 1)
    BY <2>2 DEF Spent
  <2>4. Len(output') = 1 /\ output'[1] = EhdrCell
    BY <2>1
  <2>5. NoneTwice(output') /\ AllSpent(output', i')
    BY <2>1, <2>3, <2>4 DEF NoneTwice, AllSpent
  <2> QED BY <2>1, <2>5, SameOnce DEF OnceInv
<1>2. CASE PlacePhdr
  BY <1>2, PlacePhdrOnce
<1>3. CASE PlaceSegment
  BY <1>3, PlaceSegmentOnce
<1>4. CASE PhdrsEnd \/ UNCHANGED vars
  <2>1. UNCHANGED <<bin, i, output>> /\ (pc' \in {"phdrs", "write"} => pc \in {"phdrs", "write"})
    BY <1>4 DEF PhdrsEnd, vars
  <2> QED BY <2>1, SameOnce DEF OnceInv
<1>5. CASE \/ Convert \/ Header \/ ReadEntry \/ EntriesEnd \/ Write \/ Truncated \/ Trap
           \/ Relaunch
  <2>1. pc' \notin {"phdrs", "write"}
    BY <1>5 DEF Convert, Header, ReadEntry, MoreEntries, EntriesEnd, Write, Truncated, Trap,
                Relaunch
  <2> QED BY <2>1 DEF OnceInv
<1> QED BY <1>1, <1>2, <1>3, <1>4, <1>5 DEF Next

\* However many entries and program headers of a SELF share a size, and wherever
\* the segments of the ELF are, no cell of the SELF is in the ELF twice, as long
\* as its own data does not overlap: a program header only takes data that no
\* other one has taken (segments.remove), and the headers are not data.
THEOREM DataIsUsedOnce == Spec => []NoDataTwice
<1>1. Init => OnceInv
  BY DEF Init, OnceInv
<1>2. Inv /\ OnceInv => NoDataTwice
  <2>1. Inv => DOMAIN output = 1 .. Len(output)
    BY Known
  <2> QED BY <2>1 DEF OnceInv, NoneTwice, NoDataTwice
<1> QED BY <1>1, <1>2, NextOnce, DataInvariant, PTL DEF Spec
=============================================================================
