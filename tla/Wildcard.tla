------------------------------- MODULE Wildcard -------------------------------
(***************************************************************************)
(* wildcard_match_common: the matching of a file name against a mask with  *)
(* the wildcards '*' and '?', from the last character to the first, with   *)
(* one place to fall back to (the last '*' met).  The command line chooses *)
(* files with it.                                                          *)
(*                                                                         *)
(* A string is a sequence of characters and a pointer into it an index, 0  *)
(* for the place before the first character.                               *)
(***************************************************************************)
EXTENDS Integers, Sequences

CONSTANTS Any, One,         \* WILDCARD_ANY, WILDCARD_EXACT
          Char, NameChar,   \* characters of masks, and of names
          Upper,            \* toupper
          MaxLen            \* bound: names and masks of at most so many characters

ASSUME CharAssumption == /\ Any \in Char /\ One \in Char /\ Any # One
                         /\ NameChar \subseteq Char
                         /\ Upper \in [Char -> Char] /\ MaxLen \in Nat

VARIABLES call,             \* the arguments: name, mask, nocase
          data, ma,         \* data and mask: where the two strings are compared
          lsm, lsn,         \* the fallback: mask before the last '*', data there
          answer
vars == <<call, data, ma, lsm, lsn, answer>>

Strings(S) == UNION {[1 .. n -> S] : n \in 0 .. MaxLen}
None == -1                  \* lsm == NULL

Same(c, a, b) == a = b \/ (c.nocase /\ Upper[a] = Upper[b])
\* The mask's character m accepts the name's character d.
Accepts(c, m, d) == c.mask[m] = One \/ Same(c, c.mask[m], c.name[d])
IsStar(c, m) == c.mask[m] = Any
Stars(c, i, j) == \A k \in i .. j : IsStar(c, k)

Init == /\ call \in [name : Strings(NameChar), mask : Strings(Char), nocase : BOOLEAN]
        /\ data = Len(call.name) /\ ma = Len(call.mask)
        /\ lsm = None /\ lsn = 0
        /\ answer = IF call.name = <<>> \/ call.mask = <<>> THEN "no" ELSE "none"

Scanning == answer = "none" /\ data >= 1

\* The mask before the run of '*' that ends at m.
BeforeStars(c, m) == CHOOSE k \in 0 .. m : /\ k = 0 \/ ~IsStar(c, k)
                                           /\ Stars(c, k + 1, m)

Star == /\ Scanning /\ ma >= 1 /\ IsStar(call, ma)
        /\ ma' = BeforeStars(call, ma)
        /\ lsm' = ma' /\ lsn' = data
        /\ answer' = IF ma' = 0 THEN "yes" ELSE "none"
        /\ UNCHANGED <<call, data>>

Step == /\ Scanning /\ ma >= 1 /\ ~IsStar(call, ma) /\ Accepts(call, ma, data)
        /\ ma' = ma - 1 /\ data' = data - 1
        /\ UNCHANGED <<call, lsm, lsn, answer>>

\* Mutant: the name is taken up where it is now, not where the '*' was met.
MutantFallback ==
    /\ lsm # None
    /\ lsn' = data - 1 /\ data' = data - 1 /\ ma' = lsm
    /\ lsm' = IF data' < 1 THEN None ELSE lsm
    /\ UNCHANGED <<call, answer>>
\* Mutant: the '*' takes no more of the name than before.
MutantStay == /\ lsm # None /\ data' = lsn /\ ma' = lsm
              /\ UNCHANGED <<call, lsm, lsn, answer>>
\* One character more for the '*'.
Fallback ==
    /\ lsm # None
    /\ lsn' = lsn - 1 /\ data' = lsn - 1 /\ ma' = lsm
    /\ lsm' = IF data' < 1 THEN None ELSE lsm
    /\ UNCHANGED <<call, answer>>

Differs == /\ Scanning
           /\ ma >= 1 => ~IsStar(call, ma) /\ ~Accepts(call, ma, data)
           /\ \/ Fallback
              \/ lsm = None /\ answer' = "no" /\ UNCHANGED <<call, data, ma, lsm, lsn>>

\* The name is used up: what is left of the mask must be stars.
End == /\ answer = "none" /\ data < 1
       /\ answer' = IF Stars(call, 1, ma) THEN "yes" ELSE "no"
       /\ UNCHANGED <<call, data, ma, lsm, lsn>>

Return == answer # "none" /\ UNCHANGED vars

Loop == Star \/ Step \/ Differs \/ End
Next == Loop \/ Return
Spec == Init /\ [][Next]_vars /\ WF_vars(Loop)

(***************************************************************************)
(* What a match is: the mask's characters share the name out among them in *)
(* their order; cut[i] is how much of the name the first i have.           *)
(***************************************************************************)
IsCut(c, cut, m, d) ==
    /\ cut[0] = 0 /\ cut[m] = d
    /\ \A i, j \in 0 .. m : i <= j => cut[i] <= cut[j]
    /\ \A i \in 1 .. m : ~IsStar(c, i) => /\ cut[i] = cut[i - 1] + 1
                                          /\ Accepts(c, i, cut[i])
\* The first m characters of the mask match the first d of the name.
Fits(c, m, d) == \E cut \in [0 .. m -> 0 .. d] : IsCut(c, cut, m, d)
Whole(c) == Fits(c, Len(c.mask), Len(c.name))

Call == [name : Seq(Char), mask : Seq(Char), nocase : BOOLEAN]
TypeOK == /\ call \in Call
          /\ data \in 0 .. Len(call.name) /\ ma \in 0 .. Len(call.mask)
          /\ lsm \in {None} \cup 0 .. Len(call.mask) /\ lsn \in 0 .. Len(call.name)
          /\ answer \in {"none", "no", "yes"}
\* The answer is that of the definition above, whichever way the loop went; an
\* empty name or mask matches nothing ("null strings should never match").
MatchesTheMask ==
    answer # "none" => (answer = "yes" <=> /\ call.name # <<>> /\ call.mask # <<>>
                                           /\ Whole(call))
\* A name is never compared before its first character: when the mask runs out
\* before the name, the code falls back without asking whether there is a
\* character to go on with, and goes straight on to compare it.
ComparesInside == Scanning /\ ma < 1 /\ lsm # None => lsn > 1
\* The loop ends (its first version did not for "*\*" against "*a").
LoopEnds == <>(answer # "none")
=============================================================================
