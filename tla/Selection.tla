------------------------------ MODULE Selection ------------------------------
(***************************************************************************)
(* Which files the command line unpacks: parse_args makes masks of an      *)
(* argument, pkg_pfs_unpack_pre_cb asks for each directory and each file   *)
(* whether one of them matches, and the walk enters a directory only when  *)
(* one does (PfsTree has the walk).  In a call of Wildcard the name is the *)
(* path of a file in the image and the mask the argument.                  *)
(***************************************************************************)
EXTENDS Wildcard, FiniteSets

CONSTANT Sep                \* '/'; as '\' in an argument
ASSUME SepAssumption == Sep \in NameChar \ {Any, One}

SepsIn(s) == {k \in DOMAIN s : s[k] = Sep}
\* Mutant: the argument alone is a mask.
MutantMasks(arg) == {arg}
\* parse_args pushes what the argument has before each separator, and the
\* argument itself unless a separator ends it.
Masks(arg) == {SubSeq(arg, 1, k - 1) : k \in {k \in SepsIn(arg) : k > 1 /\ arg[k - 1] # Sep}}
              \cup {a \in {arg} : a # <<>> /\ a[Len(a)] # Sep}

\* wildcard_match, by what MatchesTheMask says of it
Matches(name, mask) == /\ name # <<>> /\ mask # <<>>
                       /\ Whole([name |-> name, mask |-> mask, nocase |-> FALSE])
LastSep(path) == CHOOSE k \in SepsIn(path) : \A j \in SepsIn(path) : j <= k
\* What pkg_pfs_unpack_pre_cb answers.
Needed(path, kind, masks) ==
    \E m \in masks : \/ Matches(path, m)
                     \/ /\ kind = "file" /\ SepsIn(path) # {}
                        /\ Matches(SubSeq(path, LastSep(path) + 1, Len(path)), m)

DirectoriesTo(path) == {SubSeq(path, 1, k - 1) : k \in SepsIn(path)}
Unpacked(path, masks) == /\ \A d \in DirectoriesTo(path) : Needed(d, "directory", masks)
                         /\ Needed(path, "file", masks)

(***************************************************************************)
(* A path and an argument that agree name by name                          *)
(***************************************************************************)
IsPath(s) == /\ s # <<>> /\ s[1] # Sep /\ s[Len(s)] # Sep
             /\ \A k \in SepsIn(s) : k + 1 \notin SepsIn(s)
\* The names of a path, each as its first and last place.
Names(s) == {n \in (DOMAIN s) \X (DOMAIN s) :
                /\ n[1] <= n[2] /\ \A k \in n[1] .. n[2] : s[k] # Sep
                /\ {n[1] - 1, n[2] + 1} \subseteq SepsIn(s) \cup {0, Len(s) + 1}}
Nth(s, n) == Cardinality({m \in Names(s) : m[1] <= n[1]})
Name(s, n) == SubSeq(s, n[1], n[2])
AgreeByName(path, arg) ==
    /\ IsPath(path) /\ IsPath(arg) /\ Cardinality(Names(path)) = Cardinality(Names(arg))
    /\ \A n \in Names(path), m \in Names(arg) :
          Nth(path, n) = Nth(arg, m) => Matches(Name(path, n), Name(arg, m))
\* A file is unpacked when each name on its path matches the argument's name
\* there: the walk gets to it through all of its directories.
PathsAreReached ==
    answer # "none" /\ AgreeByName(call.name, call.mask)
        => Unpacked(call.name, Masks(call.mask))
=============================================================================
