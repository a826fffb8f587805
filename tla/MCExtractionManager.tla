------------------------- MODULE MCExtractionManager -------------------------
(***************************************************************************)
(* Instances of ExtractionManager.  Package p has the files named after it *)
(* only, so a file tells which package it belongs to.                      *)
(***************************************************************************)
EXTENDS ExtractionManager, TLC

CONSTANTS p1, p2, f1, g1, default, good, malformed, t1, t2

OnePkg == {p1}
TwoPkgs == {p1, p2}
OneFileContent == [p \in Pkgs |-> [v \in Versions |-> {f1}]]
TwoFileContent == [p \in Pkgs |-> [v \in Versions |-> {f1, g1}]]
TwoPkgContent == [p \in Pkgs |-> [v \in Versions |-> IF p = p1 THEN {f1} ELSE {}]]

(* version 1 opens with the default keys, version 2 needs other ones *)
OnePkgOpens == [p \in Pkgs |-> [v \in Versions |->
                  IF v = 1 THEN Creds \ MalformedCreds ELSE {good}]]
TwoPkgOpens == [p \in Pkgs |-> [v \in Versions |->
                  IF p = p1 /\ v = 1 THEN {default} ELSE {good}]]

(* A run about packages that are there, and config.ini too.  p1 is         *)
(* overwritten, removed and added again; p2 stays as it is, or is not      *)
(* there, and then p1 is all that changes.                                 *)
Installed == /\ Init /\ configFound /\ disk[p1] # 0
             /\ disk[p2] \in {0, 1} /\ (disk[p2] # 0 => disk[p1] = 1)
OneChanges == disk'[p2] = disk[p2] /\ (disk[p2] # 0 => disk' = disk)
TwoSpec == Installed /\ [][Next /\ OneChanges]_vars

TaskSymmetry == Permutations({t1, t2})
=============================================================================
