----------------------------- MODULE MCPkgEngine -----------------------------
(* Instance of PkgEngine: packages of the kinds the code tells apart.      *)
EXTENDS PkgEngine

CONSTANTS game, titled, fake, bare, addon,      \* packages
          zeros, word, otherWord, ekc, otherEkc \* credentials

MCPackages == {game, titled, fake, bare, addon}
MCPasscodes == {zeros, word, otherWord}
MCSeeds == {ekc, otherEkc}

Plain == [finalized |-> FALSE, type |-> "GD", protected |-> TRUE, ekpfs |-> TRUE,
          pass |-> word, seed |-> None]
\* game and titled: finalized game data; fake: repackaged, with a passcode of
\* its own; bare: the same without an image key entry; addon: no protection.
MCAttr == [p \in MCPackages |->
    CASE p \in {game, titled} -> [Plain EXCEPT !.finalized = TRUE, !.pass = None, !.seed = ekc]
      [] p = fake  -> Plain
      [] p = bare  -> [Plain EXCEPT !.ekpfs = FALSE, !.pass = zeros]
      [] p = addon -> [Plain EXCEPT !.finalized = TRUE, !.type = "AC", !.protected = FALSE]]

MCIds == {"id1", "id2", "id3", "id4"}
MCIdOf == [p \in MCPackages |->
    CASE p = game -> "id1" [] p = titled -> "id2" [] p \in {fake, addon} -> "id3" [] p = bare -> "id4"]
\* config.ini: a title with a passcode, as the shipped file has one, and one
\* with nothing but an EKC.
MCTitle == [id \in MCIds |->
    CASE id = "id2" -> [EmptyKeyset EXCEPT !.pass = zeros]
      [] id = "id4" -> [EmptyKeyset EXCEPT !.seed = otherEkc]
      [] OTHER -> None]
=============================================================================
