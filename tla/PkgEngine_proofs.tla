-------------------------- MODULE PkgEngine_proofs --------------------------
(***************************************************************************)
(* What holds of the C bridge for every set of packages, credentials,      *)
(* config.ini and threads.  Inv is inductive: Jump says when error() may   *)
(* jump, Layers and Owned what is up at each point of a call, Explained    *)
(* whose failure last_error tells, Chosen how the keyset got its key.      *)
(***************************************************************************)
EXTENDS PkgEngine, TLAPS

TypeInv == TypeOK /\ (pc # "idle" => pkg \in Packages)

Jump == /\ pc # "dead"
        /\ armed = [t \in Threads |-> pc # "idle" /\ t = thread]

Layers == /\ crypto = "up" <=> pc \notin {"idle", "id", "crypto"}
          /\ pc \in {"idle", "id", "crypto", "keymgr"} => registry = NoKeysets

Owned == /\ pc \in {"idle", "id", "crypto", "keymgr", "ekc", "map", "finalize"} => heap = {}
         /\ pc \in {"keyset", "options"} => heap \cap {"outer", "inner"} = {}
         /\ pc \in {"options", "outer", "image", "inner", "walk", "free"} => MyKeyset # None
         /\ pc \in {"unwind", "caught"} /\ heap \cap {"outer", "inner"} # {} => MyKeyset # None
         /\ pc = "walk" => heap # {}

Explained == /\ pc \in Opening \cup {"walk", "caught"} => ret = "ok"
             /\ pc \in Closing \cup {"idle"} /\ ret = "error" => told[thread]

\* The user's EKC is the only key there is for the package, and it is right.
EkcDecides == RightEkcNeeded(pkg) /\ ~(Title[MyId] # None /\ HasKeyMaterial(Title[MyId]))

Chosen == /\ pc = "ekc" => registry = Title
          /\ pc \in {"map", "keyset"} =>
                MyKeyset = IF creds.seed = None THEN Title[MyId]
                           ELSE [Alloc(Title[MyId]) EXCEPT !.seed = creds.seed]
          /\ pc \in {"options", "outer"} /\ EkcDecides =>
                MyKeyset.pass = None /\ MyKeyset.image = pkg
          /\ pc = "outer" /\ creds.pass # None => MyKeyset.pass = creds.pass
          /\ RightPasscodeOpens /\ RightEkcOpens

Inv == TypeInv /\ Jump /\ Layers /\ Owned /\ Explained /\ KeysOfThisCall /\ Chosen

(* Facts about the constants and the key operators.                        *)
LEMMA KeysetFacts ==
    /\ EmptyKeyset \in Keyset
    /\ \A ks \in Keyset : ks # None
    /\ NoKeysets \in [Ids -> Keyset \cup {None}]
    /\ NoCreds \in [pass : Passcodes \cup {None}, seed : Seeds \cup {None}]
BY SetsAssumption DEF Keyset, EmptyKeyset, NoKeysets, NoCreds

(* The registry's operators keep a keyset a keyset.                        *)
LEMMA KeyOperators ==
    ASSUME NEW ks \in Keyset, NEW p \in Packages, NEW b \in BOOLEAN
    PROVE  /\ ImageKeyOf(ks, p) \in Keys \cup {None}
           /\ SetupByImageKey(ks, p, b) \in Keyset
           /\ FinalKey(ks, p) \in Keys \cup {None}
           /\ GeneratedKeys(ks, p) \in Keyset
<1>1. ImageKeyOf(ks, p) \in Keys \cup {None}
  BY DEF ImageKeyOf, Keys
<1>2. FinalKey(ks, p) \in Keys \cup {None}
  BY DEF FinalKey, DerivedKey, Keyset, Keys
<1> QED BY <1>1, <1>2 DEF SetupByImageKey, GeneratedKeys, Keyset

LEMMA OptionsOperator ==
    ASSUME TypeOK, NEW ks \in Keyset
    PROVE  WithOptions(ks) \in Keyset
BY SetsAssumption DEF TypeOK, WithOptions, Keyset

(* Storing a keyset under the package's id changes that id's keyset only.  *)
LEMMA StoreFacts ==
    ASSUME TypeOK, pkg \in Packages, NEW ks \in Keyset, Store(ks), UNCHANGED pkg
    PROVE  /\ registry' \in [Ids -> Keyset \cup {None}]
           /\ MyKeyset' = ks /\ MyId \in Ids /\ MyId' = MyId
           /\ \A id \in Ids \ {MyId} : registry'[id] = registry[id]
BY PackagesAssumption DEF TypeOK, Store, MyKeyset, MyId

LEMMA MyKeysetType == ASSUME TypeOK, pkg \in Packages
                      PROVE  MyId \in Ids /\ MyKeyset \in Keyset \cup {None}
BY PackagesAssumption DEF TypeOK, MyKeyset, MyId

-----------------------------------------------------------------------------
(* Types.                                                                  *)
LEMMA InitType == Init => TypeInv
BY KeysetFacts, BoundsAssumption DEF Init, TypeInv, TypeOK, Kinds, Resources, NoneTold

LEMMA StepType == TypeInv /\ Owned /\ [Next]_vars => TypeInv'
<1> SUFFICES ASSUME TypeInv, Owned, [Next]_vars PROVE TypeInv'
  OBVIOUS
<1> USE DEF TypeInv, Opening, Closing
<1>1. CASE SetCredentials
  <2>1. creds' \in [pass : Passcodes \cup {None}, seed : Seeds \cup {None}]
    BY <1>1, KeysetFacts DEF SetCredentials
  <2>2. told' \in [Threads -> BOOLEAN]
    BY <1>1 DEF SetCredentials, NoneTold
  <2> QED BY <1>1, <2>1, <2>2, BoundsAssumption DEF SetCredentials, TypeOK
<1>2. CASE Begin
  BY <1>2, BoundsAssumption DEF Begin, TypeOK, NoneTold
<1>3. CASE ReadContentId
  BY <1>3 DEF ReadContentId, FailAtOnce, Explain, Disarm, callVars, TypeOK
<1>4. CASE InitCrypto
  BY <1>4 DEF InitCrypto, FailAtOnce, Explain, Disarm, callVars, TypeOK
<1>5. CASE InitKeymgr
  BY <1>5, PackagesAssumption DEF InitKeymgr, Throw, callVars, TypeOK
<1>6. CASE RegisterEkc
  <2>1. ASSUME creds.seed # None
        PROVE  [Alloc(MyKeyset) EXCEPT !.seed = creds.seed] \in Keyset
    BY <1>6, <2>1, KeysetFacts, MyKeysetType DEF RegisterEkc, Alloc, TypeOK, Keyset
  <2>2. registry' \in [Ids -> Keyset \cup {None}]
    BY <1>6, <2>1, StoreFacts DEF RegisterEkc, callVars, TypeOK
  <2> QED BY <1>6, <2>2 DEF RegisterEkc, callVars, TypeOK
<1>7. CASE MapFile
  BY <1>7 DEF MapFile, callVars, TypeOK, Resources
<1>8. CASE ChooseKeyset
  <2>1. SetupByImageKey(EmptyKeyset, pkg, FALSE) \in Keyset
    BY <1>8, KeysetFacts, KeyOperators DEF ChooseKeyset
  <2>2. MyKeyset # None => SetupByImageKey(MyKeyset, pkg, TRUE) \in Keyset
    BY <1>8, MyKeysetType, KeyOperators DEF ChooseKeyset
  <2>3. registry' \in [Ids -> Keyset \cup {None}]
    BY <1>8, <2>1, <2>2, StoreFacts DEF ChooseKeyset, callVars, TypeOK
  <2> QED BY <1>8, <2>3 DEF ChooseKeyset, callVars, TypeOK
<1>9. CASE ApplyOptions
  <2>1. WithOptions(MyKeyset) \in Keyset
    BY <1>9, MyKeysetType, OptionsOperator DEF ApplyOptions, Owned
  <2>2. registry' \in [Ids -> Keyset \cup {None}]
    BY <1>9, <2>1, StoreFacts DEF ApplyOptions, callVars
  <2> QED BY <1>9, <2>2 DEF ApplyOptions, callVars, TypeOK
<1>10. CASE OpenOuter
  <2>1. GeneratedKeys(MyKeyset, pkg) \in Keyset
    BY <1>10, MyKeysetType, KeyOperators DEF OpenOuter, Owned
  <2>2. registry' \in [Ids -> Keyset \cup {None}]
    BY <1>10, <2>1 DEF OpenOuter, TypeOK
  <2> QED BY <1>10, <2>2 DEF OpenOuter, GiveUp, callVars, TypeOK, Resources
<1>11. CASE LookupImage
  BY <1>11 DEF LookupImage, GiveUp, callVars, TypeOK, Resources
<1>12. CASE OpenInner
  BY <1>12 DEF OpenInner, GiveUp, callVars, TypeOK, Resources
<1>13. CASE Unwind
  BY <1>13 DEF Unwind, Explain, callVars, TypeOK
<1>14. CASE ReportEntry
  BY <1>14, BoundsAssumption DEF ReportEntry, callVars, TypeOK
<1>15. CASE EndWalk
  BY <1>15 DEF EndWalk, Explain, callVars, TypeOK
<1>16. CASE ThrowInWalk
  BY <1>16 DEF ThrowInWalk, Throw, callVars, TypeOK
<1>17. CASE Caught
  BY <1>17 DEF Caught, Explain, callVars, TypeOK
<1>18. CASE FreePkg
  BY <1>18 DEF FreePkg, callVars, TypeOK
<1>19. CASE Finalize
  BY <1>19, KeysetFacts DEF Finalize, Disarm, callVars, TypeOK
<1>20. CASE UNCHANGED vars
  BY <1>20 DEF vars, TypeOK
<1> QED
  BY <1>1, <1>2, <1>3, <1>4, <1>5, <1>6, <1>7, <1>8, <1>9, <1>10, <1>11, <1>12,
     <1>13, <1>14, <1>15, <1>16, <1>17, <1>18, <1>19, <1>20 DEF Next, Step

-----------------------------------------------------------------------------
(* The jump is armed exactly during a call, on its thread.                 *)
LEMMA StepJump == Inv /\ [Next]_vars => Jump'
<1> SUFFICES ASSUME Inv, [Next]_vars PROVE Jump'
  OBVIOUS
<1> USE DEF Inv, TypeInv, TypeOK, Jump
<1>1. CASE SetCredentials
  BY <1>1 DEF SetCredentials
<1>2. CASE Begin
  BY <1>2 DEF Begin
<1>3. CASE ReadContentId
  BY <1>3 DEF ReadContentId, FailAtOnce, Explain, Disarm, callVars
<1>4. CASE InitCrypto
  BY <1>4 DEF InitCrypto, FailAtOnce, Explain, Disarm, callVars
<1>5. CASE InitKeymgr
  BY <1>5 DEF InitKeymgr, Throw, callVars
<1>6. CASE RegisterEkc
  BY <1>6 DEF RegisterEkc, callVars
<1>7. CASE MapFile
  BY <1>7 DEF MapFile, callVars
<1>8. CASE ChooseKeyset
  BY <1>8 DEF ChooseKeyset, callVars
<1>9. CASE ApplyOptions
  BY <1>9 DEF ApplyOptions, callVars
<1>10. CASE OpenOuter
  BY <1>10 DEF OpenOuter, GiveUp, callVars
<1>11. CASE LookupImage
  BY <1>11 DEF LookupImage, GiveUp, callVars
<1>12. CASE OpenInner
  BY <1>12 DEF OpenInner, GiveUp, callVars
<1>13. CASE Unwind
  BY <1>13 DEF Unwind, Explain, callVars
<1>14. CASE ReportEntry
  BY <1>14 DEF ReportEntry, callVars
<1>15. CASE EndWalk
  BY <1>15 DEF EndWalk, Explain, callVars
<1>16. CASE ThrowInWalk
  BY <1>16 DEF ThrowInWalk, Throw, callVars
<1>17. CASE Caught
  BY <1>17 DEF Caught, Explain, callVars
<1>18. CASE FreePkg
  BY <1>18 DEF FreePkg, callVars
<1>19. CASE Finalize
  BY <1>19 DEF Finalize, Disarm, callVars
<1>20. CASE UNCHANGED vars
  BY <1>20 DEF vars
<1> QED
  BY <1>1, <1>2, <1>3, <1>4, <1>5, <1>6, <1>7, <1>8, <1>9, <1>10, <1>11, <1>12,
     <1>13, <1>14, <1>15, <1>16, <1>17, <1>18, <1>19, <1>20 DEF Next, Step

(* Registry and crypto layer are up between their initialization and the   *)
(* teardown.                                                               *)
LEMMA StepLayers == Inv /\ [Next]_vars => Layers'
<1> SUFFICES ASSUME Inv, [Next]_vars PROVE Layers'
  OBVIOUS
<1> USE DEF Inv, TypeInv, Layers
<1>1. CASE SetCredentials
  BY <1>1 DEF SetCredentials
<1>2. CASE Begin
  BY <1>2 DEF Begin
<1>3. CASE ReadContentId
  BY <1>3 DEF ReadContentId, FailAtOnce, Explain, Disarm, callVars
<1>4. CASE InitCrypto
  BY <1>4 DEF InitCrypto, FailAtOnce, Explain, Disarm, callVars
<1>5. CASE InitKeymgr
  BY <1>5 DEF InitKeymgr, Throw, callVars
<1>6. CASE RegisterEkc
  BY <1>6 DEF RegisterEkc, callVars
<1>7. CASE MapFile
  BY <1>7 DEF MapFile, callVars
<1>8. CASE ChooseKeyset
  BY <1>8 DEF ChooseKeyset, callVars
<1>9. CASE ApplyOptions
  BY <1>9 DEF ApplyOptions, callVars
<1>10. CASE OpenOuter
  BY <1>10 DEF OpenOuter, GiveUp, callVars
<1>11. CASE LookupImage
  BY <1>11 DEF LookupImage, GiveUp, callVars
<1>12. CASE OpenInner
  BY <1>12 DEF OpenInner, GiveUp, callVars
<1>13. CASE Unwind
  BY <1>13 DEF Unwind, Explain, callVars
<1>14. CASE ReportEntry
  BY <1>14 DEF ReportEntry, callVars
<1>15. CASE EndWalk
  BY <1>15 DEF EndWalk, Explain, callVars
<1>16. CASE ThrowInWalk
  BY <1>16 DEF ThrowInWalk, Throw, callVars
<1>17. CASE Caught
  BY <1>17 DEF Caught, Explain, callVars
<1>18. CASE FreePkg
  BY <1>18 DEF FreePkg, callVars
<1>19. CASE Finalize
  BY <1>19 DEF Finalize, Disarm, callVars
<1>20. CASE UNCHANGED vars
  BY <1>20 DEF vars
<1> QED
  BY <1>1, <1>2, <1>3, <1>4, <1>5, <1>6, <1>7, <1>8, <1>9, <1>10, <1>11, <1>12,
     <1>13, <1>14, <1>15, <1>16, <1>17, <1>18, <1>19, <1>20 DEF Next, Step

(* A package owns something only from pkg_alloc to its release, and open   *)
(* images have their keyset registered.                                    *)
LEMMA StepOwned == Inv /\ [Next]_vars => Owned'
<1> SUFFICES ASSUME Inv, [Next]_vars PROVE Owned'
  OBVIOUS
<1> USE DEF Inv, TypeInv, Owned
<1>1. CASE SetCredentials
  BY <1>1 DEF SetCredentials
<1>2. CASE Begin
  BY <1>2 DEF Begin
<1>3. CASE ReadContentId
  BY <1>3 DEF ReadContentId, FailAtOnce, Explain, Disarm, callVars
<1>4. CASE InitCrypto
  BY <1>4 DEF InitCrypto, FailAtOnce, Explain, Disarm, callVars
<1>5. CASE InitKeymgr
  BY <1>5 DEF InitKeymgr, Throw, callVars
<1>6. CASE RegisterEkc
  BY <1>6 DEF RegisterEkc, callVars
<1>7. CASE MapFile
  BY <1>7 DEF MapFile, callVars, MyKeyset, MyId
<1>8. CASE ChooseKeyset
  <2>1. pc' = "options" => MyKeyset' # None
    <3>1. SetupByImageKey(EmptyKeyset, pkg, FALSE) \in Keyset
      BY <1>8, KeysetFacts, KeyOperators DEF ChooseKeyset
    <3>2. MyKeyset # None => SetupByImageKey(MyKeyset, pkg, TRUE) \in Keyset
      BY <1>8, MyKeysetType, KeyOperators DEF ChooseKeyset
    <3>3. CASE UNCHANGED registry
      BY <1>8, <3>3, <3>1, StoreFacts, KeysetFacts DEF ChooseKeyset, callVars, MyKeyset, MyId
    <3>4. CASE \E ks \in Keyset : Store(ks)
      BY <1>8, <3>4, StoreFacts, KeysetFacts DEF ChooseKeyset, callVars
    <3> QED BY <1>8, <3>1, <3>2, <3>3, <3>4 DEF ChooseKeyset
  <2> QED BY <1>8, <2>1 DEF ChooseKeyset, callVars
<1>9. CASE ApplyOptions
  BY <1>9, PackagesAssumption, KeysetFacts, OptionsOperator DEF ApplyOptions, callVars, MyKeyset, MyId, Store, TypeOK
<1>10. CASE OpenOuter
  BY <1>10, PackagesAssumption, KeysetFacts, KeyOperators DEF OpenOuter, GiveUp, callVars, MyKeyset, MyId, TypeOK
<1>11. CASE LookupImage
  BY <1>11 DEF LookupImage, GiveUp, callVars, MyKeyset, MyId
<1>12. CASE OpenInner
  BY <1>12 DEF OpenInner, GiveUp, callVars, MyKeyset, MyId
<1>13. CASE Unwind
  BY <1>13 DEF Unwind, Explain, callVars, MyKeyset, MyId
<1>14. CASE ReportEntry
  BY <1>14 DEF ReportEntry, callVars, MyKeyset, MyId
<1>15. CASE EndWalk
  BY <1>15 DEF EndWalk, Explain, callVars, MyKeyset, MyId
<1>16. CASE ThrowInWalk
  BY <1>16 DEF ThrowInWalk, Throw, callVars, MyKeyset, MyId
<1>17. CASE Caught
  BY <1>17 DEF Caught, Explain, callVars, MyKeyset, MyId
<1>18. CASE FreePkg
  BY <1>18 DEF FreePkg, callVars, MyKeyset, MyId
<1>19. CASE Finalize
  BY <1>19 DEF Finalize, Disarm, callVars, MyKeyset, MyId
<1>20. CASE UNCHANGED vars
  BY <1>20 DEF vars, MyKeyset, MyId
<1> QED
  BY <1>1, <1>2, <1>3, <1>4, <1>5, <1>6, <1>7, <1>8, <1>9, <1>10, <1>11, <1>12,
     <1>13, <1>14, <1>15, <1>16, <1>17, <1>18, <1>19, <1>20 DEF Next, Step

(* A failure is explained by the time the call starts to return.           *)
LEMMA StepExplained == Inv /\ [Next]_vars => Explained'
<1> SUFFICES ASSUME Inv, [Next]_vars PROVE Explained'
  OBVIOUS
<1> USE DEF Inv, TypeInv, TypeOK, Explained, Opening, Closing
<1>1. CASE SetCredentials
  BY <1>1 DEF SetCredentials, NoneTold
<1>2. CASE Begin
  BY <1>2 DEF Begin
<1>3. CASE ReadContentId
  BY <1>3 DEF ReadContentId, FailAtOnce, Explain, Disarm, callVars
<1>4. CASE InitCrypto
  BY <1>4 DEF InitCrypto, FailAtOnce, Explain, Disarm, callVars
<1>5. CASE InitKeymgr
  BY <1>5 DEF InitKeymgr, Throw, callVars
<1>6. CASE RegisterEkc
  BY <1>6 DEF RegisterEkc, callVars
<1>7. CASE MapFile
  BY <1>7 DEF MapFile, callVars
<1>8. CASE ChooseKeyset
  BY <1>8 DEF ChooseKeyset, callVars
<1>9. CASE ApplyOptions
  BY <1>9 DEF ApplyOptions, callVars
<1>10. CASE OpenOuter
  BY <1>10 DEF OpenOuter, GiveUp, callVars
<1>11. CASE LookupImage
  BY <1>11 DEF LookupImage, GiveUp, callVars
<1>12. CASE OpenInner
  BY <1>12 DEF OpenInner, GiveUp, callVars
<1>13. CASE Unwind
  BY <1>13 DEF Unwind, Explain, callVars
<1>14. CASE ReportEntry
  BY <1>14 DEF ReportEntry, callVars
<1>15. CASE EndWalk
  BY <1>15 DEF EndWalk, Explain, callVars
<1>16. CASE ThrowInWalk
  BY <1>16 DEF ThrowInWalk, Throw, callVars
<1>17. CASE Caught
  BY <1>17 DEF Caught, Explain, callVars
<1>18. CASE FreePkg
  BY <1>18 DEF FreePkg, callVars
<1>19. CASE Finalize
  BY <1>19 DEF Finalize, Disarm, callVars
<1>20. CASE UNCHANGED vars
  BY <1>20 DEF vars
<1> QED
  BY <1>1, <1>2, <1>3, <1>4, <1>5, <1>6, <1>7, <1>8, <1>9, <1>10, <1>11, <1>12,
     <1>13, <1>14, <1>15, <1>16, <1>17, <1>18, <1>19, <1>20 DEF Next, Step

-----------------------------------------------------------------------------
(* The registry changes its keysets by the user's seed, the user's or the  *)
(* default passcode, and keys derived from them.                           *)
LEMMA OperatorsKeepOrigin ==
    ASSUME NEW ks \in Keyset, NEW p \in Packages, NEW b \in BOOLEAN
    PROVE  /\ SetupByImageKey(ks, p, b).pass = ks.pass
           /\ SetupByImageKey(ks, p, b).seed = ks.seed
           /\ GeneratedKeys(ks, p).pass = ks.pass
           /\ GeneratedKeys(ks, p).seed = ks.seed
BY DEF SetupByImageKey, GeneratedKeys, Keyset

Origin(ks, id) == LET conf == IF Title[id] = None THEN EmptyKeyset ELSE Title[id] IN
                  /\ ks.pass \in {None, conf.pass, creds.pass, Zeros}
                  /\ ks.seed \in {None, conf.seed, creds.seed}

LEMMA StoreKeepsOrigin ==
    ASSUME TypeInv, pc # "idle", KeysOfThisCall, UNCHANGED <<creds, pkg>>,
           NEW ks \in Keyset, Store(ks), Origin(ks, MyId)
    PROVE  KeysOfThisCall'
<1> SUFFICES ASSUME NEW id \in Ids, registry'[id] # None PROVE Origin(registry'[id], id)
  BY DEF KeysOfThisCall, Origin
<1>1. CASE id = MyId
  BY <1>1, StoreFacts DEF TypeInv, MyKeyset
<1>2. CASE id # MyId
  <2>1. registry'[id] = registry[id]
    BY <1>2, StoreFacts DEF TypeInv
  <2> QED BY <2>1 DEF KeysOfThisCall, Origin
<1> QED BY <1>1, <1>2

LEMMA MyOrigin == ASSUME TypeInv, pc # "idle", KeysOfThisCall, MyKeyset # None
                  PROVE  Origin(MyKeyset, MyId)
BY MyKeysetType DEF TypeInv, KeysOfThisCall, Origin, MyKeyset

LEMMA StepKeys == Inv /\ [Next]_vars => KeysOfThisCall'
<1> SUFFICES ASSUME Inv, [Next]_vars PROVE KeysOfThisCall'
  OBVIOUS
<1> USE DEF Inv
<1>1. CASE UNCHANGED <<creds, registry>>
  BY <1>1 DEF KeysOfThisCall
<1>2. CASE SetCredentials
  <2>1. registry' = NoKeysets
    BY <1>2 DEF SetCredentials, Layers
  <2> QED BY <2>1 DEF KeysOfThisCall, NoKeysets
<1>3. CASE InitKeymgr
  <2> SUFFICES ASSUME NEW id \in Ids, registry'[id] # None PROVE Origin(registry'[id], id)
    BY <1>3 DEF InitKeymgr, KeysOfThisCall, Origin
  <2>1. registry[id] = None
    BY <1>3 DEF InitKeymgr, Layers, NoKeysets
  <2>2. Title[id] # None /\ registry'[id] = Title[id]
    BY <1>3, <2>1 DEF InitKeymgr
  <2> QED BY <2>2 DEF Origin
<1>4. CASE RegisterEkc
  <2>1. CASE creds.seed = None
    BY <1>1, <1>4, <2>1 DEF RegisterEkc
  <2>2. CASE creds.seed # None
    <3> DEFINE ks == [Alloc(MyKeyset) EXCEPT !.seed = creds.seed]
    <3>1. Alloc(MyKeyset) \in Keyset /\ creds.seed \in Seeds
      BY <1>4, <2>2, KeysetFacts, MyKeysetType DEF RegisterEkc, Alloc, TypeInv, TypeOK
    <3>2. ks \in Keyset /\ ks.seed = creds.seed /\ ks.pass = Alloc(MyKeyset).pass
      BY <3>1 DEF Keyset
    <3>3. Origin(ks, MyId)
      <4>1. CASE MyKeyset = None
        BY <4>1, <3>2 DEF Origin, Alloc, EmptyKeyset
      <4>2. CASE MyKeyset # None
        BY <1>4, <4>2, <3>2, MyOrigin DEF Origin, Alloc, RegisterEkc
      <4> QED BY <4>1, <4>2
    <3> QED BY <1>4, <2>2, <3>2, <3>3, StoreKeepsOrigin DEF RegisterEkc, callVars
  <2> QED BY <2>1, <2>2
<1>5. CASE ChooseKeyset
  <2>1. CASE UNCHANGED registry
    BY <1>1, <1>5, <2>1 DEF ChooseKeyset
  <2>2. ASSUME NEW ks \in Keyset, NEW b \in BOOLEAN, Origin(ks, MyId),
               Store(SetupByImageKey(ks, pkg, b))
        PROVE  KeysOfThisCall'
    <3>1. SetupByImageKey(ks, pkg, b) \in Keyset /\ Origin(SetupByImageKey(ks, pkg, b), MyId)
      BY <1>5, <2>2, KeyOperators, OperatorsKeepOrigin DEF ChooseKeyset, TypeInv, Origin
    <3> QED BY <1>5, <2>2, <3>1, StoreKeepsOrigin DEF ChooseKeyset, callVars
  <2>3. Origin(EmptyKeyset, MyId)
    BY DEF Origin, EmptyKeyset
  <2>4. MyKeyset # None => MyKeyset \in Keyset /\ Origin(MyKeyset, MyId)
    BY <1>5, MyOrigin, MyKeysetType DEF ChooseKeyset, TypeInv
  <2> QED BY <1>5, <2>1, <2>2, <2>3, <2>4, KeysetFacts DEF ChooseKeyset
<1>6. CASE ApplyOptions
  <2>1. MyKeyset \in Keyset /\ Origin(MyKeyset, MyId)
    BY <1>6, MyOrigin, MyKeysetType DEF ApplyOptions, TypeInv, Owned
  <2>2. WithOptions(MyKeyset) \in Keyset
    BY <2>1, OptionsOperator DEF TypeInv
  <2>3. Origin(WithOptions(MyKeyset), MyId)
    BY <2>1 DEF Origin, WithOptions, Keyset
  <2> QED BY <1>6, <2>2, <2>3, StoreKeepsOrigin DEF ApplyOptions, callVars
<1>7. CASE OpenOuter
  <2>1. MyKeyset \in Keyset /\ Origin(MyKeyset, MyId)
    BY <1>7, MyOrigin, MyKeysetType DEF OpenOuter, TypeInv, Owned
  <2>2. GeneratedKeys(MyKeyset, pkg) \in Keyset /\ Origin(GeneratedKeys(MyKeyset, pkg), MyId)
    BY <1>7, <2>1, KeyOperators, OperatorsKeepOrigin DEF OpenOuter, TypeInv, Origin
  <2>3. UNCHANGED registry \/ Store(GeneratedKeys(MyKeyset, pkg))
    BY <1>7 DEF OpenOuter, Store
  <2> QED BY <1>1, <1>7, <2>2, <2>3, StoreKeepsOrigin DEF OpenOuter, callVars
<1>8. CASE Finalize
  BY <1>8 DEF Finalize, KeysOfThisCall, NoKeysets
<1> QED
  BY <1>1, <1>2, <1>3, <1>4, <1>5, <1>6, <1>7, <1>8
  DEF Next, Step, vars, Begin, ReadContentId, InitCrypto, MapFile, LookupImage, OpenInner,
      Unwind, ReportEntry, EndWalk, ThrowInWalk, Caught, FreePkg

-----------------------------------------------------------------------------
(* How the keyset gets its key.  Chosen speaks of the package's keyset and *)
(* the present credentials only: steps that keep these and do not enter    *)
(* one of its points preserve it.                                          *)
LEMMA ChosenFrame ==
    ASSUME Chosen, UNCHANGED <<creds, pkg, registry>>,
           pc' \in {"ekc", "map", "keyset", "options", "outer"} => pc' = pc,
           pc' = "unwind" => why' # "key"
    PROVE  Chosen'
BY DEF Chosen, MyKeyset, MyId, EkcDecides, RightEkcNeeded, RightPasscodeOpens, RightEkcOpens

\* With the keyset found, and with the one pkg_alloc makes, a lone right EKC
\* gives the image key.
LEMMA EkcGivesKey ==
    ASSUME TypeInv, pc # "idle", EkcDecides,
           MyKeyset = [Alloc(Title[MyId]) EXCEPT !.seed = creds.seed]
    PROVE  /\ MyKeyset # None /\ ~HasKeyMaterial(MyKeyset) /\ ImageKeyOf(MyKeyset, pkg) = pkg
           /\ SetupByImageKey(MyKeyset, pkg, TRUE).pass = None
           /\ SetupByImageKey(MyKeyset, pkg, TRUE).image = pkg
<1>1. Alloc(Title[MyId]) \in Keyset /\ ~HasKeyMaterial(Alloc(Title[MyId]))
  BY KeysetFacts, MyKeysetType, PackagesAssumption
  DEF TypeInv, EkcDecides, Alloc, EmptyKeyset, HasKeyMaterial
<1>2. creds.seed \in Seeds /\ creds.seed = Attr[pkg].seed /\ creds.seed # None
  BY DEF EkcDecides, RightEkcNeeded, TypeInv, TypeOK
<1>3. /\ MyKeyset \in Keyset /\ MyKeyset.seed = creds.seed
      /\ MyKeyset.pass = None /\ MyKeyset.image = None /\ MyKeyset.enc = None
  BY <1>1, <1>2 DEF Keyset, HasKeyMaterial
<1>4. ImageKeyOf(MyKeyset, pkg) = pkg
  BY <1>2, <1>3 DEF ImageKeyOf, EkcDecides, RightEkcNeeded
<1>5. pkg \in Keys
  BY DEF TypeInv, Keys
<1>6. /\ SetupByImageKey(MyKeyset, pkg, TRUE).pass = None
      /\ SetupByImageKey(MyKeyset, pkg, TRUE).image = pkg
  BY <1>3, <1>4, <1>5 DEF SetupByImageKey, Keyset
<1> QED BY <1>3, <1>4, <1>6, KeysetFacts DEF HasKeyMaterial

LEMMA StepChosen == Inv /\ [Next]_vars => Chosen'
<1> SUFFICES ASSUME Inv, [Next]_vars PROVE Chosen'
  OBVIOUS
<1> USE DEF Inv
<1>1. CASE UNCHANGED vars
  BY <1>1, ChosenFrame DEF vars, Chosen, RightPasscodeOpens, RightEkcOpens, MyId, RightEkcNeeded, EkcDecides, MyKeyset
<1>2. CASE SetCredentials \/ Begin
  BY <1>2 DEF SetCredentials, Begin, Chosen, RightPasscodeOpens, RightEkcOpens
<1>3. CASE ReadContentId \/ InitCrypto
  BY <1>3, ChosenFrame DEF ReadContentId, InitCrypto, FailAtOnce, callVars
<1>4. CASE InitKeymgr
  <2>1. CASE pc' = "ekc"
    <3>1. registry' = Title
      BY <1>4, <2>1, PackagesAssumption DEF InitKeymgr, Throw, Layers, NoKeysets
    <3> QED BY <2>1, <3>1 DEF Chosen, RightPasscodeOpens, RightEkcOpens
  <2>2. CASE pc' # "ekc"
    BY <1>4, <2>2 DEF InitKeymgr, Throw, Chosen, RightPasscodeOpens, RightEkcOpens
  <2> QED BY <2>1, <2>2
<1>5. CASE RegisterEkc
  <2>1. MyId \in Ids /\ MyId' = MyId /\ creds' = creds /\ pc' = "map" /\ registry = Title
    BY <1>5, PackagesAssumption DEF RegisterEkc, TypeInv, MyId, callVars, Chosen
  <2>2. MyKeyset' = IF creds.seed = None THEN Title[MyId]
                    ELSE [Alloc(Title[MyId]) EXCEPT !.seed = creds.seed]
    BY <1>5, <2>1 DEF RegisterEkc, MyKeyset, Store, TypeInv, TypeOK
  <2> QED BY <2>1, <2>2 DEF Chosen, RightPasscodeOpens, RightEkcOpens
<1>6. CASE MapFile
  <2>1. UNCHANGED <<creds, registry, pkg>> /\ pc' \in {"keyset", "unwind"}
        /\ (pc' = "unwind" => why' = "io")
    BY <1>6 DEF MapFile, callVars
  <2>2. MyKeyset' = MyKeyset /\ MyId' = MyId
    BY <2>1 DEF MyKeyset, MyId
  <2> QED BY <1>6, <2>1, <2>2 DEF MapFile, Chosen, RightPasscodeOpens, RightEkcOpens
<1>7. CASE ChooseKeyset
  <2>1. UNCHANGED <<creds, pkg>> /\ MyId' = MyId /\ pc = "keyset" /\ pc' \in {"options", "unwind"}
        /\ pkg \in Packages
    BY <1>7 DEF ChooseKeyset, callVars, MyId, TypeInv
  <2>2. EkcDecides' = EkcDecides
    BY <2>1 DEF EkcDecides, RightEkcNeeded
  <2>3. ASSUME EkcDecides
        PROVE  pc' = "options" /\ MyKeyset'.pass = None /\ MyKeyset'.image = pkg
    <3>1. MyKeyset = [Alloc(Title[MyId]) EXCEPT !.seed = creds.seed]
      BY <2>1, <2>3 DEF Chosen, EkcDecides, RightEkcNeeded
    <3>2. /\ MyKeyset # None /\ ~HasKeyMaterial(MyKeyset) /\ ImageKeyOf(MyKeyset, pkg) = pkg
          /\ SetupByImageKey(MyKeyset, pkg, TRUE).pass = None
          /\ SetupByImageKey(MyKeyset, pkg, TRUE).image = pkg
      BY <2>1, <2>3, <3>1, EkcGivesKey
    <3>3. pc' = "options" /\ Store(SetupByImageKey(MyKeyset, pkg, TRUE))
      BY <1>7, <2>1, <3>2, SetsAssumption DEF ChooseKeyset, Keys
    <3>4. MyKeyset' = SetupByImageKey(MyKeyset, pkg, TRUE)
      BY <2>1, <3>3, PackagesAssumption DEF Store, MyKeyset, MyId, TypeInv, TypeOK
    <3> QED BY <3>2, <3>3, <3>4
  <2>4. ASSUME pc' = "unwind", creds.seed = None
        PROVE  Title[MyId] # None /\ ~HasKeyMaterial(Title[MyId])
    BY <1>7, <2>1, <2>4 DEF ChooseKeyset, Chosen
  <2>5. RightPasscodeOpens'
    BY <2>1, <2>4 DEF RightPasscodeOpens
  <2>6. RightEkcOpens'
    BY <2>1, <2>2, <2>3 DEF RightEkcOpens, EkcDecides
  <2> QED BY <2>1, <2>2, <2>3, <2>5, <2>6 DEF Chosen
<1>8. CASE ApplyOptions
  <2>1. /\ UNCHANGED <<creds, pkg>> /\ MyId' = MyId /\ pc = "options" /\ pc' = "outer"
        /\ MyKeyset \in Keyset /\ MyKeyset' = WithOptions(MyKeyset)
    BY <1>8, PackagesAssumption, MyKeysetType
    DEF ApplyOptions, callVars, MyId, TypeInv, TypeOK, Owned, Store, MyKeyset
  <2>2. EkcDecides' = EkcDecides
    BY <2>1 DEF EkcDecides, RightEkcNeeded
  <2>3. creds.pass # None => MyKeyset'.pass = creds.pass
    BY <2>1 DEF WithOptions, Keyset
  <2>4. EkcDecides => WithOptions(MyKeyset) = MyKeyset
    BY DEF EkcDecides, RightEkcNeeded, WithOptions
  <2> QED BY <2>1, <2>2, <2>3, <2>4 DEF Chosen, RightPasscodeOpens, RightEkcOpens
<1>9. CASE OpenOuter
  <2>1. /\ UNCHANGED <<creds, pkg>> /\ MyId' = MyId /\ pc = "outer" /\ pc' \in {"image", "unwind"}
        /\ (why' = "key" /\ pc' = "unwind" => FinalKey(MyKeyset, pkg) # pkg)
        /\ MyKeyset \in Keyset /\ pkg \in Packages
    BY <1>9, MyKeysetType DEF OpenOuter, GiveUp, callVars, MyId, TypeInv, Owned
  <2>2. creds.pass # None /\ creds.pass = Attr[pkg].pass => FinalKey(MyKeyset, pkg) = pkg
    BY <2>1 DEF Chosen, FinalKey, DerivedKey
  <2>3. EkcDecides => FinalKey(MyKeyset, pkg) = pkg
    BY <2>1, SetsAssumption DEF Chosen, FinalKey
  <2>4. EkcDecides' = EkcDecides
    BY <2>1 DEF EkcDecides, RightEkcNeeded
  <2>5. RightPasscodeOpens'
    BY <2>1, <2>2 DEF RightPasscodeOpens
  <2>6. RightEkcOpens'
    BY <2>1, <2>3, <2>4 DEF RightEkcOpens, EkcDecides
  <2> QED BY <2>1, <2>5, <2>6 DEF Chosen
<1>10. CASE LookupImage \/ OpenInner
  BY <1>10, ChosenFrame DEF LookupImage, OpenInner, GiveUp, callVars
<1>11. CASE Unwind \/ ReportEntry \/ EndWalk \/ ThrowInWalk \/ Caught \/ FreePkg
  BY <1>11, ChosenFrame DEF Unwind, ReportEntry, EndWalk, ThrowInWalk, Throw, Caught, FreePkg, callVars
<1>12. CASE Finalize
  BY <1>12 DEF Finalize, Chosen, RightPasscodeOpens, RightEkcOpens
<1> QED
  BY <1>1, <1>2, <1>3, <1>4, <1>5, <1>6, <1>7, <1>8, <1>9, <1>10, <1>11, <1>12 DEF Next, Step

-----------------------------------------------------------------------------
(* The inductive invariant.                                                *)
LEMMA InitInv == Init => Inv
<1> SUFFICES ASSUME Init PROVE Inv
  OBVIOUS
<1>1. TypeInv
  BY InitType
<1>2. Jump /\ Layers /\ Owned /\ Explained
  BY DEF Init, Jump, Layers, Owned, Explained, Opening, Closing
<1>3. KeysOfThisCall
  BY DEF Init, KeysOfThisCall, NoKeysets
<1>4. Chosen
  BY DEF Init, Chosen, RightPasscodeOpens, RightEkcOpens
<1> QED BY <1>1, <1>2, <1>3, <1>4 DEF Inv

THEOREM Invariant == Spec => []Inv
<1>1. Inv /\ [Next]_vars => Inv'
  BY StepType, StepJump, StepLayers, StepOwned, StepExplained, StepKeys, StepChosen DEF Inv
<1> QED BY InitInv, <1>1, PTL DEF Spec

(* Every variable keeps its type, for every set of packages and keys.      *)
THEOREM TypeCorrect == Spec => []TypeOK
<1>1. Inv => TypeOK
  BY DEF Inv, TypeInv
<1> QED BY Invariant, <1>1, PTL

(* error() never finds the jump unarmed (pkg_ios_abort's abort() is never  *)
(* reached from the engine).                                               *)
THEOREM ErrorsCaught == Spec => []ErrorsAreCaught
<1>1. Inv => ErrorsAreCaught
  BY DEF Inv, Jump, ErrorsAreCaught
<1> QED BY Invariant, <1>1, PTL

(* Every path out of a call, the jump included, leaves the process clean.  *)
THEOREM CallsLeaveNothing == Spec => []CleanBetweenCalls
<1>1. Inv => CleanBetweenCalls
  BY DEF Inv, Jump, Layers, Owned, CleanBetweenCalls
<1> QED BY Invariant, <1>1, PTL

(* Open images always have their keyset and the crypto layer.              *)
THEOREM ImagesHaveKeys == Spec => []ImagesOutlivedByKeys
<1>1. Inv => ImagesOutlivedByKeys
  BY DEF Inv, TypeInv, TypeOK, Layers, Owned, Jump, Opening, Closing, ImagesOutlivedByKeys
<1> QED BY Invariant, <1>1, PTL

(* A call that failed has explained itself to its own thread.              *)
THEOREM FailuresExplained == Spec => []FailureIsExplained
<1>1. Inv => FailureIsExplained
  BY DEF Inv, Explained, FailureIsExplained
<1> QED BY Invariant, <1>1, PTL

(* No passcode or seed outlives the call it was given to.                  *)
THEOREM NoKeyOutlivesItsCall == Spec => []KeysOfThisCall
<1>1. Inv => KeysOfThisCall
  BY DEF Inv
<1> QED BY Invariant, <1>1, PTL

(* A right passcode is never overridden; a right EKC neither, unless       *)
(* config.ini has a key for the title.                                     *)
THEOREM RightKeysDecide == Spec => []RightKeysOpen
<1>1. Inv => RightKeysOpen
  BY DEF Inv, Chosen, RightKeysOpen
<1> QED BY Invariant, <1>1, PTL

-----------------------------------------------------------------------------
(* The engine implements EngineSpec: every step is one of its steps or     *)
(* none.  (That calls return is checked by TLC.)                           *)
LEMMA StepImplements == Inv /\ [Next]_vars => [Bridge!SpecNext]_(Bridge!specVars)
<1> SUFFICES ASSUME Inv, [Next]_vars PROVE [Bridge!SpecNext]_(Bridge!specVars)
  OBVIOUS
<1> USE DEF Inv, Bridge!specVars, Phase, Closing
<1>0. thread \in Threads /\ told \in [Threads -> BOOLEAN]
  BY DEF TypeInv, TypeOK
<1>1. CASE SetCredentials
  <2>1. /\ Phase = "idle" /\ Phase' = "idle" /\ seen' = 0
        /\ \/ ret' = "ok" /\ told'[thread'] = FALSE
           \/ ret' = "error" /\ told'[thread'] = TRUE
    BY <1>1 DEF SetCredentials, NoneTold
  <2>2. Bridge!Configure
    BY <2>1 DEF Bridge!Configure
  <2> QED BY <2>2 DEF Bridge!SpecNext
<1>2. CASE Begin
  <2>1. thread' \in Threads /\ told' = NoneTold
    BY <1>2 DEF Begin
  <2>2. Bridge!Call
    BY <1>2, <2>1 DEF Begin, NoneTold, Bridge!Call
  <2> QED BY <2>2 DEF Bridge!SpecNext
<1>3. ASSUME pc \in Opening, pc' \in Opening, UNCHANGED <<thread, told, seen, ret>>
      PROVE  UNCHANGED Bridge!specVars
  BY <1>3 DEF Opening
<1>4. ASSUME FailAtOnce, pc \in Opening, UNCHANGED <<thread, seen>>
      PROVE  Bridge!Fail
  BY <1>4, <1>0 DEF FailAtOnce, Explain, Opening, Bridge!Fail
<1>5. CASE ReadContentId \/ InitCrypto
  BY <1>3, <1>4, <1>5 DEF ReadContentId, InitCrypto, callVars, Opening, Bridge!SpecNext
<1>6. CASE InitKeymgr
  <2>1. heap = {} /\ heap' = {}
    BY <1>6 DEF InitKeymgr, Owned
  <2> QED BY <1>6, <2>1 DEF InitKeymgr, Throw, Jump, callVars
<1>7. CASE RegisterEkc \/ MapFile \/ ChooseKeyset \/ ApplyOptions \/ OpenOuter \/ LookupImage
  BY <1>3, <1>7
  DEF RegisterEkc, MapFile, ChooseKeyset, ApplyOptions, OpenOuter, LookupImage, GiveUp, callVars, Opening
<1>8. CASE OpenInner
  <2>1. CASE pc' = "walk"
    BY <1>8, <2>1 DEF OpenInner, GiveUp, callVars, Bridge!SpecNext, Bridge!Opened
  <2>2. CASE pc' = "unwind"
    BY <1>3, <1>8, <2>2 DEF OpenInner, GiveUp, callVars, Opening
  <2> QED BY <1>8, <2>1, <2>2 DEF OpenInner, GiveUp
<1>9. CASE Unwind
  BY <1>0, <1>9 DEF Unwind, Explain, callVars, Bridge!SpecNext, Bridge!Fail
<1>10. CASE ReportEntry
  BY <1>10 DEF ReportEntry, callVars, Bridge!SpecNext, Bridge!Report
<1>11. CASE EndWalk
  <2>1. CASE UNCHANGED <<told, ret>>
    BY <1>11, <2>1 DEF EndWalk, callVars, Bridge!SpecNext, Bridge!Succeed
  <2>2. CASE Explain /\ ret' = "error"
    BY <1>0, <1>11, <2>2 DEF EndWalk, Explain, callVars, Bridge!SpecNext, Bridge!Fail
  <2> QED BY <1>11, <2>1, <2>2 DEF EndWalk
<1>12. CASE ThrowInWalk
  BY <1>0, <1>12 DEF ThrowInWalk, Throw, Jump, Owned, callVars
<1>13. CASE Caught
  BY <1>0, <1>13 DEF Caught, Explain, callVars, Bridge!SpecNext, Bridge!Fail
<1>14. CASE FreePkg
  BY <1>14 DEF FreePkg, callVars
<1>15. CASE Finalize
  BY <1>15 DEF Finalize, callVars, Bridge!SpecNext, Bridge!Return
<1>16. CASE UNCHANGED vars
  BY <1>16 DEF vars
<1> QED
  BY <1>1, <1>2, <1>5, <1>6, <1>7, <1>8, <1>9, <1>10, <1>11, <1>12, <1>13, <1>14, <1>15, <1>16
  DEF Next, Step

THEOREM EngineImplementsBridge == Spec => Bridge!SpecInit /\ [][Bridge!SpecNext]_(Bridge!specVars)
<1>1. Init => Bridge!SpecInit
  BY DEF Init, Bridge!SpecInit, Phase, NoneTold
<1> QED BY <1>1, Invariant, StepImplements, PTL DEF Spec
=============================================================================
