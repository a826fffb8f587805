------------------------------ MODULE PkgEngine ------------------------------
(***************************************************************************)
(* One process's sequence of calls into the C bridge (pkg_ios_wrapper.c):  *)
(* how a call arms error()'s longjmp, brings the crypto layer and the key  *)
(* registry up, chooses the keyset that opens the package, walks the image *)
(* and takes everything down again, on every path out.                     *)
(*                                                                         *)
(* Calls never overlap: ExtractionManager shows that of the application    *)
(* (ExclusiveEngine).  They do come from different threads, and the abort  *)
(* state and the last error are per thread.                                *)
(*                                                                         *)
(* Image keys are named by the package they decrypt; Garbage decrypts      *)
(* none.  Memory is assumed to suffice for the small allocations whose     *)
(* failure the code handles by doing nothing (set_error, the EKC keyset).  *)
(* Of what the code allocates, the objects that pkg_free would free are    *)
(* kept (heap), to say when they may be used.  Memory that no pointer      *)
(* reaches any more is not: the code loses small buffers on ordinary paths *)
(* (keymgr_initialize, failing pfs_alloc and pfs_get_file_ex), and more    *)
(* where error() jumps.                                                    *)
(***************************************************************************)
EXTENDS Naturals, FiniteSets

CONSTANTS Packages, Ids, Threads,
          Passcodes, Zeros,      \* Zeros: thirty-two '0' characters
          Seeds,                 \* content key seeds (EKCs)
          None, Garbage,
          IdOf,                  \* content id of a package
          Attr,                  \* what a package needs, see PackageAttr
          Title,                 \* config.ini: title section of an id, or None
          MaxEntries             \* bound: entries reported per call

Keys == Packages \cup {Garbage}
Keyset == [pass : Passcodes \cup {None}, image : Keys \cup {None},
           seed : Seeds \cup {None}, enc : Keys \cup {None}]
PackageAttr == [finalized : BOOLEAN, type : {"GD", "AC", "other"},
                protected : BOOLEAN,             \* outer PFS signed or encrypted
                ekpfs : BOOLEAN,                 \* config.ini's RSA and
                                                 \* obfuscation keys open its
                                                 \* image key entry
                pass : Passcodes \cup {None}, seed : Seeds \cup {None}]

ASSUME SetsAssumption == /\ None \notin Packages \cup Passcodes \cup Seeds
                         /\ None \notin Keyset
                         /\ Garbage \notin Packages \cup {None}
                         /\ Zeros \in Passcodes
ASSUME PackagesAssumption == /\ IdOf \in [Packages -> Ids]
                             /\ Attr \in [Packages -> PackageAttr]
                             /\ Title \in [Ids -> Keyset \cup {None}]
ASSUME BoundsAssumption == MaxEntries \in Nat
ASSUME ThreadsAssumption == Threads # {}

Kinds == {"list", "list_ex", "extract"}
Resources == {"pkg", "map", "hdr", "outer", "image", "inner"}
EmptyKeyset == [pass |-> None, image |-> None, seed |-> None, enc |-> None]
NoCreds == [pass |-> None, seed |-> None]
NoKeysets == [id \in Ids |-> None]
NoneTold == [t \in Threads |-> FALSE]

VARIABLES
    creds,      \* s_user_passcode, s_user_ekc
    thread,     \* the thread of the present or last call
    kind, pkg,  \* its entry point and package
    pc,
    armed,      \* g_pkg_abort_active, per thread
    told,       \* history, per thread: last_error is of the present or last call
    crypto,     \* contexts of crypto.c: "down", "half" (seeding failed) or "up"
    registry,   \* s_title_keysets
    heap,       \* what the pkg under construction or in use owns, as long as a
                \* pointer reaches it
    why,        \* history: why pkg_alloc or the walk gave up
    seen,       \* entries reported through the callback
    ret         \* result of the present or last call

vars == <<creds, thread, kind, pkg, pc, armed, told, crypto, registry, heap,
          why, seen, ret>>
callVars == <<thread, kind, pkg>>

Opening == {"id", "crypto", "keymgr", "ekc", "map", "keyset", "options",
            "outer", "image", "inner", "unwind"}
Closing == {"free", "finalize"}

TypeOK ==
    /\ creds \in [pass : Passcodes \cup {None}, seed : Seeds \cup {None}]
    /\ thread \in Threads /\ kind \in Kinds /\ pkg \in Packages \cup {None}
    /\ pc \in {"idle", "walk", "caught", "dead"} \cup Opening \cup Closing
    /\ armed \in [Threads -> BOOLEAN]
    /\ told \in [Threads -> BOOLEAN]
    /\ crypto \in {"down", "half", "up"}
    /\ registry \in [Ids -> Keyset \cup {None}]
    /\ heap \subseteq Resources
    /\ why \in {"nothing", "io", "config", "key", "data", "entry"}
    /\ seen \in 0..MaxEntries
    /\ ret \in {"ok", "error"}

Init ==
    /\ creds = NoCreds /\ thread \in Threads
    /\ kind = "list" /\ pkg = None /\ pc = "idle"
    /\ armed = [t \in Threads |-> FALSE]
    /\ told = NoneTold
    /\ crypto = "down" /\ registry = NoKeysets
    /\ heap = {} /\ why = "nothing" /\ seen = 0 /\ ret = "ok"
-----------------------------------------------------------------------------
(* pkg_ios_set_credentials forgets both values before it checks the new    *)
(* ones: a malformed value leaves none set, whatever the other one is.     *)
SetCredentials ==
    /\ pc = "idle"
    /\ thread' \in Threads /\ seen' = 0
    /\ \/ /\ \E p \in Passcodes \cup {None}, s \in Seeds \cup {None} :
               creds' = [pass |-> p, seed |-> s]
          /\ ret' = "ok" /\ told' = NoneTold
       \/ /\ creds' = NoCreds
          /\ ret' = "error" /\ told' = [NoneTold EXCEPT ![thread'] = TRUE]
    /\ UNCHANGED <<kind, pkg, pc, armed, crypto, registry, heap, why>>

\* One of the two copies of the entry code forgets to arm the jump.
MutantBegin ==
    /\ pc = "idle"
    /\ \E t \in Threads, k \in Kinds, p \in Packages :
          /\ thread' = t /\ kind' = k /\ pkg' = p
          /\ armed' = IF k = "list_ex" THEN armed ELSE [armed EXCEPT ![t] = TRUE]
    /\ ret' = "ok" /\ seen' = 0 /\ why' = "nothing" /\ told' = NoneTold
    /\ pc' = "id"
    /\ UNCHANGED <<creds, crypto, registry, heap>>

(* Entry of pkg_ios_run and pkg_ios_list_files_ex, up to setjmp.           *)
Begin ==
    /\ pc = "idle"
    /\ \E t \in Threads, k \in Kinds, p \in Packages :
          /\ thread' = t /\ kind' = k /\ pkg' = p
          /\ armed' = [armed EXCEPT ![t] = TRUE]
    /\ ret' = "ok" /\ seen' = 0 /\ why' = "nothing" /\ told' = NoneTold
    /\ pc' = "id"
    /\ UNCHANGED <<creds, crypto, registry, heap>>

Explain == told' = [told EXCEPT ![thread] = TRUE]
Disarm == armed' = [armed EXCEPT ![thread] = FALSE]

\* set_error forgotten on an early return.
MutantFailAtOnce == UNCHANGED told /\ Disarm /\ ret' = "error" /\ pc' = "idle"

(* Returns of pkg_open that have nothing to take down.                     *)
FailAtOnce ==
    /\ Explain /\ Disarm
    /\ ret' = "error" /\ pc' = "idle"

ReadContentId ==
    /\ pc = "id"
    /\ \/ pc' = "crypto" /\ UNCHANGED <<armed, told, ret, why>>
       \/ FailAtOnce /\ why' = "io"
    /\ UNCHANGED <<creds, callVars, crypto, registry, heap, seen>>

(* A failed crypto_initialize is not followed by crypto_finalize, and the  *)
(* next one initializes the contexts afresh: what they held is lost.       *)
InitCrypto ==
    /\ pc = "crypto"
    /\ \/ crypto' = "up" /\ pc' = "keymgr" /\ UNCHANGED <<armed, told, ret, why>>
       \/ crypto' = "half" /\ FailAtOnce /\ why' = "io"
    /\ UNCHANGED <<creds, callVars, registry, heap, seen>>

(* error(): longjmp when this thread is armed, abort() when it is not.     *)
Throw == pc' = IF armed[thread] THEN "caught" ELSE "dead"

(* config.ini's sections enter the registry one by one; an unreadable or   *)
(* unparsable file raises error() with those parsed so far in it.          *)
InitKeymgr ==
    /\ pc = "keymgr"
    /\ \/ /\ registry' = [id \in Ids |-> IF Title[id] # None THEN Title[id] ELSE registry[id]]
          /\ pc' = "ekc" /\ UNCHANGED why
       \/ /\ \E parsed \in SUBSET {id \in Ids : Title[id] # None} :
               registry' = [id \in Ids |-> IF id \in parsed THEN Title[id] ELSE registry[id]]
          /\ Throw /\ why' = "config"
    /\ UNCHANGED <<creds, callVars, armed, told, crypto, heap, seen, ret>>

MyId == IdOf[pkg]
MyKeyset == registry[MyId]
Store(ks) == registry' = [registry EXCEPT ![MyId] = ks]
Alloc(ks) == IF ks = None THEN EmptyKeyset ELSE ks

(* The user's EKC goes into the title's keyset, a new one or config.ini's. *)
RegisterEkc ==
    /\ pc = "ekc" /\ pc' = "map"
    /\ IF creds.seed = None
       THEN UNCHANGED registry
       ELSE Store([Alloc(MyKeyset) EXCEPT !.seed = creds.seed])
    /\ UNCHANGED <<creds, callVars, armed, told, crypto, heap, why, seen, ret>>

(* pkg_alloc up to the header: a large file has its header in a buffer of  *)
(* its own, a small one in the mapping.                                    *)
MapFile ==
    /\ pc = "map"
    /\ \/ pc' = "keyset" /\ heap' \in {{"pkg", "map"}, {"pkg", "map", "hdr"}} /\ UNCHANGED why
       \/ /\ pc' = "unwind" /\ why' = "io"
          /\ heap' \in {{}, {"pkg"}, {"pkg", "map"}, {"pkg", "map", "hdr"}}
    /\ UNCHANGED <<creds, callVars, armed, told, crypto, registry, seen, ret>>
-----------------------------------------------------------------------------
(* setup_keyset_by_image_key: the image key entry, opened with the RSA     *)
(* keys and, for a finalized package, the key its content type asks for.   *)
ImageKeyOf(ks, p) ==
    LET a == Attr[p] IN
    IF ~a.ekpfs \/ (a.finalized /\ a.type = "other") THEN None
    ELSE IF ~a.finalized \/ a.type = "AC" THEN p
    ELSE IF ks.seed = None THEN None
    ELSE IF ks.seed = a.seed THEN p ELSE Garbage

SetupByImageKey(ks, p, onlyNonExistent) ==
    IF onlyNonExistent /\ ks.image # None THEN ks
    ELSE [ks EXCEPT !.image = ImageKeyOf(ks, p)]

HasKeyMaterial(ks) == ks.pass # None \/ ks.image # None \/ ks.enc # None

(* pkg_alloc's choice of keyset.  For one it allocates itself the image    *)
(* key is optional; for one it finds without any key it is not.            *)
ChooseKeyset ==
    /\ pc = "keyset"
    /\ \/ /\ MyKeyset = None
          /\ Store(SetupByImageKey(EmptyKeyset, pkg, FALSE))
          /\ pc' = "options" /\ UNCHANGED why
       \/ /\ MyKeyset # None /\ HasKeyMaterial(MyKeyset)
          /\ pc' = "options" /\ UNCHANGED <<registry, why>>
       \/ /\ MyKeyset # None /\ ~HasKeyMaterial(MyKeyset)
          /\ IF ImageKeyOf(MyKeyset, pkg) = None
             THEN pc' = "unwind" /\ why' = "key" /\ UNCHANGED registry
             ELSE pc' = "options" /\ Store(SetupByImageKey(MyKeyset, pkg, TRUE)) /\ UNCHANGED why
    /\ UNCHANGED <<creds, callVars, armed, told, crypto, heap, seen, ret>>

\* Mutant: the default passcode comes before the user's.
MutantDefaultFirst(ks) ==
    IF creds.seed = None THEN [ks EXCEPT !.pass = Zeros]
    ELSE IF creds.pass # None THEN [ks EXCEPT !.pass = creds.pass] ELSE ks

(* ios_set_pfs_options, which does nothing in pkg_alloc's first call of it *)
(* (no keyset yet): the user's passcode, else zeros unless there is an EKC.*)
WithOptions(ks) ==
    IF creds.pass # None THEN [ks EXCEPT !.pass = creds.pass]
    ELSE IF creds.seed = None THEN [ks EXCEPT !.pass = Zeros]
    ELSE ks

ApplyOptions ==
    /\ pc = "options" /\ pc' = "outer"
    /\ Store(WithOptions(MyKeyset))
    /\ UNCHANGED <<creds, callVars, armed, told, crypto, heap, why, seen, ret>>

(* keymgr_generate_keys_for_title_keyset: a passcode makes the image key,  *)
(* over one that is already there.  pfs_alloc tries both variants of the   *)
(* derivation, so a right passcode is right under either.                  *)
DerivedKey(p, pass) == IF Attr[p].pass = pass THEN p ELSE Garbage
FinalKey(ks, p) ==
    IF ks.pass # None THEN DerivedKey(p, ks.pass)
    ELSE IF ks.image # None THEN ks.image
    ELSE ks.enc
GeneratedKeys(ks, p) ==
    LET key == FinalKey(ks, p) IN
    [ks EXCEPT !.enc = key, !.image = IF ks.pass # None THEN key ELSE ks.image]

\* A wrong key asks the options callback again.
MutantGiveUp(reason) ==
    IF reason = "key" THEN pc' = "options" /\ UNCHANGED why
    ELSE pc' = "unwind" /\ why' = reason

GiveUp(reason) == pc' = "unwind" /\ why' = reason

(* pfs_alloc of the outer image: a wrong key shows in the header hash or   *)
(* in the super root; a right one still meets damaged data.                *)
OpenOuter ==
    /\ pc = "outer"
    /\ registry' = IF Attr[pkg].protected /\ FinalKey(MyKeyset, pkg) # None
                   THEN [registry EXCEPT ![MyId] = GeneratedKeys(MyKeyset, pkg)]
                   ELSE registry
    /\ \/ /\ Attr[pkg].protected => FinalKey(MyKeyset, pkg) = pkg
          /\ heap' = heap \cup {"outer"} /\ pc' = "image" /\ UNCHANGED why
       \/ /\ Attr[pkg].protected /\ FinalKey(MyKeyset, pkg) # pkg
          /\ GiveUp("key") /\ UNCHANGED heap
       \/ GiveUp("data") /\ UNCHANGED heap
    /\ UNCHANGED <<creds, callVars, armed, told, crypto, seen, ret>>

LookupImage ==
    /\ pc = "image"
    /\ \/ heap' = heap \cup {"image"} /\ pc' = "inner" /\ UNCHANGED why
       \/ GiveUp("data") /\ UNCHANGED heap
    /\ UNCHANGED <<creds, callVars, armed, told, crypto, registry, seen, ret>>

OpenInner ==
    /\ pc = "inner"
    /\ \/ heap' = heap \cup {"inner"} /\ pc' = "walk" /\ UNCHANGED why
       \/ GiveUp("data") /\ UNCHANGED heap
    /\ UNCHANGED <<creds, callVars, armed, told, crypto, registry, seen, ret>>

\* set_error forgotten when pkg_alloc fails.
MutantUnwind ==
    /\ pc = "unwind"
    /\ heap' = {} /\ ret' = "error" /\ pc' = "finalize"
    /\ UNCHANGED <<creds, callVars, armed, told, crypto, registry, why, seen>>

(* pkg_alloc's error label, then pkg_open's.                               *)
Unwind ==
    /\ pc = "unwind"
    /\ heap' = {} /\ Explain /\ ret' = "error" /\ pc' = "finalize"
    /\ UNCHANGED <<creds, callVars, armed, crypto, registry, why, seen>>
-----------------------------------------------------------------------------
(* The walk reports an entry through the callback.                         *)
ReportEntry ==
    /\ pc = "walk" /\ seen < MaxEntries
    /\ seen' = seen + 1
    /\ UNCHANGED <<creds, callVars, pc, armed, told, crypto, registry, heap, why, ret>>

\* keymgr_finalize before pkg_free.
MutantEndWalk ==
    /\ pc = "walk" /\ pc' = "free" /\ registry' = NoKeysets
    /\ UNCHANGED <<creds, callVars, armed, told, crypto, heap, why, seen, ret>>

(* The walks fail as a whole only when the root directory cannot be read;  *)
(* whatever happens below it, they return success.                         *)
EndWalk ==
    /\ pc = "walk" /\ pc' = "free"
    /\ \/ UNCHANGED <<told, ret, why>>
       \/ seen = 0 /\ Explain /\ ret' = "error" /\ why' = "data"
    /\ UNCHANGED <<creds, callVars, armed, crypto, registry, heap, seen>>

(* pfs_unpack_cb: a file that cannot be unpacked raises error(), also when *)
(* only listing.  list_ex walks with a callback that raises none.          *)
ThrowInWalk ==
    /\ pc = "walk" /\ kind # "list_ex"
    /\ Throw /\ why' = "entry"
    /\ UNCHANGED <<creds, callVars, armed, told, crypto, registry, heap, seen, ret>>

\* The setjmp branch returns without finalizing the key manager.
MutantCaught ==
    /\ pc = "caught"
    /\ Explain /\ Disarm /\ ret' = "error" /\ pc' = "idle" /\ heap' = {}
    /\ crypto' = "down"
    /\ UNCHANGED <<creds, callVars, registry, why, seen>>

(* The setjmp branch.  pkg is a local written between setjmp and longjmp   *)
(* and not volatile: it reads as the package, which is freed, or as the    *)
(* NULL it had, and no pointer reaches the package any more.               *)
Caught ==
    /\ pc = "caught"
    /\ Explain /\ ret' = "error" /\ pc' = "finalize" /\ heap' = {}
    /\ UNCHANGED <<creds, callVars, armed, crypto, registry, why, seen>>

FreePkg ==
    /\ pc = "free" /\ heap' = {} /\ pc' = "finalize"
    /\ UNCHANGED <<creds, callVars, armed, told, crypto, registry, why, seen, ret>>

(* keymgr_finalize, crypto_finalize, disarm, return.                       *)
Finalize ==
    /\ pc = "finalize" /\ pc' = "idle"
    /\ registry' = NoKeysets /\ crypto' = "down" /\ Disarm
    /\ UNCHANGED <<creds, callVars, told, heap, why, seen, ret>>
-----------------------------------------------------------------------------
Step == \/ ReadContentId \/ InitCrypto \/ InitKeymgr \/ RegisterEkc \/ MapFile
        \/ ChooseKeyset \/ ApplyOptions \/ OpenOuter \/ LookupImage \/ OpenInner
        \/ Unwind \/ ReportEntry \/ EndWalk \/ ThrowInWalk \/ Caught \/ FreePkg
        \/ Finalize

Next == SetCredentials \/ Begin \/ Step

Spec == Init /\ [][Next]_vars

(* A call runs to its end once begun: it is straight-line C on one thread. *)
FairSpec == Spec /\ WF_vars(Step)
-----------------------------------------------------------------------------
(* error() finds a longjmp target whenever the engine raises it: the       *)
(* process is never aborted (util_ios.c error, pkg_ios_abort).             *)
ErrorsAreCaught == pc # "dead"

(* Between calls nothing of the last one is left that a later one could    *)
(* use: no keyset, no package that a pointer reaches, no armed jump (a     *)
(* later error() would jump into a dead frame), no crypto context but a    *)
(* half-built one - whichever way the call went.                           *)
CleanBetweenCalls ==
    pc = "idle" => /\ registry = NoKeysets /\ heap = {} /\ crypto # "up"
                   /\ \A t \in Threads : ~armed[t]

(* An open image keeps a pointer to its keyset, and its contexts need the  *)
(* crypto layer: neither may go before it (order of pkg_free,              *)
(* keymgr_finalize, crypto_finalize).                                      *)
ImagesOutlivedByKeys ==
    heap \cap {"outer", "inner"} # {} => MyKeyset # None /\ crypto = "up"

(* A call that returns -1 has left the description of this failure, on the *)
(* thread that made it, for pkg_ios_last_error.                            *)
FailureIsExplained == pc = "idle" /\ ret = "error" => told[thread]

(* No key of an earlier call is ever used: every passcode and seed in the  *)
(* registry is config.ini's, the present credentials' or the zeros.        *)
KeysOfThisCall ==
    \A id \in Ids : registry[id] # None =>
        LET conf == IF Title[id] = None THEN EmptyKeyset ELSE Title[id] IN
        /\ registry[id].pass \in {None, conf.pass, creds.pass, Zeros}
        /\ registry[id].seed \in {None, conf.seed, creds.seed}

(* pkg_alloc cannot fail for the lack of a key when the user has given the *)
(* package's passcode and no EKC, and config.ini has no keyless section    *)
(* for the title: no key found elsewhere overrides the passcode.           *)
RightPasscodeOpens ==
    pc = "unwind" /\ why = "key" =>
        \/ creds.pass = None \/ creds.pass # Attr[pkg].pass
        \/ creds.seed # None
        \/ Title[MyId] # None /\ ~HasKeyMaterial(Title[MyId])

(* Nor when a finalized game-data package's own EKC is given alone and     *)
(* config.ini has no keys of another kind for the title: the default       *)
(* passcode stays out of the way (comment at pkg_ios_wrapper.c:187).       *)
RightEkcNeeded(p) == /\ Attr[p].finalized /\ Attr[p].type = "GD" /\ Attr[p].ekpfs
                     /\ creds.pass = None /\ creds.seed # None
                     /\ creds.seed = Attr[p].seed
RightEkcOpens ==
    pc = "unwind" /\ why = "key" /\ RightEkcNeeded(pkg) =>
        Title[MyId] # None /\ HasKeyMaterial(Title[MyId])

(* The two together: of all the sources of a key, none keeps the right one *)
(* from being tried but config.ini's.                                      *)
RightKeysOpen == RightPasscodeOpens /\ RightEkcOpens

(* Every call returns.                                                     *)
CallsReturn == pc # "idle" ~> pc = "idle"

(* The engine implements EngineSpec: a call is opening until pkg_open      *)
(* returns, open while it walks, closing while it takes things down.       *)
Phase == IF pc = "idle" THEN "idle"
         ELSE IF pc \in Closing THEN "closing"
         ELSE IF pc = "walk" \/ (pc = "caught" /\ heap # {}) THEN "open"
         ELSE "opening"
Bridge == INSTANCE EngineSpec WITH MaxSeen <- MaxEntries, phase <- Phase,
              seen <- seen, result <- ret, explained <- told[thread]
ImplementsBridge == Bridge!EngineSpecification
=============================================================================
