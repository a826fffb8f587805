-------------------------- MODULE ExtractionManager --------------------------
(***************************************************************************)
(* The iOS front end: ContentView (SwiftUI state and handlers),            *)
(* ExtractionManager (a MainActor object), the detached tasks it starts,   *)
(* and the process-wide state of the C layer those tasks share (the        *)
(* credential statics of pkg_ios_wrapper.c and the crypto/keymgr           *)
(* registries).                                                            *)
(*                                                                         *)
(* Data is abstracted to what the properties tell apart.  A package file   *)
(* is a path; what is on disk under it is a version (its mtime stands for  *)
(* its contents), 0 when there is no file.  A listing is the pair of the   *)
(* package and the version it was read from; Content gives its files.      *)
(* Credentials are opaque values, some of them malformed.                  *)
(***************************************************************************)
EXTENDS Naturals, FiniteSets

CONSTANTS
  Pkgs,           \* paths of .pkg files in the Documents directory
  NoPkg,          \* nil, where the code has an optional URL
  Versions,       \* mtimes a package file can have (positive)
  Files,          \* paths of files inside packages
  Content,        \* Content[p][v]: the files of version v of package p
  Creds,          \* passcode / EKC pairs
  NoCreds,        \* the empty pair: default keys
  MalformedCreds, \* pairs pkg_ios_set_credentials rejects
  Opens,          \* Opens[p][v]: the pairs that decrypt version v of p
  Tasks,          \* slots for detached tasks alive at the same time
  MaxPending,     \* bound: progress closures queued on the main actor
  MaxJobs,        \* bound: detached tasks started between two launches
  FileChanges     \* when package files change: "never", while no listing is
                  \* running ("between"), or at any time ("anytime")

ASSUME ConstantsAssumption ==
  /\ NoPkg \notin Pkgs
  /\ IsFiniteSet(Files)
  /\ Versions \subseteq Nat \ {0}
  /\ Content \in [Pkgs -> [Versions -> SUBSET Files]]
  /\ NoCreds \in Creds
  /\ MalformedCreds \subseteq Creds \ {NoCreds}
  /\ Opens \in [Pkgs -> [Versions -> SUBSET Creds]]
  /\ MaxPending \in Nat /\ MaxJobs \in Nat
  /\ FileChanges \in {"never", "between", "anytime"}

VARIABLES
  \* --- environment ---
  disk,           \* version of each package file, 0 = missing
  configFound,    \* is config.ini in the app bundle?
  defaults,       \* UserDefaults: the credentials that survive a relaunch
  \* --- ExtractionManager, all on the main actor ---
  credentials, savedSelections, listCache,
  isListing, listError, listedFiles,
  isExtracting, finished, lastError, outputURL, fileCount,
  \* --- ContentView, all on the main actor ---
  showFilePicker, pickerPKG, selectedFiles, keyPromptPKG,
  delayedPrompts, \* asyncAfter(0.5s) closures that will set keyPromptPKG
  seenListError,  \* value of listError SwiftUI saw at its last update
  \* --- detached tasks ---
  pc, job,
  bgTask,         \* the UIKit background task of an extraction
  started,        \* how many since the launch
  pendingProgress,\* Task { @MainActor ... } closures not yet run
  \* --- process-wide statics of the C layer ---
  userCreds,      \* s_user_passcode / s_user_ekc
  engineUp,       \* crypto and keymgr initialised
  keyset,         \* credentials in the registered title keyset
  \* --- history, for the properties only ---
  wanted,         \* files the current or last extraction set out to extract
  carried,        \* closures an earlier extraction had left when it began
  requested       \* package of the last extraction that was asked for

envVars  == <<disk, configFound, defaults>>
listVars == <<isListing, listError, listedFiles, listCache>>
extVars  == <<isExtracting, finished, lastError, outputURL, requested>>
countVars == <<fileCount, pendingProgress, carried>>
progVars == <<fileCount, pendingProgress, carried, wanted>>
storeVars == <<credentials, savedSelections>>
pickerVars == <<showFilePicker, pickerPKG, selectedFiles>>
promptVars == <<keyPromptPKG, delayedPrompts, seenListError>>
taskVars == <<pc, job, started, bgTask>>
cVars    == <<userCreds, engineUp, keyset>>
vars == <<envVars, listVars, extVars, progVars, storeVars, pickerVars,
          promptVars, taskVars, cVars>>

-----------------------------------------------------------------------------
Errors == {"none", "config", "creds", "engine", "space"}
OnDisk == Versions \cup {0}
Listing == [pkg : Pkgs, ver : Versions]
NoListing == [pkg |-> NoPkg, ver |-> 0]
CacheEntry == [mtime : Versions, entries : Listing, creds : Creds]
NotCached == [mtime |-> 0, entries |-> NoListing, creds |-> NoCreds]

Kinds == {"list", "extract"}
InC == {"register", "alloc", "scan", "close"}       \* inside pkg_ios_*
Active == {"apply"} \cup InC \cup {"convert", "report"}
Trailing == {"checkBg", "endBg"}     \* after the result was published
PCs == {"idle"} \cup Active \cup Trailing
Job == [kind : Kinds, pkg : Pkgs, creds : Creds, sel : SUBSET Files,
        ver : OnDisk, todo : SUBSET Files, err : Errors]
NoJob == [kind |-> "none"]

FilesOf(l) == IF l = NoListing THEN {} ELSE Content[l.pkg][l.ver]

TypeOK ==
  /\ disk \in [Pkgs -> OnDisk]
  /\ configFound \in BOOLEAN
  /\ defaults \in [Pkgs -> Creds]
  /\ credentials \in [Pkgs -> Creds]
  /\ savedSelections \in [Pkgs -> SUBSET Files]
  /\ listCache \in [Pkgs -> CacheEntry \cup {NotCached}]
  /\ isListing \in BOOLEAN
  /\ listError \in Errors
  /\ listedFiles \in Listing \cup {NoListing}
  /\ isExtracting \in BOOLEAN
  /\ finished \in BOOLEAN
  /\ lastError \in Errors
  /\ outputURL \in Pkgs \cup {NoPkg}
  /\ fileCount \in Nat
  /\ showFilePicker \in BOOLEAN
  /\ pickerPKG \in Pkgs \cup {NoPkg}
  /\ selectedFiles \in SUBSET Files
  /\ keyPromptPKG \in Pkgs \cup {NoPkg}
  /\ delayedPrompts \in SUBSET Pkgs
  /\ seenListError \in Errors
  /\ pc \in [Tasks -> PCs]
  /\ job \in [Tasks -> Job \cup {NoJob}]
  /\ bgTask \in [Tasks -> {"invalid", "live", "ended"}]
  /\ pendingProgress \in Nat
  /\ started \in Nat
  /\ userCreds \in Creds
  /\ engineUp \in BOOLEAN
  /\ keyset \in [ekc : Creds, passcode : Creds]
  /\ wanted \in SUBSET Files
  /\ carried \in Nat
  /\ requested \in Pkgs \cup {NoPkg}

(* What a launch of the process sets up, apart from credentials, which the *)
(* manager decodes from UserDefaults.                                      *)
FreshProcess ==
  [saved |-> [p \in Pkgs |-> {}], cache |-> [p \in Pkgs |-> NotCached],
   pcs |-> [t \in Tasks |-> "idle"], jobs |-> [t \in Tasks |-> NoJob],
   bg |-> [t \in Tasks |-> "invalid"],
   keys |-> [ekc |-> NoCreds, passcode |-> NoCreds]]

Init ==
  /\ disk \in [Pkgs -> OnDisk]
  /\ configFound \in BOOLEAN
  /\ defaults = [p \in Pkgs |-> NoCreds]
  /\ credentials = defaults
  /\ savedSelections = FreshProcess.saved
  /\ listCache = FreshProcess.cache
  /\ isListing = FALSE /\ listError = "none" /\ listedFiles = NoListing
  /\ isExtracting = FALSE /\ finished = FALSE /\ lastError = "none"
  /\ outputURL = NoPkg /\ requested = NoPkg
  /\ fileCount = 0 /\ pendingProgress = 0 /\ wanted = {} /\ carried = 0
  /\ showFilePicker = FALSE /\ pickerPKG = NoPkg /\ selectedFiles = {}
  /\ keyPromptPKG = NoPkg /\ delayedPrompts = {} /\ seenListError = "none"
  /\ pc = FreshProcess.pcs /\ job = FreshProcess.jobs /\ bgTask = FreshProcess.bg
  /\ started = 0
  /\ userCreds = NoCreds /\ engineUp = FALSE /\ keyset = FreshProcess.keys

-----------------------------------------------------------------------------
(* Operations of the manager *)

(* Bugs the properties below are tried against carry "Mutant" in their name. *)
MutantBusy == isListing

Busy == isListing \/ isExtracting
Idle(t) == pc[t] = "idle"

(* Task.detached: the closure's captured values are its job. *)
Spawn(t, j) ==
  /\ Idle(t)
  /\ started < MaxJobs
  /\ started' = started + 1
  /\ pc' = [pc EXCEPT ![t] = "apply"]
  /\ job' = [job EXCEPT ![t] = j]

NewJob(k, p, c, s) == [kind |-> k, pkg |-> p, creds |-> c, sel |-> s,
                       ver |-> 0, todo |-> {}, err |-> "none"]

MutantCacheHit(p, cache) == disk[p] # 0 /\ cache[p] # NotCached

CacheHit(p, cache) == disk[p] # 0 /\ cache[p] # NotCached /\ cache[p].mtime = disk[p]

(* listFiles.  Its guard (not busy) is its callers' guard as well.  The    *)
(* cache and the credentials are parameters because a retry changes both   *)
(* just before.                                                            *)
ListFiles(p, cache, c) ==
  \/ /\ CacheHit(p, cache)
     /\ listedFiles' = cache[p].entries
     /\ listError' = "none"
     /\ UNCHANGED <<isListing, pc, job, started>>
  \/ /\ ~CacheHit(p, cache)
     /\ ~configFound
     /\ listedFiles' = NoListing
     /\ listError' = "config"
     /\ UNCHANGED <<isListing, pc, job, started>>
  \/ /\ ~CacheHit(p, cache)
     /\ configFound
     /\ isListing' = TRUE
     /\ listedFiles' = NoListing
     /\ listError' = "none"
     /\ \E t \in Tasks : Spawn(t, NewJob("list", p, c, {}))

MutantKeepsSelection(p, cache, c) ==
  /\ ~Busy
  /\ pickerPKG' = p
  /\ UNCHANGED selectedFiles
  /\ showFilePicker' = TRUE
  /\ ListFiles(p, cache, c)

BeginFilePicking(p, cache, c) ==
  /\ ~Busy
  /\ pickerPKG' = p
  /\ selectedFiles' = savedSelections[p]
  /\ showFilePicker' = TRUE
  /\ ListFiles(p, cache, c)

MutantKeysInMemory(p, c) ==
  /\ credentials' = [credentials EXCEPT ![p] = c]
  /\ UNCHANGED defaults
  /\ listCache' = [listCache EXCEPT ![p] = NotCached]

(* setCredentials, which also persists and drops the cached listing *)
SetCredentials(p, c) ==
  /\ credentials' = [credentials EXCEPT ![p] = c]
  /\ defaults' = credentials'
  /\ listCache' = [listCache EXCEPT ![p] = NotCached]

(* extract: refused for lack of space, refused without config.ini, or a    *)
(* detached task under a UIKit background task.                            *)
RefuseForSpace(s) ==
  /\ s \cap FilesOf(listedFiles) # {}
  /\ lastError' = "space"
  /\ finished' = TRUE
  /\ UNCHANGED <<isExtracting, outputURL, progVars, taskVars>>

MutantKeepsCount ==
  /\ outputURL' = NoPkg
  /\ wanted' = {} /\ carried' = pendingProgress
  /\ UNCHANGED <<fileCount, pendingProgress>>

ResetResults ==
  /\ outputURL' = NoPkg
  /\ fileCount' = 0 /\ wanted' = {} /\ carried' = pendingProgress
  /\ UNCHANGED pendingProgress

RefuseWithoutConfig ==
  /\ ~configFound
  /\ ResetResults
  /\ lastError' = "config"
  /\ finished' = TRUE
  /\ UNCHANGED <<isExtracting, taskVars>>

MutantKeepsDone(p, s) ==
  /\ configFound
  /\ ResetResults
  /\ isExtracting' = TRUE
  /\ lastError' = "none"
  /\ UNCHANGED finished
  /\ \E t \in Tasks : /\ Spawn(t, NewJob("extract", p, credentials[p], s))
                      /\ bgTask' = [bgTask EXCEPT ![t] = "live"]

StartTask(p, s) ==
  /\ configFound
  /\ ResetResults
  /\ isExtracting' = TRUE
  /\ finished' = FALSE
  /\ lastError' = "none"
  /\ \E t \in Tasks : /\ Spawn(t, NewJob("extract", p, credentials[p], s))
                      /\ bgTask' = [bgTask EXCEPT ![t] = "live"]

Extract(p, s) ==
  /\ ~isExtracting
  /\ requested' = p
  /\ RefuseForSpace(s) \/ RefuseWithoutConfig \/ StartTask(p, s)

-----------------------------------------------------------------------------
(* The user.  Sheets are modal: rows are reachable only with none shown.   *)
(* Buttons are disabled by the state they observe.                         *)

TapRow(p) ==
  /\ ~showFilePicker /\ keyPromptPKG = NoPkg
  /\ BeginFilePicking(p, listCache, credentials[p])
  /\ UNCHANGED <<envVars, listCache, extVars, progVars, storeVars, promptVars,
                 bgTask, cVars>>

(* Toggling a row, or Select All / Deselect All over a filtered list. *)
ToggleSelection(s) ==
  /\ showFilePicker /\ ~isListing /\ listError = "none"
  /\ selectedFiles' \in {selectedFiles \cup s, selectedFiles \ s}
  /\ UNCHANGED <<envVars, listVars, extVars, progVars, storeVars, showFilePicker,
                 pickerPKG, promptVars, taskVars, cVars>>

TapExtract ==
  /\ showFilePicker /\ ~isListing
  /\ showFilePicker' = FALSE
  /\ savedSelections' = [savedSelections EXCEPT ![pickerPKG] = selectedFiles]
  /\ Extract(pickerPKG, selectedFiles)
  /\ UNCHANGED <<envVars, listVars, credentials, pickerPKG, selectedFiles,
                 promptVars, cVars>>

CancelPicker ==
  /\ showFilePicker
  /\ savedSelections' = [savedSelections EXCEPT ![pickerPKG] = selectedFiles]
  /\ showFilePicker' = FALSE
  /\ pickerPKG' = NoPkg
  /\ UNCHANGED <<envVars, listVars, extVars, progVars, credentials, selectedFiles,
                 promptVars, taskVars, cVars>>

(* Dragging the sheet down only resets its binding. *)
SwipePicker ==
  /\ showFilePicker
  /\ showFilePicker' = FALSE
  /\ UNCHANGED <<envVars, listVars, extVars, progVars, storeVars, pickerPKG,
                 selectedFiles, promptVars, taskVars, cVars>>

RetryWithKeys(c) ==
  LET p == keyPromptPKG IN
  /\ p # NoPkg
  /\ c # NoCreds
  /\ SetCredentials(p, c)
  /\ keyPromptPKG' = NoPkg
  /\ \/ BeginFilePicking(p, [listCache EXCEPT ![p] = NotCached], c)
     \/ Busy /\ UNCHANGED <<pickerVars, isListing, listError, listedFiles, pc, job, started>>
  /\ UNCHANGED <<disk, configFound, extVars, progVars, savedSelections,
                 delayedPrompts, seenListError, bgTask, cVars>>

CancelKeys ==
  /\ keyPromptPKG # NoPkg
  /\ keyPromptPKG' = NoPkg
  /\ UNCHANGED <<envVars, listVars, extVars, progVars, storeVars, pickerVars,
                 delayedPrompts, seenListError, taskVars, cVars>>

-----------------------------------------------------------------------------
(* SwiftUI and the main queue *)

(* .onChange(of: listError) runs at a view update, and only if the value   *)
(* differs from the one at the previous update.                            *)
OnListErrorChange ==
  /\ listError # seenListError
  /\ seenListError' = listError
  /\ IF listError # "none" /\ pickerPKG # NoPkg /\ showFilePicker
     THEN /\ showFilePicker' = FALSE
          /\ pickerPKG' = NoPkg
          /\ delayedPrompts' = delayedPrompts \cup {pickerPKG}
     ELSE UNCHANGED <<showFilePicker, pickerPKG, delayedPrompts>>
  /\ UNCHANGED <<envVars, listVars, extVars, progVars, storeVars, selectedFiles,
                 keyPromptPKG, taskVars, cVars>>

FireDelayedPrompt(p) ==
  /\ p \in delayedPrompts
  /\ delayedPrompts' = delayedPrompts \ {p}
  /\ keyPromptPKG' = p
  /\ UNCHANGED <<envVars, listVars, extVars, progVars, storeVars, pickerVars,
                 seenListError, taskVars, cVars>>

DeliverProgress ==
  /\ pendingProgress > 0
  /\ pendingProgress' = pendingProgress - 1
  /\ fileCount' = fileCount + 1
  /\ UNCHANGED <<envVars, listVars, extVars, wanted, carried, storeVars,
                 pickerVars, promptVars, taskVars, cVars>>

-----------------------------------------------------------------------------
(* The detached tasks *)

Goto(t, to) == pc' = [pc EXCEPT ![t] = to]
Fail(t, e, to) == Goto(t, to) /\ job' = [job EXCEPT ![t].err = e]

MutantSkipsDefaults(t) ==
  /\ pc[t] = "apply"
  /\ userCreds' = IF job[t].creds = NoCreds THEN userCreds ELSE job[t].creds
  /\ Goto(t, "register")
  /\ UNCHANGED <<job, engineUp, keyset>>

(* pkg_ios_set_credentials: process-wide, cleared first *)
ApplyCredentials(t) ==
  /\ pc[t] = "apply"
  /\ \/ /\ job[t].creds \in MalformedCreds
        /\ userCreds' = NoCreds
        /\ Fail(t, "creds", "report")
     \/ /\ job[t].creds \notin MalformedCreds
        /\ userCreds' = job[t].creds
        /\ Goto(t, "register")
        /\ UNCHANGED job
  /\ UNCHANGED <<engineUp, keyset>>

(* keymgr_finalize and crypto_finalize *)
Finalize == engineUp' = FALSE /\ keyset' = FreshProcess.keys

(* pkg_open up to the keyset of the EKC: an unreadable header returns      *)
(* before anything is initialised; a failing initialisation is undone.     *)
Register(t) ==
  /\ pc[t] = "register"
  /\ \/ /\ disk[job[t].pkg] = 0
        /\ Fail(t, "engine", "report")
        /\ UNCHANGED <<engineUp, keyset>>
     \/ /\ disk[job[t].pkg] # 0
        /\ Finalize
        /\ Fail(t, "engine", "report")
     \/ /\ disk[job[t].pkg] # 0
        /\ engineUp' = TRUE
        /\ keyset' = [ekc |-> userCreds, passcode |-> NoCreds]
        /\ Goto(t, "alloc")
        /\ UNCHANGED job
  /\ UNCHANGED userCreds

(* A listing writes no files; no selection at all means every file. *)
Needed(j, v) ==
  {f \in Content[j.pkg][v] : j.kind = "extract" /\ (j.sel = {} \/ f \in j.sel)}

(* pkg_alloc: the options callback puts the passcode into the keyset, then *)
(* the two file systems are opened with it.  Failure finalizes everything. *)
AllocPkg(t) ==
  LET v == disk[job[t].pkg] IN
  /\ pc[t] = "alloc"
  /\ \/ /\ v # 0
        /\ keyset' = [keyset EXCEPT !.passcode = userCreds]
        /\ {keyset.ekc, userCreds} \subseteq Opens[job[t].pkg][v]
        /\ job' = [job EXCEPT ![t].ver = v, ![t].todo = Needed(job[t], v)]
        /\ wanted' = wanted \cup Needed(job[t], v)
        /\ Goto(t, "scan")
        /\ UNCHANGED engineUp
     \/ Finalize /\ Fail(t, "engine", "report") /\ UNCHANGED wanted
  /\ UNCHANGED userCreds

(* The progress callback queues a closure for the main actor. *)
ReportFile(t, f) ==
  /\ pc[t] = "scan"
  /\ f \in job[t].todo
  /\ pendingProgress < MaxPending
  /\ job' = [job EXCEPT ![t].todo = @ \ {f}]
  /\ pendingProgress' = pendingProgress + 1
  /\ UNCHANGED <<pc, fileCount, wanted, carried>>

(* The walk over the package ends, or error() jumps out of it. *)
EndScan(t) ==
  /\ pc[t] = "scan"
  /\ \/ job[t].todo = {} /\ Goto(t, "close") /\ UNCHANGED job
     \/ Fail(t, "engine", "close")

(* pkg_free and the finalizers; on Swift's side only a successful          *)
(* extraction goes on to the conversion of eboot.bin.                      *)
CloseEngine(t) ==
  /\ pc[t] = "close"
  /\ Finalize
  /\ Goto(t, IF job[t].kind = "extract" /\ job[t].err = "none"
             THEN "convert" ELSE "report")
  /\ UNCHANGED <<job, userCreds>>

ConvertEBoot(t) == pc[t] = "convert" /\ Goto(t, "report") /\ UNCHANGED job

Retire(t) ==
  /\ Goto(t, "idle")
  /\ job' = [job EXCEPT ![t] = NoJob]

(* cacheEntries stamps the entry with the mtime the file has now *)
CacheEntries(p, l, c) ==
  listCache' = IF disk[p] = 0 THEN listCache
               ELSE [listCache EXCEPT ![p] =
                       [mtime |-> disk[p], entries |-> l, creds |-> c]]

MutantIgnoresError(t) ==
  LET l == [pkg |-> job[t].pkg, ver |-> job[t].ver] IN
  /\ pc[t] = "report" /\ job[t].kind = "list"
  /\ listError' = job[t].err /\ isListing' = FALSE
  /\ listedFiles' = l /\ CacheEntries(job[t].pkg, l, job[t].creds)
  /\ Retire(t)

MutantSpinsOnError(t) ==
  /\ pc[t] = "report" /\ job[t].kind = "list"
  /\ listError' = job[t].err /\ isListing' = (job[t].err # "none")
  /\ listedFiles' = NoListing
  /\ UNCHANGED listCache
  /\ Retire(t)

ReportListing(t) ==
  LET j == job[t]
      l == [pkg |-> j.pkg, ver |-> j.ver] IN
  /\ pc[t] = "report" /\ j.kind = "list"
  /\ listError' = j.err
  /\ isListing' = FALSE
  /\ \/ j.err = "none" /\ listedFiles' = l /\ CacheEntries(j.pkg, l, j.creds)
     \/ j.err # "none" /\ listedFiles' = NoListing /\ UNCHANGED listCache
  /\ Retire(t)

ReportExtraction(t) ==
  /\ pc[t] = "report" /\ job[t].kind = "extract"
  /\ isExtracting' = FALSE
  /\ finished' = TRUE
  /\ lastError' = job[t].err
  /\ outputURL' = IF job[t].err = "none" THEN job[t].pkg ELSE outputURL
  /\ Goto(t, "checkBg")
  /\ UNCHANGED <<job, requested>>

CheckBackgroundTask(t) ==
  /\ pc[t] = "checkBg"
  /\ \/ bgTask[t] = "live" /\ Goto(t, "endBg") /\ UNCHANGED <<job, bgTask>>
     \/ /\ bgTask[t] # "live"
        /\ Retire(t)
        /\ bgTask' = [bgTask EXCEPT ![t] = "invalid"]

EndBackgroundTask(t) ==
  /\ pc[t] = "endBg"
  /\ Retire(t)
  /\ bgTask' = [bgTask EXCEPT ![t] = "invalid"]

CSteps(t) ==
  \/ AllocPkg(t) /\ UNCHANGED countVars
  \/ /\ ApplyCredentials(t) \/ Register(t) \/ CloseEngine(t)
     /\ UNCHANGED progVars

TaskStep(t) ==
  \/ /\ CSteps(t)
     /\ UNCHANGED <<listVars, extVars, bgTask>>
  \/ /\ \E f \in Files : ReportFile(t, f)
     /\ UNCHANGED <<listVars, extVars, bgTask, cVars>>
  \/ /\ EndScan(t) \/ ConvertEBoot(t)
     /\ UNCHANGED <<listVars, extVars, progVars, bgTask, cVars>>
  \/ /\ ReportListing(t)
     /\ UNCHANGED <<extVars, progVars, bgTask, cVars>>
  \/ /\ ReportExtraction(t)
     /\ UNCHANGED <<listVars, progVars, bgTask, cVars>>
  \/ /\ CheckBackgroundTask(t) \/ EndBackgroundTask(t)
     /\ UNCHANGED <<listVars, extVars, progVars, cVars>>

RunTask(t) ==
  /\ TaskStep(t)
  /\ UNCHANGED <<envVars, storeVars, pickerVars, promptVars, started>>

-----------------------------------------------------------------------------
(* The environment *)

(* iOS withdraws the background task; the expiration handler ends it. *)
ExpireBackgroundTask(t) ==
  /\ bgTask[t] = "live"
  /\ bgTask' = [bgTask EXCEPT ![t] = "ended"]
  /\ UNCHANGED <<envVars, listVars, extVars, progVars, storeVars, pickerVars,
                 promptVars, pc, job, started, cVars>>

(* The Files app removes, adds or overwrites a package. *)
ChangeFile(p) ==
  /\ FileChanges = "anytime" \/ (FileChanges = "between" /\ ~isListing)
  /\ \E v \in OnDisk \ {disk[p]} : disk' = [disk EXCEPT ![p] = v]
  /\ UNCHANGED <<configFound, defaults, listVars, extVars, progVars, storeVars,
                 pickerVars, promptVars, taskVars, cVars>>

(* iOS or the user kills the process at any point; it is launched again. *)
Relaunch ==
  /\ credentials' = defaults
  /\ savedSelections' = FreshProcess.saved
  /\ listCache' = FreshProcess.cache
  /\ isListing' = FALSE /\ listError' = "none" /\ listedFiles' = NoListing
  /\ isExtracting' = FALSE /\ finished' = FALSE /\ lastError' = "none"
  /\ outputURL' = NoPkg /\ requested' = NoPkg
  /\ fileCount' = 0 /\ pendingProgress' = 0 /\ wanted' = {} /\ carried' = 0
  /\ showFilePicker' = FALSE /\ pickerPKG' = NoPkg /\ selectedFiles' = {}
  /\ keyPromptPKG' = NoPkg /\ delayedPrompts' = {} /\ seenListError' = "none"
  /\ pc' = FreshProcess.pcs /\ job' = FreshProcess.jobs /\ bgTask' = FreshProcess.bg
  /\ started' = 0
  /\ userCreds' = NoCreds /\ engineUp' = FALSE /\ keyset' = FreshProcess.keys
  /\ UNCHANGED envVars

-----------------------------------------------------------------------------
User ==
  \/ \E p \in Pkgs : TapRow(p)
  \/ \E s \in SUBSET FilesOf(listedFiles) : ToggleSelection(s)
  \/ TapExtract
  \/ CancelPicker
  \/ SwipePicker
  \/ \E c \in Creds : RetryWithKeys(c)
  \/ CancelKeys

MainQueue ==
  \/ OnListErrorChange
  \/ \E p \in Pkgs : FireDelayedPrompt(p)
  \/ DeliverProgress

Environment ==
  \/ \E t \in Tasks : ExpireBackgroundTask(t)
  \/ \E p \in Pkgs : ChangeFile(p)
  \/ Relaunch

Next == User \/ MainQueue \/ (\E t \in Tasks : RunTask(t)) \/ Environment

(* The scheduler runs tasks and the main queue; nobody makes the user act. *)
Fairness ==
  /\ \A t \in Tasks : WF_vars(RunTask(t))
  /\ WF_vars(OnListErrorChange)
  /\ WF_vars(DeliverProgress)
  /\ \A p \in Pkgs : WF_vars(FireDelayedPrompt(p))

Spec == Init /\ [][Next]_vars
FairSpec == Spec /\ Fairness

-----------------------------------------------------------------------------
(* Properties *)

(* At most one detached task is in its active part, so at most one thread  *)
(* is ever inside the C layer, whose registries and credentials are        *)
(* process-wide and unlocked: listFiles and extract exclude each other     *)
(* although extract only checks isExtracting.                              *)
ExclusiveEngine ==
  \A t, u \in Tasks : pc[t] \in Active /\ pc[u] \in Active => t = u

(* While a task runs pkg_alloc or walks a package, crypto and keymgr are   *)
(* initialised, and the keyset holds the credentials of its own package.   *)
EngineServesItsTask ==
  \A t \in Tasks :
    /\ pc[t] \in {"alloc", "scan", "close"} =>
         engineUp /\ keyset.ekc = job[t].creds
    /\ pc[t] \in {"scan", "close"} => keyset.passcode = job[t].creds

AllFiles(p) == UNION {Content[p][v] : v \in Versions}

(* What the picker offers is of the package it was opened for: the listing *)
(* it shows, and the selection that Extract will pass on, also after       *)
(* retries, cancelled listings and selections restored from another visit. *)
PickerIsCoherent ==
  showFilePicker =>
    /\ selectedFiles \subseteq AllFiles(pickerPKG)
    /\ listedFiles # NoListing => listedFiles.pkg = pickerPKG
    /\ ~isListing /\ listError = "none" => listedFiles # NoListing

(* A "Done" screen shows the output of the extraction asked for last.      *)
DoneShowsLastRequest ==
  finished /\ lastError = "none" => outputURL = requested /\ requested # NoPkg

(* The number of files on the Done screen is the number of files the       *)
(* extraction was asked for, once its reports are in, and the counter is   *)
(* never ahead of it: nothing of an earlier extraction, finished, failed   *)
(* or refused, is counted with it.  A closure that an earlier extraction   *)
(* left on the main queue when this one began is counted by the code with  *)
(* the wrong one; such extractions (carried > 0) are left out.             *)
DoneCountsTheFiles ==
  carried = 0 =>
    /\ fileCount <= Cardinality(wanted)
    /\ finished /\ lastError = "none" /\ pendingProgress = 0
         => fileCount = Cardinality(wanted)

(* The flags never claim work nobody does: each has a task behind it. *)
FlagHasTask ==
  /\ isListing => \E t \in Tasks : pc[t] \in Active /\ job[t].kind = "list"
  /\ isExtracting => \E t \in Tasks : pc[t] \in Active /\ job[t].kind = "extract"

(* A listing served from the cache is the one of the file now on disk.     *)
CacheServesCurrent ==
  [][ listedFiles' # listedFiles /\ listedFiles' # NoListing /\ ~isListing
        => listedFiles'.ver = disk[listedFiles'.pkg] ]_vars

(* Credentials change only by a retry, for the package the sheet was shown *)
(* for; a relaunch finds all of them again.                                *)
KeysSurvive ==
  [][ \A p \in Pkgs : credentials'[p] # credentials[p] => p = keyPromptPKG ]_vars

(* Listing and extraction end; the spinner does not stay up. *)
ListingEnds == isListing ~> ~isListing
ExtractionEnds == isExtracting ~> ~isExtracting

(* The background task of an extraction is given back to iOS. *)
BackgroundTaskEnds == \A t \in Tasks : bgTask[t] = "live" ~> bgTask[t] # "live"

(* Whatever fails on the way (space, config.ini, credentials, the engine,  *)
(* error()), a listing and an extraction end, and with them the spinner    *)
(* and the background task.                                                *)
JobsEnd == ListingEnds /\ ExtractionEnds /\ BackgroundTaskEnds

(* ExtractionManager.swift:82: the entry holds the mtime at scan time, so  *)
(* a hit returns what that mtime's file contains.                          *)
CacheHoldsScanTime ==
  \A p \in Pkgs : listCache[p] # NotCached =>
                    listCache[p].mtime = listCache[p].entries.ver

(* ContentView.swift:148: a listing that failed for its keys closes the    *)
(* picker (and asks for keys).                                             *)
FailureClosesPicker ==
  showFilePicker /\ ~isListing /\ listError = "creds" ~> ~showFilePicker
=============================================================================
