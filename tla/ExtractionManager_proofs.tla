----------------------- MODULE ExtractionManager_proofs -----------------------
(***************************************************************************)
(* Theorems about ExtractionManager, for every value of its constants.     *)
(* ServiceInv ties the flags to the tasks, and what the C layer holds to   *)
(* the one that is active; the later parts say what a report may find when *)
(* it arrives: the Done screen, the picker, the listing's cache.           *)
(***************************************************************************)
EXTENDS ExtractionManager, FiniteSetTheorems, TLAPS

(* What typing needs beyond TypeOK: a running task has a proper job, a     *)
(* successful scan read an existing version, an open picker has a package. *)
JobTyped ==
  \A t \in Tasks :
    /\ pc[t] # "idle" => job[t] \in Job
    /\ pc[t] \in {"scan", "close", "convert", "report"} /\ job[t].err = "none"
         => job[t].ver \in Versions

TypeInv ==
  /\ TypeOK
  /\ JobTyped
  /\ showFilePicker => pickerPKG \in Pkgs

LEMMA InitTyped == Init => TypeInv
<1> SUFFICES ASSUME Init PROVE TypeInv
  OBVIOUS
<1>1. /\ savedSelections = [p \in Pkgs |-> {}]
      /\ listCache = [p \in Pkgs |-> NotCached]
      /\ pc = [t \in Tasks |-> "idle"]
      /\ job = [t \in Tasks |-> NoJob]
      /\ bgTask = [t \in Tasks |-> "invalid"]
      /\ keyset = [ekc |-> NoCreds, passcode |-> NoCreds]
  BY DEF Init, FreshProcess
<1>2. keyset \in [ekc : Creds, passcode : Creds] /\ pc \in [Tasks -> PCs]
      /\ disk \in [Pkgs -> OnDisk]
      /\ defaults \in [Pkgs -> Creds] /\ credentials \in [Pkgs -> Creds]
      /\ savedSelections \in [Pkgs -> SUBSET Files]
      /\ listCache \in [Pkgs -> CacheEntry \cup {NotCached}]
      /\ job \in [Tasks -> Job \cup {NoJob}]
      /\ bgTask \in [Tasks -> {"invalid", "live", "ended"}]
  BY <1>1, ConstantsAssumption DEF Init, PCs
<1>3. TypeOK
  BY <1>1, <1>2, ConstantsAssumption DEF Init, TypeOK, Errors
<1>4. JobTyped
  BY <1>1 DEF JobTyped
<1>5. QED
  BY <1>3, <1>4 DEF Init, TypeInv

LEMMA SpawnTyped ==
  ASSUME TypeInv, NEW k \in Kinds, NEW p \in Pkgs, NEW c \in Creds,
         NEW s \in SUBSET Files, NEW t \in Tasks, Spawn(t, NewJob(k, p, c, s))
  PROVE  /\ pc' \in [Tasks -> PCs] /\ job' \in [Tasks -> Job \cup {NoJob}]
         /\ JobTyped' /\ started' \in Nat
<1>1. NewJob(k, p, c, s) \in Job
  BY DEF NewJob, Job, OnDisk, Errors
<1>2. QED
  BY <1>1 DEF TypeInv, TypeOK, JobTyped, Spawn, PCs, Active

LEMMA ListFilesTyped ==
  ASSUME TypeInv, NEW p \in Pkgs, NEW c \in Creds,
         NEW cache \in [Pkgs -> CacheEntry \cup {NotCached}],
         ListFiles(p, cache, c)
  PROVE  /\ isListing' \in BOOLEAN /\ listError' \in Errors
         /\ listedFiles' \in Listing \cup {NoListing}
         /\ pc' \in [Tasks -> PCs] /\ job' \in [Tasks -> Job \cup {NoJob}]
         /\ JobTyped' /\ started' \in Nat
<1>1. CASE CacheHit(p, cache) /\ listedFiles' = cache[p].entries
           /\ listError' = "none" /\ UNCHANGED <<isListing, pc, job, started>>
  BY <1>1 DEF CacheHit, CacheEntry, Errors, TypeInv, TypeOK, JobTyped
<1>2. CASE listedFiles' = NoListing /\ listError' = "config"
           /\ UNCHANGED <<isListing, pc, job, started>>
  BY <1>2 DEF Errors, TypeInv, TypeOK, JobTyped
<1>3. CASE isListing' = TRUE /\ listedFiles' = NoListing /\ listError' = "none"
           /\ \E t \in Tasks : Spawn(t, NewJob("list", p, c, {}))
  BY <1>3, SpawnTyped DEF Errors, Kinds
<1>4. QED
  BY <1>1, <1>2, <1>3 DEF ListFiles

LEMMA UserTyped == TypeInv /\ User => TypeInv'
<1> SUFFICES ASSUME TypeInv, User PROVE TypeInv'
  OBVIOUS
<1> USE ConstantsAssumption
<1>1. ASSUME NEW p \in Pkgs, TapRow(p) PROVE TypeInv'
  <2>1. ListFiles(p, listCache, credentials[p]) /\ credentials[p] \in Creds
    BY <1>1 DEF TapRow, BeginFilePicking, TypeInv, TypeOK
  <2>2. /\ isListing' \in BOOLEAN /\ listError' \in Errors
        /\ listedFiles' \in Listing \cup {NoListing}
        /\ pc' \in [Tasks -> PCs] /\ job' \in [Tasks -> Job \cup {NoJob}]
        /\ JobTyped' /\ started' \in Nat
    BY <2>1, ListFilesTyped DEF TypeInv, TypeOK
  <2>3. QED
    BY <1>1, <2>2 DEF TapRow, BeginFilePicking, TypeInv, TypeOK, envVars, extVars,
         progVars, storeVars, promptVars, cVars
<1>2. ASSUME NEW s \in SUBSET FilesOf(listedFiles), ToggleSelection(s) PROVE TypeInv'
  <2>1. FilesOf(listedFiles) \subseteq Files
    <3>1. CASE listedFiles = NoListing
      BY <3>1 DEF FilesOf
    <3>2. CASE listedFiles # NoListing
      <4>1. listedFiles \in Listing
        BY <3>2 DEF TypeInv, TypeOK
      <4>2. listedFiles.pkg \in Pkgs /\ listedFiles.ver \in Versions
        BY <4>1 DEF Listing
      <4>3. Content[listedFiles.pkg][listedFiles.ver] \subseteq Files
        <5>1. Content \in [Pkgs -> [Versions -> SUBSET Files]]
          BY ConstantsAssumption
        <5>2. Content[listedFiles.pkg] \in [Versions -> SUBSET Files]
          BY <4>2, <5>1
        <5>3. QED
          BY <4>2, <5>2
      <4>4. QED
        BY <3>2, <4>3 DEF FilesOf
    <3>3. QED
      BY <3>1, <3>2
  <2>2. selectedFiles' \in SUBSET Files
    <3>1. selectedFiles \subseteq Files /\ s \subseteq Files
      BY <2>1 DEF TypeInv, TypeOK
    <3>2. selectedFiles' = selectedFiles \cup s \/ selectedFiles' = selectedFiles \ s
      BY <1>2 DEF ToggleSelection
    <3>3. QED
      BY <3>1, <3>2
  <2>3. QED
    BY <1>2, <2>2 DEF ToggleSelection, TypeInv, TypeOK, JobTyped, envVars, listVars,
         extVars, progVars, storeVars, promptVars, taskVars, cVars
<1>3. ASSUME TapExtract PROVE TypeInv'
  <2>1. pickerPKG \in Pkgs /\ credentials[pickerPKG] \in Creds /\ selectedFiles \in SUBSET Files
    BY <1>3 DEF TapExtract, TypeInv, TypeOK
  <2>2. /\ pc' \in [Tasks -> PCs] /\ job' \in [Tasks -> Job \cup {NoJob}]
        /\ JobTyped' /\ started' \in Nat
        /\ isExtracting' \in BOOLEAN /\ finished' \in BOOLEAN /\ lastError' \in Errors
        /\ outputURL' \in Pkgs \cup {NoPkg}
        /\ fileCount' \in Nat /\ wanted' \in SUBSET Files /\ carried' \in Nat
        /\ pendingProgress' \in Nat
        /\ bgTask' \in [Tasks -> {"invalid", "live", "ended"}]
    <3>1. CASE RefuseForSpace(selectedFiles)
      BY <3>1 DEF RefuseForSpace, taskVars, progVars, TypeInv, TypeOK, JobTyped, Errors
    <3>2. CASE RefuseWithoutConfig
      BY <3>2 DEF RefuseWithoutConfig, ResetResults, taskVars, TypeInv, TypeOK,
           JobTyped, Errors
    <3>3. CASE StartTask(pickerPKG, selectedFiles)
      <4>1. PICK t \in Tasks :
              /\ Spawn(t, NewJob("extract", pickerPKG, credentials[pickerPKG], selectedFiles))
              /\ bgTask' = [bgTask EXCEPT ![t] = "live"]
        BY <3>3 DEF StartTask
      <4>2. /\ pc' \in [Tasks -> PCs] /\ job' \in [Tasks -> Job \cup {NoJob}]
            /\ JobTyped' /\ started' \in Nat
        BY <4>1, <2>1, SpawnTyped DEF Kinds
      <4>3. QED
        BY <3>3, <4>1, <4>2 DEF StartTask, ResetResults, TypeInv, TypeOK, Errors
    <3>4. QED
      BY <1>3, <3>1, <3>2, <3>3 DEF TapExtract, Extract
  <2>3. requested' \in Pkgs \cup {NoPkg}
    BY <1>3, <2>1 DEF TapExtract, Extract
  <2>4. QED
    BY <1>3, <2>1, <2>2, <2>3 DEF TapExtract, TypeInv, TypeOK, envVars, listVars,
         promptVars, cVars
<1>4. ASSUME CancelPicker PROVE TypeInv'
  <2>1. savedSelections' \in [Pkgs -> SUBSET Files] /\ pickerPKG' \in Pkgs \cup {NoPkg}
    BY <1>4 DEF CancelPicker, TypeInv, TypeOK
  <2>2. JobTyped'
    BY <1>4 DEF CancelPicker, TypeInv, JobTyped, taskVars
  <2>3. QED
    BY <1>4, <2>1, <2>2, ZenonT(20) DEF CancelPicker, TypeInv, TypeOK, envVars, listVars,
         extVars, progVars, promptVars, taskVars, cVars
<1>5. ASSUME SwipePicker PROVE TypeInv'
  <2>1. JobTyped'
    BY <1>5 DEF SwipePicker, TypeInv, JobTyped, taskVars
  <2>2. QED
    BY <1>5, <2>1, ZenonT(20) DEF SwipePicker, TypeInv, TypeOK, envVars, listVars, extVars,
         progVars, storeVars, promptVars, taskVars, cVars
<1>6. ASSUME NEW c \in Creds, RetryWithKeys(c) PROVE TypeInv'
  <2>1. keyPromptPKG \in Pkgs /\ NotCached \in CacheEntry \cup {NotCached}
    BY <1>6 DEF RetryWithKeys, TypeInv, TypeOK
  <2>2. [listCache EXCEPT ![keyPromptPKG] = NotCached] \in [Pkgs -> CacheEntry \cup {NotCached}]
    BY <2>1 DEF TypeInv, TypeOK
  <2>3. /\ isListing' \in BOOLEAN /\ listError' \in Errors
        /\ listedFiles' \in Listing \cup {NoListing}
        /\ pc' \in [Tasks -> PCs] /\ job' \in [Tasks -> Job \cup {NoJob}]
        /\ JobTyped' /\ started' \in Nat
        /\ showFilePicker' \in BOOLEAN /\ pickerPKG' \in Pkgs \cup {NoPkg}
        /\ selectedFiles' \in SUBSET Files
        /\ showFilePicker' => pickerPKG' \in Pkgs
    <3>1. CASE BeginFilePicking(keyPromptPKG,
                 [listCache EXCEPT ![keyPromptPKG] = NotCached], c)
      <4>1. ListFiles(keyPromptPKG, [listCache EXCEPT ![keyPromptPKG] = NotCached], c)
        BY <3>1 DEF BeginFilePicking
      <4>2. /\ isListing' \in BOOLEAN /\ listError' \in Errors
            /\ listedFiles' \in Listing \cup {NoListing}
            /\ pc' \in [Tasks -> PCs] /\ job' \in [Tasks -> Job \cup {NoJob}]
            /\ JobTyped' /\ started' \in Nat
        BY <4>1, <2>1, <2>2, ListFilesTyped
      <4>3. QED
        BY <3>1, <2>1, <4>2 DEF BeginFilePicking, TypeInv, TypeOK
    <3>2. CASE UNCHANGED <<pickerVars, isListing, listError, listedFiles, pc, job, started>>
      BY <3>2 DEF pickerVars, TypeInv, TypeOK, JobTyped
    <3>3. QED
      BY <1>6, <3>1, <3>2 DEF RetryWithKeys
  <2>4. credentials' \in [Pkgs -> Creds] /\ defaults' \in [Pkgs -> Creds]
        /\ listCache' \in [Pkgs -> CacheEntry \cup {NotCached}]
    BY <1>6, <2>1, <2>2 DEF RetryWithKeys, SetCredentials, TypeInv, TypeOK
  <2>5. QED
    BY <1>6, <2>3, <2>4 DEF RetryWithKeys, TypeInv, TypeOK, extVars, progVars, cVars
<1>7. ASSUME CancelKeys PROVE TypeInv'
  BY <1>7 DEF CancelKeys, TypeInv, TypeOK, JobTyped, envVars, listVars, extVars,
       progVars, storeVars, pickerVars, taskVars, cVars
<1>8. QED
  BY <1>1, <1>2, <1>3, <1>4, <1>5, <1>6, <1>7 DEF User

LEMMA MainQueueTyped == TypeInv /\ MainQueue => TypeInv'
<1> SUFFICES ASSUME TypeInv, MainQueue PROVE TypeInv'
  OBVIOUS
<1>1. ASSUME OnListErrorChange PROVE TypeInv'
  <2>1. /\ showFilePicker' \in BOOLEAN /\ pickerPKG' \in Pkgs \cup {NoPkg}
        /\ delayedPrompts' \in SUBSET Pkgs /\ seenListError' \in Errors
        /\ showFilePicker' => pickerPKG' \in Pkgs
    BY <1>1 DEF OnListErrorChange, TypeInv, TypeOK
  <2>2. QED
    BY <1>1, <2>1 DEF OnListErrorChange, TypeInv, TypeOK, JobTyped, envVars, listVars,
         extVars, progVars, storeVars, taskVars, cVars
<1>2. ASSUME NEW p \in Pkgs, FireDelayedPrompt(p) PROVE TypeInv'
  BY <1>2 DEF FireDelayedPrompt, TypeInv, TypeOK, JobTyped, envVars, listVars,
       extVars, progVars, storeVars, pickerVars, taskVars, cVars
<1>3. ASSUME DeliverProgress PROVE TypeInv'
  BY <1>3 DEF DeliverProgress, TypeInv, TypeOK, JobTyped, envVars, listVars,
       extVars, storeVars, pickerVars, promptVars, taskVars, cVars
<1>4. QED
  BY <1>1, <1>2, <1>3 DEF MainQueue

(* The variables a task step never touches keep their types, so only the   *)
(* task's own state and what it publishes are left to show.                *)
LEMMA RunTaskFrame ==
  ASSUME TypeInv, NEW t \in Tasks, RunTask(t),
         isListing' \in BOOLEAN, listError' \in Errors,
         listedFiles' \in Listing \cup {NoListing},
         listCache' \in [Pkgs -> CacheEntry \cup {NotCached}],
         isExtracting' \in BOOLEAN, finished' \in BOOLEAN, lastError' \in Errors,
         outputURL' \in Pkgs \cup {NoPkg}, requested' \in Pkgs \cup {NoPkg},
         fileCount' \in Nat, pendingProgress' \in Nat, carried' \in Nat,
         wanted' \in SUBSET Files,
         pc' \in [Tasks -> PCs], job' \in [Tasks -> Job \cup {NoJob}],
         bgTask' \in [Tasks -> {"invalid", "live", "ended"}],
         userCreds' \in Creds, engineUp' \in BOOLEAN,
         keyset' \in [ekc : Creds, passcode : Creds],
         JobTyped'
  PROVE  TypeInv'
<1>1. /\ disk' = disk /\ configFound' = configFound /\ defaults' = defaults
      /\ credentials' = credentials /\ savedSelections' = savedSelections
      /\ showFilePicker' = showFilePicker /\ pickerPKG' = pickerPKG
      /\ selectedFiles' = selectedFiles /\ keyPromptPKG' = keyPromptPKG
      /\ delayedPrompts' = delayedPrompts /\ seenListError' = seenListError
      /\ started' = started
  BY DEF RunTask, envVars, storeVars, pickerVars, promptVars
<1>2. TypeOK'
  BY <1>1 DEF TypeInv, TypeOK
<1>3. QED
  BY <1>1, <1>2 DEF TypeInv

LEMMA UnchangedTyped ==
  ASSUME TypeInv
  PROVE  /\ UNCHANGED listVars =>
              /\ isListing' \in BOOLEAN /\ listError' \in Errors
              /\ listedFiles' \in Listing \cup {NoListing}
              /\ listCache' \in [Pkgs -> CacheEntry \cup {NotCached}]
         /\ UNCHANGED extVars =>
              /\ isExtracting' \in BOOLEAN /\ finished' \in BOOLEAN /\ lastError' \in Errors
              /\ outputURL' \in Pkgs \cup {NoPkg} /\ requested' \in Pkgs \cup {NoPkg}
         /\ UNCHANGED progVars =>
              /\ wanted' \in SUBSET Files
              /\ fileCount' \in Nat /\ pendingProgress' \in Nat /\ carried' \in Nat
         /\ UNCHANGED bgTask => bgTask' \in [Tasks -> {"invalid", "live", "ended"}]
         /\ UNCHANGED cVars =>
              /\ userCreds' \in Creds /\ engineUp' \in BOOLEAN
              /\ keyset' \in [ekc : Creds, passcode : Creds]
  BY DEF TypeInv, TypeOK, listVars, extVars, progVars, cVars

LEMMA FinalizeTyped ==
  ASSUME Finalize
  PROVE  engineUp' \in BOOLEAN /\ keyset' \in [ekc : Creds, passcode : Creds]
  BY ConstantsAssumption DEF Finalize, FreshProcess

LEMMA GotoTyped ==
  ASSUME TypeInv, NEW t \in Tasks, pc[t] # "idle", NEW to \in PCs, Goto(t, to), job' = job,
         to \in {"scan", "close", "convert", "report"} =>
           pc[t] \in {"scan", "close", "convert", "report"}
  PROVE  pc' \in [Tasks -> PCs] /\ job' \in [Tasks -> Job \cup {NoJob}] /\ JobTyped'
  BY DEF Goto, TypeInv, TypeOK, JobTyped

LEMMA FailTyped ==
  ASSUME TypeInv, NEW t \in Tasks, pc[t] # "idle", NEW to \in PCs \ {"idle"},
         NEW e \in Errors \ {"none"}, Fail(t, e, to)
  PROVE  pc' \in [Tasks -> PCs] /\ job' \in [Tasks -> Job \cup {NoJob}] /\ JobTyped'
<1>1. job[t] \in Job /\ [job[t] EXCEPT !.err = e] \in Job
  BY DEF TypeInv, TypeOK, JobTyped, Job
<1>2. job' = [job EXCEPT ![t] = [job[t] EXCEPT !.err = e]]
  BY DEF Fail
<1>3. [job[t] EXCEPT !.err = e].err = e
  BY <1>1 DEF Job
<1>4. pc' \in [Tasks -> PCs] /\ job' \in [Tasks -> Job \cup {NoJob}]
  BY <1>1, <1>2 DEF Fail, Goto, TypeInv, TypeOK
<1>5. ASSUME NEW u \in Tasks
      PROVE  /\ pc'[u] # "idle" => job'[u] \in Job
             /\ pc'[u] \in {"scan", "close", "convert", "report"} /\ job'[u].err = "none"
                  => job'[u].ver \in Versions
  <2>1. CASE u = t
    BY <2>1, <1>1, <1>2, <1>3 DEF TypeInv, TypeOK
  <2>2. CASE u # t
    BY <2>2, <1>2 DEF Fail, Goto, TypeInv, TypeOK, JobTyped
  <2>3. QED
    BY <2>1, <2>2
<1>6. QED
  BY <1>4, <1>5 DEF JobTyped

(* A step that gives task t the job j keeps the others as they are. *)
LEMMA StartScanTyped ==
  ASSUME TypeInv, NEW t \in Tasks, NEW j \in Job, j.ver \in Versions,
         job' = [job EXCEPT ![t] = j], Goto(t, "scan")
  PROVE  pc' \in [Tasks -> PCs] /\ job' \in [Tasks -> Job \cup {NoJob}] /\ JobTyped'
<1>1. pc' \in [Tasks -> PCs] /\ job' \in [Tasks -> Job \cup {NoJob}]
  BY DEF Goto, TypeInv, TypeOK, PCs, Active, InC
<1>2. ASSUME NEW u \in Tasks
      PROVE  /\ pc'[u] # "idle" => job'[u] \in Job
             /\ pc'[u] \in {"scan", "close", "convert", "report"} /\ job'[u].err = "none"
                  => job'[u].ver \in Versions
  <2>1. CASE u = t
    BY <2>1 DEF TypeInv, TypeOK
  <2>2. CASE u # t
    BY <2>2 DEF Goto, TypeInv, TypeOK, JobTyped
  <2>3. QED
    BY <2>1, <2>2
<1>3. QED
  BY <1>1, <1>2 DEF JobTyped

LEMMA NeededAreFiles ==
  ASSUME NEW j \in Job, NEW v \in Versions PROVE Needed(j, v) \in SUBSET Files
<1>1. Content[j.pkg] \in [Versions -> SUBSET Files]
  BY ConstantsAssumption DEF Job
<1>2. Content[j.pkg][v] \in SUBSET Files
  BY <1>1
<1> QED BY <1>2 DEF Needed

LEMMA RetireTyped ==
  ASSUME TypeInv, NEW t \in Tasks, Retire(t)
  PROVE  pc' \in [Tasks -> PCs] /\ job' \in [Tasks -> Job \cup {NoJob}] /\ JobTyped'
  BY DEF Retire, Goto, TypeInv, TypeOK, JobTyped, PCs

LEMMA RunTaskTyped ==
  ASSUME TypeInv, NEW t \in Tasks, RunTask(t) PROVE TypeInv'
<1> USE ConstantsAssumption DEF PCs, Active, InC, Trailing, Errors
<1> DEFINE Own == /\ pc' \in [Tasks -> PCs] /\ job' \in [Tasks -> Job \cup {NoJob}]
                  /\ JobTyped'
<1>0. pc[t] # "idle" => job[t] \in Job
  BY DEF TypeInv, JobTyped
<1>1. CASE ApplyCredentials(t) /\ UNCHANGED <<listVars, extVars, progVars, bgTask>>
  <2>1. Own
    <3>1. CASE Fail(t, "creds", "report")
      BY <1>1, <3>1, FailTyped DEF ApplyCredentials
    <3>2. CASE Goto(t, "register") /\ UNCHANGED job
      BY <1>1, <3>2, GotoTyped DEF ApplyCredentials
    <3>3. QED
      BY <1>1, <3>1, <3>2 DEF ApplyCredentials
  <2>2. userCreds' \in Creds
    BY <1>1, <1>0 DEF ApplyCredentials, Job
  <2>3. QED
    <3>1. engineUp' \in BOOLEAN /\ keyset' \in [ekc : Creds, passcode : Creds]
      BY <1>1 DEF ApplyCredentials, TypeInv, TypeOK
    <3>2. QED
      BY <1>1, <2>1, <2>2, <3>1, UnchangedTyped, RunTaskFrame
<1>2. CASE Register(t) /\ UNCHANGED <<listVars, extVars, progVars, bgTask>>
  <2>1. Own
    <3>1. CASE Fail(t, "engine", "report")
      BY <1>2, <3>1, FailTyped DEF Register
    <3>2. CASE Goto(t, "alloc") /\ UNCHANGED job
      BY <1>2, <3>2, GotoTyped DEF Register
    <3>3. QED
      BY <1>2, <3>1, <3>2 DEF Register
  <2>2. engineUp' \in BOOLEAN /\ keyset' \in [ekc : Creds, passcode : Creds]
    <3>1. CASE UNCHANGED <<engineUp, keyset>>
      BY <3>1 DEF TypeInv, TypeOK
    <3>2. CASE engineUp' = TRUE /\ keyset' = [ekc |-> userCreds, passcode |-> NoCreds]
      BY <3>2 DEF TypeInv, TypeOK
    <3>3. QED
      BY <1>2, <3>1, <3>2, FinalizeTyped DEF Register
  <2>3. QED
    <3>1. userCreds' \in Creds
      BY <1>2 DEF Register, TypeInv, TypeOK
    <3>2. QED
      BY <1>2, <2>1, <2>2, <3>1, UnchangedTyped, RunTaskFrame
<1>3. CASE AllocPkg(t) /\ UNCHANGED countVars /\ UNCHANGED <<listVars, extVars, bgTask>>
  <2> DEFINE v == disk[job[t].pkg]
  <2>1. Own
    <3>1. CASE Fail(t, "engine", "report")
      BY <1>3, <3>1, FailTyped DEF AllocPkg
    <3>2. CASE /\ v # 0
               /\ job' = [job EXCEPT ![t].ver = v, ![t].todo = Needed(job[t], v)]
               /\ Goto(t, "scan")
      <4>1. job[t] \in Job /\ job[t].pkg \in Pkgs /\ v \in Versions
        BY <1>3, <1>0, <3>2 DEF AllocPkg, Job, TypeInv, TypeOK, OnDisk
      <4>2. Needed(job[t], v) \in SUBSET Files
        BY <4>1, NeededAreFiles
      <4>3. DEFINE j == [job[t] EXCEPT !.ver = v, !.todo = Needed(job[t], v)]
      <4>4. j \in Job /\ j.ver = v
        BY <4>1, <4>2 DEF Job, OnDisk
      <4>5. job' = [job EXCEPT ![t] = j]
        BY <3>2
      <4> HIDE DEF j, v
      <4>6. QED
        BY <3>2, <4>1, <4>4, <4>5, StartScanTyped
    <3>3. QED
      BY <1>3, <3>1, <3>2 DEF AllocPkg
  <2>2. engineUp' \in BOOLEAN /\ keyset' \in [ekc : Creds, passcode : Creds]
    <3>1. CASE engineUp' = engineUp /\ keyset' = [keyset EXCEPT !.passcode = userCreds]
      BY <3>1 DEF TypeInv, TypeOK
    <3>2. QED
      BY <1>3, <3>1, FinalizeTyped DEF AllocPkg
  <2>3. QED
    <3>1. userCreds' \in Creds
      BY <1>3 DEF AllocPkg, TypeInv, TypeOK
    <3>2. fileCount' \in Nat /\ pendingProgress' \in Nat /\ carried' \in Nat
      BY <1>3 DEF countVars, TypeInv, TypeOK
    <3>3. wanted' \in SUBSET Files
      <4>1. CASE UNCHANGED wanted
        BY <4>1 DEF TypeInv, TypeOK
      <4>2. CASE v # 0 /\ wanted' = wanted \cup Needed(job[t], v)
        <5>1. job[t] \in Job /\ job[t].pkg \in Pkgs /\ v \in Versions
          BY <1>3, <1>0, <4>2 DEF AllocPkg, Job, TypeInv, TypeOK, OnDisk
        <5>2. Needed(job[t], v) \in SUBSET Files
          BY <5>1, NeededAreFiles
        <5> QED BY <4>2, <5>2 DEF TypeInv, TypeOK
      <4> QED BY <1>3, <4>1, <4>2 DEF AllocPkg
    <3>4. QED
      BY <1>3, <2>1, <2>2, <3>1, <3>2, <3>3, UnchangedTyped, RunTaskFrame
<1>4. CASE CloseEngine(t) /\ UNCHANGED <<listVars, extVars, progVars, bgTask>>
  <2>1. Own
    BY <1>4, GotoTyped DEF CloseEngine
  <2>2. engineUp' \in BOOLEAN /\ keyset' \in [ekc : Creds, passcode : Creds]
    BY <1>4 DEF CloseEngine, Finalize, FreshProcess
  <2>3. QED
    <3>1. userCreds' \in Creds
      BY <1>4 DEF CloseEngine, TypeInv, TypeOK
    <3>2. QED
      BY <1>4, <2>1, <2>2, <3>1, UnchangedTyped, RunTaskFrame
<1>5. ASSUME NEW f \in Files, ReportFile(t, f), UNCHANGED <<listVars, extVars, bgTask, cVars>>
      PROVE  TypeInv'
  <2>1. job[t] \in Job
    BY <1>5, <1>0 DEF ReportFile
  <2>2. DEFINE j == [job[t] EXCEPT !.todo = @ \ {f}]
  <2>3. j \in Job /\ j.ver = job[t].ver /\ j.err = job[t].err
    BY <2>1 DEF Job
  <2>4. job' = [job EXCEPT ![t] = j]
    BY <1>5, <2>1 DEF ReportFile
  <2>5. Own
    <3> HIDE DEF j
    <3>1. QED
      <4>1. pc' = pc /\ pc[t] = "scan"
        BY <1>5 DEF ReportFile
      <4>2. job' \in [Tasks -> Job \cup {NoJob}]
        BY <2>3, <2>4 DEF TypeInv, TypeOK
      <4>3. ASSUME NEW u \in Tasks
            PROVE  /\ pc'[u] # "idle" => job'[u] \in Job
                   /\ pc'[u] \in {"scan", "close", "convert", "report"}
                      /\ job'[u].err = "none" => job'[u].ver \in Versions
        <5>1. CASE u = t
          BY <5>1, <4>1, <2>3, <2>4 DEF TypeInv, TypeOK, JobTyped
        <5>2. CASE u # t
          BY <5>2, <4>1, <2>4 DEF TypeInv, TypeOK, JobTyped
        <5>3. QED
          BY <5>1, <5>2
      <4>4. QED
        BY <4>1, <4>2, <4>3 DEF TypeInv, TypeOK, JobTyped
  <2>6. QED
    <3>1. fileCount' \in Nat /\ pendingProgress' \in Nat /\ carried' \in Nat
          /\ wanted' \in SUBSET Files
      BY <1>5 DEF ReportFile, TypeInv, TypeOK
    <3>2. QED
      BY <1>5, <2>5, <3>1, UnchangedTyped, RunTaskFrame
<1>6. CASE /\ EndScan(t) \/ ConvertEBoot(t)
           /\ UNCHANGED <<listVars, extVars, progVars, bgTask, cVars>>
  <2>1. Own
    <3>1. CASE Fail(t, "engine", "close")
      BY <1>6, <3>1, FailTyped DEF EndScan, ConvertEBoot
    <3>2. CASE pc[t] = "scan" /\ Goto(t, "close") /\ UNCHANGED job
      BY <3>2, GotoTyped
    <3>3. CASE pc[t] = "convert" /\ Goto(t, "report") /\ UNCHANGED job
      BY <3>3, GotoTyped
    <3>4. QED
      BY <1>6, <3>1, <3>2, <3>3 DEF EndScan, ConvertEBoot
  <2>2. QED
    BY <1>6, <2>1, UnchangedTyped, RunTaskFrame
<1>7. CASE ReportListing(t) /\ UNCHANGED <<extVars, progVars, bgTask, cVars>>
  <2>1. job[t] \in Job /\ job[t].pkg \in Pkgs /\ job[t].err \in Errors /\ job[t].creds \in Creds
    BY <1>7, <1>0 DEF ReportListing, Job
  <2>2. Own
    BY <1>7, RetireTyped DEF ReportListing
  <2>3. /\ listedFiles' \in Listing \cup {NoListing}
        /\ listCache' \in [Pkgs -> CacheEntry \cup {NotCached}]
    <3>1. CASE job[t].err # "none"
      BY <1>7, <3>1 DEF ReportListing, TypeInv, TypeOK
    <3>2. CASE job[t].err = "none"
      <4> DEFINE l == [pkg |-> job[t].pkg, ver |-> job[t].ver]
      <4>1. l \in Listing
        BY <1>7, <2>1, <3>2 DEF ReportListing, Listing, TypeInv, JobTyped
      <4>2. listedFiles' = l /\ CacheEntries(job[t].pkg, l, job[t].creds)
        BY <1>7, <3>2 DEF ReportListing
      <4> HIDE DEF l
      <4>3. CASE disk[job[t].pkg] = 0
        BY <4>1, <4>2, <4>3 DEF CacheEntries, TypeInv, TypeOK
      <4>4. CASE disk[job[t].pkg] # 0
        <5>1. [mtime |-> disk[job[t].pkg], entries |-> l, creds |-> job[t].creds] \in CacheEntry
          BY <2>1, <4>1, <4>4 DEF CacheEntry, TypeInv, TypeOK, OnDisk
        <5>2. QED
          BY <2>1, <4>1, <4>2, <4>4, <5>1 DEF CacheEntries, TypeInv, TypeOK
      <4>5. QED
        BY <4>3, <4>4
    <3>3. QED
      BY <3>1, <3>2
  <2>4. QED
    <3>1. isListing' \in BOOLEAN /\ listError' \in Errors
      BY <1>7, <2>1 DEF ReportListing
    <3>2. QED
      BY <1>7, <2>2, <2>3, <3>1, UnchangedTyped, RunTaskFrame
<1>8. CASE ReportExtraction(t) /\ UNCHANGED <<listVars, progVars, bgTask, cVars>>
  <2>1. job[t] \in Job /\ job[t].pkg \in Pkgs /\ job[t].err \in Errors
    BY <1>8, <1>0 DEF ReportExtraction, Job
  <2>2. Own
    BY <1>8, GotoTyped DEF ReportExtraction
  <2>3. QED
    <3>1. /\ isExtracting' \in BOOLEAN /\ finished' \in BOOLEAN /\ lastError' \in Errors
          /\ outputURL' \in Pkgs \cup {NoPkg} /\ requested' \in Pkgs \cup {NoPkg}
      BY <1>8, <2>1 DEF ReportExtraction, TypeInv, TypeOK
    <3>2. QED
      BY <1>8, <2>2, <3>1, UnchangedTyped, RunTaskFrame
<1>9. CASE /\ CheckBackgroundTask(t) \/ EndBackgroundTask(t)
           /\ UNCHANGED <<listVars, extVars, progVars, cVars>>
  <2>1. Own
    <3>1. CASE pc[t] = "checkBg" /\ Goto(t, "endBg") /\ UNCHANGED job
      BY <3>1, GotoTyped
    <3>2. CASE Retire(t)
      BY <3>2, RetireTyped
    <3>3. QED
      BY <1>9, <3>1, <3>2 DEF CheckBackgroundTask, EndBackgroundTask
  <2>2. bgTask' \in [Tasks -> {"invalid", "live", "ended"}]
    BY <1>9 DEF CheckBackgroundTask, EndBackgroundTask, TypeInv, TypeOK
  <2>3. QED
    BY <1>9, <2>1, <2>2, UnchangedTyped, RunTaskFrame
<1>10. QED
  BY <1>1, <1>2, <1>3, <1>4, <1>5, <1>6, <1>7, <1>8, <1>9 DEF RunTask, TaskStep, CSteps

LEMMA EnvironmentTyped == TypeInv /\ Environment => TypeInv'
<1> SUFFICES ASSUME TypeInv, Environment PROVE TypeInv'
  OBVIOUS
<1>1. ASSUME NEW t \in Tasks, ExpireBackgroundTask(t) PROVE TypeInv'
  BY <1>1 DEF ExpireBackgroundTask, TypeInv, TypeOK, JobTyped, envVars, listVars,
       extVars, progVars, storeVars, pickerVars, promptVars, cVars
<1>2. ASSUME NEW p \in Pkgs, ChangeFile(p) PROVE TypeInv'
  BY <1>2 DEF ChangeFile, TypeInv, TypeOK, JobTyped, listVars, extVars, progVars,
       storeVars, pickerVars, promptVars, taskVars, cVars
<1>3. ASSUME Relaunch PROVE TypeInv'
  <2>1. /\ savedSelections' = [p \in Pkgs |-> {}]
        /\ listCache' = [p \in Pkgs |-> NotCached]
        /\ pc' = [t \in Tasks |-> "idle"]
        /\ job' = [t \in Tasks |-> NoJob]
        /\ bgTask' = [t \in Tasks |-> "invalid"]
        /\ keyset' = [ekc |-> NoCreds, passcode |-> NoCreds]
    BY <1>3 DEF Relaunch, FreshProcess
  <2>2. keyset' \in [ekc : Creds, passcode : Creds] /\ pc' \in [Tasks -> PCs]
        /\ savedSelections' \in [Pkgs -> SUBSET Files]
        /\ listCache' \in [Pkgs -> CacheEntry \cup {NotCached}]
        /\ job' \in [Tasks -> Job \cup {NoJob}]
        /\ bgTask' \in [Tasks -> {"invalid", "live", "ended"}]
    BY <2>1, ConstantsAssumption DEF PCs
  <2>3. TypeOK'
    BY <1>3, <2>2, ConstantsAssumption DEF Relaunch, TypeInv, TypeOK, Errors, envVars
  <2>4. JobTyped'
    BY <2>1 DEF JobTyped
  <2>5. QED
    BY <1>3, <2>3, <2>4 DEF Relaunch, TypeInv
<1>4. QED
  BY <1>1, <1>2, <1>3 DEF Environment

LEMMA StutterTyped == TypeInv /\ UNCHANGED vars => TypeInv'
  BY DEF TypeInv, TypeOK, JobTyped, vars, envVars, listVars, extVars, progVars,
     storeVars, pickerVars, promptVars, taskVars, cVars

LEMMA TypeInvariant == Spec => []TypeInv
<1>1. TypeInv /\ [Next]_vars => TypeInv'
  BY UserTyped, MainQueueTyped, RunTaskTyped, EnvironmentTyped, StutterTyped DEF Next
<1>2. QED
  BY <1>1, InitTyped, PTL DEF Spec

(* Every variable keeps its type; in particular a task that runs has a job *)
(* and an open picker has a package, which the code dereferences.          *)
THEOREM TypeCorrect == Spec => []TypeOK
<1>1. TypeInv => TypeOK
  BY DEF TypeInv
<1>2. QED
  BY <1>1, TypeInvariant, PTL

-----------------------------------------------------------------------------
(* Mutual exclusion and the engine's state.  The flags are the lock: a     *)
(* task in its active part holds the flag of its kind, and the credentials *)
(* it applied stay in the C statics until it leaves the C layer.           *)

ActiveHoldsFlag ==
  \A t \in Tasks : pc[t] \in Active =>
    IF job[t].kind = "list" THEN isListing ELSE isExtracting

CredentialsApplied ==
  \A t \in Tasks : pc[t] \in InC => userCreds = job[t].creds

ServiceInv ==
  /\ ExclusiveEngine
  /\ ActiveHoldsFlag
  /\ FlagHasTask
  /\ CredentialsApplied
  /\ EngineServesItsTask

flagVars == <<isListing, isExtracting, pc, job, cVars>>

LEMMA InitServed == Init => ServiceInv
  BY DEF Init, FreshProcess, ServiceInv, ExclusiveEngine, ActiveHoldsFlag, FlagHasTask,
     CredentialsApplied, EngineServesItsTask, Active, InC

LEMMA UnchangedServed == ServiceInv /\ UNCHANGED flagVars => ServiceInv'
  BY DEF ServiceInv, ExclusiveEngine, ActiveHoldsFlag, FlagHasTask,
     CredentialsApplied, EngineServesItsTask, flagVars, cVars

LEMMA SpawnServed ==
  ASSUME TypeInv, ServiceInv, ~Busy,
         NEW t \in Tasks, NEW k \in Kinds, NEW p, NEW c, NEW s,
         Spawn(t, NewJob(k, p, c, s)), UNCHANGED cVars,
         isListing' = (k = "list"), isExtracting' = (k = "extract")
  PROVE  ServiceInv'
<1>1. \A u \in Tasks : pc[u] \notin Active
  BY DEF ServiceInv, ActiveHoldsFlag, Busy
<1>2. /\ pc'[t] = "apply" /\ job'[t].kind = k
      /\ \A u \in Tasks \ {t} : pc'[u] = pc[u] /\ job'[u] = job[u]
  BY DEF Spawn, NewJob, TypeInv, TypeOK
<1>3. "apply" \in Active /\ "apply" \notin InC /\ InC \subseteq Active
  BY DEF Active, InC
<1>4. \A u \in Tasks : pc'[u] \in Active => u = t
  BY <1>1, <1>2
<1>5. ExclusiveEngine' /\ ActiveHoldsFlag'
  BY <1>2, <1>4 DEF ExclusiveEngine, ActiveHoldsFlag, Kinds
<1>6. FlagHasTask'
  BY <1>2, <1>3 DEF FlagHasTask
<1>7. CredentialsApplied' /\ EngineServesItsTask'
  BY <1>2, <1>3, <1>4 DEF CredentialsApplied, EngineServesItsTask, InC
<1>8. QED
  BY <1>5, <1>6, <1>7 DEF ServiceInv

LEMMA ListFilesServed ==
  ASSUME TypeInv, ServiceInv, ~Busy, NEW p, NEW cache, NEW c,
         ListFiles(p, cache, c), UNCHANGED <<isExtracting, cVars>>
  PROVE  ServiceInv'
<1>1. CASE UNCHANGED <<isListing, pc, job, started>>
  BY <1>1, UnchangedServed DEF flagVars
<1>2. CASE isListing' = TRUE /\ \E t \in Tasks : Spawn(t, NewJob("list", p, c, {}))
  <2>1. PICK t \in Tasks : Spawn(t, NewJob("list", p, c, {}))
    BY <1>2
  <2>2. isExtracting' = FALSE
    BY DEF Busy, TypeInv, TypeOK
  <2>3. QED
    BY <1>2, <2>1, <2>2, SpawnServed DEF Kinds
<1>3. QED
  BY <1>1, <1>2 DEF ListFiles

LEMMA UserServed == TypeInv /\ ServiceInv /\ User => ServiceInv'
<1> SUFFICES ASSUME TypeInv, ServiceInv, User PROVE ServiceInv'
  OBVIOUS
<1>1. ASSUME NEW p \in Pkgs, TapRow(p) PROVE ServiceInv'
  <2>1. ~Busy /\ ListFiles(p, listCache, credentials[p]) /\ UNCHANGED <<isExtracting, cVars>>
    BY <1>1 DEF TapRow, BeginFilePicking, extVars
  <2>2. QED
    BY <2>1, ListFilesServed
<1>2. CASE \/ \E s \in SUBSET FilesOf(listedFiles) : ToggleSelection(s)
           \/ CancelPicker \/ SwipePicker \/ CancelKeys
  <2>1. UNCHANGED flagVars
    BY <1>2 DEF ToggleSelection, CancelPicker, SwipePicker, CancelKeys, flagVars,
         listVars, extVars, taskVars
  <2>2. QED
    BY <2>1, UnchangedServed
<1>3. CASE TapExtract
  <2>1. /\ ~isListing /\ ~isExtracting /\ UNCHANGED <<isListing, cVars>>
    BY <1>3 DEF TapExtract, Extract, listVars
  <2>2. CASE RefuseForSpace(selectedFiles) \/ RefuseWithoutConfig
    <3>1. UNCHANGED flagVars
      BY <2>1, <2>2 DEF RefuseForSpace, RefuseWithoutConfig, flagVars, taskVars
    <3>2. QED
      BY <3>1, UnchangedServed
  <2>3. CASE StartTask(pickerPKG, selectedFiles)
    <3>1. PICK t \in Tasks :
            Spawn(t, NewJob("extract", pickerPKG, credentials[pickerPKG], selectedFiles))
      BY <2>3 DEF StartTask
    <3>2. isExtracting' = TRUE /\ isListing' = FALSE /\ ~Busy
      BY <2>1, <2>3 DEF StartTask, Busy, TypeInv, TypeOK
    <3>3. QED
      BY <2>1, <3>1, <3>2, SpawnServed DEF Kinds
  <2>4. QED
    BY <1>3, <2>2, <2>3 DEF TapExtract, Extract
<1>4. ASSUME NEW c \in Creds, RetryWithKeys(c) PROVE ServiceInv'
  <2>1. UNCHANGED <<isExtracting, cVars>>
    BY <1>4 DEF RetryWithKeys, extVars
  <2>2. CASE BeginFilePicking(keyPromptPKG, [listCache EXCEPT ![keyPromptPKG] = NotCached], c)
    BY <2>1, <2>2, ListFilesServed DEF BeginFilePicking
  <2>3. CASE UNCHANGED <<isListing, pc, job>>
    BY <2>1, <2>3, UnchangedServed DEF flagVars
  <2>4. QED
    BY <1>4, <2>2, <2>3 DEF RetryWithKeys
<1>5. QED
  BY <1>1, <1>2, <1>3, <1>4 DEF User

LEMMA MainQueueServed == ServiceInv /\ MainQueue => ServiceInv'
<1> SUFFICES ASSUME MainQueue PROVE UNCHANGED flagVars
  BY UnchangedServed
<1>1. QED
  BY DEF MainQueue, OnListErrorChange, FireDelayedPrompt, DeliverProgress, flagVars,
     listVars, extVars, taskVars

(* A step of an active task that keeps it active and keeps the flags, the  *)
(* job's identity and what the task needs of the C layer.                  *)
LEMMA ActiveStepServed ==
  ASSUME TypeInv, ServiceInv, NEW t \in Tasks, NEW to \in Active,
         pc[t] \in Active, Goto(t, to), UNCHANGED <<isListing, isExtracting>>,
         job'[t].kind = job[t].kind, job'[t].creds = job[t].creds,
         \A u \in Tasks \ {t} : job'[u] = job[u],
         to \in InC => userCreds' = job[t].creds,
         to \in {"alloc", "scan", "close"} => engineUp' /\ keyset'.ekc = job[t].creds,
         to \in {"scan", "close"} => keyset'.passcode = job[t].creds
  PROVE  ServiceInv'
<1>1. pc'[t] = to /\ \A u \in Tasks \ {t} : pc'[u] = pc[u]
  BY DEF Goto, TypeInv, TypeOK
<1>2. \A u \in Tasks \ {t} : pc'[u] \notin Active
  BY <1>1 DEF ServiceInv, ExclusiveEngine
<1>3. InC \subseteq Active /\ {"alloc", "scan", "close"} \subseteq InC
  BY DEF InC, Active
<1>4. ExclusiveEngine' /\ ActiveHoldsFlag'
  BY <1>1, <1>2 DEF ExclusiveEngine, ActiveHoldsFlag, ServiceInv
<1>5. FlagHasTask'
  <2>1. /\ isListing => job[t].kind = "list"
        /\ isExtracting => job[t].kind = "extract"
    BY DEF ServiceInv, ExclusiveEngine, FlagHasTask
  <2>2. QED
    BY <1>1, <2>1 DEF FlagHasTask
<1>6. CredentialsApplied' /\ EngineServesItsTask'
  <2>1. \A u \in Tasks \ {t} : pc'[u] \notin InC
    BY <1>2, <1>3
  <2>2. CredentialsApplied'
    BY <1>1, <2>1 DEF CredentialsApplied
  <2>3. EngineServesItsTask'
    BY <1>1, <1>3, <2>1 DEF EngineServesItsTask
  <2>4. QED
    BY <2>2, <2>3
<1>7. QED
  BY <1>4, <1>5, <1>6 DEF ServiceInv

(* A step of a task that is no longer active. *)
LEMMA TrailingStepServed ==
  ASSUME TypeInv, ServiceInv, NEW t \in Tasks, pc[t] \notin Active,
         pc'[t] \notin Active,
         \A u \in Tasks \ {t} : pc'[u] = pc[u] /\ job'[u] = job[u],
         UNCHANGED <<isListing, isExtracting, cVars>>
  PROVE  ServiceInv'
<1>1. \A u \in Tasks : pc'[u] \in Active => u # t
  OBVIOUS
<1>2. InC \subseteq Active /\ {"alloc", "scan", "close"} \subseteq InC
  BY DEF InC, Active
<1>3. ExclusiveEngine' /\ ActiveHoldsFlag'
  BY <1>1 DEF ExclusiveEngine, ActiveHoldsFlag, ServiceInv
<1>4. FlagHasTask'
  BY DEF FlagHasTask, ServiceInv
<1>5. CredentialsApplied'
  BY <1>1, <1>2 DEF CredentialsApplied, ServiceInv, cVars
<1>6. EngineServesItsTask'
  BY <1>1, <1>2 DEF EngineServesItsTask, ServiceInv, cVars
<1>7. QED
  BY <1>3, <1>4, <1>5, <1>6 DEF ServiceInv

(* The step that publishes a result drops the flag of its task. *)
LEMMA ReportServed ==
  ASSUME TypeInv, ServiceInv, NEW t \in Tasks, pc[t] \in Active, pc'[t] \notin Active,
         \A u \in Tasks \ {t} : pc'[u] = pc[u] /\ job'[u] = job[u],
         IF job[t].kind = "list" THEN ~isListing' /\ UNCHANGED isExtracting
                                 ELSE ~isExtracting' /\ UNCHANGED isListing
  PROVE  ServiceInv'
<1>1. \A u \in Tasks : pc'[u] \notin Active
  BY DEF ServiceInv, ExclusiveEngine
<1>2. InC \subseteq Active /\ {"alloc", "scan", "close"} \subseteq InC
  BY DEF InC, Active
<1>3. ExclusiveEngine' /\ ActiveHoldsFlag'
  BY <1>1 DEF ExclusiveEngine, ActiveHoldsFlag
<1>4. ~isListing' /\ ~isExtracting'
  BY DEF ServiceInv, ExclusiveEngine, FlagHasTask
<1>5. FlagHasTask'
  BY <1>4 DEF FlagHasTask
<1>6. CredentialsApplied' /\ EngineServesItsTask'
  BY <1>1, <1>2 DEF CredentialsApplied, EngineServesItsTask
<1>7. QED
  BY <1>3, <1>5, <1>6 DEF ServiceInv

LEMMA FailKeepsJob ==
  ASSUME TypeInv, NEW t \in Tasks, NEW e, NEW to, pc[t] # "idle", Fail(t, e, to)
  PROVE  /\ Goto(t, to)
         /\ job'[t].kind = job[t].kind /\ job'[t].creds = job[t].creds
         /\ \A u \in Tasks \ {t} : job'[u] = job[u]
<1>1. job \in [Tasks -> Job \cup {NoJob}] /\ job[t] \in Job
  BY DEF TypeInv, TypeOK, JobTyped
<1>2. job' = [job EXCEPT ![t].err = e] /\ Goto(t, to)
  BY DEF Fail
<1>3. QED
  BY <1>1, <1>2 DEF Job

LEMMA RunTaskServed ==
  ASSUME TypeInv, ServiceInv, NEW t \in Tasks, RunTask(t)
  PROVE  ServiceInv'
<1> USE DEF Active, InC
<1>0. pc[t] \in InC => userCreds = job[t].creds
  BY DEF ServiceInv, CredentialsApplied
<1>1. CASE CSteps(t) /\ UNCHANGED <<listVars, extVars, bgTask>>
  <2>0. UNCHANGED <<isListing, isExtracting>>
    BY <1>1 DEF listVars, extVars
  <2>1. CASE ApplyCredentials(t)
    <3>1. CASE Fail(t, "creds", "report")
      BY <2>0, <2>1, <3>1, FailKeepsJob, ActiveStepServed DEF ApplyCredentials
    <3>2. CASE userCreds' = job[t].creds /\ Goto(t, "register") /\ UNCHANGED job
      BY <2>0, <2>1, <3>2, ActiveStepServed DEF ApplyCredentials
    <3>3. QED
      BY <2>1, <3>1, <3>2 DEF ApplyCredentials
  <2>2. CASE Register(t)
    <3>1. CASE Fail(t, "engine", "report")
      BY <2>0, <2>2, <3>1, FailKeepsJob, ActiveStepServed DEF Register
    <3>2. CASE /\ engineUp' = TRUE
               /\ keyset' = [ekc |-> userCreds, passcode |-> NoCreds]
               /\ Goto(t, "alloc") /\ UNCHANGED job
      <4>1. keyset'.ekc = job[t].creds /\ userCreds' = job[t].creds /\ pc[t] \in Active
        BY <1>0, <2>2, <3>2 DEF Register
      <4>2. QED
        BY <2>0, <3>2, <4>1, ActiveStepServed
    <3>3. QED
      BY <2>2, <3>1, <3>2 DEF Register
  <2>3. CASE AllocPkg(t)
    <3>1. CASE Fail(t, "engine", "report")
      BY <2>0, <2>3, <3>1, FailKeepsJob, ActiveStepServed DEF AllocPkg
    <3>2. CASE /\ keyset' = [keyset EXCEPT !.passcode = userCreds]
               /\ \E v : job' = [job EXCEPT ![t].ver = v, ![t].todo = Needed(job[t], v)]
               /\ Goto(t, "scan") /\ UNCHANGED <<engineUp, userCreds>>
      <4>1. pc[t] \in Active /\ pc[t] = "alloc"
        BY <2>3 DEF AllocPkg
      <4>2. engineUp /\ keyset.ekc = job[t].creds /\ userCreds = job[t].creds
        BY <1>0, <4>1 DEF ServiceInv, EngineServesItsTask
      <4>3. keyset'.ekc = job[t].creds /\ keyset'.passcode = job[t].creds
        BY <3>2, <4>2 DEF TypeInv, TypeOK
      <4>4. job \in [Tasks -> Job \cup {NoJob}] /\ job[t] \in Job
        BY <4>1 DEF TypeInv, TypeOK, JobTyped
      <4>5. /\ job'[t].kind = job[t].kind /\ job'[t].creds = job[t].creds
            /\ \A u \in Tasks \ {t} : job'[u] = job[u]
        BY <3>2, <4>4 DEF Job
      <4>6. QED
        BY <2>0, <3>2, <4>1, <4>2, <4>3, <4>5, ActiveStepServed
    <3>3. QED
      BY <2>3, <3>1, <3>2 DEF AllocPkg
  <2>4. CASE CloseEngine(t)
    <3>1. PICK to \in {"convert", "report"} : Goto(t, to)
      BY <2>4 DEF CloseEngine
    <3>2. QED
      BY <2>0, <2>4, <3>1, ActiveStepServed DEF CloseEngine
  <2>5. QED
    BY <1>1, <2>1, <2>2, <2>3, <2>4 DEF CSteps
<1>2. ASSUME NEW f \in Files, ReportFile(t, f), UNCHANGED <<listVars, extVars, bgTask, cVars>>
      PROVE  ServiceInv'
  <2>1. job \in [Tasks -> Job \cup {NoJob}] /\ job[t] \in Job /\ pc[t] = "scan"
    BY <1>2 DEF ReportFile, TypeInv, TypeOK, JobTyped
  <2>2. /\ job'[t].kind = job[t].kind /\ job'[t].creds = job[t].creds
        /\ \A u \in Tasks \ {t} : job'[u] = job[u]
    BY <1>2, <2>1 DEF ReportFile, Job
  <2>3. Goto(t, "scan") /\ UNCHANGED <<isListing, isExtracting, cVars>>
    BY <1>2, <2>1 DEF ReportFile, Goto, TypeInv, TypeOK, listVars, extVars
  <2>4. engineUp' /\ keyset'.ekc = job[t].creds /\ keyset'.passcode = job[t].creds
        /\ userCreds' = job[t].creds
    BY <1>0, <2>1, <2>3 DEF ServiceInv, EngineServesItsTask, cVars
  <2>5. QED
    BY <2>1, <2>2, <2>3, <2>4, ActiveStepServed
<1>3. CASE /\ EndScan(t) \/ ConvertEBoot(t)
           /\ UNCHANGED <<listVars, extVars, progVars, bgTask, cVars>>
  <2>0. UNCHANGED <<isListing, isExtracting, userCreds, engineUp, keyset>>
    BY <1>3 DEF listVars, extVars, cVars
  <2>1. CASE EndScan(t)
    <3>1. engineUp' /\ keyset'.ekc = job[t].creds /\ keyset'.passcode = job[t].creds
          /\ userCreds' = job[t].creds /\ pc[t] \in Active /\ pc[t] # "idle"
      BY <1>0, <2>0, <2>1 DEF EndScan, ServiceInv, EngineServesItsTask
    <3>2. CASE Goto(t, "close") /\ UNCHANGED job
      BY <2>0, <3>1, <3>2, ActiveStepServed
    <3>3. CASE Fail(t, "engine", "close")
      BY <2>0, <3>1, <3>3, FailKeepsJob, ActiveStepServed
    <3>4. QED
      BY <2>1, <3>2, <3>3 DEF EndScan
  <2>2. CASE ConvertEBoot(t)
    BY <2>0, <2>2, ActiveStepServed DEF ConvertEBoot
  <2>3. QED
    BY <1>3, <2>1, <2>2
<1>4. CASE ReportListing(t) /\ UNCHANGED <<extVars, progVars, bgTask, cVars>>
  <2>1. /\ pc'[t] = "idle"
        /\ \A u \in Tasks \ {t} : pc'[u] = pc[u] /\ job'[u] = job[u]
    BY <1>4 DEF ReportListing, Retire, Goto, TypeInv, TypeOK
  <2>2. QED
    BY <1>4, <2>1, ReportServed DEF ReportListing, extVars
<1>5. CASE ReportExtraction(t) /\ UNCHANGED <<listVars, progVars, bgTask, cVars>>
  <2>1. /\ pc'[t] = "checkBg"
        /\ \A u \in Tasks \ {t} : pc'[u] = pc[u] /\ job'[u] = job[u]
    BY <1>5 DEF ReportExtraction, Goto, TypeInv, TypeOK
  <2>2. QED
    BY <1>5, <2>1, ReportServed DEF ReportExtraction, listVars
<1>6. CASE /\ CheckBackgroundTask(t) \/ EndBackgroundTask(t)
           /\ UNCHANGED <<listVars, extVars, progVars, cVars>>
  <2>1. pc[t] \in {"checkBg", "endBg"} /\ pc'[t] \in {"idle", "endBg"}
    BY <1>6 DEF CheckBackgroundTask, EndBackgroundTask, Retire, Goto, TypeInv, TypeOK
  <2>2. \A u \in Tasks \ {t} : pc'[u] = pc[u] /\ job'[u] = job[u]
    BY <1>6 DEF CheckBackgroundTask, EndBackgroundTask, Retire, Goto, TypeInv, TypeOK
  <2>3. QED
    BY <1>6, <2>1, <2>2, TrailingStepServed DEF listVars, extVars
<1>7. QED
  BY <1>1, <1>2, <1>3, <1>4, <1>5, <1>6 DEF RunTask, TaskStep

LEMMA EnvironmentServed == ServiceInv /\ Environment => ServiceInv'
<1> SUFFICES ASSUME ServiceInv, Environment PROVE ServiceInv'
  OBVIOUS
<1>1. CASE \/ \E t \in Tasks : ExpireBackgroundTask(t)
           \/ \E p \in Pkgs : ChangeFile(p)
  <2>1. UNCHANGED flagVars
    BY <1>1 DEF ExpireBackgroundTask, ChangeFile, flagVars, listVars, extVars, taskVars
  <2>2. QED
    BY <2>1, UnchangedServed
<1>2. CASE Relaunch
  BY <1>2 DEF Relaunch, FreshProcess, ServiceInv, ExclusiveEngine, ActiveHoldsFlag,
     FlagHasTask, CredentialsApplied, EngineServesItsTask, Active, InC
<1>3. QED
  BY <1>1, <1>2 DEF Environment

LEMMA StutterServed == ServiceInv /\ UNCHANGED vars => ServiceInv'
  BY UnchangedServed DEF vars, flagVars, listVars, extVars, taskVars

LEMMA ServiceInductive == Spec => []ServiceInv
<1>1. TypeInv /\ ServiceInv /\ [Next]_vars => ServiceInv'
  BY UserServed, MainQueueServed, RunTaskServed, EnvironmentServed, StutterServed DEF Next
<1>2. Spec => []TypeInv
  BY TypeInvariant
<1>3. QED
  BY <1>1, <1>2, InitServed, PTL DEF Spec

(* listFiles and extract exclude each other, so one thread at most is      *)
(* inside the C layer, however the user, the tasks and the environment     *)
(* interleave and however often the process is killed.                     *)
THEOREM EngineIsExclusive == Spec => []ExclusiveEngine
  BY ServiceInductive, PTL DEF ServiceInv

(* A task that opens or walks a package does it with an initialised engine *)
(* whose keyset holds the credentials of that package.                     *)
THEOREM EngineIsItsTasks == Spec => []EngineServesItsTask
  BY ServiceInductive, PTL DEF ServiceInv

(* isListing and isExtracting are never set without a task that will reset *)
(* them.                                                                   *)
THEOREM FlagsHaveTasks == Spec => []FlagHasTask
  BY ServiceInductive, PTL DEF ServiceInv

-----------------------------------------------------------------------------
(* What a retry stores.                                                    *)

(* Credentials change only by a retry and survive a relaunch. *)
CredsStored == credentials = defaults

LEMMA CredsStoredStep == CredsStored /\ [Next]_vars => CredsStored'
<1> SUFFICES ASSUME CredsStored, [Next]_vars PROVE CredsStored'
  OBVIOUS
<1>1. ASSUME NEW c \in Creds, RetryWithKeys(c) PROVE CredsStored'
  BY <1>1 DEF RetryWithKeys, SetCredentials, CredsStored
<1>2. CASE Relaunch
  BY <1>2 DEF Relaunch, CredsStored, envVars
<1>3. CASE UNCHANGED <<credentials, defaults>>
  BY <1>3 DEF CredsStored
<1>4. QED
  BY <1>1, <1>2, <1>3 DEF Next, vars, User, MainQueue, Environment, TapRow,
     ToggleSelection, TapExtract, CancelPicker, SwipePicker, CancelKeys,
     OnListErrorChange, FireDelayedPrompt, DeliverProgress, RunTask,
     ExpireBackgroundTask, ChangeFile, envVars, storeVars

LEMMA KeysStep ==
  TypeInv /\ CredsStored /\ [Next]_vars =>
    [\A p \in Pkgs : credentials'[p] # credentials[p] => p = keyPromptPKG]_vars
<1> SUFFICES ASSUME TypeInv, CredsStored, [Next]_vars, NEW p \in Pkgs,
                    credentials'[p] # credentials[p]
             PROVE  p = keyPromptPKG
  OBVIOUS
<1>1. ASSUME NEW c \in Creds, RetryWithKeys(c) PROVE p = keyPromptPKG
  BY <1>1 DEF RetryWithKeys, SetCredentials, TypeInv, TypeOK
<1>2. CASE UNCHANGED credentials
  BY <1>2
<1>3. CASE Relaunch
  BY <1>3 DEF Relaunch, CredsStored
<1>4. QED
  BY <1>1, <1>2, <1>3 DEF Next, vars, User, MainQueue, Environment, TapRow,
     ToggleSelection, TapExtract, CancelPicker, SwipePicker, CancelKeys,
     OnListErrorChange, FireDelayedPrompt, DeliverProgress, RunTask,
     ExpireBackgroundTask, ChangeFile, storeVars

(* Keys entered for one package are neither given to another one nor lost, *)
(* by a failed listing, a second prompt or a relaunch.                     *)
THEOREM KeysAreKept == Spec => KeysSurvive
<1>1. Init => CredsStored
  BY DEF Init, CredsStored
<1>2. Spec => []CredsStored
  BY <1>1, CredsStoredStep, PTL DEF Spec
<1>3. QED
  BY <1>2, TypeInvariant, KeysStep, PTL DEF Spec, KeysSurvive

-----------------------------------------------------------------------------
(* What a step of a task, or the start of one, leaves of the jobs.         *)

Read == {"scan", "close", "convert", "report"}     \* the version is known

LEMMA TaskKeepsJob ==
  ASSUME TypeInv, NEW t \in Tasks, RunTask(t)
  PROVE  /\ \A u \in Tasks \ {t} : pc'[u] = pc[u] /\ job'[u] = job[u]
         /\ pc'[t] \in Active => /\ pc[t] \in Active
                                 /\ job'[t].kind = job[t].kind /\ job'[t].pkg = job[t].pkg
         /\ pc'[t] \in Read /\ job'[t].err = "none" =>
              \/ job'[t].ver = disk[job[t].pkg]
              \/ pc[t] \in Read /\ job[t].err = "none" /\ job'[t].ver = job[t].ver
<1> USE DEF Active, InC, Read
<1>0. /\ pc \in [Tasks -> PCs] /\ job \in [Tasks -> Job \cup {NoJob}]
      /\ pc[t] # "idle" => job[t] \in Job
  BY DEF TypeInv, TypeOK, JobTyped
<1>1. ASSUME NEW e \in {"creds", "engine"}, NEW to, pc[t] \in Active, Fail(t, e, to)
      PROVE  /\ \A u \in Tasks \ {t} : pc'[u] = pc[u] /\ job'[u] = job[u]
             /\ job'[t].kind = job[t].kind /\ job'[t].pkg = job[t].pkg
             /\ job'[t].err # "none"
  <2>1. job[t] \in Job /\ job' = [job EXCEPT ![t].err = e] /\ pc' = [pc EXCEPT ![t] = to]
    BY <1>0, <1>1 DEF Fail, Goto
  <2> QED BY <1>0, <2>1 DEF Job
<1>2. CASE CSteps(t)
  <2>1. CASE \E e \in {"creds", "engine"}, to \in PCs : Fail(t, e, to)
    BY <1>1, <1>2, <2>1 DEF CSteps, ApplyCredentials, Register, AllocPkg, CloseEngine
  <2>2. CASE /\ pc[t] = "alloc" /\ Goto(t, "scan")
             /\ job' = [job EXCEPT ![t].ver = disk[job[t].pkg],
                                   ![t].todo = Needed(job[t], disk[job[t].pkg])]
    <3>1. job[t] \in Job
      BY <1>0, <2>2
    <3> QED BY <1>0, <2>2, <3>1 DEF Goto, Job
  <2>3. CASE /\ UNCHANGED job /\ pc[t] \in {"apply", "register", "close"}
             /\ \E to \in PCs \ {"scan", "close"} :
                   Goto(t, to) /\ (to \in {"convert", "report"} => pc[t] = "close")
    BY <1>0, <2>3 DEF Goto
  <2> QED
    <3>1. CASE ApplyCredentials(t)
      BY <2>1, <2>3, <3>1 DEF ApplyCredentials, PCs
    <3>2. CASE Register(t)
      BY <2>1, <2>3, <3>2 DEF Register, PCs
    <3>3. CASE AllocPkg(t)
      BY <2>1, <2>2, <3>3 DEF AllocPkg, PCs
    <3>4. CASE CloseEngine(t)
      BY <2>3, <3>4 DEF CloseEngine, PCs
    <3> QED BY <1>2, <3>1, <3>2, <3>3, <3>4 DEF CSteps
<1>3. ASSUME NEW f \in Files, ReportFile(t, f)
      PROVE
        /\ \A u \in Tasks \ {t} : pc'[u] = pc[u] /\ job'[u] = job[u]
        /\ pc' = pc /\ pc[t] = "scan"
        /\ job'[t].kind = job[t].kind /\ job'[t].pkg = job[t].pkg
        /\ job'[t].ver = job[t].ver /\ job'[t].err = job[t].err
  <2>1. job[t] \in Job
    BY <1>0, <1>3 DEF ReportFile
  <2> QED BY <1>0, <1>3, <2>1 DEF ReportFile, Job
<1>4. CASE EndScan(t) \/ ConvertEBoot(t)
  <2>1. CASE Fail(t, "engine", "close")
    BY <1>1, <1>4, <2>1 DEF EndScan, ConvertEBoot
  <2>2. CASE UNCHANGED job /\ pc[t] \in {"scan", "convert"} /\ \E to : Goto(t, to)
    BY <1>0, <2>2 DEF Goto
  <2> QED BY <1>4, <2>1, <2>2 DEF EndScan, ConvertEBoot
<1>5. CASE ReportListing(t) \/ ReportExtraction(t)
  BY <1>0, <1>5 DEF ReportListing, ReportExtraction, Retire, Goto
<1>6. CASE CheckBackgroundTask(t) \/ EndBackgroundTask(t)
  BY <1>0, <1>6 DEF CheckBackgroundTask, EndBackgroundTask, Retire, Goto
<1> QED BY <1>2, <1>3, <1>4, <1>5, <1>6 DEF RunTask, TaskStep

LEMMA SpawnStartsJob ==
  ASSUME TypeInv, NEW t \in Tasks, NEW j, Spawn(t, j)
  PROVE  /\ \A u \in Tasks \ {t} : pc'[u] = pc[u] /\ job'[u] = job[u]
         /\ pc'[t] = "apply" /\ job'[t] = j
  BY DEF Spawn, TypeInv, TypeOK

-----------------------------------------------------------------------------
(* The Done screen: the extraction that runs is the one asked for last.    *)

RequestServed ==
  \A t \in Tasks : pc[t] \in Active /\ job[t].kind = "extract" => job[t].pkg = requested
DoneInv == RequestServed /\ DoneShowsLastRequest

LEMMA DoneStep == TypeInv /\ ServiceInv /\ DoneInv /\ [Next]_vars => DoneInv'
<1> SUFFICES ASSUME TypeInv, ServiceInv, DoneInv, [Next]_vars PROVE DoneInv'
  OBVIOUS
<1>1. ASSUME UNCHANGED extVars, UNCHANGED <<pc, job>> PROVE DoneInv'
  BY <1>1 DEF DoneInv, RequestServed, DoneShowsLastRequest, extVars
<1>2. ASSUME UNCHANGED extVars, NEW p, NEW cache, NEW c, ListFiles(p, cache, c)
      PROVE  DoneInv'
  <2>1. CASE UNCHANGED <<pc, job>>
    BY <1>1, <1>2, <2>1
  <2>2. CASE \E t \in Tasks : Spawn(t, NewJob("list", p, c, {}))
    <3>1. PICK t \in Tasks : Spawn(t, NewJob("list", p, c, {}))
      BY <2>2
    <3> QED
      BY <1>2, <3>1, SpawnStartsJob
      DEF NewJob, DoneInv, RequestServed, DoneShowsLastRequest, extVars
  <2> QED BY <1>2, <2>1, <2>2 DEF ListFiles
<1>3. ASSUME TapExtract PROVE DoneInv'
  <2>1. \A t \in Tasks : ~(pc[t] \in Active /\ job[t].kind = "extract")
    BY <1>3 DEF TapExtract, Extract, ServiceInv, ActiveHoldsFlag
  <2>2. CASE RefuseForSpace(selectedFiles) \/ RefuseWithoutConfig
    BY <2>1, <2>2 DEF RefuseForSpace, RefuseWithoutConfig, taskVars, DoneInv, RequestServed,
       DoneShowsLastRequest
  <2>3. CASE StartTask(pickerPKG, selectedFiles)
    <3>1. PICK t \in Tasks :
            Spawn(t, NewJob("extract", pickerPKG, credentials[pickerPKG], selectedFiles))
      BY <2>3 DEF StartTask
    <3>2. requested' = pickerPKG /\ ~finished'
      BY <1>3, <2>3 DEF TapExtract, Extract, StartTask
    <3> QED
      BY <2>1, <3>1, <3>2, SpawnStartsJob DEF NewJob, DoneInv, RequestServed,
         DoneShowsLastRequest
  <2> QED BY <1>3, <2>2, <2>3 DEF TapExtract, Extract
<1>4. ASSUME NEW t \in Tasks, RunTask(t) PROVE DoneInv'
  <2>1. CASE UNCHANGED extVars
    BY <1>4, <2>1, TaskKeepsJob DEF DoneInv, RequestServed, DoneShowsLastRequest, extVars
  <2>2. CASE ReportExtraction(t)
    <3>1. requested' = requested /\ RequestServed'
      BY <1>4, <2>2, TaskKeepsJob DEF ReportExtraction, DoneInv, RequestServed
    <3>2. job[t] \in Job /\ job[t].pkg = requested
      BY <2>2 DEF ReportExtraction, DoneInv, RequestServed, Active, TypeInv, JobTyped
    <3>3. requested # NoPkg
      BY <3>2, ConstantsAssumption DEF Job
    <3> QED
      BY <2>2, <3>1, <3>2, <3>3 DEF ReportExtraction, DoneInv, DoneShowsLastRequest
  <2> QED BY <1>4, <2>1, <2>2 DEF RunTask, TaskStep
<1>5. CASE Relaunch
  BY <1>5 DEF Relaunch, FreshProcess, DoneInv, RequestServed, DoneShowsLastRequest, Active, InC
<1>6. ASSUME NEW c \in Creds, RetryWithKeys(c) PROVE DoneInv'
  BY <1>1, <1>2, <1>6 DEF RetryWithKeys, BeginFilePicking
<1>7. ASSUME NEW p \in Pkgs, TapRow(p) PROVE DoneInv'
  BY <1>2, <1>7 DEF TapRow, BeginFilePicking
<1> QED
  BY <1>1, <1>3, <1>4, <1>5, <1>6, <1>7 DEF Next, vars, User, MainQueue, Environment,
     ToggleSelection, CancelPicker, SwipePicker, CancelKeys, OnListErrorChange,
     FireDelayedPrompt, DeliverProgress, ExpireBackgroundTask, ChangeFile, taskVars

(* The Done screen never shows the output of another package than the one  *)
(* that was asked for last, whatever was refused, failed or relaunched.    *)
THEOREM DoneIsLastRequest == Spec => []DoneShowsLastRequest
<1>1. Init => DoneInv
  BY DEF Init, FreshProcess, DoneInv, RequestServed, DoneShowsLastRequest, Active, InC
<1>2. Spec => []DoneInv
  BY <1>1, DoneStep, TypeInvariant, ServiceInductive, PTL DEF Spec
<1> QED BY <1>2, PTL DEF DoneInv

-----------------------------------------------------------------------------
(* The count on the Done screen.  Reports made so far are the files counted *)
(* and those still queued; due are the files wanted and what an earlier     *)
(* extraction left.  A running extraction owes the files it has yet to      *)
(* report, a listing reports none.                                          *)

Made == fileCount + pendingProgress
Due == Cardinality(wanted) + carried
Opening == {"apply", "register", "alloc"}
Closing == {"close", "convert", "report"}

TaskCount(t) ==
  /\ job[t].kind = "list" /\ pc[t] = "scan" => job[t].todo = {}
  /\ job[t].kind = "extract" /\ pc[t] \in Active =>
       /\ ~finished
       /\ pc[t] \in Opening => wanted = {} /\ Made = carried
       /\ pc[t] = "scan" => /\ job[t].todo \subseteq wanted
                            /\ Made + Cardinality(job[t].todo) = Due
       /\ pc[t] \in Closing /\ job[t].err = "none" => Made = Due

CountInv ==
  /\ \A t \in Tasks : TaskCount(t)
  /\ Made <= Due
  /\ finished /\ lastError = "none" => Made = Due

LEMMA CountsAreNumbers ==
  ASSUME TypeInv
  PROVE  /\ fileCount \in Nat /\ pendingProgress \in Nat /\ carried \in Nat
         /\ IsFiniteSet(wanted) /\ Cardinality(wanted) \in Nat
         /\ Cardinality({}) = 0
<1>1. wanted \in SUBSET Files
  BY DEF TypeInv, TypeOK
<1>2. IsFiniteSet(wanted)
  BY <1>1, ConstantsAssumption, FS_Subset
<1> QED
  BY <1>2, FS_CardinalityType, FS_EmptySet DEF TypeInv, TypeOK

LEMMA CountUserStep ==
  ASSUME TypeInv, ServiceInv, CountInv, User PROVE CountInv'
<1> USE DEF CountInv, TaskCount, Made, Due
<1>1. ASSUME UNCHANGED <<progVars, extVars>>, UNCHANGED <<pc, job>> PROVE CountInv'
  BY <1>1 DEF progVars, extVars
<1>2. ASSUME UNCHANGED <<progVars, extVars>>, NEW p, NEW cache, NEW c, ListFiles(p, cache, c)
      PROVE  CountInv'
  <2>1. CASE UNCHANGED <<pc, job>>
    BY <1>1, <1>2, <2>1
  <2>2. ASSUME NEW t \in Tasks, Spawn(t, NewJob("list", p, c, {})) PROVE CountInv'
    BY <1>2, <2>2, SpawnStartsJob DEF NewJob, progVars, extVars
  <2> QED BY <1>2, <2>1, <2>2 DEF ListFiles
<1>3. CASE TapExtract
  <2>1. \A t \in Tasks : ~(pc[t] \in Active /\ job[t].kind = "extract")
    BY <1>3 DEF TapExtract, Extract, ServiceInv, ActiveHoldsFlag
  <2>2. CASE RefuseForSpace(selectedFiles)
    BY <2>1, <2>2 DEF RefuseForSpace, taskVars, progVars
  <2>3. ASSUME ResetResults PROVE Made' = carried' /\ Made' = Due' /\ wanted' = {}
                                  /\ Made' <= Due'
    BY <2>3, CountsAreNumbers DEF ResetResults
  <2>4. CASE RefuseWithoutConfig
    BY <2>1, <2>3, <2>4 DEF RefuseWithoutConfig, taskVars
  <2>5. CASE StartTask(pickerPKG, selectedFiles)
    <3>1. PICK t \in Tasks :
            Spawn(t, NewJob("extract", pickerPKG, credentials[pickerPKG], selectedFiles))
      BY <2>5 DEF StartTask
    <3>2. \A u \in Tasks \ {t} : TaskCount(u)'
      BY <2>1, <3>1, SpawnStartsJob
    <3>3. ~finished' /\ ResetResults
      BY <2>5 DEF StartTask
    <3>4. TaskCount(t)'
      BY <2>3, <3>1, <3>3, SpawnStartsJob DEF NewJob, Opening, Closing
    <3> QED BY <2>3, <3>2, <3>3, <3>4
  <2> QED BY <1>3, <2>2, <2>4, <2>5 DEF TapExtract, Extract
<1>4. ASSUME NEW c \in Creds, RetryWithKeys(c) PROVE CountInv'
  BY <1>1, <1>2, <1>4 DEF RetryWithKeys, BeginFilePicking
<1>5. ASSUME NEW p \in Pkgs, TapRow(p) PROVE CountInv'
  BY <1>2, <1>5 DEF TapRow, BeginFilePicking
<1> QED
  BY <1>1, <1>3, <1>4, <1>5 DEF User, ToggleSelection, CancelPicker, SwipePicker,
     CancelKeys, taskVars

LEMMA CountTaskStep ==
  ASSUME TypeInv, ServiceInv, CountInv, NEW t \in Tasks, RunTask(t) PROVE CountInv'
<1>0. /\ pc \in [Tasks -> PCs] /\ job \in [Tasks -> Job \cup {NoJob}]
      /\ pc[t] # "idle" => job[t] \in Job
  BY DEF TypeInv, TypeOK, JobTyped
<1>1. \A u \in Tasks \ {t} : pc'[u] = pc[u] /\ job'[u] = job[u]
  BY TaskKeepsJob
<1>2. pc[t] \in Active => \A u \in Tasks \ {t} : pc[u] \notin Active
  BY DEF ServiceInv, ExclusiveEngine
<1>3. ASSUME UNCHANGED progVars, UNCHANGED extVars, TaskCount(t)' PROVE CountInv'
  <2>1. Made' = Made /\ Due' = Due
    BY <1>3 DEF Made, Due, progVars
  <2>2. \A u \in Tasks \ {t} : TaskCount(u)'
    BY <1>1, <1>3, <2>1 DEF CountInv, TaskCount, progVars, extVars
  <2> QED BY <1>3, <2>1, <2>2 DEF CountInv, extVars
<1>4. ASSUME UNCHANGED progVars, UNCHANGED extVars, NEW e \in {"creds", "engine"},
             NEW to \in {"close", "report"}, pc[t] \in Active, Fail(t, e, to)
      PROVE  CountInv'
  <2>1. /\ pc'[t] = to /\ job'[t].err = e /\ job'[t].kind = job[t].kind
    BY <1>0, <1>4 DEF Fail, Goto, Job, Active, InC
  <2>2. TaskCount(t)'
    BY <1>4, <2>1 DEF TaskCount, CountInv, Opening, Closing, extVars
  <2> QED BY <1>3, <1>4, <2>2
<1>5. ASSUME UNCHANGED progVars, UNCHANGED extVars, UNCHANGED job, pc[t] \in Active,
             NEW to, Goto(t, to), pc[t] \in Opening => to \in Opening,
             pc[t] \in Closing => to \in Closing, pc[t] # "scan"
      PROVE  CountInv'
  <2>1. pc'[t] = to /\ pc[t] \in Opening \cup Closing
    BY <1>0, <1>5 DEF Goto, Active, InC, Opening, Closing
  <2>2. Made' = Made /\ Due' = Due
    BY <1>5 DEF Made, Due, progVars
  <2>3. TaskCount(t)'
    BY <1>5, <2>1, <2>2 DEF TaskCount, CountInv, Opening, Closing, extVars, progVars
  <2> QED BY <1>3, <1>5, <2>3
<1>6. CASE AllocPkg(t) /\ UNCHANGED <<listVars, extVars, countVars>>
  <2> DEFINE need == Needed(job[t], disk[job[t].pkg])
  <2>1. CASE Fail(t, "engine", "report") /\ UNCHANGED wanted
    BY <1>4, <1>6, <2>1 DEF AllocPkg, countVars, progVars, Active, InC
  <2>2. CASE /\ job' = [job EXCEPT ![t].ver = disk[job[t].pkg], ![t].todo = need]
             /\ wanted' = wanted \cup need /\ Goto(t, "scan")
    <3>1. job[t] \in Job /\ pc[t] = "alloc"
      BY <1>0, <1>6 DEF AllocPkg
    <3>2. /\ pc'[t] = "scan" /\ job'[t].todo = need /\ job'[t].kind = job[t].kind
      BY <1>0, <2>2, <3>1 DEF Goto, Job
    <3>3. Made' = Made /\ carried' = carried /\ UNCHANGED extVars
      BY <1>6 DEF countVars, Made
    <3>4. \A u \in Tasks \ {t} : TaskCount(u)'
      BY <1>1, <1>2, <3>1, <3>3 DEF CountInv, TaskCount, Active, InC
    <3>5. CASE job[t].kind = "list"
      <4>1. need = {}
        BY <3>5 DEF Needed
      <4>2. wanted' = wanted
        BY <2>2, <4>1
      <4>3. Due' = Due
        BY <3>3, <4>2 DEF Due
      <4>4. TaskCount(t)'
        BY <3>2, <3>5, <4>1 DEF TaskCount
      <4> QED BY <3>3, <3>4, <4>3, <4>4 DEF CountInv, extVars
    <3>6. CASE job[t].kind = "extract"
      <4>1. wanted = {} /\ Made = carried /\ ~finished
        BY <3>1, <3>6 DEF CountInv, TaskCount, Opening, Active, InC
      <4>2. wanted' = need /\ Due' = Cardinality(need) + carried
        BY <2>2, <3>3, <4>1 DEF Due
      <4>3. Cardinality(need) \in Nat /\ carried \in Nat
        <5>1. TypeInv' /\ wanted' = need
          BY <4>2, RunTaskTyped
        <5>2. need \in SUBSET Files
          BY <5>1 DEF TypeInv, TypeOK
        <5> HIDE DEF need
        <5> QED
          BY <5>2, CountsAreNumbers, ConstantsAssumption, FS_Subset, FS_CardinalityType
      <4>4. TaskCount(t)' /\ ~finished' /\ Made' <= Due'
        <5> HIDE DEF need
        <5>1. ~finished' /\ Made' <= Due'
          BY <3>3, <4>1, <4>2, <4>3 DEF extVars
        <5>2. job'[t].todo \subseteq wanted'
          BY <3>2, <4>2
        <5>3. Made' + Cardinality(job'[t].todo) = Due'
          BY <3>2, <3>3, <4>1, <4>2, <4>3
        <5> QED BY <3>2, <3>6, <5>1, <5>2, <5>3 DEF TaskCount, Opening, Closing
      <4> QED BY <3>4, <4>4 DEF CountInv
    <3> QED BY <3>1, <3>5, <3>6 DEF Job, Kinds
  <2> QED BY <1>6, <2>1, <2>2 DEF AllocPkg
<1>7. ASSUME NEW f \in Files, ReportFile(t, f), UNCHANGED extVars PROVE CountInv'
  <2>1. job[t] \in Job /\ pc[t] = "scan" /\ f \in job[t].todo
    BY <1>0, <1>7 DEF ReportFile
  <2>2. job[t].kind = "extract"
    BY <2>1 DEF CountInv, TaskCount, Job, Kinds
  <2>3. /\ ~finished /\ job[t].todo \subseteq wanted
        /\ Made + Cardinality(job[t].todo) = Due
    BY <2>1, <2>2 DEF CountInv, TaskCount, Active, InC
  <2>4. /\ job'[t].todo = job[t].todo \ {f} /\ job'[t].kind = job[t].kind
        /\ pc' = pc /\ wanted' = wanted /\ Due' = Due
    BY <1>0, <1>7, <2>1 DEF ReportFile, Job, Due
  <2>5. Made' = Made + 1 /\ Made \in Nat
    BY <1>7, CountsAreNumbers DEF ReportFile, Made
  <2>6. IsFiniteSet(job[t].todo)
    BY <2>3, CountsAreNumbers, FS_Subset
  <2>7. /\ Cardinality(job'[t].todo) = Cardinality(job[t].todo) - 1
        /\ Cardinality(job[t].todo) \in Nat /\ Cardinality(job'[t].todo) \in Nat
    <3> DEFINE todo == job[t].todo
    <3>1. IsFiniteSet(todo) /\ f \in todo
      BY <2>1, <2>6
    <3> HIDE DEF todo
    <3>2. IsFiniteSet(todo \ {f}) /\ Cardinality(todo \ {f}) = Cardinality(todo) - 1
      BY <3>1, FS_RemoveElement
    <3>3. Cardinality(todo) \in Nat /\ Cardinality(todo \ {f}) \in Nat
      BY <3>1, <3>2, FS_CardinalityType
    <3> USE DEF todo
    <3> QED BY <2>4, <3>2, <3>3
  <2>8. Made' + Cardinality(job'[t].todo) = Due' /\ Made' <= Due'
    BY <2>3, <2>4, <2>5, <2>7
  <2>9. ~finished'
    BY <1>7, <2>3 DEF extVars
  <2>10. TaskCount(t)'
    BY <2>1, <2>2, <2>3, <2>4, <2>8, <2>9 DEF TaskCount, Opening, Closing
  <2>11. \A u \in Tasks \ {t} : TaskCount(u)'
    BY <1>1, <1>2, <2>1 DEF CountInv, TaskCount, Active, InC
  <2> QED BY <2>8, <2>9, <2>10, <2>11 DEF CountInv
<1>8. CASE EndScan(t) /\ UNCHANGED <<extVars, progVars>>
  <2>1. CASE Fail(t, "engine", "close")
    BY <1>4, <1>8, <2>1 DEF EndScan, Active, InC
  <2>2. CASE job[t].todo = {} /\ Goto(t, "close") /\ UNCHANGED job
    <3>1. pc[t] = "scan" /\ pc'[t] = "close"
      BY <1>0, <1>8, <2>2 DEF EndScan, Goto
    <3>2. job[t].kind = "extract" => ~finished /\ Made = Due
      <4>1. SUFFICES ASSUME job[t].kind = "extract" PROVE ~finished /\ Made = Due
        OBVIOUS
      <4>2. ~finished /\ Made + Cardinality(job[t].todo) = Due
        BY <3>1, <4>1 DEF CountInv, TaskCount, Active, InC
      <4> QED BY <2>2, <4>2, CountsAreNumbers DEF Made
    <3>3. Made' = Made /\ Due' = Due /\ finished' = finished
      BY <1>8 DEF progVars, extVars, Made, Due
    <3>4. TaskCount(t)'
      BY <2>2, <3>1, <3>2, <3>3 DEF TaskCount, Opening
    <3> QED BY <1>3, <1>8, <3>4
  <2> QED BY <1>8, <2>1, <2>2 DEF EndScan
<1>9. CASE ReportExtraction(t) /\ UNCHANGED progVars
  <2>1. pc[t] = "report" /\ job[t].kind = "extract" /\ pc'[t] = "checkBg"
        /\ finished' = TRUE /\ lastError' = job[t].err
    BY <1>0, <1>9 DEF ReportExtraction, Goto
  <2>2. Made' = Made /\ Due' = Due
    BY <1>9 DEF progVars, Made, Due
  <2>3. lastError' = "none" => Made' = Due'
    BY <2>1, <2>2 DEF CountInv, TaskCount, Closing, Active, InC
  <2>4. \A u \in Tasks : TaskCount(u)'
    BY <1>1, <1>2, <2>1 DEF CountInv, TaskCount, Active, InC
  <2> QED BY <2>2, <2>3, <2>4 DEF CountInv
<1>10. CASE /\ ReportListing(t) \/ CheckBackgroundTask(t) \/ EndBackgroundTask(t)
            /\ UNCHANGED <<extVars, progVars>>
  <2>1. pc'[t] \notin Active
    BY <1>0, <1>10 DEF ReportListing, CheckBackgroundTask, EndBackgroundTask, Retire, Goto,
       Active, InC
  <2> QED BY <1>3, <1>10, <2>1 DEF TaskCount, Active, InC
<1>11. CASE ApplyCredentials(t) /\ UNCHANGED <<extVars, progVars>>
  <2>1. CASE Fail(t, "creds", "report")
    BY <1>4, <1>11, <2>1 DEF ApplyCredentials, Active
  <2>2. CASE Goto(t, "register") /\ UNCHANGED job
    BY <1>5, <1>11, <2>2 DEF ApplyCredentials, Opening, Closing, Active
  <2> QED BY <1>11, <2>1, <2>2 DEF ApplyCredentials
<1>12. CASE Register(t) /\ UNCHANGED <<extVars, progVars>>
  <2>1. CASE Fail(t, "engine", "report")
    BY <1>4, <1>12, <2>1 DEF Register, Active, InC
  <2>2. CASE Goto(t, "alloc") /\ UNCHANGED job
    BY <1>5, <1>12, <2>2 DEF Register, Opening, Closing, Active, InC
  <2> QED BY <1>12, <2>1, <2>2 DEF Register
<1>13. CASE (CloseEngine(t) \/ ConvertEBoot(t)) /\ UNCHANGED <<extVars, progVars>>
  BY <1>5, <1>13 DEF CloseEngine, ConvertEBoot, Opening, Closing, Active, InC
<1> QED
  BY <1>6, <1>7, <1>8, <1>9, <1>10, <1>11, <1>12, <1>13 DEF RunTask, TaskStep, CSteps

LEMMA CountStep == TypeInv /\ ServiceInv /\ CountInv /\ [Next]_vars => CountInv'
<1> SUFFICES ASSUME TypeInv, ServiceInv, CountInv, [Next]_vars PROVE CountInv'
  OBVIOUS
<1>1. CASE UNCHANGED <<progVars, extVars, pc, job>>
  BY <1>1 DEF CountInv, TaskCount, Made, Due, progVars, extVars
<1>2. CASE DeliverProgress
  <2>1. Made' = Made /\ Due' = Due /\ UNCHANGED <<finished, lastError, wanted, carried, pc, job>>
    BY <1>2, CountsAreNumbers DEF DeliverProgress, Made, Due, extVars, taskVars
  <2> QED BY <2>1 DEF CountInv, TaskCount
<1>3. CASE Relaunch
  <2>1. Made' = 0 /\ Due' = 0
    BY <1>3, CountsAreNumbers DEF Relaunch, Made, Due
  <2> QED
    BY <1>3, <2>1 DEF Relaunch, FreshProcess, CountInv, TaskCount, Active, InC
<1> QED
  BY <1>1, <1>2, <1>3, CountUserStep, CountTaskStep DEF Next, vars, MainQueue, Environment,
     OnListErrorChange, FireDelayedPrompt, ExpireBackgroundTask, ChangeFile, taskVars

(* An extraction that no earlier one left reports for never counts more    *)
(* files than it was asked for, and its Done screen, once all reports are  *)
(* in, gives their exact number.                                           *)
THEOREM DoneCountIsExact == Spec => []DoneCountsTheFiles
<1>1. Init => CountInv
  <2> SUFFICES ASSUME Init PROVE CountInv
    OBVIOUS
  <2>1. Made = 0 /\ Due = 0
    BY InitTyped, CountsAreNumbers DEF Init, Made, Due
  <2> QED
    BY <2>1 DEF Init, FreshProcess, CountInv, TaskCount, Active, InC
<1>2. TypeInv /\ CountInv => DoneCountsTheFiles
  BY CountsAreNumbers DEF CountInv, DoneCountsTheFiles, Made, Due
<1> QED
  BY <1>1, <1>2, CountStep, TypeInvariant, ServiceInductive, PTL DEF Spec

-----------------------------------------------------------------------------
(* The picker: what it shows and what it will pass on are of its package.  *)

CacheOwn == \A p \in Pkgs : listCache[p] # NotCached => listCache[p].entries.pkg = p
SelectionsOwn == \A p \in Pkgs : savedSelections[p] \subseteq AllFiles(p)
(* A listing that runs while the picker is up is the picker's.             *)
ListingOfPicker ==
  \A t \in Tasks : pc[t] \in Active /\ job[t].kind = "list" /\ showFilePicker
                     => job[t].pkg = pickerPKG
PickerInv == CacheOwn /\ SelectionsOwn /\ ListingOfPicker /\ PickerIsCoherent

LEMMA FilesAreOwn ==
  ASSUME NEW l \in Listing \cup {NoListing}, NEW p \in Pkgs,
         l # NoListing => l.pkg = p
  PROVE  FilesOf(l) \subseteq AllFiles(p)
  BY DEF FilesOf, AllFiles, Listing

LEMMA BeginPickingCoherent ==
  ASSUME TypeInv, ServiceInv, PickerInv, NEW p \in Pkgs, NEW c \in Creds,
         NEW cache \in [Pkgs -> CacheEntry \cup {NotCached}],
         cache[p] # NotCached => cache[p].entries.pkg = p,
         BeginFilePicking(p, cache, c)
  PROVE  ListingOfPicker' /\ PickerIsCoherent'
<1>1. ~isListing /\ \A t \in Tasks : ~(pc[t] \in Active /\ job[t].kind = "list")
  BY DEF BeginFilePicking, Busy, ServiceInv, ActiveHoldsFlag
<1>2. pickerPKG' = p /\ selectedFiles' \subseteq AllFiles(p)
  BY DEF BeginFilePicking, PickerInv, SelectionsOwn
<1>3. CASE /\ CacheHit(p, cache) /\ listedFiles' = cache[p].entries
           /\ UNCHANGED <<isListing, pc, job, started>>
  <2>1. cache[p] \in CacheEntry /\ cache[p].entries.pkg = p
    BY <1>3 DEF CacheHit
  <2>2. listedFiles' # NoListing
    BY <1>3, <2>1, ConstantsAssumption DEF NoListing
  <2> QED
    BY <1>1, <1>2, <1>3, <2>1, <2>2 DEF ListingOfPicker, PickerIsCoherent, AllFiles
<1>4. CASE /\ listedFiles' = NoListing /\ listError' = "config"
           /\ UNCHANGED <<isListing, pc, job, started>>
  BY <1>1, <1>2, <1>4 DEF ListingOfPicker, PickerIsCoherent, AllFiles
<1>5. CASE /\ isListing' = TRUE /\ listedFiles' = NoListing
           /\ \E t \in Tasks : Spawn(t, NewJob("list", p, c, {}))
  <2>1. PICK t \in Tasks : Spawn(t, NewJob("list", p, c, {}))
    BY <1>5
  <2>2. ListingOfPicker'
    BY <1>1, <1>2, <2>1, SpawnStartsJob DEF ListingOfPicker, NewJob
  <2> QED BY <1>2, <1>5, <2>2 DEF PickerIsCoherent, AllFiles
<1> QED BY <1>3, <1>4, <1>5 DEF BeginFilePicking, ListFiles

LEMMA PickerUserStep == TypeInv /\ ServiceInv /\ PickerInv /\ User => PickerInv'
<1> SUFFICES ASSUME TypeInv, ServiceInv, PickerInv, User PROVE PickerInv'
  OBVIOUS
<1> USE DEF PickerInv
<1>1. ASSUME NEW p \in Pkgs, TapRow(p) PROVE PickerInv'
  <2>1. ListingOfPicker' /\ PickerIsCoherent'
    BY <1>1, BeginPickingCoherent DEF TapRow, TypeInv, TypeOK, CacheOwn
  <2> QED BY <1>1, <2>1 DEF TapRow, CacheOwn, SelectionsOwn, AllFiles, storeVars
<1>2. ASSUME NEW s \in SUBSET FilesOf(listedFiles), ToggleSelection(s) PROVE PickerInv'
  <2>1. /\ pickerPKG \in Pkgs /\ s \subseteq AllFiles(pickerPKG)
        /\ selectedFiles \subseteq AllFiles(pickerPKG)
    BY <1>2, FilesAreOwn DEF ToggleSelection, TypeInv, TypeOK, PickerIsCoherent
  <2>2. selectedFiles' \subseteq AllFiles(pickerPKG)
    BY <1>2, <2>1 DEF ToggleSelection
  <2> QED
    BY <1>2, <2>2 DEF ToggleSelection, CacheOwn, SelectionsOwn, ListingOfPicker,
       PickerIsCoherent, AllFiles, listVars, storeVars, taskVars
<1>3. CASE TapExtract \/ CancelPicker
  <2>1. /\ pickerPKG \in Pkgs /\ selectedFiles \subseteq AllFiles(pickerPKG)
        /\ savedSelections' = [savedSelections EXCEPT ![pickerPKG] = selectedFiles]
        /\ ~showFilePicker' /\ listCache' = listCache
    BY <1>3 DEF TapExtract, CancelPicker, TypeInv, PickerIsCoherent, listVars
  <2> QED
    BY <2>1 DEF CacheOwn, SelectionsOwn, ListingOfPicker, PickerIsCoherent, AllFiles,
       TypeInv, TypeOK
<1>4. CASE SwipePicker
  BY <1>4 DEF SwipePicker, CacheOwn, SelectionsOwn, ListingOfPicker, PickerIsCoherent,
     AllFiles, listVars, storeVars
<1>5. ASSUME NEW c \in Creds, RetryWithKeys(c) PROVE PickerInv'
  <2> DEFINE dropped == [listCache EXCEPT ![keyPromptPKG] = NotCached]
  <2>1. keyPromptPKG \in Pkgs
    BY <1>5 DEF RetryWithKeys, TypeInv, TypeOK
  <2>2. /\ dropped \in [Pkgs -> CacheEntry \cup {NotCached}] /\ dropped[keyPromptPKG] = NotCached
        /\ listCache' = dropped /\ savedSelections' = savedSelections
    BY <1>5, <2>1 DEF RetryWithKeys, SetCredentials, TypeInv, TypeOK
  <2>3. CacheOwn' /\ SelectionsOwn'
    BY <2>1, <2>2 DEF CacheOwn, SelectionsOwn, AllFiles, TypeInv, TypeOK
  <2>4. CASE BeginFilePicking(keyPromptPKG, dropped, c)
    <3> HIDE DEF dropped
    <3> QED BY <2>1, <2>2, <2>3, <2>4, BeginPickingCoherent
  <2>5. CASE UNCHANGED <<pickerVars, isListing, listError, listedFiles, pc, job, started>>
    BY <2>3, <2>5 DEF ListingOfPicker, PickerIsCoherent, AllFiles, pickerVars
  <2> QED BY <1>5, <2>4, <2>5 DEF RetryWithKeys
<1>6. CASE CancelKeys
  BY <1>6 DEF CancelKeys, CacheOwn, SelectionsOwn, ListingOfPicker, PickerIsCoherent,
     AllFiles, listVars, storeVars, pickerVars, taskVars
<1> QED BY <1>1, <1>2, <1>3, <1>4, <1>5, <1>6 DEF User

LEMMA PickerTaskStep ==
  ASSUME TypeInv, ServiceInv, PickerInv, NEW t \in Tasks, RunTask(t) PROVE PickerInv'
<1> USE DEF PickerInv
<1>1. SelectionsOwn' /\ UNCHANGED pickerVars
  BY DEF RunTask, storeVars, SelectionsOwn, AllFiles
<1>2. ListingOfPicker'
  BY <1>1, TaskKeepsJob DEF ListingOfPicker, pickerVars
<1>3. CASE UNCHANGED listVars
  BY <1>1, <1>2, <1>3 DEF CacheOwn, PickerIsCoherent, AllFiles, listVars, pickerVars
<1>4. CASE ReportListing(t)
  <2> DEFINE l == [pkg |-> job[t].pkg, ver |-> job[t].ver]
  <2>1. job[t] \in Job /\ job[t].pkg \in Pkgs /\ l # NoListing /\ l.pkg = job[t].pkg
    BY <1>4, ConstantsAssumption DEF ReportListing, NoListing, TypeInv, JobTyped, Job
  <2>2. showFilePicker => job[t].pkg = pickerPKG
    BY <1>4 DEF ReportListing, ListingOfPicker, Active
  <2>3. /\ listedFiles' \in {l, NoListing} /\ (listError' = "none" => listedFiles' = l)
    BY <1>4 DEF ReportListing
  <2>4. PickerIsCoherent'
    BY <1>1, <2>1, <2>2, <2>3 DEF PickerIsCoherent, AllFiles, pickerVars
  <2>5. CacheOwn'
    <3>1. CASE UNCHANGED listCache
      BY <3>1 DEF CacheOwn
    <3>2. CASE CacheEntries(job[t].pkg, l, job[t].creds)
      <4> HIDE DEF l
      <4> QED BY <2>1, <3>2 DEF CacheEntries, CacheOwn, TypeInv, TypeOK
    <3> QED BY <1>4, <3>1, <3>2 DEF ReportListing
  <2> QED BY <1>1, <1>2, <2>4, <2>5
<1> QED BY <1>3, <1>4 DEF RunTask, TaskStep

LEMMA PickerStep == TypeInv /\ ServiceInv /\ PickerInv /\ [Next]_vars => PickerInv'
<1> SUFFICES ASSUME TypeInv, ServiceInv, PickerInv, [Next]_vars PROVE PickerInv'
  OBVIOUS
<1> USE DEF PickerInv
<1>1. CASE UNCHANGED <<listVars, storeVars, pickerVars, pc, job>>
  BY <1>1 DEF CacheOwn, SelectionsOwn, ListingOfPicker, PickerIsCoherent, AllFiles,
     listVars, storeVars, pickerVars
<1>2. CASE OnListErrorChange
  BY <1>2 DEF OnListErrorChange, CacheOwn, SelectionsOwn, ListingOfPicker, PickerIsCoherent,
     AllFiles, listVars, storeVars, taskVars
<1>3. CASE Relaunch
  BY <1>3 DEF Relaunch, FreshProcess, CacheOwn, SelectionsOwn, ListingOfPicker,
     PickerIsCoherent
<1> QED
  BY <1>1, <1>2, <1>3, PickerUserStep, PickerTaskStep DEF Next, vars, MainQueue,
     Environment, FireDelayedPrompt, DeliverProgress, ExpireBackgroundTask, ChangeFile, taskVars

(* What the picker shows and will extract is of the package it was opened  *)
(* for, however rows, retries, cancelled listings, errors and relaunches   *)
(* follow each other.                                                      *)
THEOREM PickerCoherent == Spec => []PickerIsCoherent
<1>1. Init => PickerInv
  BY DEF Init, FreshProcess, PickerInv, CacheOwn, SelectionsOwn, ListingOfPicker,
     PickerIsCoherent, Active, InC
<1>2. Spec => []PickerInv
  BY <1>1, PickerStep, TypeInvariant, ServiceInductive, PTL DEF Spec
<1> QED BY <1>2, PTL DEF PickerInv

-----------------------------------------------------------------------------
(* The cache: as long as no file changes while it is listed, an entry has  *)
(* the version that its mtime says.                                        *)

ScanIsCurrent ==
  \A t \in Tasks : pc[t] \in Read /\ job[t].kind = "list" /\ job[t].err = "none"
                     => job[t].ver = disk[job[t].pkg]
CacheInv == CacheOwn /\ ScanIsCurrent /\ CacheHoldsScanTime

LEMMA CacheTaskStep ==
  ASSUME TypeInv, ServiceInv, CacheInv, NEW t \in Tasks, RunTask(t), CacheOwn'
  PROVE  CacheInv'
<1> USE DEF CacheInv
<1>1. disk' = disk
  BY DEF RunTask, envVars
<1>2. ScanIsCurrent'
  BY <1>1, TaskKeepsJob DEF ScanIsCurrent, Read, Active, InC
<1>3. CASE UNCHANGED listCache
  BY <1>2, <1>3 DEF CacheHoldsScanTime
<1>4. CASE /\ ReportListing(t) /\ job[t].err = "none"
           /\ CacheEntries(job[t].pkg, [pkg |-> job[t].pkg, ver |-> job[t].ver], job[t].creds)
  <2>1. job[t] \in Job /\ job[t].pkg \in Pkgs /\ job[t].ver = disk[job[t].pkg]
    BY <1>4 DEF ReportListing, ScanIsCurrent, Read, TypeInv, JobTyped, Job
  <2> QED
    BY <1>2, <1>4, <2>1 DEF CacheEntries, CacheHoldsScanTime, TypeInv, TypeOK
<1> QED
  BY <1>3, <1>4 DEF RunTask, TaskStep, ReportListing, listVars

LEMMA CacheStep ==
  ASSUME FileChanges # "anytime", TypeInv, ServiceInv, PickerInv, CacheInv, [Next]_vars
  PROVE  CacheInv'
<1>0. CacheOwn'
  BY PickerStep DEF PickerInv
<1> USE DEF CacheInv
<1>1. ASSUME NEW p \in Pkgs, ChangeFile(p) PROVE CacheInv'
  <2>1. ~isListing /\ UNCHANGED <<pc, job, listCache>>
    BY <1>1, ConstantsAssumption DEF ChangeFile, taskVars, listVars
  <2>2. \A t \in Tasks : ~(pc[t] \in Read /\ job[t].kind = "list")
    BY <2>1 DEF ServiceInv, ActiveHoldsFlag, Read, Active, InC
  <2> QED BY <1>0, <2>1, <2>2 DEF ScanIsCurrent, CacheHoldsScanTime
<1>2. ASSUME NEW t \in Tasks, RunTask(t) PROVE CacheInv'
  BY <1>0, <1>2, CacheTaskStep
<1>3. CASE Relaunch
  BY <1>0, <1>3 DEF Relaunch, FreshProcess, ScanIsCurrent, CacheHoldsScanTime, Read
<1>4. ASSUME disk' = disk, CacheHoldsScanTime',
             UNCHANGED <<pc, job>> \/ \E t \in Tasks : \E j : Spawn(t, j)
      PROVE  CacheInv'
  <2>1. CASE UNCHANGED <<pc, job>>
    BY <1>0, <1>4, <2>1 DEF ScanIsCurrent
  <2>2. ASSUME NEW t \in Tasks, NEW j, Spawn(t, j) PROVE ScanIsCurrent'
    BY <1>4, <2>2, SpawnStartsJob DEF ScanIsCurrent, Read
  <2> QED BY <1>0, <1>4, <2>1, <2>2
<1>5. CASE User
  <2>1. disk' = disk
    BY <1>5 DEF User, TapRow, ToggleSelection, TapExtract, CancelPicker, SwipePicker,
       RetryWithKeys, CancelKeys, envVars
  <2>2. CacheHoldsScanTime'
    <3>1. ASSUME NEW c \in Creds, RetryWithKeys(c) PROVE CacheHoldsScanTime'
      BY <3>1 DEF RetryWithKeys, SetCredentials, CacheHoldsScanTime, TypeInv, TypeOK
    <3>2. CASE UNCHANGED listCache
      BY <3>2 DEF CacheHoldsScanTime
    <3> QED
      BY <1>5, <3>1, <3>2 DEF User, TapRow, ToggleSelection, TapExtract, CancelPicker,
         SwipePicker, CancelKeys, listVars
  <2>3. UNCHANGED <<pc, job>> \/ \E t \in Tasks : \E j : Spawn(t, j)
    BY <1>5 DEF User, TapRow, ToggleSelection, TapExtract, CancelPicker, SwipePicker,
       RetryWithKeys, CancelKeys, BeginFilePicking, ListFiles, Extract, RefuseForSpace,
       RefuseWithoutConfig, StartTask, taskVars
  <2> QED BY <1>4, <2>1, <2>2, <2>3
<1>6. CASE UNCHANGED <<disk, listCache, pc, job>>
  BY <1>4, <1>6 DEF CacheHoldsScanTime
<1> QED
  BY <1>1, <1>2, <1>3, <1>5, <1>6 DEF Next, vars, MainQueue, Environment,
     OnListErrorChange, FireDelayedPrompt, DeliverProgress, ExpireBackgroundTask, envVars,
     listVars, taskVars

LEMMA ServedStep ==
  ASSUME TypeInv, ServiceInv, CacheInv, [Next]_vars
  PROVE  [listedFiles' # listedFiles /\ listedFiles' # NoListing /\ ~isListing
            => listedFiles'.ver = disk[listedFiles'.pkg]]_vars
<1> SUFFICES ASSUME listedFiles' # listedFiles, listedFiles' # NoListing, ~isListing
             PROVE  listedFiles'.ver = disk[listedFiles'.pkg]
  OBVIOUS
<1>1. ASSUME NEW p \in Pkgs, NEW cache, NEW c, ListFiles(p, cache, c),
             cache[p] = listCache[p] \/ cache[p] = NotCached
      PROVE  listedFiles'.ver = disk[listedFiles'.pkg]
  <2>1. CacheHit(p, cache) /\ listedFiles' = cache[p].entries
    BY <1>1 DEF ListFiles
  <2> QED BY <1>1, <2>1 DEF CacheHit, CacheInv, CacheOwn, CacheHoldsScanTime
<1>2. ASSUME NEW t \in Tasks, RunTask(t) PROVE FALSE
  <2>1. ReportListing(t)
    BY <1>2 DEF RunTask, TaskStep, listVars
  <2> QED BY <2>1 DEF ReportListing, ServiceInv, ActiveHoldsFlag, Active
<1>3. ASSUME NEW c \in Creds, RetryWithKeys(c)
      PROVE  listedFiles'.ver = disk[listedFiles'.pkg]
  <2>1. keyPromptPKG \in Pkgs
        /\ [listCache EXCEPT ![keyPromptPKG] = NotCached][keyPromptPKG] = NotCached
    BY <1>3 DEF RetryWithKeys, TypeInv, TypeOK
  <2> QED BY <1>1, <1>3, <2>1 DEF RetryWithKeys, BeginFilePicking
<1>4. ASSUME NEW p \in Pkgs, TapRow(p) PROVE listedFiles'.ver = disk[listedFiles'.pkg]
  BY <1>1, <1>4 DEF TapRow, BeginFilePicking
<1>5. ~Relaunch
  BY DEF Relaunch
<1> QED
  BY <1>2, <1>3, <1>4, <1>5 DEF Next, vars, User, MainQueue, Environment, ToggleSelection,
     TapExtract, CancelPicker, SwipePicker, CancelKeys, OnListErrorChange,
     FireDelayedPrompt, DeliverProgress, ExpireBackgroundTask, ChangeFile, listVars

(* As long as package files change between listings only, a listing that   *)
(* is served from the cache is the one of the file on disk.  (When they    *)
(* change during a listing it is not: CacheHoldsScanTime is violated.)     *)
THEOREM CacheIsCurrent == FileChanges # "anytime" /\ Spec => CacheServesCurrent
<1> SUFFICES ASSUME FileChanges # "anytime" PROVE Spec => CacheServesCurrent
  OBVIOUS
<1>1. Init => CacheInv /\ PickerInv
  BY DEF Init, FreshProcess, PickerInv, CacheOwn, SelectionsOwn, ListingOfPicker,
     PickerIsCoherent, Active, InC, CacheInv, ScanIsCurrent, CacheHoldsScanTime, Read
<1>2. TypeInv /\ ServiceInv /\ PickerInv /\ CacheInv /\ [Next]_vars => CacheInv'
  BY CacheStep
<1>3. TypeInv /\ ServiceInv /\ CacheInv /\ [Next]_vars =>
        [listedFiles' # listedFiles /\ listedFiles' # NoListing /\ ~isListing
           => listedFiles'.ver = disk[listedFiles'.pkg]]_vars
  BY ServedStep
<1> QED
  BY <1>1, <1>2, <1>3, PickerStep, TypeInvariant, ServiceInductive, PTL
  DEF Spec, CacheServesCurrent
=============================================================================
