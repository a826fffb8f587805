----------------------------- MODULE EngineSpec -----------------------------
(***************************************************************************)
(* What the C bridge promises to the Swift side, told without any of the   *)
(* engine's resources: pkg_ios_wrapper.h, read as a state machine.  A call *)
(* opens a package, reports entries only while it is open, and returns 0   *)
(* only after it had it open; a call that returns -1 has left a            *)
(* description of its own failure.  PkgEngine implements this module.      *)
(***************************************************************************)
EXTENDS Naturals

CONSTANT MaxSeen        \* bound: entries one call reports, a natural number

VARIABLES phase,        \* "idle", "opening", "open" or "closing"
          seen,         \* entries the present or last call has reported
          result,       \* what it returned, or will return once closed
          explained     \* pkg_ios_last_error speaks of this very call

specVars == <<phase, seen, result, explained>>

SpecTypeOK == /\ phase \in {"idle", "opening", "open", "closing"}
              /\ seen \in 0..MaxSeen
              /\ result \in {"ok", "error"}
              /\ explained \in BOOLEAN

SpecInit == /\ phase = "idle"
            /\ seen = 0
            /\ result = "ok"
            /\ explained = FALSE

\* pkg_ios_set_credentials keeps no state a caller can see but its result.
Configure == /\ phase = "idle"
             /\ phase' = "idle"
             /\ seen' = 0
             /\ \/ result' = "ok" /\ explained' = FALSE
                \/ result' = "error" /\ explained' = TRUE

Call == /\ phase = "idle"
        /\ phase' = "opening"
        /\ seen' = 0
        /\ result' = "ok"
        /\ explained' = FALSE

Opened == /\ phase = "opening"
          /\ phase' = "open"
          /\ UNCHANGED <<seen, result, explained>>

Report == /\ phase = "open"
          /\ seen < MaxSeen
          /\ seen' = seen + 1
          /\ UNCHANGED <<phase, result, explained>>

Succeed == /\ phase = "open"
           /\ phase' = "closing"
           /\ UNCHANGED <<seen, result, explained>>

\* A failure before anything was set up returns at once, the others unwind.
Fail == /\ phase \in {"opening", "open"}
        /\ phase' = "closing" \/ (phase = "opening" /\ phase' = "idle")
        /\ result' = "error"
        /\ explained' = TRUE
        /\ UNCHANGED seen

Return == /\ phase = "closing"
          /\ phase' = "idle"
          /\ UNCHANGED <<seen, result, explained>>

SpecNext == Configure \/ Call \/ Opened \/ Report \/ Succeed \/ Fail \/ Return

SpecFairness == WF_specVars(Opened \/ Report \/ Succeed \/ Fail \/ Return)

EngineSpecification == SpecInit /\ [][SpecNext]_specVars /\ SpecFairness
=============================================================================
