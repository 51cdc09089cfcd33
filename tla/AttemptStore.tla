----------------------------- MODULE AttemptStore -----------------------------
(***************************************************************************)
(* The result files of one run of the experiment runner                    *)
(* (Tools/autotest/run_pid_piper_mode_experiments.py): run_one with its    *)
(* write_json calls, should_skip_run and run_dir_has_completed_result,     *)
(* which decide whether an invocation flies the run again, and             *)
(* aggregate_analysis, which reads the files back.  The runner may be      *)
(* killed or interrupted between any two steps, in the middle of a write   *)
(* of run_result.json or analysis.json too.  run_meta.json is written at   *)
(* once with its attempt directory.  There is one job: an exception that   *)
(* run_one lets through ends the runner, like a kill (with more jobs the   *)
(* row is counted and main goes on, see Manifest).                         *)
(***************************************************************************)
EXTENDS Integers, Sequences, FiniteSetsExt

CONSTANTS
    Invocations,    \* command lines used
    MaxAttempts     \* bound: attempt directories of the run

Flags == [append : BOOLEAN, resume : BOOLEAN]

ASSUME StoreAssumption ==
    Invocations \subseteq Flags /\ MaxAttempts \in Nat \ {0}

VARIABLES
    rootResult, rootAnalysis,   \* run_result.json, analysis.json of the run
    attempts,       \* attempt directories: telemetry, run_result, analysis
    pc, inv,        \* what the runner does next, and its flags
    outcome,        \* the result of the attempt in progress
    interrupted,    \* a KeyboardInterrupt ended the manifest loop
    row,            \* what the last aggregate put into runs.csv
    refreshed       \* history: --refresh-success has rewritten rootAnalysis

files == <<rootResult, rootAnalysis, attempts>>
vars == <<files, pc, inv, outcome, interrupted, row, refreshed>>

\* A file is missing, torn (opened for writing and not complete), or a
\* document.  The class of a status is "retry" for RETRYABLE_LAUNCH_STATUSES,
\* "interrupted", or "final" for all others.
Missing == [file |-> "missing"]
Torn == [file |-> "torn"]
Exists(f) == f.file # "missing"
Readable(f) == f.file = "doc"

\* run_result.json: whether AUTO was confirmed, and the success gate recorded
\* by finish_with_strict_success (absent unless a landing was detected).
Result(k, class, auto, gate) ==
    [file |-> "doc", attempt |-> k, class |-> class, auto |-> auto, gate |-> gate]

Results(k) ==
    {Result(k, "retry", FALSE, "absent")}
    \cup {Result(k, "final", auto, "absent") : auto \in BOOLEAN}
    \cup {Result(k, "final", TRUE, gate) : gate \in {"pass", "fail"}}

\* telemetry.csv: whether a sample shows AUTO, and whether the last one is
\* low and near the target.
Telemetry == [auto : BOOLEAN, gate : BOOLEAN]

\* apply_strict_success_from_analysis: result fields first, then telemetry.
StrictSuccess(result, tele) ==
    /\ result.auto \/ tele.auto
    /\ IF result.gate = "absent" THEN tele.gate ELSE result.gate = "pass"

Current == Len(attempts)

\* Mutant: the telemetry of the last attempt is read, whichever is analysed.
analyze_run_LastTelemetry(k, result) ==
    [file |-> "doc", attempt |-> k, class |-> result.class,
     success |-> StrictSuccess(result, attempts[Current].tele)]

\* analyze_run(attempt_dir): analysis.json of an attempt.
analyze_run(k, result) ==
    [file |-> "doc", attempt |-> k, class |-> result.class,
     success |-> StrictSuccess(result, attempts[k].tele)]

\* The candidates of find_latest_completed_attempt_dir.
Completed(k) ==
    Readable(attempts[k].result) /\ attempts[k].result.class = "final"

CompletedAttempts == {k \in 1 .. Current : Completed(k)}

\* The latest by modification time: attempts are written one after another.
find_latest_completed_attempt_dir == Max(CompletedAttempts)

\* Mutant: an existing analysis.json is enough.
should_skip_run_AnyStatus(flags) == flags.resume /\ Exists(rootAnalysis)

\* Reads the root analysis only; a torn one counts as none.
should_skip_run(flags) ==
    flags.resume /\ Readable(rootAnalysis) /\ rootAnalysis.class = "final"

\* Mutant: only successful runs count.
run_dir_has_completed_result_Success ==
    IF Readable(rootAnalysis) THEN rootAnalysis.success
                              ELSE CompletedAttempts # {}

\* A retryable root analysis hides completed attempts; a torn one does not.
run_dir_has_completed_result ==
    IF Readable(rootAnalysis) THEN rootAnalysis.class = "final"
                              ELSE CompletedAttempts # {}

-------------------------------------------------------------------------------
(* The runner.                                                             *)

Idle == pc = "idle"

\* main: --append-missing leaves a completed run out of the manifest, and
\* pending_manifest_rows applies should_skip_run.
Invoke ==
    /\ Idle
    /\ inv' \in Invocations
    /\ interrupted' = FALSE
    /\ pc' = IF \/ inv'.append /\ run_dir_has_completed_result
                \/ should_skip_run(inv')
             THEN "aggregate" ELSE "start"
    /\ UNCHANGED <<files, outcome, row, refreshed>>

NewAttempt ==
    [tele |-> [auto |-> FALSE, gate |-> FALSE],
     result |-> Missing, analysis |-> Missing]

\* Mutant: the directory of an earlier attempt is used again.
make_attempt_dir_Reuse ==
    /\ pc = "start"
    /\ attempts' = IF attempts = <<>> THEN <<NewAttempt>> ELSE attempts
    /\ pc' = "flight"
    /\ UNCHANGED <<rootResult, rootAnalysis, inv, outcome, interrupted, row,
                   refreshed>>

make_attempt_dir ==
    /\ pc = "start"
    /\ Current < MaxAttempts
    /\ attempts' = Append(attempts, NewAttempt)
    /\ pc' = "flight"
    /\ UNCHANGED <<rootResult, rootAnalysis, inv, outcome, interrupted, row,
                   refreshed>>

\* The flight leaves its telemetry and ends with a result, or with Ctrl-C.
Fly ==
    /\ pc = "flight"
    /\ \E t \in Telemetry : attempts' = [attempts EXCEPT ![Current].tele = t]
    /\ \/ outcome' \in Results(Current) /\ UNCHANGED interrupted
       \/ /\ outcome' = Result(Current, "interrupted", FALSE, "absent")
          /\ interrupted' = TRUE
    /\ pc' = "result"
    /\ UNCHANGED <<rootResult, rootAnalysis, inv, row, refreshed>>

\* The files run_one writes after the flight, in this order; an interrupted
\* attempt writes the first one only.
Places == {"result", "analysis", "rootResult", "rootAnalysis"}

Following ==
    [result       |-> IF interrupted THEN "aggregate" ELSE "analysis",
     analysis     |-> "rootResult",
     rootResult   |-> "rootAnalysis",
     rootAnalysis |-> "aggregate"]

Writing == [result |-> "result...", analysis |-> "analysis...",
            rootResult |-> "rootResult...", rootAnalysis |-> "rootAnalysis..."]

SetFile(place, f) ==
    LET k == Current IN
    /\ attempts' = CASE place = "result" -> [attempts EXCEPT ![k].result = f]
                     [] place = "analysis" -> [attempts EXCEPT ![k].analysis = f]
                     [] OTHER -> attempts
    /\ rootResult' = IF place = "rootResult" THEN f ELSE rootResult
    /\ rootAnalysis' = IF place = "rootAnalysis" THEN f ELSE rootAnalysis

\* write_json: open(path, "w") truncates the file, json.dump fills it.
OpenFile(place) ==
    /\ pc = place
    /\ SetFile(place, Torn)
    /\ pc' = Writing[place]
    /\ UNCHANGED <<inv, outcome, interrupted, row, refreshed>>

CloseFile(place) ==
    /\ pc = Writing[place]
    /\ SetFile(place, IF place \in {"result", "rootResult"} THEN outcome
                      ELSE analyze_run(Current, outcome))
    /\ pc' = Following[place]
    /\ refreshed' = (refreshed /\ place # "rootAnalysis")
    /\ UNCHANGED <<inv, outcome, interrupted, row>>

\* Ctrl-C outside the try block of run_one, so before or after the flight: the
\* manifest loop ends, main aggregates.
Interrupt ==
    /\ pc \in {"start", "flight"} \cup Places \cup {Writing[p] : p \in Places}
    /\ interrupted' = TRUE
    /\ pc' = "aggregate"
    /\ UNCHANGED <<files, inv, outcome, row, refreshed>>

Kill ==
    /\ ~Idle
    /\ pc' = "idle"
    /\ UNCHANGED <<files, inv, outcome, interrupted, row, refreshed>>

-------------------------------------------------------------------------------
(* aggregate_analysis.                                                     *)

NoRow == [kind |-> "none"]
Raised == [kind |-> "raised"]
Row(f) == [kind |-> "row", attempt |-> f.attempt, class |-> f.class,
           success |-> f.success]

\* An existing analysis.json is loaded without protection: json.load raises
\* on a torn one and takes the whole aggregate with it.
LoadCached ==
    /\ Exists(rootAnalysis)
    /\ row' = IF Readable(rootAnalysis) THEN Row(rootAnalysis) ELSE Raised
    /\ UNCHANGED <<files, refreshed>>

\* The latest completed attempt is analysed again into the root analysis.
Reanalyze ==
    /\ IF CompletedAttempts # {}
       THEN LET k == find_latest_completed_attempt_dir IN
            /\ rootAnalysis' = analyze_run(k, attempts[k].result)
            /\ row' = Row(rootAnalysis')
            /\ refreshed' = FALSE
       ELSE /\ row' = NoRow
            /\ UNCHANGED <<rootAnalysis, refreshed>>
    /\ UNCHANGED <<rootResult, attempts>>

\* At the end of main.
Aggregate ==
    /\ pc = "aggregate"
    /\ LoadCached \/ (~Exists(rootAnalysis) /\ Reanalyze)
    /\ pc' = "idle"
    /\ UNCHANGED <<inv, outcome, interrupted>>

\* --analyze-only, without and with --force-reanalyze.
AnalyzeOnly ==
    /\ Idle
    /\ LoadCached \/ Reanalyze
    /\ UNCHANGED <<pc, inv, outcome, interrupted>>

\* refresh_strict_success_for_run: the result file of the run directory, if
\* there is one, with the telemetry of the analysed attempt.
RefreshSource ==
    IF Exists(rootResult) THEN rootResult
    ELSE attempts[rootAnalysis.attempt].result

\* --analyze-only --refresh-success.
RefreshSuccess ==
    /\ Idle
    /\ Exists(rootAnalysis)
    /\ IF Readable(rootAnalysis) /\ Readable(RefreshSource)
       THEN /\ rootAnalysis' = [rootAnalysis EXCEPT !.success =
                  StrictSuccess(RefreshSource, attempts[rootAnalysis.attempt].tele)]
            /\ row' = Row(rootAnalysis')
            /\ refreshed' = TRUE
       ELSE /\ row' = Raised
            /\ UNCHANGED <<rootAnalysis, refreshed>>
    /\ UNCHANGED <<rootResult, attempts, pc, inv, outcome, interrupted>>

\* The process is killed while an analysis, --force-reanalyze or
\* --refresh-success writes the root analysis again.
KillRewrite ==
    /\ Idle \/ (pc = "aggregate" /\ ~Exists(rootAnalysis))
    /\ CompletedAttempts # {} \/ (Idle /\ Readable(rootAnalysis))
    /\ rootAnalysis' = Torn
    /\ pc' = "idle"
    /\ UNCHANGED <<rootResult, attempts, inv, outcome, interrupted, row, refreshed>>

Init ==
    /\ rootResult = Missing /\ rootAnalysis = Missing /\ attempts = <<>>
    /\ pc = "idle" /\ inv = [append |-> FALSE, resume |-> FALSE]
    /\ outcome = Missing /\ interrupted = FALSE
    /\ row = NoRow /\ refreshed = FALSE

\* The runner's own steps, Ctrl-C included.
RunnerStep ==
    \/ Invoke \/ make_attempt_dir \/ Fly
    \/ \E place \in Places : OpenFile(place) \/ CloseFile(place)
    \/ Interrupt
    \/ Aggregate \/ AnalyzeOnly \/ RefreshSuccess

Next == RunnerStep \/ Kill \/ KillRewrite

Spec == Init /\ [][Next]_vars

\* A runner that is interrupted by Ctrl-C only, never killed.
UnkilledSpec == Init /\ [][RunnerStep]_vars

-------------------------------------------------------------------------------
(* Properties.                                                             *)

\* Whatever kills and interrupts happened, a readable analysis.json of the run
\* directory describes an attempt whose own run_result.json is readable, has
\* the same status and is not that of an interrupted attempt, and (unless
\* --refresh-success rewrote it) its success is that attempt's: write order of
\* run_one, candidates of Reanalyze.
RootIsBacked ==
    Readable(rootAnalysis) =>
        LET a == attempts[rootAnalysis.attempt] IN
        /\ Readable(a.result) /\ a.result.class = rootAnalysis.class
        /\ rootAnalysis.class # "interrupted"
        /\ ~refreshed => rootAnalysis.success = StrictSuccess(a.result, a.tele)

\* A run is left out by --resume or --append-missing only if one of its
\* attempts has a complete result with a status that is not retryable.
SkippedHasResult ==
    [][Idle /\ pc' = "aggregate" => CompletedAttempts # {}]_vars

\* --resume and --append-missing never fly again, and never overwrite, a run
\* whose analysis.json is complete with a status that is not retryable.
CompletedIsKept ==
    [][/\ ~Idle /\ (inv.append \/ inv.resume)
       /\ Readable(rootAnalysis) /\ rootAnalysis.class = "final"
       => rootAnalysis' = rootAnalysis]_vars

\* The result and the telemetry of an attempt that completed are never written
\* again, by reruns, re-analysis or after a kill (make_attempt_dir never returns
\* a directory that exists).
AttemptsAreKept ==
    [][\A k \in 1 .. Current :
          Completed(k) =>
              /\ attempts'[k].result = attempts[k].result
              /\ attempts'[k].tele = attempts[k].tele]_vars

\* An uninterrupted --resume leaves a readable analysis.json behind, also when
\* an earlier invocation was killed in the middle of writing it.  This does not
\* hold of --resume --append-missing: with a torn analysis.json and an attempt
\* that completed, the run counts as done and the file stays torn.
ResumeRepairs ==
    pc = "aggregate" /\ ~interrupted /\ inv.resume /\ ~inv.append =>
        Readable(rootAnalysis)

\* What main announces on Ctrl-C, "Interrupted; aggregating completed runs
\* before exit": the aggregate of an interrupted invocation does not raise.  Of
\* UnkilledSpec, so that a torn file can only be the interrupt's own doing.
InterruptedStillAggregates ==
    [][pc = "aggregate" /\ pc' = "idle" /\ interrupted => row' # Raised]_vars
===============================================================================
