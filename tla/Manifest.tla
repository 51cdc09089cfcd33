------------------------------- MODULE Manifest -------------------------------
(***************************************************************************)
(* The run directories of one output directory of the experiment runner    *)
(* (Tools/autotest/run_pid_piper_mode_experiments.py): build_manifest,     *)
(* build_append_missing_manifest with its scan of the run_meta.json files, *)
(* and the flights of the rows, up to jobs at a time.  The runner may be   *)
(* killed at any step, also while a run_meta.json is being written.        *)
(*                                                                         *)
(* A run directory is named after the index and the condition of its row;  *)
(* run_id_for keeps of the mission only the stem of its file name, so two  *)
(* conditions may share a name.  The files inside a run directory are      *)
(* those of AttemptStore, reduced to the result they amount to.            *)
(***************************************************************************)
EXTENDS Integers, Sequences, SequencesExt, FiniteSetsExt

CONSTANTS
    Conditions,     \* mission, mode, scenarios and seed of a row
    Stem,           \* what run_id_for keeps of a condition
    BasePlan,       \* conditions of the plain and --resume invocations
    AppendPlans,    \* conditions of the --append-missing invocations
    jobs,           \* --jobs
    MaxIndex,       \* bound: run indices
    MaxInvocations  \* bound: invocations of the runner

Plans == {p \in UNION {[1 .. n -> Conditions] : n \in 0 .. Cardinality(Conditions)} :
              IsInjective(p)}

ASSUME ManifestAssumption ==
    /\ DOMAIN Stem = Conditions
    /\ {BasePlan} \cup AppendPlans \subseteq Plans
    /\ jobs \in Nat \ {0} /\ MaxIndex \in Nat /\ MaxInvocations \in Nat

VARIABLES
    dirs,       \* run directories: run_meta.json and the result inside
    pending,    \* the manifest rows of this invocation
    phase,      \* what was done for each of them
    inv,        \* flags and plan of this invocation
    running,    \* an invocation is under way
    count,      \* invocations so far
    rerun       \* history: a plain or --resume invocation found directories

vars == <<dirs, pending, phase, inv, running, count, rerun>>

\* The result a run directory holds: none, an analysis.json with a retryable
\* status, a completed attempt only, or a completed analysis.json; the last two
\* are of a condition.
NoResult == [level |-> "none"]
Retryable == [level |-> "retryable"]
ResultOf(level, c) == [level |-> level, cond |-> c]

HasResult(d) == dirs[d].result.level \in {"attempt", "root"}
Readable(d) == dirs[d].meta = "doc"

\* run_id_for
run_dir(row) == <<row.index, Stem[row.cond]>>

-------------------------------------------------------------------------------
(* Building a manifest.                                                    *)

\* What a loop that passes over some of the rows keeps: those at the places K.
RowsAt(rows, K) ==
    LET kept[k \in 0 .. Len(rows)] ==
            IF k = 0 THEN <<>>
            ELSE IF k \in K THEN Append(kept[k - 1], rows[k]) ELSE kept[k - 1]
    IN  kept[Len(rows)]

build_manifest(plan) ==
    [k \in DOMAIN plan |-> [index |-> k, cond |-> plan[k]]]

\* Mutant: only a complete analysis.json counts.
run_dir_has_completed_result_RootOnly(d) == dirs[d].result.level = "root"

run_dir_has_completed_result(d) == HasResult(d)

\* Mutant: an incomplete run counts as well.
completed_existing_Any == {d \in DOMAIN dirs : Readable(d)}

\* read_existing_run_meta without and with completed_only.  A run_meta.json
\* that cannot be parsed is passed over.
all_existing == {d \in DOMAIN dirs : Readable(d)}
completed_existing == {d \in all_existing : run_dir_has_completed_result(d)}

Keys(ds) == {dirs[d].cond : d \in ds}

\* Mutant: indices start again.
max_index_Zero == 0

max_index == Max({0} \cup {d[1] : d \in all_existing})

\* existing[key]: the scan is in the order of names, the last one stays.
ExistingRow(ds, c) ==
    [index |-> Max({d[1] : d \in {e \in ds : dirs[e].cond = c}}), cond |-> c]

\* Mutant: the index is not advanced.
FreshIndex_Same(plan, k) == max_index + 1

FreshIndex(plan, k) ==
    max_index + Cardinality({j \in 1 .. k : plan[j] \notin Keys(all_existing)})

\* The row of an incomplete run that the scan has met, or a new one.
AppendRow(plan, k) ==
    IF plan[k] \in Keys(all_existing)
    THEN ExistingRow(all_existing, plan[k])
    ELSE [index |-> FreshIndex(plan, k), cond |-> plan[k]]

\* The missing_rows; the full_rows only go into experiment_manifest.csv, which
\* nothing reads.
build_append_missing_manifest(plan) ==
    RowsAt([k \in DOMAIN plan |-> AppendRow(plan, k)],
           {k \in DOMAIN plan : plan[k] \notin Keys(completed_existing)})

should_skip_run(row) ==
    /\ inv'.resume /\ run_dir(row) \in DOMAIN dirs
    /\ dirs[run_dir(row)].result.level = "root"

Flags == [append : BOOLEAN, resume : BOOLEAN]

\* main up to the first flight; max_runs is --max-runs, and Len(plan) when it is
\* not given.
Invoke ==
    /\ ~running /\ count < MaxInvocations
    /\ \E f \in Flags, plan \in AppendPlans \cup {BasePlan} : \E max_runs \in 0 .. Len(plan) :
        /\ f.append \/ plan = BasePlan
        /\ inv' = [append |-> f.append, resume |-> f.resume, plan |-> plan,
                   all |-> max_runs >= Len(plan)]
        /\ LET manifest == IF f.append THEN build_append_missing_manifest(plan)
                                       ELSE build_manifest(plan)
               rows == SubSeq(manifest, 1, Min({max_runs, Len(manifest)}))
           IN  /\ \A k \in DOMAIN rows : rows[k].index <= MaxIndex
               /\ pending' = RowsAt(rows, {k \in DOMAIN rows : ~should_skip_run(rows[k])})
               /\ rerun' = (rerun \/ (~f.append /\ DOMAIN dirs # {}))
    /\ phase' = [k \in DOMAIN pending' |-> "todo"]
    /\ running' = TRUE /\ count' = count + 1
    /\ UNCHANGED dirs

-------------------------------------------------------------------------------
(* run_one for the k-th row.                                               *)

Advance(k, p) == phase' = [phase EXCEPT ![k] = p]

RowStep == UNCHANGED <<pending, inv, running, count, rerun>>

\* The row's directory with its run_meta.json set.
WithMeta(d, meta, c) ==
    [e \in DOMAIN dirs \cup {d} |->
        IF e # d THEN dirs[e]
        ELSE [meta |-> meta, cond |-> c,
              result |-> IF d \in DOMAIN dirs THEN dirs[d].result ELSE NoResult]]

InFlight == {k \in DOMAIN phase : phase[k] \notin {"todo", "ended", "retry", "error"}}

\* A row is taken, in order, when there is a worker for it.
NextRow(k) ==
    /\ phase[k] = "todo"
    /\ \A j \in 1 .. k - 1 : phase[j] # "todo"
    /\ Cardinality(InFlight) < jobs

\* write_json opens run_meta.json: when a worker takes the row, and again when
\* the simulator has been started.
OpenMeta(k) ==
    /\ \/ NextRow(k) /\ Advance(k, "meta1")
       \/ phase[k] = "launch" /\ Advance(k, "meta2")
    /\ dirs' = WithMeta(run_dir(pending[k]), "torn", pending[k].cond)
    /\ RowStep

CloseMeta(k) ==
    /\ \/ phase[k] = "meta1" /\ Advance(k, "launch")
       \/ phase[k] = "meta2" /\ Advance(k, "flight")
    /\ dirs' = WithMeta(run_dir(pending[k]), "doc", pending[k].cond)
    /\ RowStep

SetResult(k, result) == dirs' = [dirs EXCEPT ![run_dir(pending[k])].result = result]

\* An exception inside the try block, also of start_sim or of the write of
\* run_meta.json in it, or another retryable status: the new analysis.json hides
\* earlier results.
EndRetryable(k) ==
    /\ phase[k] \in {"launch", "meta2", "flight"}
    /\ SetResult(k, Retryable)
    /\ Advance(k, "retry")
    /\ RowStep

\* The files of the attempt are written; then those of the run directory.  What
\* the analysis.json of an earlier attempt says counts until it is opened.
EndAttempt(k) ==
    /\ phase[k] = "flight"
    /\ \/ SetResult(k, ResultOf("attempt", pending[k].cond))
       \/ /\ dirs[run_dir(pending[k])].result.level \in {"retryable", "root"}
          /\ UNCHANGED dirs
    /\ Advance(k, "saving")
    /\ RowStep

SaveRoot(k) ==
    /\ phase[k] = "saving"
    /\ SetResult(k, ResultOf("root", pending[k].cond))
    /\ Advance(k, "ended")
    /\ RowStep

\* run_one raises outside its try block, before it, in its finally or in the
\* writes that follow it: the worker reports a worker_error, which the parent
\* counts like a flight.  With one job the exception ends the runner: Kill.
RunOneRaises(k) ==
    /\ jobs > 1
    /\ NextRow(k) \/ k \in InFlight
    /\ Advance(k, "error")
    /\ UNCHANGED dirs
    /\ RowStep

\* A completed attempt without analysis.json is analysed (with a torn one it is
\* not: AttemptStore).
aggregate_analysis ==
    \E ds \in SUBSET {d \in DOMAIN dirs : dirs[d].result.level = "attempt"} :
        dirs' = [d \in DOMAIN dirs |->
                    IF d \in ds THEN [dirs[d] EXCEPT !.result.level = "root"]
                                ELSE dirs[d]]

AllCounted == \A k \in DOMAIN phase : phase[k] \in {"ended", "retry", "error"}

EndInvocation ==
    /\ running' = FALSE /\ pending' = <<>> /\ phase' = <<>>
    /\ UNCHANGED <<inv, count, rerun>>

\* The end of main.
Finish == running /\ AllCounted /\ aggregate_analysis /\ EndInvocation

\* Ctrl-C ends the loop over the rows; main aggregates what there is.
Interrupt == running /\ ~AllCounted /\ aggregate_analysis /\ EndInvocation

Kill == running /\ UNCHANGED dirs /\ EndInvocation

Init ==
    /\ dirs = <<>> /\ pending = <<>> /\ phase = <<>>
    /\ inv = [append |-> FALSE, resume |-> FALSE, plan |-> <<>>, all |-> FALSE]
    /\ running = FALSE /\ count = 0 /\ rerun = FALSE

Next ==
    \/ Invoke \/ Finish \/ Interrupt \/ Kill
    \/ \E k \in DOMAIN phase :
          \/ OpenMeta(k) \/ CloseMeta(k)
          \/ EndRetryable(k) \/ EndAttempt(k) \/ SaveRoot(k)
          \/ RunOneRaises(k)

Spec == Init /\ [][Next]_vars

-------------------------------------------------------------------------------
(* Properties.                                                             *)

\* The rows of a manifest have directories of their own, whatever torn
\* run_meta.json files, equal stems and earlier plans the scan met: two
\* workers never write the same files.
RowsShareNoDirectory ==
    \A j, k \in DOMAIN pending :
        run_dir(pending[j]) = run_dir(pending[k]) => j = k

\* No other condition can get a directory of this name.
OwnStem(c) == \A e \in Conditions : Stem[e] = Stem[c] => e = c

\* When an --append-missing invocation without --max-runs has all its rows
\* counted, every condition of its plan has a directory with its completed
\* result, unless its run_one has just ended with a retryable status or raised
\* (the parent counts both as done); earlier kills and run_meta.json files they
\* left unreadable change nothing about it.  Where plain reruns were mixed in,
\* this is so for conditions with a stem of their own only: a rerun may take
\* over the directory of another condition.
AppendCompletesPlan ==
    running /\ inv.append /\ inv.all /\ AllCounted
    => \A c \in Range(inv.plan) :
          \/ rerun /\ ~OwnStem(c)
          \/ \E d \in DOMAIN dirs : HasResult(d) /\ dirs[d].result.cond = c
          \/ \E k \in DOMAIN phase :
                phase[k] \in {"retry", "error"} /\ pending[k].cond = c

\* As long as an output directory is only extended with --append-missing, no
\* condition gets completed results in two directories (aggregate_analysis
\* would count both), although a kill may leave a run_meta.json that hides its
\* run from the scan.
OneResultPerCondition ==
    ~rerun => \A d, e \in DOMAIN dirs :
                 /\ HasResult(d) /\ HasResult(e)
                 /\ dirs[d].result.cond = dirs[e].result.cond
                 => d = e

\* An --append-missing invocation never takes a row to the directory of a
\* completed run that its scan has seen.
AppendKeepsResults ==
    [][\A d \in DOMAIN dirs :
          /\ running /\ inv.append
          /\ HasResult(d) /\ Readable(d)
          /\ \A k \in InFlight : run_dir(pending[k]) # d
          => Readable(d)']_vars
===============================================================================
