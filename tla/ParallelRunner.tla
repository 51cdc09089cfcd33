---------------------------- MODULE ParallelRunner ----------------------------
(***************************************************************************)
(* run_manifest_parallel and parallel_worker_main of                       *)
(* Tools/autotest/run_pid_piper_mode_experiments.py: a parent process, a   *)
(* pool of workers, a task queue that ends with one None per worker and a  *)
(* result queue.  Workers may be interrupted (SIGINT) or killed at any     *)
(* time, the parent may be interrupted while it collects results.  A       *)
(* simulator is the child of a worker in a session of its own (start_sim   *)
(* calls setsid): it outlives a worker that dies without stop_sim.         *)
(***************************************************************************)
EXTENDS Naturals, Sequences, FiniteSets

CONSTANTS
    Workers,        \* the slots 0 .. jobs - 1
    NTasks          \* len(pending)

ASSUME PoolAssumption == IsFiniteSet(Workers) /\ Workers # {} /\ NTasks \in Nat \ {0}

jobs == Cardinality(Workers)
Tasks == 1 .. NTasks

VARIABLES
    taken,          \* items taken from task_queue
    wpc, task,      \* where a worker is, and the row it flies
    exitcode,       \* "none" while alive, "zero" or "bad"
    sim,            \* the worker's simulator process runs
    sending,        \* messages put by a worker, not yet in the pipe
    result_queue,   \* messages in the pipe
    ppc, how,       \* where the parent is, and why it leaves its loops
    completed, workers_done,
    ended,          \* history: rows whose run_one returned or raised
    collected,      \* history: rows the parent has counted
    killed          \* history: workers killed from outside

worker == <<taken, wpc, task, exitcode, sim, sending, ended, killed>>
parent == <<ppc, how, completed, workers_done, collected>>
vars == <<worker, result_queue, parent>>

Kinds == {"done", "worker_error", "interrupted", "worker_done"}
NoTask == 0
Messages == [kind : Kinds, run_id : Tasks \cup {NoTask}]

is_alive(w) == exitcode[w] = "none"

-------------------------------------------------------------------------------
(* Workers.                                                                *)

\* result_queue.put hands the message to the queue's feeder thread.
Put(w, kind) ==
    sending' = [sending EXCEPT ![w] = Append(@, [kind |-> kind, run_id |-> task[w]])]

\* task_queue.get: all rows, then one None per worker, were put before the
\* workers started, so the count of items taken is the queue's state.
Get(w) ==
    /\ is_alive(w) /\ wpc[w] = "get" /\ taken < NTasks + jobs
    /\ taken' = taken + 1
    /\ IF taken' <= NTasks
       THEN /\ wpc' = [wpc EXCEPT ![w] = "start"]
            /\ task' = [task EXCEPT ![w] = taken']
            /\ UNCHANGED sending
       ELSE /\ wpc' = [wpc EXCEPT ![w] = "return"]
            /\ Put(w, "worker_done")
            /\ UNCHANGED task
    /\ UNCHANGED <<exitcode, sim, ended, killed, result_queue, parent>>

\* run_one up to start_sim.
start_sim(w) ==
    /\ is_alive(w) /\ wpc[w] = "start"
    /\ sim' = [sim EXCEPT ![w] = TRUE]
    /\ wpc' = [wpc EXCEPT ![w] = "run"]
    /\ UNCHANGED <<taken, task, exitcode, sending, ended, killed, result_queue,
                   parent>>

\* Kills the simulator's process group, with SIGKILL if it does not end.
stop_sim(w) == sim' = [sim EXCEPT ![w] = FALSE]

\* run_one returns an analysis, raises (before start_sim or after stop_sim:
\* what the flight raises it catches), or passes a KeyboardInterrupt on.  In
\* each case its finally block has called stop_sim.
EndRun(w, kind) ==
    /\ is_alive(w) /\ wpc[w] \in {"start", "run"}
    /\ kind = "done" => wpc[w] = "run"
    /\ stop_sim(w)
    /\ Put(w, kind)
    /\ wpc' = [wpc EXCEPT ![w] = IF kind = "interrupted" THEN "return" ELSE "get"]
    /\ task' = [task EXCEPT ![w] = NoTask]
    /\ ended' = IF kind = "interrupted" THEN ended ELSE ended \cup {task[w]}
    /\ UNCHANGED <<taken, exitcode, killed, result_queue, parent>>

run_one(w) == \E kind \in {"done", "worker_error"} : EndRun(w, kind)

\* SIGINT: caught around run_one, not around task_queue.get.
WorkerInterrupted(w) ==
    \/ EndRun(w, "interrupted")
    \/ /\ is_alive(w) /\ wpc[w] = "get"
       /\ wpc' = [wpc EXCEPT ![w] = "raise"]
       /\ UNCHANGED <<taken, task, exitcode, sim, sending, ended, killed,
                      result_queue, parent>>

\* The queue's feeder thread in the worker.
Feed(w) ==
    /\ is_alive(w) /\ sending[w] # <<>>
    /\ result_queue' = Append(result_queue, Head(sending[w]))
    /\ sending' = [sending EXCEPT ![w] = Tail(@)]
    /\ UNCHANGED <<taken, wpc, task, exitcode, sim, ended, killed, parent>>

\* The process ends once its feeder thread has sent everything.
Exit(w) ==
    /\ is_alive(w) /\ wpc[w] \in {"return", "raise"} /\ sending[w] = <<>>
    /\ exitcode' = [exitcode EXCEPT ![w] = IF wpc[w] = "return" THEN "zero" ELSE "bad"]
    /\ UNCHANGED <<taken, wpc, task, sim, sending, ended, killed, result_queue,
                   parent>>

\* SIGTERM or SIGKILL: no handler runs, unsent messages are lost and the
\* simulator stays.
Die(w) ==
    /\ is_alive(w)
    /\ exitcode' = [exitcode EXCEPT ![w] = "bad"]
    /\ sending' = [sending EXCEPT ![w] = <<>>]
    /\ UNCHANGED <<taken, wpc, task, sim, ended, result_queue>>

Kill(w) ==
    /\ Die(w)
    /\ killed' = killed \cup {w}
    /\ UNCHANGED parent

-------------------------------------------------------------------------------
(* The parent.                                                             *)

Receive ==
    /\ result_queue # <<>>
    /\ result_queue' = Tail(result_queue)

Leave(why) == ppc' = "terminate" /\ how' = why

\* Mutant: the end of a worker is counted like the end of a row.
Counted_WorkerDone == {"done", "worker_error", "worker_done"}

\* The kinds that increment completed.
Counted == {"done", "worker_error"}

\* The first loop, one message.
Collect ==
    /\ ppc = "collect" /\ completed < NTasks
    /\ Receive
    /\ LET kind == Head(result_queue).kind IN
       /\ completed' = completed + (IF kind \in Counted THEN 1 ELSE 0)
       /\ collected' = collected \cup
              (IF kind \in Counted THEN {Head(result_queue).run_id} ELSE {})
       /\ workers_done' = workers_done + (IF kind = "worker_done" THEN 1 ELSE 0)
       /\ ppc' = IF kind = "interrupted" THEN "drain" ELSE ppc
       /\ how' = IF kind = "interrupted" THEN "worker interrupted" ELSE how
    /\ UNCHANGED worker

\* Mutant: an Empty is never followed by a look at the exit codes.
CollectEmpty_NoCheck == FALSE /\ UNCHANGED vars

\* The first loop, queue.Empty: only here are dead workers noticed.
CollectEmpty ==
    /\ ppc = "collect" /\ completed < NTasks
    /\ result_queue = <<>>
    /\ \E w \in Workers : exitcode[w] = "bad"
    /\ Leave("RuntimeError")
    /\ UNCHANGED <<worker, result_queue, completed, workers_done, collected>>

CollectEnd ==
    /\ ppc = "collect" /\ completed = NTasks
    /\ ppc' = "drain"
    /\ UNCHANGED <<worker, result_queue, how, completed, workers_done, collected>>

\* The second loop, one message; only worker_done is looked at.
Drain ==
    /\ ppc = "drain" /\ workers_done < jobs
    /\ Receive
    /\ workers_done' = workers_done + (IF Head(result_queue).kind = "worker_done" THEN 1 ELSE 0)
    /\ UNCHANGED <<worker, ppc, how, completed, collected>>

\* Mutant: one missing worker ends the second loop.
PoolEmpty_Any == \E w \in Workers : ~is_alive(w)

PoolEmpty == \A w \in Workers : ~is_alive(w)

DrainEnd ==
    /\ ppc = "drain"
    /\ \/ workers_done = jobs
       \/ workers_done < jobs /\ result_queue = <<>> /\ PoolEmpty
    /\ Leave(how)
    /\ UNCHANGED <<worker, result_queue, completed, workers_done, collected>>

\* KeyboardInterrupt in one of the loops.
ParentInterrupted ==
    /\ ppc \in {"collect", "drain"}
    /\ Leave("KeyboardInterrupt")
    /\ UNCHANGED <<worker, result_queue, completed, workers_done, collected>>

\* terminate_processes, after the joins of the finally block.  A worker may
\* also end by itself before it is terminated.
Terminate(w) ==
    /\ ppc = "terminate"
    /\ Die(w)
    /\ UNCHANGED <<killed, parent>>

Return ==
    /\ ppc = "terminate" /\ \A w \in Workers : ~is_alive(w)
    /\ ppc' = "out"
    /\ UNCHANGED <<worker, result_queue, how, completed, workers_done, collected>>

-------------------------------------------------------------------------------
Init ==
    /\ taken = 0
    /\ wpc = [w \in Workers |-> "get"]
    /\ task = [w \in Workers |-> NoTask]
    /\ exitcode = [w \in Workers |-> "none"]
    /\ sim = [w \in Workers |-> FALSE]
    /\ sending = [w \in Workers |-> <<>>]
    /\ result_queue = <<>>
    /\ ppc = "collect" /\ how = "all collected"
    /\ completed = 0 /\ workers_done = 0
    /\ ended = {} /\ collected = {} /\ killed = {}

WorkerStep(w) == Get(w) \/ start_sim(w) \/ run_one(w) \/ Exit(w)

ParentStep ==
    \/ Collect \/ CollectEmpty \/ CollectEnd \/ Drain \/ DrainEnd
    \/ (\E w \in Workers : Terminate(w)) \/ Return

Next ==
    \/ \E w \in Workers : WorkerStep(w) \/ Feed(w) \/ WorkerInterrupted(w) \/ Kill(w)
    \/ ParentStep \/ ParentInterrupted

Spec == Init /\ [][Next]_vars

\* Processes and feeder threads are scheduled; every flight ends (FlightMonitor
\* shows that it does).
FairSpec ==
    /\ Spec
    /\ \A w \in Workers : WF_vars(WorkerStep(w)) /\ WF_vars(Feed(w))
    /\ WF_vars(ParentStep)

-------------------------------------------------------------------------------
(* Properties.                                                             *)

\* Type correctness; the counters never pass len(pending) and jobs, which the
\* loop conditions of the parent take for granted, and what the parent counts
\* has ended.
TypeOK ==
    /\ taken \in 0 .. NTasks + jobs
    /\ wpc \in [Workers -> {"get", "start", "run", "return", "raise"}]
    /\ task \in [Workers -> Tasks \cup {NoTask}]
    /\ exitcode \in [Workers -> {"none", "zero", "bad"}]
    /\ sim \in [Workers -> BOOLEAN]
    /\ sending \in [Workers -> Seq(Messages)]
    /\ result_queue \in Seq(Messages)
    /\ ppc \in {"collect", "drain", "terminate", "out"}
    /\ how \in {"all collected", "worker interrupted", "RuntimeError",
                "KeyboardInterrupt"}
    /\ completed \in 0 .. NTasks
    /\ workers_done \in 0 .. jobs
    /\ ended \subseteq Tasks /\ collected \subseteq ended
    /\ killed \subseteq Workers

\* If the parent goes on to aggregate without an interruption, run_one came to
\* its end for every pending row, whatever workers died with a row or with unsent
\* messages: a lost row leaves completed short and ends in the RuntimeError.
\* A row whose run_one raised (worker_error) has ended too; Manifest has what
\* this means for the results.
AllRowsFlown == ppc # "collect" /\ how = "all collected" => ended = Tasks

\* The terminate_processes of the finally block strikes no flight: unless the
\* parent was interrupted, raised, or the worker was killed from outside, no
\* simulator is left behind, also after one worker was interrupted.
NoSimulatorLeft ==
    ppc = "out" /\ how \in {"all collected", "worker interrupted"} =>
        \A w \in Workers \ killed : ~sim[w]

\* The parent always gets out, whichever workers are killed or interrupted in
\* whatever order: it never waits for a message nobody will send.
ParentGetsOut == <>(ppc = "out")
===============================================================================
