------------------------- MODULE ParallelRunnerProofs -------------------------
(***************************************************************************)
(* Proofs about ParallelRunner, for every number of workers and rows: the  *)
(* parent's counters are exact, no row is taken for flown that was not,    *)
(* and no simulator is left by a run of the pool that was not torn down.   *)
(***************************************************************************)
EXTENDS ParallelRunner, FiniteSetTheorems, TLAPS

\* The types, without the two counters.
PoolTypes ==
    /\ taken \in 0 .. NTasks + jobs
    /\ wpc \in [Workers -> {"get", "start", "run", "return", "raise"}]
    /\ task \in [Workers -> Tasks \cup {NoTask}]
    /\ exitcode \in [Workers -> {"none", "zero", "bad"}]
    /\ sim \in [Workers -> BOOLEAN]
    /\ sending \in [Workers -> Seq(Messages)]
    /\ result_queue \in Seq(Messages)
    /\ ppc \in {"collect", "drain", "terminate", "out"}
    /\ how \in {"all collected", "worker interrupted", "RuntimeError",
                "KeyboardInterrupt"}
    /\ killed \subseteq Workers

Busy(w) == wpc[w] \in {"start", "run"}

\* A row is with at most one worker, and only before it has ended.
RowsTakenOnce ==
    /\ \A w \in Workers : Busy(w) => task[w] \in 1 .. taken \ ended
    /\ \A v, w \in Workers : Busy(v) /\ Busy(w) /\ task[v] = task[w] => v = w
    /\ ended \subseteq Tasks \cap (1 .. taken)

\* The rows that count in a message of a queue s at place i.
Counts(s, i) == i \in 1 .. Len(s) /\ s[i].kind \in Counted

\* Every row that has ended is reported by at most one message, which is not
\* yet counted by the parent.
RowsReportedOnce ==
    /\ \A i \in 1 .. Len(result_queue) :
          Counts(result_queue, i) => result_queue[i].run_id \in ended \ collected
    /\ \A i, j \in 1 .. Len(result_queue) :
          /\ Counts(result_queue, i) /\ Counts(result_queue, j)
          /\ result_queue[i].run_id = result_queue[j].run_id
          => i = j
    /\ \A w \in Workers : \A i \in 1 .. Len(sending[w]) :
          Counts(sending[w], i) =>
              /\ sending[w][i].run_id \in ended \ collected
              /\ \A j \in 1 .. Len(result_queue) :
                    Counts(result_queue, j) => result_queue[j].run_id # sending[w][i].run_id
    /\ \A v, w \in Workers : \A i \in 1 .. Len(sending[v]), j \in 1 .. Len(sending[w]) :
          /\ Counts(sending[v], i) /\ Counts(sending[w], j)
          /\ sending[v][i].run_id = sending[w][j].run_id
          => v = w /\ i = j

\* The parent's counter is the number of rows it has counted.
CompletedIsExact ==
    /\ collected \subseteq ended
    /\ completed = Cardinality(collected)

\* The worker_done messages: own gives the sender of each message of the result
\* queue, D holds the workers that the parent has counted as done.
OwnedBy(own, D) ==
    /\ workers_done = Cardinality(D)
    /\ \A w \in D : wpc[w] = "return"
    /\ \A i \in 1 .. Len(result_queue) :
          result_queue[i].kind = "worker_done" =>
              own[i] \notin D /\ wpc[own[i]] = "return"
    /\ \A i, j \in 1 .. Len(result_queue) :
          /\ result_queue[i].kind = "worker_done" /\ result_queue[j].kind = "worker_done"
          /\ own[i] = own[j]
          => i = j
    /\ \A w \in Workers : \A k \in 1 .. Len(sending[w]) :
          sending[w][k].kind = "worker_done" =>
              /\ w \notin D /\ wpc[w] = "return"
              /\ \A i \in 1 .. Len(result_queue) :
                    result_queue[i].kind = "worker_done" => own[i] # w
              /\ \A j \in 1 .. Len(sending[w]) :
                    sending[w][j].kind = "worker_done" => j = k

DoneOnce ==
    \E own \in [1 .. Len(result_queue) -> Workers], D \in SUBSET Workers : OwnedBy(own, D)

\* A simulator runs only where a flight is under way, and a worker that ended
\* by itself has none; when the parent leaves its loops in good order, all
\* workers have ended or are about to.
SimulatorInv ==
    /\ \A w \in Workers : sim[w] => wpc[w] = "run"
    /\ ppc \in {"collect", "drain"} =>
          \A w \in Workers \ killed : ~is_alive(w) => wpc[w] \in {"return", "raise"}
    /\ ppc \in {"terminate", "out"} /\ how \in {"all collected", "worker interrupted"} =>
          \A w \in Workers : \/ wpc[w] \in {"return", "raise"}
                             \/ ~is_alive(w) /\ w \in killed

\* The inductive invariant.
PoolInv ==
    /\ PoolTypes /\ RowsTakenOnce /\ RowsReportedOnce /\ CompletedIsExact /\ DoneOnce
    /\ SimulatorInv /\ AllRowsFlown

-------------------------------------------------------------------------------
(* The constants and the queues.                                           *)

\* The number of workers.
LEMMA JobsType == jobs \in Nat \ {0} /\ IsFiniteSet(Workers)
  BY PoolAssumption, FS_CardinalityType, FS_EmptySet DEF jobs

\* A message put by a worker is the last one of those it sends.
LEMMA PutFacts ==
    ASSUME PoolTypes, NEW w \in Workers, NEW kind \in Kinds, Put(w, kind)
    PROVE  /\ sending' \in [Workers -> Seq(Messages)]
           /\ \A v \in Workers : v # w => sending'[v] = sending[v]
           /\ Len(sending[w]) \in Nat /\ Len(sending'[w]) = Len(sending[w]) + 1
           /\ \A i \in 1 .. Len(sending[w]) : sending'[w][i] = sending[w][i]
           /\ sending'[w][Len(sending[w]) + 1].kind = kind
           /\ sending'[w][Len(sending[w]) + 1].run_id = task[w]
  <1> DEFINE m == [kind |-> kind, run_id |-> task[w]]
  <1>1. m \in Messages /\ m.kind = kind /\ m.run_id = task[w]
    BY DEF PoolTypes, Messages
  <1>2. sending' = [sending EXCEPT ![w] = Append(sending[w], m)]
    BY DEF Put
  <1> HIDE DEF m
  <1>3. sending[w] \in Seq(Messages)
    BY DEF PoolTypes
  <1>4. /\ Append(sending[w], m) \in Seq(Messages)
        /\ Len(sending[w]) \in Nat /\ Len(Append(sending[w], m)) = Len(sending[w]) + 1
        /\ \A i \in 1 .. Len(sending[w]) : Append(sending[w], m)[i] = sending[w][i]
        /\ Append(sending[w], m)[Len(sending[w]) + 1] = m
    BY <1>1, <1>3
  <1> QED  BY <1>1, <1>2, <1>4 DEF PoolTypes

\* The feeder moves the first message of a worker to the end of the queue.
LEMMA FeedFacts ==
    ASSUME PoolTypes, NEW w \in Workers, Feed(w)
    PROVE  /\ sending' \in [Workers -> Seq(Messages)] /\ result_queue' \in Seq(Messages)
           /\ \A v \in Workers : v # w => sending'[v] = sending[v]
           /\ Len(sending[w]) \in Nat /\ Len(sending[w]) > 0
           /\ Len(sending'[w]) = Len(sending[w]) - 1
           /\ \A i \in 1 .. Len(sending'[w]) : sending'[w][i] = sending[w][i + 1]
           /\ Len(result_queue) \in Nat /\ Len(result_queue') = Len(result_queue) + 1
           /\ \A i \in 1 .. Len(result_queue) : result_queue'[i] = result_queue[i]
           /\ result_queue'[Len(result_queue) + 1] = sending[w][1]
  <1>1. /\ sending[w] \in Seq(Messages) /\ sending[w] # <<>>
        /\ result_queue \in Seq(Messages)
    BY DEF PoolTypes, Feed
  <1>2. /\ sending[w][1] \in Messages /\ Head(sending[w]) = sending[w][1]
        /\ Tail(sending[w]) \in Seq(Messages)
        /\ Len(sending[w]) \in Nat /\ Len(sending[w]) > 0
        /\ Len(Tail(sending[w])) = Len(sending[w]) - 1
        /\ \A i \in 1 .. Len(Tail(sending[w])) : Tail(sending[w])[i] = sending[w][i + 1]
    BY <1>1
  <1>3. /\ sending' = [sending EXCEPT ![w] = Tail(sending[w])]
        /\ result_queue' = Append(result_queue, sending[w][1])
    BY <1>2 DEF Feed
  <1>4. /\ result_queue' \in Seq(Messages)
        /\ Len(result_queue) \in Nat /\ Len(result_queue') = Len(result_queue) + 1
        /\ \A i \in 1 .. Len(result_queue) : result_queue'[i] = result_queue[i]
        /\ result_queue'[Len(result_queue) + 1] = sending[w][1]
    BY <1>1, <1>2, <1>3
  <1>5. /\ sending' \in [Workers -> Seq(Messages)]
        /\ \A v \in Workers : v # w => sending'[v] = sending[v]
        /\ sending'[w] = Tail(sending[w])
    BY <1>2, <1>3 DEF PoolTypes
  <1> QED  BY <1>2, <1>4, <1>5

\* The parent takes the first message.
LEMMA ReceiveFacts ==
    ASSUME PoolTypes, Receive
    PROVE  /\ result_queue' \in Seq(Messages)
           /\ Len(result_queue) \in Nat /\ Len(result_queue) > 0
           /\ Len(result_queue') = Len(result_queue) - 1
           /\ \A i \in 1 .. Len(result_queue') : result_queue'[i] = result_queue[i + 1]
           /\ Head(result_queue) = result_queue[1] /\ result_queue[1] \in Messages
  <1>1. /\ result_queue \in Seq(Messages) /\ result_queue # <<>>
        /\ result_queue' = Tail(result_queue)
    BY DEF PoolTypes, Receive
  <1> QED  BY <1>1

-------------------------------------------------------------------------------
(* The worker_done messages.                                               *)

\* Steps that touch no message that counts, and leave no worker's "return".
LEMMA DoneKept ==
    ASSUME DoneOnce, UNCHANGED <<result_queue, workers_done>>,
           \A w \in Workers : wpc[w] = "return" => wpc'[w] = "return",
           \A w \in Workers : sending'[w] \in {sending[w], <<>>}
    PROVE  DoneOnce'
  <1>1. PICK own \in [1 .. Len(result_queue) -> Workers], D \in SUBSET Workers :
           OwnedBy(own, D)
    BY DEF DoneOnce
  <1>2. OwnedBy(own, D)'
    BY <1>1 DEF OwnedBy
  <1> QED  BY <1>1, <1>2 DEF DoneOnce

\* A worker puts its only worker_done, or another message.
LEMMA DonePut ==
    ASSUME PoolTypes, DoneOnce, NEW w \in Workers, NEW kind \in Kinds, Put(w, kind),
           UNCHANGED <<result_queue, workers_done>>,
           wpc[w] # "return", \A v \in Workers : v # w => wpc'[v] = wpc[v],
           kind = "worker_done" => wpc'[w] = "return"
    PROVE  DoneOnce'
  <1>1. PICK own \in [1 .. Len(result_queue) -> Workers], D \in SUBSET Workers :
           OwnedBy(own, D)
    BY DEF DoneOnce
  <1>2. /\ \A v \in Workers : v # w => sending'[v] = sending[v]
        /\ Len(sending[w]) \in Nat /\ Len(sending'[w]) = Len(sending[w]) + 1
        /\ \A i \in 1 .. Len(sending[w]) : sending'[w][i] = sending[w][i]
        /\ sending'[w][Len(sending[w]) + 1].kind = kind
    BY PutFacts
  <1>3. /\ w \notin D
        /\ \A i \in 1 .. Len(result_queue) :
              result_queue[i].kind = "worker_done" => own[i] # w
        /\ \A k \in 1 .. Len(sending[w]) : sending[w][k].kind # "worker_done"
    BY <1>1 DEF OwnedBy
  <1>4. /\ workers_done' = Cardinality(D)
        /\ \A v \in D : wpc'[v] = "return"
        /\ \A i \in 1 .. Len(result_queue) :
              result_queue[i].kind = "worker_done" =>
                  own[i] \notin D /\ wpc'[own[i]] = "return"
    BY <1>1, <1>3 DEF OwnedBy
  <1>5. ASSUME NEW v \in Workers, NEW k \in 1 .. Len(sending'[v]),
               sending'[v][k].kind = "worker_done"
        PROVE  /\ v \notin D /\ wpc'[v] = "return"
               /\ \A i \in 1 .. Len(result_queue) :
                     result_queue[i].kind = "worker_done" => own[i] # v
               /\ \A j \in 1 .. Len(sending'[v]) :
                     sending'[v][j].kind = "worker_done" => j = k
    <2>1. CASE v = w
      <3>1. \A j \in 1 .. Len(sending'[w]) :
               sending'[w][j].kind = "worker_done" => j = Len(sending[w]) + 1
        BY <1>2, <1>3
      <3>2. kind = "worker_done"
        BY <1>2, <1>5, <2>1, <3>1
      <3> QED  BY <1>3, <1>5, <2>1, <3>1, <3>2
    <2>2. CASE v # w
      BY <1>1, <1>2, <1>5, <2>2 DEF OwnedBy
    <2> QED  BY <2>1, <2>2
  <1>6. OwnedBy(own, D)'
    BY <1>1, <1>4, <1>5 DEF OwnedBy
  <1> QED  BY <1>1, <1>6 DEF DoneOnce

\* Feeding keeps the sender of a message.
LEMMA DoneFeed ==
    ASSUME PoolTypes, DoneOnce, NEW w \in Workers, Feed(w)
    PROVE  DoneOnce'
  <1>1. PICK own \in [1 .. Len(result_queue) -> Workers], D \in SUBSET Workers :
           OwnedBy(own, D)
    BY DEF DoneOnce
  <1>0. PICK n \in Nat : n = Len(result_queue)
    BY FeedFacts
  <1>2. /\ \A v \in Workers : v # w => sending'[v] = sending[v]
        /\ Len(sending[w]) \in Nat /\ Len(sending[w]) > 0
        /\ Len(sending'[w]) = Len(sending[w]) - 1
        /\ \A i \in 1 .. Len(sending'[w]) : sending'[w][i] = sending[w][i + 1]
        /\ Len(result_queue') = n + 1
        /\ \A i \in 1 .. n : result_queue'[i] = result_queue[i]
        /\ result_queue'[n + 1] = sending[w][1]
    BY <1>0, FeedFacts
  <1>3. UNCHANGED <<wpc, workers_done>>
    BY DEF Feed, parent
  <1>4. PICK new \in [1 .. n + 1 -> Workers] :
           new[n + 1] = w /\ \A i \in 1 .. n : new[i] = own[i]
    <2> DEFINE e == [i \in 1 .. n + 1 |-> IF i = n + 1 THEN w ELSE own[i]]
    <2>1. /\ e \in [1 .. n + 1 -> Workers]
          /\ e[n + 1] = w /\ \A i \in 1 .. n : e[i] = own[i]
      BY <1>0, <1>1
    <2> QED  BY <2>1
  <1>5. \A i \in 1 .. n + 1 : i \in 1 .. n \/ i = n + 1
    OBVIOUS
  <1>6. /\ workers_done' = Cardinality(D)
        /\ \A v \in D : wpc'[v] = "return"
    BY <1>1, <1>3 DEF OwnedBy
  <1>7. ASSUME NEW i \in 1 .. n + 1, result_queue'[i].kind = "worker_done"
        PROVE  /\ new[i] \notin D /\ wpc'[new[i]] = "return"
               /\ \A j \in 1 .. n + 1 : result_queue'[j].kind = "worker_done" /\ new[i] = new[j]
                                            => i = j
    <2>1. CASE i = n + 1
      <3>1. /\ w \notin D /\ wpc[w] = "return"
            /\ \A j \in 1 .. Len(result_queue) :
                  result_queue[j].kind = "worker_done" => own[j] # w
        <4>1. 1 \in 1 .. Len(sending[w]) /\ sending[w][1].kind = "worker_done"
          BY <1>2, <1>7, <2>1
        <4> QED  BY <1>1, <4>1 DEF OwnedBy
      <3>2. ASSUME NEW j \in 1 .. n, result_queue'[j].kind = "worker_done"
            PROVE  new[j] # w
        <4>1. result_queue[j].kind = "worker_done" /\ new[j] = own[j]
          BY <1>2, <1>4, <3>2
        <4> QED  BY <1>0, <3>1, <4>1
      <3> QED  BY <1>3, <1>4, <1>5, <2>1, <3>1, <3>2
    <2>2. CASE i # n + 1
      <3>1. i \in 1 .. n /\ result_queue[i].kind = "worker_done" /\ new[i] = own[i]
        BY <1>2, <1>4, <1>5, <1>7, <2>2
      <3>2. own[i] \notin D /\ wpc[own[i]] = "return"
        BY <1>0, <1>1, <3>1 DEF OwnedBy
      <3>3. ASSUME NEW j \in 1 .. n + 1, result_queue'[j].kind = "worker_done", new[i] = new[j]
            PROVE  i = j
        <4>1. CASE j = n + 1
          <5>1. 1 \in 1 .. Len(sending[w]) /\ sending[w][1].kind = "worker_done"
            BY <1>2, <3>3, <4>1
          <5>2. own[i] # w
            BY <1>0, <1>1, <3>1, <5>1 DEF OwnedBy
          <5> QED  BY <1>4, <3>1, <3>3, <4>1, <5>2
        <4>2. CASE j \in 1 .. n
          <5>1. result_queue[j].kind = "worker_done" /\ own[i] = own[j]
            BY <1>2, <1>4, <3>1, <3>3, <4>2
          <5> QED  BY <1>0, <1>1, <3>1, <4>2, <5>1 DEF OwnedBy
        <4> QED  BY <1>5, <4>1, <4>2
      <3> QED  BY <1>3, <3>1, <3>2, <3>3
    <2> QED  BY <2>1, <2>2
  <1>8. ASSUME NEW v \in Workers, NEW k \in 1 .. Len(sending'[v]),
               sending'[v][k].kind = "worker_done"
        PROVE  /\ v \notin D /\ wpc'[v] = "return"
               /\ \A i \in 1 .. n + 1 :
                     result_queue'[i].kind = "worker_done" => new[i] # v
               /\ \A j \in 1 .. Len(sending'[v]) :
                     sending'[v][j].kind = "worker_done" => j = k
    <2>1. CASE v = w
      <3>0. k \in 1 .. Len(sending[w]) - 1 /\ sending'[w][k].kind = "worker_done"
        BY <1>2, <1>8, <2>1
      <3>1. /\ k + 1 \in 1 .. Len(sending[w]) /\ sending[w][k + 1].kind = "worker_done"
            /\ 1 \in 1 .. Len(sending[w]) /\ k + 1 # 1
        BY <1>2, <3>0
      <3>2. sending[w][1].kind # "worker_done"
        BY <1>1, <3>1 DEF OwnedBy
      <3>3. ASSUME NEW j \in 1 .. Len(sending'[w]), sending'[w][j].kind = "worker_done"
            PROVE  j = k
        <4>1. j + 1 \in 1 .. Len(sending[w]) /\ sending[w][j + 1].kind = "worker_done"
          BY <1>2, <3>3
        <4>2. j + 1 = k + 1
          BY <1>1, <3>1, <4>1 DEF OwnedBy
        <4> QED  BY <1>2, <3>0, <4>2
      <3>4. /\ w \notin D /\ wpc[w] = "return"
            /\ \A i \in 1 .. Len(result_queue) :
                  result_queue[i].kind = "worker_done" => own[i] # w
        BY <1>1, <3>1 DEF OwnedBy
      <3>5. ASSUME NEW i \in 1 .. n + 1, result_queue'[i].kind = "worker_done"
            PROVE  new[i] # w
        <4>1. i \in 1 .. n
          BY <1>2, <1>5, <3>2, <3>5
        <4>2. result_queue[i].kind = "worker_done" /\ new[i] = own[i]
          BY <1>2, <1>4, <3>5, <4>1
        <4> QED  BY <1>0, <3>4, <4>1, <4>2
      <3> QED  BY <1>3, <2>1, <3>3, <3>4, <3>5
    <2>2. CASE v # w
      <3>1. sending'[v] = sending[v]
        BY <1>2, <2>2
      <3>2. k \in 1 .. Len(sending[v]) /\ sending[v][k].kind = "worker_done"
        BY <1>8, <3>1
      <3>3. /\ v \notin D /\ wpc[v] = "return"
            /\ \A i \in 1 .. Len(result_queue) :
                  result_queue[i].kind = "worker_done" => own[i] # v
            /\ \A j \in 1 .. Len(sending[v]) :
                  sending[v][j].kind = "worker_done" => j = k
        BY <1>1, <3>2 DEF OwnedBy
      <3>4. ASSUME NEW i \in 1 .. n + 1, result_queue'[i].kind = "worker_done"
            PROVE  new[i] # v
        <4>1. CASE i = n + 1
          BY <1>4, <2>2, <4>1
        <4>2. CASE i \in 1 .. n
          <5>1. result_queue[i].kind = "worker_done" /\ new[i] = own[i]
            BY <1>2, <1>4, <3>4, <4>2
          <5> QED  BY <1>0, <3>3, <4>2, <5>1
        <4> QED  BY <1>5, <4>1, <4>2
      <3>5. \A j \in 1 .. Len(sending'[v]) : sending'[v][j].kind = "worker_done" => j = k
        BY <3>1, <3>3
      <3> QED  BY <1>3, <3>3, <3>4, <3>5
    <2> QED  BY <2>1, <2>2
  <1>9. OwnedBy(new, D)'
    BY <1>2, <1>6, <1>7, <1>8 DEF OwnedBy
  <1> QED  BY <1>2, <1>4, <1>9 DEF DoneOnce

\* The parent counts a worker_done once.
LEMMA DoneReceive ==
    ASSUME PoolTypes, DoneOnce, Receive, UNCHANGED <<wpc, sending>>,
           workers_done' = workers_done +
               (IF Head(result_queue).kind = "worker_done" THEN 1 ELSE 0)
    PROVE  DoneOnce'
  <1>1. PICK own \in [1 .. Len(result_queue) -> Workers], D \in SUBSET Workers :
           OwnedBy(own, D)
    BY DEF DoneOnce
  <1>0. PICK n \in Nat : n = Len(result_queue)
    BY ReceiveFacts
  <1> DEFINE done == result_queue[1].kind = "worker_done"
  <1>2. /\ n > 0 /\ Len(result_queue') = n - 1
        /\ \A i \in 1 .. n - 1 : result_queue'[i] = result_queue[i + 1]
        /\ Head(result_queue) = result_queue[1]
    BY <1>0, ReceiveFacts
  <1>3. own[1] \in Workers /\ (done => own[1] \notin D)
    BY <1>0, <1>1, <1>2 DEF OwnedBy
  <1>4. PICK E \in SUBSET Workers : E = IF done THEN D \cup {own[1]} ELSE D
    BY <1>1, <1>3
  <1>5. workers_done' = Cardinality(E)
    <2>1. workers_done = Cardinality(D) /\ IsFiniteSet(D)
      BY <1>1, JobsType, FS_Subset DEF OwnedBy
    <2>2. Cardinality(D) \in Nat
      BY <2>1, FS_CardinalityType
    <2>3. done => Cardinality(D \cup {own[1]}) = Cardinality(D) + 1
      BY <1>3, <2>1, FS_AddElement
    <2> QED  BY <1>2, <1>4, <2>1, <2>2, <2>3
  <1>6. PICK new \in [1 .. n - 1 -> Workers] :
           \A i \in 1 .. n - 1 : /\ new[i] = own[i + 1] /\ i + 1 \in 1 .. n
                                 /\ 1 \in 1 .. n /\ i + 1 # 1
    <2> DEFINE e == [i \in 1 .. n - 1 |-> own[i + 1]]
    <2>1. /\ e \in [1 .. n - 1 -> Workers]
          /\ \A i \in 1 .. n - 1 : /\ e[i] = own[i + 1] /\ i + 1 \in 1 .. n
                                    /\ 1 \in 1 .. n /\ i + 1 # 1
      BY <1>0, <1>1, <1>2
    <2> QED  BY <2>1
  <1>7. \A v \in E : wpc'[v] = "return"
    BY <1>0, <1>1, <1>2, <1>4 DEF OwnedBy
  <1>8. ASSUME NEW i \in 1 .. n - 1, result_queue'[i].kind = "worker_done"
        PROVE  /\ new[i] \notin E /\ wpc'[new[i]] = "return"
               /\ \A j \in 1 .. n - 1 :
                     result_queue'[j].kind = "worker_done" /\ new[i] = new[j] => i = j
    <2>1. result_queue[i + 1].kind = "worker_done" /\ i + 1 \in 1 .. n
      BY <1>2, <1>6, <1>8
    <2>2. own[i + 1] \notin D /\ (done => own[i + 1] # own[1]) /\ wpc[own[i + 1]] = "return"
      BY <1>0, <1>1, <1>6, <2>1 DEF OwnedBy
    <2>3. ASSUME NEW j \in 1 .. n - 1, result_queue'[j].kind = "worker_done", new[i] = new[j]
          PROVE  i = j
      <3>1. i + 1 = j + 1
        BY <1>0, <1>1, <1>2, <1>6, <2>1, <2>3 DEF OwnedBy
      <3> QED  BY <1>2, <3>1
    <2> QED  BY <1>4, <1>6, <2>2, <2>3
  <1>9. ASSUME NEW v \in Workers, NEW k \in 1 .. Len(sending'[v]),
               sending'[v][k].kind = "worker_done"
        PROVE  /\ v \notin E /\ wpc'[v] = "return"
               /\ \A i \in 1 .. n - 1 :
                     result_queue'[i].kind = "worker_done" => new[i] # v
               /\ \A j \in 1 .. Len(sending'[v]) :
                     sending'[v][j].kind = "worker_done" => j = k
    <2>1. /\ v \notin D /\ wpc[v] = "return"
          /\ \A i \in 1 .. n : result_queue[i].kind = "worker_done" => own[i] # v
          /\ \A j \in 1 .. Len(sending[v]) : sending[v][j].kind = "worker_done" => j = k
      BY <1>0, <1>1, <1>9 DEF OwnedBy
    <2>2. done => own[1] # v
      <3>1. 1 \in 1 .. n
        BY <1>2
      <3> QED  BY <2>1, <3>1
    <2> QED  BY <1>2, <1>4, <1>6, <2>1, <2>2
  <1>10. OwnedBy(new, E)'
    BY <1>2, <1>5, <1>7, <1>8, <1>9 DEF OwnedBy
  <1> QED  BY <1>2, <1>4, <1>6, <1>10 DEF DoneOnce

\* The parent never counts more workers than there are, and when it has counted
\* them all, all of them have returned from their loop.
LEMMA DoneCount ==
    ASSUME PoolTypes, DoneOnce
    PROVE  /\ workers_done \in 0 .. jobs
           /\ workers_done = jobs => \A w \in Workers : wpc[w] = "return"
  <1>1. PICK own \in [1 .. Len(result_queue) -> Workers], D \in SUBSET Workers :
           OwnedBy(own, D)
    BY DEF DoneOnce
  <1>2. /\ IsFiniteSet(D) /\ Cardinality(D) <= Cardinality(Workers)
        /\ Cardinality(Workers) = Cardinality(D) => Workers = D
    BY JobsType, FS_Subset
  <1>3. Cardinality(D) \in Nat
    BY <1>2, FS_CardinalityType
  <1>4. workers_done = Cardinality(D) /\ \A w \in D : wpc[w] = "return"
    BY <1>1 DEF OwnedBy
  <1> QED  BY <1>2, <1>3, <1>4, JobsType DEF jobs
-------------------------------------------------------------------------------
(* The rows.                                                               *)

\* Steps that touch neither messages nor the rows that ended or are counted.
LEMMA RowsKept ==
    ASSUME RowsReportedOnce, UNCHANGED <<result_queue, ended, collected>>,
           \A w \in Workers : sending'[w] \in {sending[w], <<>>}
    PROVE  RowsReportedOnce'
  BY DEF RowsReportedOnce, Counts

\* A message that is not about a row.
LEMMA RowsPutOther ==
    ASSUME PoolTypes, RowsReportedOnce, NEW w \in Workers, NEW kind \in Kinds \ Counted,
           Put(w, kind), UNCHANGED <<result_queue, ended, collected>>
    PROVE  RowsReportedOnce'
  <1>1. /\ \A v \in Workers : v # w => sending'[v] = sending[v]
        /\ Len(sending[w]) \in Nat /\ Len(sending'[w]) = Len(sending[w]) + 1
        /\ \A i \in 1 .. Len(sending[w]) : sending'[w][i] = sending[w][i]
        /\ sending'[w][Len(sending[w]) + 1].kind = kind
    BY PutFacts
  <1>2. \A v \in Workers : \A i \in 1 .. Len(sending'[v]) :
           Counts(sending'[v], i) => /\ i \in 1 .. Len(sending[v])
                                     /\ Counts(sending[v], i)
                                     /\ sending'[v][i] = sending[v][i]
    BY <1>1 DEF Counts
  <1>3. ASSUME NEW v \in Workers, NEW i \in 1 .. Len(sending'[v]), Counts(sending'[v], i)
        PROVE  /\ sending'[v][i].run_id \in ended' \ collected'
               /\ \A j \in 1 .. Len(result_queue) :
                     Counts(result_queue, j) => result_queue[j].run_id # sending'[v][i].run_id
    BY <1>2, <1>3 DEF RowsReportedOnce
  <1>4. ASSUME NEW u \in Workers, NEW v \in Workers,
               NEW i \in 1 .. Len(sending'[u]), NEW j \in 1 .. Len(sending'[v]),
               Counts(sending'[u], i), Counts(sending'[v], j),
               sending'[u][i].run_id = sending'[v][j].run_id
        PROVE  u = v /\ i = j
    <2>1. i \in 1 .. Len(sending[u]) /\ Counts(sending[u], i) /\ sending'[u][i] = sending[u][i]
      BY <1>2, <1>4
    <2>2. j \in 1 .. Len(sending[v]) /\ Counts(sending[v], j) /\ sending'[v][j] = sending[v][j]
      BY <1>2, <1>4
    <2> QED  BY <1>4, <2>1, <2>2 DEF RowsReportedOnce
  <1> QED  BY <1>3, <1>4 DEF RowsReportedOnce

\* The message about a row that has just ended is the first one about it.
LEMMA RowsPutEnded ==
    ASSUME PoolTypes, RowsTakenOnce, RowsReportedOnce, CompletedIsExact,
           NEW w \in Workers, Busy(w), NEW kind \in Counted, Put(w, kind),
           ended' = ended \cup {task[w]}, UNCHANGED <<result_queue, collected>>
    PROVE  RowsReportedOnce'
  <1>1. /\ \A v \in Workers : v # w => sending'[v] = sending[v]
        /\ Len(sending[w]) \in Nat /\ Len(sending'[w]) = Len(sending[w]) + 1
        /\ \A i \in 1 .. Len(sending[w]) : sending'[w][i] = sending[w][i]
        /\ sending'[w][Len(sending[w]) + 1].run_id = task[w]
    BY PutFacts DEF Counted, Kinds
  <1>2. task[w] \notin ended /\ task[w] \notin collected
    BY DEF RowsTakenOnce, CompletedIsExact
  <1>3. ASSUME NEW v \in Workers, NEW i \in 1 .. Len(sending'[v]), Counts(sending'[v], i)
        PROVE  \/ /\ i \in 1 .. Len(sending[v]) /\ Counts(sending[v], i)
                  /\ sending'[v][i] = sending[v][i]
                  /\ sending[v][i].run_id # task[w]
               \/ v = w /\ i = Len(sending[w]) + 1 /\ sending'[v][i].run_id = task[w]
    <2>1. CASE v = w /\ i = Len(sending[w]) + 1
      BY <1>1, <2>1
    <2>2. CASE ~(v = w /\ i = Len(sending[w]) + 1)
      <3>1. i \in 1 .. Len(sending[v]) /\ sending'[v][i] = sending[v][i]
        BY <1>1, <2>2
      <3>2. Counts(sending[v], i)
        BY <1>3, <3>1 DEF Counts
      <3> QED  BY <1>2, <3>1, <3>2 DEF RowsReportedOnce
    <2> QED  BY <2>1, <2>2
  <1>4. \A i \in 1 .. Len(result_queue) :
           Counts(result_queue, i) => result_queue[i].run_id # task[w]
    BY <1>2 DEF RowsReportedOnce
  <1>5. ASSUME NEW v \in Workers, NEW i \in 1 .. Len(sending'[v]), Counts(sending'[v], i)
        PROVE  /\ sending'[v][i].run_id \in ended' \ collected'
               /\ \A j \in 1 .. Len(result_queue) :
                     Counts(result_queue, j) => result_queue[j].run_id # sending'[v][i].run_id
    BY <1>2, <1>3, <1>4, <1>5 DEF RowsReportedOnce
  <1>6. ASSUME NEW u \in Workers, NEW v \in Workers,
               NEW i \in 1 .. Len(sending'[u]), NEW j \in 1 .. Len(sending'[v]),
               Counts(sending'[u], i), Counts(sending'[v], j),
               sending'[u][i].run_id = sending'[v][j].run_id
        PROVE  u = v /\ i = j
    <2>1. \/ /\ i \in 1 .. Len(sending[u]) /\ Counts(sending[u], i)
             /\ sending'[u][i] = sending[u][i] /\ sending[u][i].run_id # task[w]
          \/ u = w /\ i = Len(sending[w]) + 1 /\ sending'[u][i].run_id = task[w]
      BY <1>3, <1>6
    <2>2. \/ /\ j \in 1 .. Len(sending[v]) /\ Counts(sending[v], j)
             /\ sending'[v][j] = sending[v][j] /\ sending[v][j].run_id # task[w]
          \/ v = w /\ j = Len(sending[w]) + 1 /\ sending'[v][j].run_id = task[w]
      BY <1>3, <1>6
    <2>3. CASE sending'[u][i].run_id = task[w]
      BY <1>6, <2>1, <2>2, <2>3
    <2>4. CASE sending'[u][i].run_id # task[w]
      <3>1. /\ i \in 1 .. Len(sending[u]) /\ Counts(sending[u], i)
            /\ j \in 1 .. Len(sending[v]) /\ Counts(sending[v], j)
            /\ sending[u][i].run_id = sending[v][j].run_id
        BY <1>6, <2>1, <2>2, <2>4
      <3> QED  BY <3>1 DEF RowsReportedOnce
    <2> QED  BY <2>3, <2>4
  <1> QED  BY <1>5, <1>6 DEF RowsReportedOnce

\* Feeding moves a message and makes no copy.
LEMMA RowsFeed ==
    ASSUME PoolTypes, RowsReportedOnce, NEW w \in Workers, Feed(w)
    PROVE  RowsReportedOnce'
  <1>0. PICK n \in Nat : n = Len(result_queue)
    BY FeedFacts
  <1>1. /\ \A v \in Workers : v # w => sending'[v] = sending[v]
        /\ Len(sending[w]) \in Nat /\ Len(sending[w]) > 0
        /\ Len(sending'[w]) = Len(sending[w]) - 1
        /\ \A i \in 1 .. Len(sending'[w]) : sending'[w][i] = sending[w][i + 1]
        /\ Len(result_queue') = n + 1
        /\ \A i \in 1 .. n : result_queue'[i] = result_queue[i]
        /\ result_queue'[n + 1] = sending[w][1]
    BY <1>0, FeedFacts
  <1>2. UNCHANGED <<ended, collected>>
    BY DEF Feed, parent
  \* Where the messages of the new queues were before.
  <1>3. ASSUME NEW i \in 1 .. n + 1, Counts(result_queue', i)
        PROVE  \/ /\ i \in 1 .. n /\ Counts(result_queue, i)
                  /\ result_queue'[i] = result_queue[i]
               \/ /\ i = n + 1 /\ 1 \in 1 .. Len(sending[w]) /\ Counts(sending[w], 1)
                  /\ result_queue'[i] = sending[w][1]
    BY <1>0, <1>1, <1>3 DEF Counts
  <1>4. ASSUME NEW v \in Workers, NEW i \in 1 .. Len(sending'[v]), Counts(sending'[v], i)
        PROVE  \E k \in 1 .. Len(sending[v]) :
                   /\ Counts(sending[v], k) /\ sending'[v][i] = sending[v][k]
                   /\ k = IF v = w THEN i + 1 ELSE i
    <2>1. CASE v = w
      <3>1. i + 1 \in 1 .. Len(sending[w]) /\ sending'[w][i] = sending[w][i + 1]
        BY <1>1, <2>1
      <3> QED  BY <1>4, <2>1, <3>1 DEF Counts
    <2>2. CASE v # w
      BY <1>1, <1>4, <2>2
    <2> QED  BY <2>1, <2>2
  <1>5. ASSUME NEW i \in 1 .. n + 1, Counts(result_queue', i)
        PROVE  /\ result_queue'[i].run_id \in ended' \ collected'
               /\ \A j \in 1 .. n + 1 :
                     /\ Counts(result_queue', j)
                     /\ result_queue'[i].run_id = result_queue'[j].run_id
                     => i = j
    BY <1>0, <1>2, <1>3, <1>5 DEF RowsReportedOnce
  <1>6. ASSUME NEW v \in Workers, NEW i \in 1 .. Len(sending'[v]), Counts(sending'[v], i)
        PROVE  /\ sending'[v][i].run_id \in ended' \ collected'
               /\ \A j \in 1 .. n + 1 :
                     Counts(result_queue', j) => result_queue'[j].run_id # sending'[v][i].run_id
    <2>1. PICK k \in 1 .. Len(sending[v]) :
             /\ Counts(sending[v], k) /\ sending'[v][i] = sending[v][k]
             /\ k = IF v = w THEN i + 1 ELSE i
      BY <1>4, <1>6
    <2>2. v = w => k # 1
      BY <2>1
    <2> QED  BY <1>0, <1>2, <1>3, <2>1, <2>2 DEF RowsReportedOnce
  <1>7. ASSUME NEW u \in Workers, NEW v \in Workers,
               NEW i \in 1 .. Len(sending'[u]), NEW j \in 1 .. Len(sending'[v]),
               Counts(sending'[u], i), Counts(sending'[v], j),
               sending'[u][i].run_id = sending'[v][j].run_id
        PROVE  u = v /\ i = j
    <2>1. PICK k \in 1 .. Len(sending[u]) :
             /\ Counts(sending[u], k) /\ sending'[u][i] = sending[u][k]
             /\ k = IF u = w THEN i + 1 ELSE i
      BY <1>4, <1>7
    <2>2. PICK l \in 1 .. Len(sending[v]) :
             /\ Counts(sending[v], l) /\ sending'[v][j] = sending[v][l]
             /\ l = IF v = w THEN j + 1 ELSE j
      BY <1>4, <1>7
    <2>3. u = v /\ k = l
      BY <1>7, <2>1, <2>2 DEF RowsReportedOnce
    <2> QED  BY <2>1, <2>2, <2>3
  <1> QED  BY <1>1, <1>5, <1>6, <1>7 DEF RowsReportedOnce

\* The parent takes a message, and counts its row if it is about one.
LEMMA RowsReceive ==
    ASSUME PoolTypes, RowsReportedOnce, Receive, UNCHANGED <<sending, ended>>,
           collected' \in {collected, collected \cup {result_queue[1].run_id}},
           collected' # collected => Counts(result_queue, 1)
    PROVE  RowsReportedOnce'
  <1>0. PICK n \in Nat : n = Len(result_queue)
    BY ReceiveFacts
  <1>1. /\ n > 0 /\ Len(result_queue') = n - 1
        /\ \A i \in 1 .. n - 1 : result_queue'[i] = result_queue[i + 1]
    BY <1>0, ReceiveFacts
  <1>2. ASSUME NEW i \in 1 .. n - 1, Counts(result_queue', i)
        PROVE  /\ i + 1 \in 1 .. n /\ Counts(result_queue, i + 1) /\ i + 1 # 1
               /\ 1 \in 1 .. n /\ result_queue'[i] = result_queue[i + 1]
    BY <1>0, <1>1, <1>2 DEF Counts
  <1>3. ASSUME NEW i \in 1 .. n - 1, Counts(result_queue', i)
        PROVE  /\ result_queue'[i].run_id \in ended' \ collected'
               /\ \A j \in 1 .. n - 1 :
                     /\ Counts(result_queue', j)
                     /\ result_queue'[i].run_id = result_queue'[j].run_id
                     => i = j
    <2>1. result_queue'[i].run_id \in ended' \ collected'
      BY <1>0, <1>2, <1>3 DEF RowsReportedOnce
    <2>2. ASSUME NEW j \in 1 .. n - 1, Counts(result_queue', j),
                 result_queue'[i].run_id = result_queue'[j].run_id
          PROVE  i = j
      <3>1. i + 1 = j + 1
        BY <1>0, <1>2, <1>3, <2>2 DEF RowsReportedOnce
      <3> QED  BY <3>1
    <2> QED  BY <2>1, <2>2
  <1>4. ASSUME NEW v \in Workers, NEW i \in 1 .. Len(sending[v]), Counts(sending[v], i)
        PROVE  /\ sending[v][i].run_id \in ended' \ collected'
               /\ \A j \in 1 .. n - 1 :
                     Counts(result_queue', j) => result_queue'[j].run_id # sending[v][i].run_id
    <2>1. 1 \in 1 .. n
      BY <1>1
    <2> QED  BY <1>0, <1>2, <1>4, <2>1 DEF RowsReportedOnce
  <1> QED  BY <1>1, <1>3, <1>4 DEF RowsReportedOnce

-------------------------------------------------------------------------------
(* The initial states, and the steps of a worker.                          *)

LEMMA PoolInit == Init => PoolInv
  <1> SUFFICES ASSUME Init PROVE PoolInv
    OBVIOUS
  <1>0. jobs \in Nat /\ NTasks \in Nat
    BY JobsType, PoolAssumption
  <1>1. PoolTypes
    <2>1. sim \in [Workers -> BOOLEAN]
      BY Zenon DEF Init
    <2>2. taken \in 0 .. NTasks + jobs
      <3>1. taken = 0
        BY DEF Init
      <3> QED  BY <1>0, <3>1
    <2>3. <<>> \in Seq(Messages)
      OBVIOUS
    <2>4. /\ wpc \in [Workers -> {"get", "start", "run", "return", "raise"}]
          /\ task \in [Workers -> Tasks \cup {NoTask}]
          /\ exitcode \in [Workers -> {"none", "zero", "bad"}]
          /\ sending \in [Workers -> Seq(Messages)]
      BY <2>3 DEF Init
    <2> QED  BY <2>1, <2>2, <2>3, <2>4 DEF PoolTypes, Init
  <1>2. RowsTakenOnce
    BY DEF RowsTakenOnce, Busy, Init
  <1>9. Len(result_queue) = 0 /\ \A w \in Workers : Len(sending[w]) = 0
    BY DEF Init
  <1>3. RowsReportedOnce
    <2>1. \A w \in Workers : \A i \in 1 .. Len(sending[w]) : FALSE
      BY <1>9
    <2>2. \A i \in 1 .. Len(result_queue) : FALSE
      BY <1>9
    <2> QED  BY <2>1, <2>2 DEF RowsReportedOnce
  <1>4. CompletedIsExact
    BY FS_EmptySet DEF CompletedIsExact, Init
  <1>5. DoneOnce
    <2>0. /\ \A w \in Workers : \A i \in 1 .. Len(sending[w]) : FALSE
          /\ \A i \in 1 .. Len(result_queue) : FALSE
      BY <1>9
    <2>1. PICK own \in [1 .. Len(result_queue) -> Workers] : TRUE
      <3>1. PICK w \in Workers : TRUE
        BY PoolAssumption
      <3>2. [i \in 1 .. Len(result_queue) |-> w] \in [1 .. Len(result_queue) -> Workers]
        OBVIOUS
      <3> QED  BY <3>2
    <2>2. OwnedBy(own, {})
      BY <2>0, FS_EmptySet DEF OwnedBy, Init
    <2> QED  BY <2>1, <2>2 DEF DoneOnce
  <1>6. SimulatorInv /\ AllRowsFlown
    BY DEF SimulatorInv, AllRowsFlown, is_alive, Init
  <1> QED  BY <1>1, <1>2, <1>3, <1>4, <1>5, <1>6 DEF PoolInv

\* A worker takes a row nobody has, or a None.
LEMMA PoolGet ==
    ASSUME PoolInv, NEW w \in Workers, Get(w)
    PROVE  PoolInv'
  <1>0. jobs \in Nat /\ NTasks \in Nat
    BY JobsType, PoolAssumption
  <1>1. /\ PoolTypes /\ RowsTakenOnce /\ RowsReportedOnce /\ CompletedIsExact /\ DoneOnce
        /\ SimulatorInv /\ AllRowsFlown
    BY DEF PoolInv
  <1>5. taken \in 0 .. NTasks + jobs
    BY <1>1 DEF PoolTypes
  <1>2. /\ is_alive(w) /\ wpc[w] = "get" /\ taken' = taken + 1 /\ taken' \in 1 .. NTasks + jobs
        /\ UNCHANGED <<exitcode, sim, ended, killed, result_queue>>
        /\ UNCHANGED <<ppc, how, completed, workers_done, collected>>
    BY <1>0, <1>5 DEF Get, parent
  <1>3. CASE taken' <= NTasks
    <2>1. /\ wpc' = [wpc EXCEPT ![w] = "start"] /\ task' = [task EXCEPT ![w] = taken']
          /\ sending' = sending
      BY <1>3 DEF Get
    <2>2. PoolTypes'
      <3>1. taken' \in Tasks /\ taken' \in 0 .. NTasks + jobs
        BY <1>0, <1>2, <1>3 DEF Tasks
      <3> QED  BY <1>1, <1>2, <2>1, <3>1 DEF PoolTypes
    <2>3. RowsTakenOnce'
      <3>0. taken' \notin 1 .. taken /\ taken' \in 1 .. taken' /\ 1 .. taken \subseteq 1 .. taken'
        BY <1>0, <1>2, <1>5
      <3>1. taken' \notin ended /\ ended \subseteq Tasks \cap (1 .. taken')
        BY <1>1, <3>0 DEF RowsTakenOnce
      <3>2. ASSUME NEW v \in Workers, Busy(v)'
            PROVE  task'[v] \in 1 .. taken' \ ended' /\ (v # w => task'[v] # taken')
        <4>1. CASE v = w
          BY <1>1, <1>2, <2>1, <3>0, <3>1, <4>1 DEF PoolTypes
        <4>2. CASE v # w
          <5>1. Busy(v) /\ task'[v] = task[v]
            BY <1>1, <2>1, <3>2, <4>2 DEF PoolTypes, Busy
          <5>2. task[v] \in 1 .. taken \ ended
            BY <1>1, <5>1 DEF RowsTakenOnce
          <5> QED  BY <1>2, <3>0, <5>1, <5>2
        <4> QED  BY <4>1, <4>2
      <3>3. ASSUME NEW u \in Workers, NEW v \in Workers, Busy(u)', Busy(v)', task'[u] = task'[v]
            PROVE  u = v
        <4>1. task'[w] = taken'
          BY <1>1, <2>1 DEF PoolTypes
        <4>2. CASE u = w \/ v = w
          BY <3>2, <3>3, <4>1, <4>2
        <4>3. CASE u # w /\ v # w
          <5>1. Busy(u) /\ task'[u] = task[u] /\ Busy(v) /\ task'[v] = task[v]
            BY <1>1, <2>1, <3>3, <4>3 DEF PoolTypes, Busy
          <5> QED  BY <1>1, <3>3, <5>1 DEF RowsTakenOnce
        <4> QED  BY <4>2, <4>3
      <3> QED  BY <1>2, <3>1, <3>2, <3>3 DEF RowsTakenOnce
    <2>4. RowsReportedOnce' /\ CompletedIsExact' /\ DoneOnce'
      <3>1. \A v \in Workers : wpc[v] = "return" => wpc'[v] = "return"
        BY <1>1, <1>2, <2>1 DEF PoolTypes
      <3> QED  BY <1>1, <1>2, <2>1, <3>1, RowsKept, DoneKept DEF CompletedIsExact
    <2>5. SimulatorInv' /\ AllRowsFlown'
      BY <1>1, <1>2, <2>1 DEF SimulatorInv, AllRowsFlown, is_alive, PoolTypes
    <2> QED  BY <2>2, <2>3, <2>4, <2>5 DEF PoolInv
  <1>4. CASE ~(taken' <= NTasks)
    <2>1. wpc' = [wpc EXCEPT ![w] = "return"] /\ Put(w, "worker_done") /\ task' = task
      BY <1>4 DEF Get
    <2>2. PoolTypes'
      <3>1. sending' \in [Workers -> Seq(Messages)]
        BY <1>1, <2>1, PutFacts DEF Kinds
      <3>2. taken' \in 0 .. NTasks + jobs
        BY <1>0, <1>2
      <3> QED  BY <1>1, <1>2, <2>1, <3>1, <3>2 DEF PoolTypes
    <2>3. RowsTakenOnce'
      <3>1. \A v \in Workers : Busy(v)' => Busy(v) /\ task'[v] = task[v]
        BY <1>1, <2>1 DEF PoolTypes, Busy
      <3>2. 1 .. taken \subseteq 1 .. taken'
        BY <1>0, <1>2, <1>5
      <3> QED  BY <1>1, <1>2, <3>1, <3>2 DEF RowsTakenOnce
    <2>4. RowsReportedOnce' /\ CompletedIsExact'
      BY <1>1, <1>2, <2>1, RowsPutOther DEF CompletedIsExact, Kinds, Counted
    <2>5. DoneOnce'
      <3>1. /\ wpc'[w] = "return" /\ wpc[w] # "return"
            /\ \A v \in Workers : v # w => wpc'[v] = wpc[v]
        BY <1>1, <1>2, <2>1 DEF PoolTypes
      <3> QED  BY <1>1, <1>2, <2>1, <3>1, DonePut DEF Kinds
    <2>6. SimulatorInv' /\ AllRowsFlown'
      BY <1>1, <1>2, <2>1 DEF SimulatorInv, AllRowsFlown, is_alive, PoolTypes
    <2> QED  BY <2>2, <2>3, <2>4, <2>5, <2>6 DEF PoolInv
  <1> QED  BY <1>3, <1>4

\* The simulator is started.
LEMMA PoolStart ==
    ASSUME PoolInv, NEW w \in Workers, start_sim(w)
    PROVE  PoolInv'
  <1>1. /\ PoolTypes /\ RowsTakenOnce /\ RowsReportedOnce /\ CompletedIsExact /\ DoneOnce
        /\ SimulatorInv /\ AllRowsFlown
    BY DEF PoolInv
  <1>2. /\ is_alive(w) /\ wpc[w] = "start"
        /\ sim' = [sim EXCEPT ![w] = TRUE] /\ wpc' = [wpc EXCEPT ![w] = "run"]
        /\ UNCHANGED <<taken, task, exitcode, sending, ended, killed, result_queue>>
        /\ UNCHANGED <<ppc, how, completed, workers_done, collected>>
    BY DEF start_sim, parent
  <1>3. PoolTypes'
    <2>1. sim' \in [Workers -> BOOLEAN]
      BY <1>1, <1>2, Zenon DEF PoolTypes
    <2> QED  BY <1>1, <1>2, <2>1 DEF PoolTypes
  <1>4. RowsTakenOnce'
    <2>1. \A v \in Workers : Busy(v)' => Busy(v)
      BY <1>1, <1>2 DEF PoolTypes, Busy
    <2> QED  BY <1>1, <1>2, <2>1 DEF RowsTakenOnce
  <1>5. RowsReportedOnce' /\ CompletedIsExact' /\ DoneOnce'
    <2>1. \A v \in Workers : wpc[v] = "return" => wpc'[v] = "return"
      BY <1>1, <1>2 DEF PoolTypes
    <2> QED  BY <1>1, <1>2, <2>1, RowsKept, DoneKept DEF CompletedIsExact
  <1>6. SimulatorInv' /\ AllRowsFlown'
    BY <1>1, <1>2 DEF SimulatorInv, AllRowsFlown, is_alive, PoolTypes
  <1> QED  BY <1>3, <1>4, <1>5, <1>6 DEF PoolInv

\* A flight ends, or is interrupted: no simulator is left.
LEMMA PoolEndRun ==
    ASSUME PoolInv, NEW w \in Workers,
           NEW kind \in {"done", "worker_error", "interrupted"}, EndRun(w, kind)
    PROVE  PoolInv'
  <1>1. /\ PoolTypes /\ RowsTakenOnce /\ RowsReportedOnce /\ CompletedIsExact /\ DoneOnce
        /\ SimulatorInv /\ AllRowsFlown
    BY DEF PoolInv
  <1>2. /\ is_alive(w) /\ Busy(w) /\ Put(w, kind) /\ kind \in Kinds
        /\ sim' = [sim EXCEPT ![w] = FALSE]
        /\ task' = [task EXCEPT ![w] = NoTask]
        /\ wpc' = [wpc EXCEPT ![w] = IF kind = "interrupted" THEN "return" ELSE "get"]
        /\ ended' = IF kind = "interrupted" THEN ended ELSE ended \cup {task[w]}
        /\ UNCHANGED <<taken, exitcode, killed, result_queue>>
        /\ UNCHANGED <<ppc, how, completed, workers_done, collected>>
    BY DEF EndRun, stop_sim, parent, Busy, Kinds
  <1>3. /\ task[w] \in Tasks /\ task[w] \in 1 .. taken
    <2>1. task[w] \in 1 .. taken /\ task[w] \in Tasks \cup {NoTask}
      BY <1>1, <1>2 DEF RowsTakenOnce, PoolTypes
    <2> QED  BY <2>1 DEF NoTask
  <1>4. PoolTypes'
    <2>1. sending' \in [Workers -> Seq(Messages)]
      BY <1>1, <1>2, PutFacts
    <2>2. sim' \in [Workers -> BOOLEAN]
      BY <1>1, <1>2, Zenon DEF PoolTypes
    <2> QED  BY <1>1, <1>2, <2>1, <2>2 DEF PoolTypes
  <1>5. RowsTakenOnce'
    <2>1. \A v \in Workers : Busy(v)' => v # w /\ Busy(v) /\ task'[v] = task[v]
      BY <1>1, <1>2 DEF PoolTypes, Busy
    <2>2. \A v \in Workers : Busy(v)' => task'[v] # task[w] /\ task'[v] \in 1 .. taken \ ended
      BY <1>1, <1>2, <2>1 DEF RowsTakenOnce
    <2>3. ended' \subseteq ended \cup {task[w]}
      BY <1>2
    <2> QED  BY <1>1, <1>2, <1>3, <2>1, <2>2, <2>3 DEF RowsTakenOnce
  <1>6. RowsReportedOnce'
    <2>1. CASE kind = "interrupted"
      <3>1. kind \in Kinds \ Counted /\ ended' = ended
        BY <1>2, <2>1 DEF Counted
      <3> QED  BY <1>1, <1>2, <3>1, RowsPutOther
    <2>2. CASE kind # "interrupted"
      <3>1. kind \in Counted /\ ended' = ended \cup {task[w]}
        BY <1>2, <2>2 DEF Counted
      <3> QED  BY <1>1, <1>2, <3>1, RowsPutEnded
    <2> QED  BY <2>1, <2>2
  <1>7. CompletedIsExact'
    BY <1>1, <1>2 DEF CompletedIsExact
  <1>8. DoneOnce'
    <2>1. /\ wpc[w] # "return" /\ kind # "worker_done"
          /\ \A v \in Workers : v # w => wpc'[v] = wpc[v]
      BY <1>1, <1>2 DEF PoolTypes, Busy
    <2> QED  BY <1>1, <1>2, <2>1, DonePut
  <1>9. SimulatorInv'
    BY <1>1, <1>2 DEF SimulatorInv, is_alive, PoolTypes, Busy
  <1>10. AllRowsFlown'
    BY <1>1, <1>2, <1>3 DEF AllRowsFlown
  <1> QED  BY <1>4, <1>5, <1>6, <1>7, <1>8, <1>9, <1>10 DEF PoolInv

\* An interrupt in task_queue.get.
LEMMA PoolRaise ==
    ASSUME PoolInv, NEW w \in Workers, is_alive(w), wpc[w] = "get",
           wpc' = [wpc EXCEPT ![w] = "raise"],
           UNCHANGED <<taken, task, exitcode, sim, sending, ended, killed, result_queue,
                       parent>>
    PROVE  PoolInv'
  <1>1. /\ PoolTypes /\ RowsTakenOnce /\ RowsReportedOnce /\ CompletedIsExact /\ DoneOnce
        /\ SimulatorInv /\ AllRowsFlown
    BY DEF PoolInv
  <1>2. UNCHANGED <<ppc, how, completed, workers_done, collected>>
    BY DEF parent
  <1>3. PoolTypes'
    BY <1>1, <1>2 DEF PoolTypes
  <1>4. RowsTakenOnce'
    <2>1. \A v \in Workers : Busy(v)' => Busy(v)
      BY <1>1 DEF PoolTypes, Busy
    <2> QED  BY <1>1, <2>1 DEF RowsTakenOnce
  <1>5. RowsReportedOnce' /\ CompletedIsExact' /\ DoneOnce'
    <2>1. \A v \in Workers : wpc[v] = "return" => wpc'[v] = "return"
      BY <1>1 DEF PoolTypes
    <2> QED  BY <1>1, <1>2, <2>1, RowsKept, DoneKept DEF CompletedIsExact
  <1>6. SimulatorInv' /\ AllRowsFlown'
    BY <1>1, <1>2 DEF SimulatorInv, AllRowsFlown, is_alive, PoolTypes
  <1> QED  BY <1>3, <1>4, <1>5, <1>6 DEF PoolInv

\* The feeder thread sends a message.
LEMMA PoolFeed ==
    ASSUME PoolInv, NEW w \in Workers, Feed(w)
    PROVE  PoolInv'
  <1>1. /\ PoolTypes /\ RowsTakenOnce /\ RowsReportedOnce /\ CompletedIsExact /\ DoneOnce
        /\ SimulatorInv /\ AllRowsFlown
    BY DEF PoolInv
  <1>2. /\ UNCHANGED <<taken, wpc, task, exitcode, sim, ended, killed>>
        /\ UNCHANGED <<ppc, how, completed, workers_done, collected>>
    BY DEF Feed, parent
  <1>3. PoolTypes'
    <2>1. sending' \in [Workers -> Seq(Messages)] /\ result_queue' \in Seq(Messages)
      BY <1>1, FeedFacts
    <2> QED  BY <1>1, <1>2, <2>1 DEF PoolTypes
  <1>4. RowsReportedOnce' /\ DoneOnce'
    BY <1>1, RowsFeed, DoneFeed
  <1>5. RowsTakenOnce' /\ CompletedIsExact' /\ SimulatorInv' /\ AllRowsFlown'
    BY <1>1, <1>2
       DEF RowsTakenOnce, Busy, CompletedIsExact, SimulatorInv, is_alive, AllRowsFlown
  <1> QED  BY <1>3, <1>4, <1>5 DEF PoolInv

\* A worker ends by itself, is killed, or is terminated by the parent.
LEMMA PoolWorkerEnds ==
    ASSUME PoolInv, NEW w \in Workers, Exit(w) \/ Kill(w) \/ Terminate(w)
    PROVE  PoolInv'
  <1>1. /\ PoolTypes /\ RowsTakenOnce /\ RowsReportedOnce /\ CompletedIsExact /\ DoneOnce
        /\ SimulatorInv /\ AllRowsFlown
    BY DEF PoolInv
  <1>2. /\ UNCHANGED <<taken, wpc, task, sim, ended, result_queue>>
        /\ UNCHANGED <<ppc, how, completed, workers_done, collected>>
    BY DEF Exit, Kill, Terminate, Die, parent
  <1>3. PICK code \in {"zero", "bad"} : exitcode' = [exitcode EXCEPT ![w] = code]
    BY DEF Exit, Kill, Terminate, Die
  <1>4. sending' = sending \/ sending' = [sending EXCEPT ![w] = <<>>]
    BY DEF Exit, Kill, Terminate, Die
  <1>5. killed' \in {killed, killed \cup {w}}
    BY DEF Exit, Kill, Terminate
  <1>6. PoolTypes'
    <2>1. <<>> \in Seq(Messages)
      OBVIOUS
    <2>2. sending' \in [Workers -> Seq(Messages)]
      BY <1>1, <1>4, <2>1 DEF PoolTypes
    <2>3. killed' \subseteq Workers
      BY <1>1, <1>5 DEF PoolTypes
    <2> QED  BY <1>1, <1>2, <1>3, <2>2, <2>3 DEF PoolTypes
  <1>7. \A v \in Workers : sending'[v] \in {sending[v], <<>>}
    BY <1>1, <1>4 DEF PoolTypes
  <1>8. RowsReportedOnce' /\ DoneOnce'
    BY <1>1, <1>2, <1>7, RowsKept, DoneKept
  <1>9. RowsTakenOnce' /\ CompletedIsExact' /\ AllRowsFlown'
    BY <1>1, <1>2 DEF RowsTakenOnce, Busy, CompletedIsExact, AllRowsFlown
  <1>10. SimulatorInv'
    <2>1. \A v \in Workers : is_alive(v)' => is_alive(v)
      BY <1>1, <1>3 DEF PoolTypes, is_alive
    <2>2. \A v \in Workers : v # w => (is_alive(v) <=> is_alive(v)')
      BY <1>1, <1>3 DEF PoolTypes, is_alive
    <2>3. ppc \in {"collect", "drain"} => wpc[w] \in {"return", "raise"} \/ w \in killed'
      BY DEF Exit, Kill, Terminate
    <2>4. killed \subseteq killed'
      BY <1>5
    <2> QED  BY <1>1, <1>2, <2>1, <2>2, <2>3, <2>4 DEF SimulatorInv
  <1> QED  BY <1>6, <1>8, <1>9, <1>10 DEF PoolInv

-------------------------------------------------------------------------------
(* The steps of the parent.                                                *)

\* The first loop counts the row of a message, which it has not counted before.
LEMMA PoolCollect ==
    ASSUME PoolInv, Collect
    PROVE  PoolInv'
  <1>1. /\ PoolTypes /\ RowsTakenOnce /\ RowsReportedOnce /\ CompletedIsExact /\ DoneOnce
        /\ SimulatorInv /\ AllRowsFlown
    BY DEF PoolInv
  <1> DEFINE m == result_queue[1]
  <1>2. Receive /\ UNCHANGED <<taken, wpc, task, exitcode, sim, sending, ended, killed>>
    BY DEF Collect, worker
  <1>3. /\ result_queue' \in Seq(Messages) /\ Head(result_queue) = m
        /\ Len(result_queue) \in Nat /\ Len(result_queue) > 0
    BY <1>1, <1>2, ReceiveFacts
  <1>4. /\ ppc = "collect"
        /\ completed' = completed + (IF m.kind \in Counted THEN 1 ELSE 0)
        /\ collected' = collected \cup (IF m.kind \in Counted THEN {m.run_id} ELSE {})
        /\ workers_done' = workers_done + (IF m.kind = "worker_done" THEN 1 ELSE 0)
        /\ ppc' = IF m.kind = "interrupted" THEN "drain" ELSE ppc
        /\ how' = IF m.kind = "interrupted" THEN "worker interrupted" ELSE how
    BY <1>3 DEF Collect
  <1> HIDE DEF m
  <1>5. m.kind \in Counted => Counts(result_queue, 1) /\ m.run_id \in ended \ collected
    <2>1. 1 \in 1 .. Len(result_queue)
      BY <1>3
    <2> QED  BY <1>1, <2>1 DEF RowsReportedOnce, Counts, m
  <1>6. PoolTypes'
    BY <1>1, <1>2, <1>3, <1>4 DEF PoolTypes
  <1>7. RowsTakenOnce' /\ SimulatorInv' /\ AllRowsFlown'
    BY <1>1, <1>2, <1>4 DEF RowsTakenOnce, Busy, SimulatorInv, is_alive, AllRowsFlown
  <1>8. RowsReportedOnce'
    <2>1. /\ collected' \in {collected, collected \cup {m.run_id}}
          /\ collected' # collected => Counts(result_queue, 1)
      BY <1>4, <1>5
    <2> QED  BY <1>1, <1>2, <2>1, RowsReceive DEF m
  <1>9. CompletedIsExact'
    <2>1. IsFiniteSet(Tasks)
      BY PoolAssumption, FS_Interval DEF Tasks
    <2>2. collected \subseteq Tasks
      BY <1>1 DEF CompletedIsExact, RowsTakenOnce
    <2>3. IsFiniteSet(collected)
      BY <2>1, <2>2, FS_Subset
    <2>4. Cardinality(collected) \in Nat
      BY <2>3, FS_CardinalityType
    <2>5. CASE m.kind \in Counted
      <3>1. Cardinality(collected \cup {m.run_id}) = Cardinality(collected) + 1
        BY <1>5, <2>3, <2>5, FS_AddElement
      <3>2. collected' = collected \cup {m.run_id} /\ completed' = completed + 1
        BY <1>4, <2>5
      <3> QED  BY <1>1, <1>2, <1>5, <2>5, <3>1, <3>2 DEF CompletedIsExact
    <2>6. CASE m.kind \notin Counted
      <3>1. collected' = collected /\ completed' = completed + 0
        BY <1>4, <2>6
      <3> QED  BY <1>1, <1>2, <2>4, <3>1 DEF CompletedIsExact
    <2> QED  BY <2>5, <2>6
  <1>10. DoneOnce'
    BY <1>1, <1>2, <1>3, <1>4, DoneReceive
  <1> QED  BY <1>6, <1>7, <1>8, <1>9, <1>10 DEF PoolInv

\* The first loop ends with every row counted: all have ended.
LEMMA PoolCollectEnd ==
    ASSUME PoolInv, CollectEnd
    PROVE  PoolInv'
  <1>1. /\ PoolTypes /\ RowsTakenOnce /\ RowsReportedOnce /\ CompletedIsExact /\ DoneOnce
        /\ SimulatorInv /\ AllRowsFlown
    BY DEF PoolInv
  <1>2. /\ UNCHANGED <<taken, wpc, task, exitcode, sim, sending, ended, killed>>
        /\ UNCHANGED <<result_queue, how, completed, workers_done, collected>>
        /\ ppc = "collect" /\ ppc' = "drain" /\ completed = NTasks
    BY DEF CollectEnd, worker
  <1>3. ended = Tasks
    <2>1. IsFiniteSet(Tasks) /\ Cardinality(Tasks) = NTasks
      BY PoolAssumption, FS_Interval DEF Tasks
    <2>2. collected \subseteq ended /\ ended \subseteq Tasks /\ Cardinality(collected) = NTasks
      BY <1>1, <1>2 DEF CompletedIsExact, RowsTakenOnce
    <2>3. collected = Tasks
      BY <2>1, <2>2, FS_Subset
    <2> QED  BY <2>2, <2>3
  <1>4. PoolTypes' /\ RowsTakenOnce' /\ CompletedIsExact'
    BY <1>1, <1>2 DEF PoolTypes, RowsTakenOnce, Busy, CompletedIsExact
  <1>5. RowsReportedOnce' /\ DoneOnce'
    BY <1>1, <1>2, RowsKept, DoneKept
  <1>6. SimulatorInv' /\ AllRowsFlown'
    BY <1>1, <1>2, <1>3 DEF SimulatorInv, is_alive, AllRowsFlown
  <1> QED  BY <1>4, <1>5, <1>6 DEF PoolInv

\* The second loop takes a message.
LEMMA PoolDrain ==
    ASSUME PoolInv, Drain
    PROVE  PoolInv'
  <1>1. /\ PoolTypes /\ RowsTakenOnce /\ RowsReportedOnce /\ CompletedIsExact /\ DoneOnce
        /\ SimulatorInv /\ AllRowsFlown
    BY DEF PoolInv
  <1>2. /\ UNCHANGED <<taken, wpc, task, exitcode, sim, sending, ended, killed>>
        /\ UNCHANGED <<ppc, how, completed, collected>>
        /\ Receive
        /\ workers_done' = workers_done +
               (IF Head(result_queue).kind = "worker_done" THEN 1 ELSE 0)
    BY DEF Drain, worker
  <1>3. result_queue' \in Seq(Messages)
    BY <1>1, <1>2, ReceiveFacts
  <1>4. PoolTypes' /\ RowsTakenOnce' /\ CompletedIsExact' /\ SimulatorInv' /\ AllRowsFlown'
    BY <1>1, <1>2, <1>3
       DEF PoolTypes, RowsTakenOnce, Busy, CompletedIsExact, SimulatorInv, is_alive, AllRowsFlown
  <1>5. RowsReportedOnce' /\ DoneOnce'
    BY <1>1, <1>2, RowsReceive, DoneReceive
  <1> QED  BY <1>4, <1>5 DEF PoolInv

\* The parent leaves its loops.  In good order, no worker is in a flight: all
\* have returned from their loop, or all are dead.
LEMMA PoolLeave ==
    ASSUME PoolInv, CollectEmpty \/ DrainEnd \/ ParentInterrupted \/ Return
    PROVE  PoolInv'
  <1>1. /\ PoolTypes /\ RowsTakenOnce /\ RowsReportedOnce /\ CompletedIsExact /\ DoneOnce
        /\ SimulatorInv /\ AllRowsFlown
    BY DEF PoolInv
  <1>2. /\ UNCHANGED <<taken, wpc, task, exitcode, sim, sending, ended, killed>>
        /\ UNCHANGED <<result_queue, completed, workers_done, collected>>
    BY DEF CollectEmpty, DrainEnd, ParentInterrupted, Return, worker
  <1>3. \/ /\ ppc' = "terminate" /\ how' \in {"RuntimeError", "KeyboardInterrupt"}
        \/ /\ ppc = "drain" /\ ppc' = "terminate" /\ how' = how
           /\ workers_done = jobs \/ PoolEmpty
        \/ ppc = "terminate" /\ ppc' = "out" /\ how' = how
    BY DEF CollectEmpty, DrainEnd, ParentInterrupted, Return, Leave
  <1>4. PoolTypes' /\ RowsTakenOnce' /\ CompletedIsExact'
    BY <1>1, <1>2, <1>3 DEF PoolTypes, RowsTakenOnce, Busy, CompletedIsExact
  <1>5. RowsReportedOnce' /\ DoneOnce'
    BY <1>1, <1>2, RowsKept, DoneKept
  <1>6. SimulatorInv'
    <2>1. workers_done = jobs => \A w \in Workers : wpc[w] = "return"
      BY <1>1, DoneCount
    <2> QED  BY <1>1, <1>2, <1>3, <2>1 DEF SimulatorInv, is_alive, PoolEmpty
  <1>7. AllRowsFlown'
    BY <1>1, <1>2, <1>3 DEF AllRowsFlown
  <1> QED  BY <1>4, <1>5, <1>6, <1>7 DEF PoolInv

-------------------------------------------------------------------------------
(* The theorems.                                                           *)

\* A step that changes nothing.
LEMMA PoolStutter ==
    ASSUME PoolInv, UNCHANGED vars
    PROVE  PoolInv'
  <1>1. /\ PoolTypes /\ RowsTakenOnce /\ RowsReportedOnce /\ CompletedIsExact /\ DoneOnce
        /\ SimulatorInv /\ AllRowsFlown
    BY DEF PoolInv
  <1>2. /\ UNCHANGED <<taken, wpc, task, exitcode, sim, sending, ended, killed>>
        /\ UNCHANGED <<result_queue, ppc, how, completed, workers_done, collected>>
    BY DEF vars, worker, parent
  <1>3. RowsReportedOnce' /\ DoneOnce'
    BY <1>1, <1>2, RowsKept, DoneKept
  <1> QED
    BY <1>1, <1>2, <1>3
       DEF PoolInv, PoolTypes, RowsTakenOnce, Busy, CompletedIsExact, SimulatorInv, is_alive,
           AllRowsFlown

\* The inductive invariant, for every number of workers and rows.
THEOREM PoolInductive == Spec => []PoolInv
  <1>1. PoolInv /\ [Next]_vars => PoolInv'
    <2> SUFFICES ASSUME PoolInv, [Next]_vars PROVE PoolInv'
      OBVIOUS
    <2>1. ASSUME NEW w \in Workers, WorkerStep(w) PROVE PoolInv'
      BY <2>1, PoolGet, PoolStart, PoolEndRun, PoolWorkerEnds DEF WorkerStep, run_one
    <2>2. ASSUME NEW w \in Workers, Feed(w) PROVE PoolInv'
      BY <2>2, PoolFeed
    <2>3. ASSUME NEW w \in Workers, WorkerInterrupted(w) PROVE PoolInv'
      BY <2>3, PoolEndRun, PoolRaise DEF WorkerInterrupted
    <2>4. ASSUME NEW w \in Workers, Kill(w) \/ Terminate(w) PROVE PoolInv'
      BY <2>4, PoolWorkerEnds
    <2>5. CASE Collect
      BY <2>5, PoolCollect
    <2>6. CASE CollectEnd
      BY <2>6, PoolCollectEnd
    <2>7. CASE Drain
      BY <2>7, PoolDrain
    <2>8. CASE CollectEmpty \/ DrainEnd \/ ParentInterrupted \/ Return
      BY <2>8, PoolLeave
    <2>9. CASE UNCHANGED vars
      BY <2>9, PoolStutter
    <2> QED
      BY <2>1, <2>2, <2>3, <2>4, <2>5, <2>6, <2>7, <2>8, <2>9 DEF Next, ParentStep
  <1> QED  BY PoolInit, <1>1, PTL DEF Spec

\* The parent's counters never pass the number of rows and of workers, and it
\* counts only rows that ended: run_manifest_parallel's loop conditions
\* completed < len(pending) and workers_done < jobs miss no value.
THEOREM CountersStayInRange == Spec => []TypeOK
  <1>1. PoolInv => TypeOK
    <2> SUFFICES ASSUME PoolInv PROVE TypeOK
      OBVIOUS
    <2>1. PoolTypes /\ RowsTakenOnce /\ CompletedIsExact /\ DoneOnce
      BY DEF PoolInv
    <2>2. workers_done \in 0 .. jobs
      BY <2>1, DoneCount
    <2>3. collected \subseteq ended /\ ended \subseteq Tasks /\ collected \subseteq Tasks
      BY <2>1 DEF RowsTakenOnce, CompletedIsExact
    <2>4. completed \in 0 .. NTasks
      <3>1. IsFiniteSet(Tasks) /\ Cardinality(Tasks) = NTasks
        BY PoolAssumption, FS_Interval DEF Tasks
      <3>2. IsFiniteSet(collected) /\ Cardinality(collected) <= NTasks
        BY <2>3, <3>1, FS_Subset
      <3>3. Cardinality(collected) \in Nat /\ completed = Cardinality(collected)
        BY <2>1, <3>2, FS_CardinalityType DEF CompletedIsExact
      <3> QED  BY <3>2, <3>3, PoolAssumption
    <2> QED  BY <2>1, <2>2, <2>3, <2>4 DEF PoolTypes, TypeOK
  <1> QED  BY <1>1, PoolInductive, PTL

\* A pool that ends without an interruption or an error has come to the end of
\* run_one for every pending row, whatever workers died or messages were lost.
THEOREM NoRowIsMissed == Spec => []AllRowsFlown
  <1>1. PoolInv => AllRowsFlown
    BY DEF PoolInv
  <1> QED  BY <1>1, PoolInductive, PTL

\* terminate_processes strikes no flight of a pool that left its loops in good
\* order: no simulator is left but by workers killed from outside.
THEOREM NoSimulatorSurvives == Spec => []NoSimulatorLeft
  <1>1. PoolInv => NoSimulatorLeft
    BY DEF PoolInv, SimulatorInv, NoSimulatorLeft
  <1> QED  BY <1>1, PoolInductive, PTL
===============================================================================
