-------------------------- MODULE AttemptStoreProofs --------------------------
(***************************************************************************)
(* Proofs about AttemptStore, for every set of command lines and every     *)
(* bound on the attempts: whatever kills and interrupts happen, what the   *)
(* run directory says is backed by an attempt, and results are kept.       *)
(***************************************************************************)
EXTENDS AttemptStore, WellFoundedInduction, TLAPS

Classes == {"retry", "final", "interrupted"}
ResultDocs == [file : {"doc"}, attempt : Nat, class : Classes, auto : BOOLEAN,
               gate : {"absent", "pass", "fail"}]
AnalysisDocs == [file : {"doc"}, attempt : Nat, class : Classes, success : BOOLEAN]
Broken == {Missing, Torn}
Attempts == [tele : Telemetry, result : ResultDocs \cup Broken,
             analysis : AnalysisDocs \cup Broken]

\* The places at which an attempt is under way: before its result is complete,
\* and after.
Unwritten == {"flight", "result", "result..."}
Saving == {"analysis", "analysis...", "rootResult", "rootResult...",
           "rootAnalysis", "rootAnalysis..."}

StoreTypes ==
    /\ rootResult \in ResultDocs \cup Broken
    /\ rootAnalysis \in AnalysisDocs \cup Broken
    /\ attempts \in Seq(Attempts)
    /\ pc \in {"idle", "start", "aggregate"} \cup Unwritten \cup Saving
    /\ inv \in Flags
    /\ outcome \in ResultDocs \cup Broken
    /\ interrupted \in BOOLEAN /\ refreshed \in BOOLEAN

\* The attempt under way: it has no readable result before the result is
\* written, its result is the outcome afterwards, and an interrupted flight
\* gets no further than its own result file.
AttemptInv ==
    /\ pc \in Unwritten \cup Saving => Current > 0
    /\ pc \in {"start", "flight"} \cup Saving => ~interrupted
    /\ pc \in Unwritten => ~Readable(attempts[Current].result)
    /\ pc \in {"result", "result..."} =>
          outcome \in ResultDocs /\ (outcome.class = "interrupted" <=> interrupted)
    /\ pc \in Saving =>
          /\ attempts[Current].result = outcome
          /\ outcome \in ResultDocs
          /\ outcome.class # "interrupted"
    /\ pc = "rootAnalysis..." => rootAnalysis = Torn

\* The analysis of the run directory is about an attempt that exists.
RootInv == Readable(rootAnalysis) => rootAnalysis.attempt \in 1 .. Current

\* --resume and --append-missing fly only without a completed root analysis.
RerunInv ==
    /\ pc \in {"start"} \cup Unwritten \cup Saving
    /\ inv.append \/ inv.resume
    => ~(Readable(rootAnalysis) /\ rootAnalysis.class = "final")

\* The inductive invariant.
StoreInv ==
    StoreTypes /\ AttemptInv /\ RootInv /\ RootIsBacked /\ RerunInv /\ ResumeRepairs

-------------------------------------------------------------------------------
(* The operators.                                                          *)

\* Every nonempty set of naturals has a least element.
LEMMA LeastNatural ==
    ASSUME NEW T \in SUBSET Nat, T # {}
    PROVE  \E x \in T : \A y \in T : x <= y
  <1>1. PICK x \in T : \A y \in T : ~(<<y, x>> \in OpToRel(<, Nat))
    BY WFMin, NatLessThanWellFounded
  <1>2. \A y \in T : ~(y < x)
    BY <1>1 DEF OpToRel
  <1>3. x \in Nat /\ \A y \in T : y \in Nat
    OBVIOUS
  <1> QED  BY <1>2, <1>3

\* Max finds an element of a bounded set.
LEMMA MaxOfBounded ==
    ASSUME NEW n \in Nat, NEW S \in SUBSET (1 .. n), S # {}
    PROVE  Max(S) \in S
  <1> DEFINE T == {n - x : x \in S}
  <1>1. T \in SUBSET Nat /\ T # {}
    <2>1. \A x \in S : x \in 1 .. n
      OBVIOUS
    <2>2. \A x \in S : n - x \in Nat
      BY <2>1
    <2>3. PICK x \in S : TRUE
      OBVIOUS
    <2>4. n - x \in T
      BY <2>3
    <2> QED  BY <2>2, <2>4
  <1>2. PICK t \in T : \A y \in T : t <= y
    BY <1>1, LeastNatural
  <1>3. PICK x \in S : t = n - x
    BY <1>2
  <1>4. \A y \in S : x >= y
    <2> SUFFICES ASSUME NEW y \in S PROVE x >= y
      OBVIOUS
    <2>1. n - x <= n - y
      BY <1>2, <1>3
    <2>2. x \in Int /\ y \in Int
      OBVIOUS
    <2> QED  BY <2>1, <2>2
  <1> QED  BY <1>3, <1>4 DEF Max

\* The success of a result with its telemetry is a truth value.
LEMMA StrictSuccessType ==
    ASSUME NEW r \in ResultDocs, NEW t \in Telemetry
    PROVE  StrictSuccess(r, t) \in BOOLEAN
  BY DEF StrictSuccess, ResultDocs, Telemetry

\* Documents and broken files are told apart.
LEMMA FileKinds ==
    /\ ~Readable(Missing) /\ ~Readable(Torn)
    /\ \A f \in ResultDocs \cup AnalysisDocs : Readable(f)
    /\ \A f \in ResultDocs \cup Broken : Readable(f) => f \in ResultDocs
    /\ \A f \in AnalysisDocs \cup Broken : Readable(f) => f \in AnalysisDocs
  BY DEF Readable, Missing, Torn, ResultDocs, AnalysisDocs, Broken

\* What a flight may end with.
LEMMA ResultTypes ==
    ASSUME NEW k \in Nat
    PROVE  /\ \A r \in Results(k) : r \in ResultDocs /\ r.class # "interrupted"
           /\ Result(k, "interrupted", FALSE, "absent") \in ResultDocs
           /\ Result(k, "interrupted", FALSE, "absent").class = "interrupted"
  <1>1. ASSUME NEW c \in Classes, NEW a \in BOOLEAN, NEW g \in {"absent", "pass", "fail"}
        PROVE  Result(k, c, a, g) \in ResultDocs /\ Result(k, c, a, g).class = c
    BY DEF Result, ResultDocs
  <1> QED  BY <1>1 DEF Results, Classes

\* A new attempt directory leaves the others alone.
LEMMA AppendAttempt ==
    ASSUME attempts \in Seq(Attempts), attempts' = Append(attempts, NewAttempt)
    PROVE  /\ attempts' \in Seq(Attempts) /\ Current' = Current + 1 /\ Current \in Nat
           /\ \A j \in 1 .. Current : attempts'[j] = attempts[j]
           /\ attempts'[Current'].result = Missing
  <1>1. NewAttempt \in Attempts /\ NewAttempt.result = Missing
    BY DEF NewAttempt, Attempts, Telemetry, Broken
  <1> QED  BY <1>1 DEF Current

\* Writing one part of the attempt under way changes nothing else.
LEMMA SetAttempt ==
    ASSUME attempts \in Seq(Attempts), Current > 0, NEW a \in Attempts,
           attempts' = [attempts EXCEPT ![Current] = a]
    PROVE  /\ attempts' \in Seq(Attempts) /\ Current' = Current
           /\ Current \in Nat /\ Current \in 1 .. Current
           /\ attempts'[Current] = a
           /\ \A j \in 1 .. Current : j # Current => attempts'[j] = attempts[j]
  BY DEF Current

\* The analysis of an attempt with a result.
LEMMA AnalysisType ==
    ASSUME attempts \in Seq(Attempts), NEW k \in 1 .. Current, NEW r \in ResultDocs
    PROVE  /\ analyze_run(k, r) \in AnalysisDocs
           /\ analyze_run(k, r).attempt = k /\ analyze_run(k, r).class = r.class
           /\ analyze_run(k, r).success = StrictSuccess(r, attempts[k].tele)
  <1>1. attempts[k] \in Attempts /\ k \in Nat
    BY DEF Current
  <1>2. attempts[k].tele \in Telemetry
    BY <1>1 DEF Attempts
  <1>3. StrictSuccess(r, attempts[k].tele) \in BOOLEAN /\ r.class \in Classes
    BY <1>2, StrictSuccessType DEF ResultDocs
  <1> QED  BY <1>1, <1>3 DEF analyze_run, AnalysisDocs

\* A completed attempt is found if there is one.
LEMMA LatestCompleted ==
    ASSUME attempts \in Seq(Attempts), CompletedAttempts # {}
    PROVE  LET k == find_latest_completed_attempt_dir
           IN  /\ k \in 1 .. Current /\ Completed(k)
               /\ attempts[k].result \in ResultDocs
               /\ attempts[k].result.class = "final"
  <1> DEFINE k == find_latest_completed_attempt_dir
  <1>1. Current \in Nat /\ CompletedAttempts \in SUBSET (1 .. Current)
    BY DEF Current, CompletedAttempts
  <1>2. k \in CompletedAttempts
    BY <1>1, MaxOfBounded DEF find_latest_completed_attempt_dir
  <1>3. k \in 1 .. Current /\ Completed(k)
    BY <1>2 DEF CompletedAttempts
  <1>4. attempts[k] \in Attempts
    BY <1>3 DEF Current
  <1>5. attempts[k].result \in ResultDocs /\ attempts[k].result.class = "final"
    BY <1>3, <1>4, FileKinds DEF Completed, Attempts
  <1> QED  BY <1>3, <1>5

-------------------------------------------------------------------------------
(* What keeps the analysis of the run directory backed.                    *)

\* It stays backed if it stays and its attempt keeps its result and telemetry.
LEMMA BackedKept ==
    ASSUME RootInv, RootIsBacked, Current \in Nat, Current' \in Nat, Current <= Current',
           rootAnalysis' = rootAnalysis, refreshed' = refreshed,
           Readable(rootAnalysis) =>
               /\ attempts'[rootAnalysis.attempt].result = attempts[rootAnalysis.attempt].result
               /\ attempts'[rootAnalysis.attempt].tele = attempts[rootAnalysis.attempt].tele
    PROVE  RootInv' /\ RootIsBacked'
  <1>1. RootInv'
    BY DEF RootInv, Readable
  <1>2. RootIsBacked'
    BY DEF RootIsBacked, Readable
  <1> QED  BY <1>1, <1>2

\* It becomes backed when an attempt with a result is analysed into it.
LEMMA BackedFresh ==
    ASSUME attempts \in Seq(Attempts), attempts' = attempts,
           NEW k \in 1 .. Current, attempts[k].result \in ResultDocs,
           attempts[k].result.class # "interrupted",
           rootAnalysis' = analyze_run(k, attempts[k].result)
    PROVE  rootAnalysis' \in AnalysisDocs /\ RootInv' /\ RootIsBacked'
  <1> DEFINE r == attempts[k].result
  <1>1. /\ analyze_run(k, r) \in AnalysisDocs
        /\ analyze_run(k, r).attempt = k /\ analyze_run(k, r).class = r.class
        /\ analyze_run(k, r).success = StrictSuccess(r, attempts[k].tele)
    BY AnalysisType
  <1>2. Readable(r)
    BY FileKinds
  <1>3. RootInv'
    BY <1>1 DEF RootInv, Current
  <1>4. RootIsBacked'
    BY <1>1, <1>2 DEF RootIsBacked, Readable
  <1> QED  BY <1>1, <1>3, <1>4

\* No analysis, or a torn one, claims nothing.
LEMMA BackedBroken ==
    ASSUME rootAnalysis' \in Broken
    PROVE  RootInv' /\ RootIsBacked' /\ ~Readable(rootAnalysis')
  BY DEF RootInv, RootIsBacked, Readable, Broken, Missing, Torn

\* The attempt of the analysis is not the one that has no result yet.
LEMMA BackedElsewhere ==
    ASSUME RootIsBacked, Readable(rootAnalysis),
           ~Readable(attempts[Current].result)
    PROVE  rootAnalysis.attempt # Current
  BY DEF RootIsBacked

-------------------------------------------------------------------------------
(* The inductive invariant, action by action.                              *)

\* An empty output directory.
LEMMA InitStore == Init => StoreInv
  <1> SUFFICES ASSUME Init PROVE StoreInv
    OBVIOUS
  <1>0. inv \in Flags /\ interrupted \in BOOLEAN /\ refreshed \in BOOLEAN
    <2>1. /\ inv = [append |-> FALSE, resume |-> FALSE]
          /\ interrupted = FALSE /\ refreshed = FALSE
      BY DEF Init
    <2> QED  BY <2>1, Zenon DEF Flags
  <1>1. StoreTypes
    BY <1>0 DEF Init, StoreTypes, Broken
  <1>2. AttemptInv /\ RerunInv /\ ResumeRepairs
    BY DEF Init, AttemptInv, RerunInv, ResumeRepairs, Unwritten, Saving
  <1>3. RootInv /\ RootIsBacked
    BY DEF Init, RootInv, RootIsBacked, Readable, Missing
  <1> QED  BY <1>1, <1>2, <1>3 DEF StoreInv

\* An invocation flies unless it skips, and skips only what is complete.
LEMMA InvokeStore == StoreInv /\ Invoke => StoreInv'
  <1> SUFFICES ASSUME StoreInv, Invoke PROVE StoreInv'
    OBVIOUS
  <1>1. /\ UNCHANGED <<rootResult, rootAnalysis, attempts, outcome, refreshed>>
        /\ inv' \in Flags /\ interrupted' = FALSE /\ pc' \in {"start", "aggregate"}
    BY StoreAssumption DEF Invoke, files
  <1>2. StoreTypes'
    BY <1>1 DEF StoreInv, StoreTypes
  <1>3. AttemptInv' /\ RootInv' /\ RootIsBacked'
    BY <1>1 DEF StoreInv, AttemptInv, RootInv, RootIsBacked, Unwritten, Saving,
       Readable, Current
  <1>4. RerunInv'
    <2> SUFFICES ASSUME pc' = "start", inv'.append \/ inv'.resume,
                        Readable(rootAnalysis), rootAnalysis.class = "final"
                 PROVE  FALSE
      BY <1>1 DEF RerunInv, Readable, Unwritten, Saving
    <2>1. run_dir_has_completed_result /\ (inv'.resume => should_skip_run(inv'))
      BY DEF run_dir_has_completed_result, should_skip_run
    <2>2. ~(inv'.append /\ run_dir_has_completed_result) /\ ~should_skip_run(inv')
      BY DEF Invoke
    <2> QED  BY <2>1, <2>2
  <1>5. ResumeRepairs'
    BY <1>1 DEF Invoke, ResumeRepairs, should_skip_run, Readable
  <1> QED  BY <1>2, <1>3, <1>4, <1>5 DEF StoreInv

\* A new attempt directory has no result.
LEMMA MakeStore == StoreInv /\ make_attempt_dir => StoreInv'
  <1> SUFFICES ASSUME StoreInv, make_attempt_dir PROVE StoreInv'
    OBVIOUS
  <1>1. /\ attempts' = Append(attempts, NewAttempt) /\ pc = "start" /\ pc' = "flight"
        /\ UNCHANGED <<rootResult, rootAnalysis, inv, outcome, interrupted, refreshed>>
    BY DEF make_attempt_dir
  <1>2. /\ attempts' \in Seq(Attempts) /\ Current' = Current + 1 /\ Current \in Nat
        /\ \A j \in 1 .. Current : attempts'[j] = attempts[j]
        /\ attempts'[Current'].result = Missing
    BY <1>1, AppendAttempt DEF StoreInv, StoreTypes
  <1>3. StoreTypes'
    BY <1>1, <1>2 DEF StoreInv, StoreTypes, Unwritten
  <1>4. AttemptInv'
    BY <1>1, <1>2, FileKinds DEF StoreInv, AttemptInv, Unwritten, Saving, Readable
  <1>5. RootInv' /\ RootIsBacked'
    <2>1. Current' \in Nat /\ Current <= Current'
      BY <1>2
    <2>2. Readable(rootAnalysis) =>
             attempts'[rootAnalysis.attempt] = attempts[rootAnalysis.attempt]
      BY <1>2 DEF StoreInv, RootInv
    <2> QED  BY <1>1, <1>2, <2>1, <2>2, BackedKept DEF StoreInv
  <1>6. RerunInv' /\ ResumeRepairs'
    BY <1>1 DEF StoreInv, RerunInv, ResumeRepairs, Readable
  <1> QED  BY <1>3, <1>4, <1>5, <1>6 DEF StoreInv

\* Telemetry is written to the attempt that has no result yet.
LEMMA FlyStore == StoreInv /\ Fly => StoreInv'
  <1> SUFFICES ASSUME StoreInv, Fly PROVE StoreInv'
    OBVIOUS
  <1>1. /\ pc = "flight" /\ pc' = "result"
        /\ UNCHANGED <<rootResult, rootAnalysis, inv, refreshed>>
        /\ \/ outcome' \in Results(Current) /\ interrupted' = interrupted
           \/ /\ outcome' = Result(Current, "interrupted", FALSE, "absent")
              /\ interrupted' = TRUE
    BY DEF Fly
  <1>2. PICK t \in Telemetry : attempts' = [attempts EXCEPT ![Current].tele = t]
    BY DEF Fly
  <1>3. attempts \in Seq(Attempts) /\ Current > 0 /\ Current \in Nat
    BY <1>1 DEF StoreInv, StoreTypes, AttemptInv, Unwritten, Current
  <1> DEFINE a == [attempts[Current] EXCEPT !.tele = t]
  <1>4. attempts[Current] \in Attempts
    BY <1>3 DEF Current
  <1>5. a \in Attempts /\ a.result = attempts[Current].result
    BY <1>2, <1>4 DEF Attempts
  <1>6. attempts' = [attempts EXCEPT ![Current] = a]
    BY <1>2
  <1> HIDE DEF a
  <1>7. /\ attempts' \in Seq(Attempts) /\ Current' = Current
        /\ attempts'[Current] = a
        /\ \A j \in 1 .. Current : j # Current => attempts'[j] = attempts[j]
    BY <1>3, <1>5, <1>6, SetAttempt
  <1>8. ~Readable(attempts[Current].result)
    BY <1>1 DEF StoreInv, AttemptInv, Unwritten
  <1>9. outcome' \in ResultDocs /\ (outcome'.class = "interrupted" <=> interrupted')
    <2>1. ~interrupted
      BY <1>1 DEF StoreInv, AttemptInv
    <2>2. CASE outcome' \in Results(Current) /\ interrupted' = interrupted
      BY <1>3, <2>1, <2>2, ResultTypes
    <2>3. CASE /\ outcome' = Result(Current, "interrupted", FALSE, "absent")
               /\ interrupted' = TRUE
      BY <1>3, <2>3, ResultTypes
    <2> QED  BY <1>1, <2>2, <2>3
  <1>10. interrupted' \in BOOLEAN
    BY <1>1 DEF StoreInv, StoreTypes
  <1>11. StoreTypes'
    BY <1>1, <1>7, <1>9, <1>10 DEF StoreInv, StoreTypes, Unwritten
  <1>12. AttemptInv'
    BY <1>1, <1>3, <1>5, <1>7, <1>8, <1>9 DEF AttemptInv, Unwritten, Saving, Readable
  <1>13. RootInv' /\ RootIsBacked'
    BY <1>1, <1>3, <1>7, <1>8, BackedKept, BackedElsewhere DEF StoreInv, RootInv
  <1>14. RerunInv' /\ ResumeRepairs'
    BY <1>1 DEF StoreInv, RerunInv, ResumeRepairs, Unwritten, Readable
  <1> QED  BY <1>11, <1>12, <1>13, <1>14 DEF StoreInv

\* Opening a file tears it: the result of the attempt under way, which has
\* none, or a file of the run directory.
LEMMA OpenStore ==
    ASSUME NEW place \in Places, StoreInv, OpenFile(place)
    PROVE  StoreInv'
  <1>1. /\ pc = place /\ pc' = Writing[place]
        /\ SetFile(place, Torn)
        /\ UNCHANGED <<inv, outcome, interrupted, refreshed>>
    BY DEF OpenFile
  <1>2. attempts \in Seq(Attempts) /\ Current > 0 /\ Current \in Nat
    BY <1>1 DEF StoreInv, StoreTypes, AttemptInv, Unwritten, Saving, Places, Current
  <1>3. attempts[Current] \in Attempts
    BY <1>2 DEF Current
  <1>4. CASE place = "result"
    <2> DEFINE a == [attempts[Current] EXCEPT !.result = Torn]
    <2>1. attempts' = [attempts EXCEPT ![Current] = a]
      BY <1>1, <1>4 DEF SetFile
    <2>2. a \in Attempts /\ a.result = Torn
      BY <1>3 DEF Attempts, Broken
    <2> HIDE DEF a
    <2>3. /\ attempts' \in Seq(Attempts) /\ Current' = Current
          /\ \A j \in 1 .. Current : j # Current => attempts'[j] = attempts[j]
          /\ attempts'[Current].result = Torn
      BY <1>2, <2>1, <2>2, SetAttempt
    <2>4. pc' = "result..." /\ UNCHANGED <<rootResult, rootAnalysis>>
      BY <1>1, <1>4 DEF SetFile, Writing
    <2>5. ~Readable(attempts[Current].result)
      BY <1>1, <1>4 DEF StoreInv, AttemptInv, Unwritten
    <2>6. StoreTypes'
      BY <1>1, <2>3, <2>4 DEF StoreInv, StoreTypes, Unwritten
    <2>7. AttemptInv'
      BY <1>1, <1>2, <1>4, <2>3, <2>4, FileKinds
         DEF StoreInv, AttemptInv, Unwritten, Saving, Readable
    <2>8. RootInv' /\ RootIsBacked'
      BY <1>1, <1>2, <2>3, <2>4, <2>5, BackedKept, BackedElsewhere DEF StoreInv, RootInv
    <2>9. RerunInv' /\ ResumeRepairs'
      BY <1>1, <1>4, <2>4 DEF StoreInv, RerunInv, ResumeRepairs, Unwritten, Readable
    <2> QED  BY <2>6, <2>7, <2>8, <2>9 DEF StoreInv
  <1>5. CASE place = "analysis"
    <2> DEFINE a == [attempts[Current] EXCEPT !.analysis = Torn]
    <2>1. attempts' = [attempts EXCEPT ![Current] = a]
      BY <1>1, <1>5 DEF SetFile
    <2>2. a \in Attempts /\ a.result = attempts[Current].result
                         /\ a.tele = attempts[Current].tele
      BY <1>3 DEF Attempts, Broken
    <2> HIDE DEF a
    <2>3. /\ attempts' \in Seq(Attempts) /\ Current' = Current
          /\ \A j \in 1 .. Current : /\ attempts'[j].result = attempts[j].result
                                     /\ attempts'[j].tele = attempts[j].tele
      BY <1>2, <2>1, <2>2, SetAttempt
    <2>4. pc' = "analysis..." /\ UNCHANGED <<rootResult, rootAnalysis>>
      BY <1>1, <1>5 DEF SetFile, Writing
    <2>5. StoreTypes'
      BY <1>1, <2>3, <2>4 DEF StoreInv, StoreTypes, Saving
    <2>6. AttemptInv'
      BY <1>1, <1>2, <1>5, <2>3, <2>4
         DEF StoreInv, AttemptInv, Unwritten, Saving
    <2>7. RootInv' /\ RootIsBacked'
      BY <1>1, <1>2, <2>3, <2>4, BackedKept DEF StoreInv, RootInv
    <2>8. RerunInv' /\ ResumeRepairs'
      BY <1>1, <1>5, <2>4 DEF StoreInv, RerunInv, ResumeRepairs, Saving, Readable
    <2> QED  BY <2>5, <2>6, <2>7, <2>8 DEF StoreInv
  <1>6. CASE place \in {"rootResult", "rootAnalysis"}
    <2>1. attempts' = attempts /\ Current' = Current
      BY <1>1, <1>6 DEF SetFile, Current
    <2>2. \/ /\ rootResult' = Torn /\ rootAnalysis' = rootAnalysis
             /\ pc = "rootResult" /\ pc' = "rootResult..."
          \/ /\ rootResult' = rootResult /\ rootAnalysis' = Torn
             /\ pc = "rootAnalysis" /\ pc' = "rootAnalysis..."
      BY <1>1, <1>6 DEF SetFile, Writing
    <2>3. StoreTypes'
      BY <1>1, <2>1, <2>2 DEF StoreInv, StoreTypes, Saving, Broken
    <2>4. AttemptInv'
      BY <1>1, <2>1, <2>2 DEF StoreInv, AttemptInv, Unwritten, Saving
    <2>5. RootInv' /\ RootIsBacked'
      BY <1>1, <1>2, <2>1, <2>2, BackedKept, BackedBroken DEF StoreInv, Broken
    <2>6. RerunInv' /\ ResumeRepairs'
      BY <1>1, <2>2, FileKinds
         DEF StoreInv, RerunInv, ResumeRepairs, Saving, Readable
    <2> QED  BY <2>3, <2>4, <2>5, <2>6 DEF StoreInv
  <1> QED  BY <1>4, <1>5, <1>6 DEF Places

\* Closing a file completes it: a result becomes that of the attempt, then the
\* analyses describe it.
LEMMA CloseStore ==
    ASSUME NEW place \in Places, StoreInv, CloseFile(place)
    PROVE  StoreInv'
  <1>1. /\ pc = Writing[place] /\ pc' = Following[place]
        /\ SetFile(place, IF place \in {"result", "rootResult"} THEN outcome
                          ELSE analyze_run(Current, outcome))
        /\ UNCHANGED <<inv, outcome, interrupted>>
        /\ refreshed' = (refreshed /\ place # "rootAnalysis")
    BY DEF CloseFile
  <1>2. attempts \in Seq(Attempts) /\ Current > 0 /\ Current \in Nat
    BY <1>1 DEF StoreInv, StoreTypes, AttemptInv, Unwritten, Saving, Places, Current,
       Writing
  <1>3. attempts[Current] \in Attempts /\ Current \in 1 .. Current
    BY <1>2 DEF Current
  <1>4. outcome \in ResultDocs
    BY <1>1 DEF StoreInv, AttemptInv, Saving, Places, Writing
  <1>5. refreshed' \in BOOLEAN
    BY <1>1
  <1>6. analyze_run(Current, outcome) \in AnalysisDocs
    BY <1>2, <1>3, <1>4, AnalysisType
  <1>7. CASE place = "result"
    <2> DEFINE a == [attempts[Current] EXCEPT !.result = outcome]
    <2>1. attempts' = [attempts EXCEPT ![Current] = a]
      BY <1>1, <1>7 DEF SetFile
    <2>2. a \in Attempts /\ a.result = outcome
      BY <1>3, <1>4 DEF Attempts
    <2> HIDE DEF a
    <2>3. /\ attempts' \in Seq(Attempts) /\ Current' = Current
          /\ \A j \in 1 .. Current : j # Current => attempts'[j] = attempts[j]
          /\ attempts'[Current].result = outcome
      BY <1>2, <2>1, <2>2, SetAttempt
    <2>4. /\ pc = "result..." /\ pc' = IF interrupted THEN "aggregate" ELSE "analysis"
          /\ UNCHANGED <<rootResult, rootAnalysis>> /\ refreshed' = refreshed
      BY <1>1, <1>7 DEF SetFile, Writing, Following, StoreInv, StoreTypes
    <2>5. /\ ~Readable(attempts[Current].result)
          /\ outcome.class = "interrupted" <=> interrupted
      BY <2>4 DEF StoreInv, AttemptInv, Unwritten
    <2>6. StoreTypes'
      BY <1>1, <1>5, <2>3, <2>4 DEF StoreInv, StoreTypes, Saving
    <2>7. AttemptInv'
      BY <1>1, <1>2, <1>4, <2>3, <2>4, <2>5 DEF AttemptInv, Unwritten, Saving
    <2>8. RootInv' /\ RootIsBacked'
      BY <1>2, <2>3, <2>4, <2>5, BackedKept, BackedElsewhere DEF StoreInv, RootInv
    <2>9. RerunInv' /\ ResumeRepairs'
      BY <1>1, <2>4 DEF StoreInv, RerunInv, ResumeRepairs, Unwritten, Saving, Readable
    <2> QED  BY <2>6, <2>7, <2>8, <2>9 DEF StoreInv
  <1>8. CASE place = "analysis"
    <2> DEFINE a == [attempts[Current] EXCEPT !.analysis = analyze_run(Current, outcome)]
    <2>1. attempts' = [attempts EXCEPT ![Current] = a]
      BY <1>1, <1>8 DEF SetFile
    <2>2. a \in Attempts /\ a.result = attempts[Current].result
                         /\ a.tele = attempts[Current].tele
      BY <1>3, <1>6 DEF Attempts
    <2> HIDE DEF a
    <2>3. /\ attempts' \in Seq(Attempts) /\ Current' = Current
          /\ \A j \in 1 .. Current : /\ attempts'[j].result = attempts[j].result
                                     /\ attempts'[j].tele = attempts[j].tele
      BY <1>2, <2>1, <2>2, SetAttempt
    <2>4. /\ pc = "analysis..." /\ pc' = "rootResult" /\ refreshed' = refreshed
          /\ UNCHANGED <<rootResult, rootAnalysis>>
      BY <1>1, <1>8 DEF SetFile, Writing, Following, StoreInv, StoreTypes
    <2>5. StoreTypes'
      BY <1>1, <1>5, <2>3, <2>4 DEF StoreInv, StoreTypes, Saving
    <2>6. AttemptInv'
      BY <1>1, <1>2, <1>3, <2>3, <2>4 DEF StoreInv, AttemptInv, Unwritten, Saving
    <2>7. RootInv' /\ RootIsBacked'
      BY <1>2, <2>3, <2>4, BackedKept DEF StoreInv, RootInv
    <2>8. RerunInv' /\ ResumeRepairs'
      BY <1>1, <2>4 DEF StoreInv, RerunInv, ResumeRepairs, Saving, Readable
    <2> QED  BY <2>5, <2>6, <2>7, <2>8 DEF StoreInv
  <1>9. CASE place = "rootResult"
    <2>1. /\ attempts' = attempts /\ Current' = Current
          /\ pc = "rootResult..." /\ pc' = "rootAnalysis" /\ refreshed' = refreshed
          /\ rootResult' = outcome /\ rootAnalysis' = rootAnalysis
      BY <1>1, <1>9 DEF SetFile, Current, Writing, Following, StoreInv, StoreTypes
    <2>2. StoreTypes'
      BY <1>1, <1>4, <1>5, <2>1 DEF StoreInv, StoreTypes, Saving
    <2>3. AttemptInv'
      BY <1>1, <2>1 DEF StoreInv, AttemptInv, Unwritten, Saving
    <2>4. RootInv' /\ RootIsBacked'
      BY <1>2, <2>1, BackedKept DEF StoreInv
    <2>5. RerunInv' /\ ResumeRepairs'
      BY <1>1, <2>1 DEF StoreInv, RerunInv, ResumeRepairs, Saving, Readable
    <2> QED  BY <2>2, <2>3, <2>4, <2>5 DEF StoreInv
  <1>10. CASE place = "rootAnalysis"
    <2>1. /\ attempts' = attempts /\ Current' = Current
          /\ pc = "rootAnalysis..." /\ pc' = "aggregate"
          /\ rootResult' = rootResult /\ rootAnalysis' = analyze_run(Current, outcome)
      BY <1>1, <1>10 DEF SetFile, Current, Writing, Following
    <2>2. attempts[Current].result = outcome /\ outcome.class # "interrupted"
      BY <2>1 DEF StoreInv, AttemptInv, Saving
    <2>3. StoreTypes'
      BY <1>1, <1>5, <1>6, <2>1 DEF StoreInv, StoreTypes
    <2>4. AttemptInv' /\ RerunInv'
      BY <2>1 DEF AttemptInv, RerunInv, Unwritten, Saving
    <2>5. RootInv' /\ RootIsBacked'
      BY <1>2, <1>3, <1>4, <2>1, <2>2, BackedFresh
    <2>6. ResumeRepairs'
      BY <1>6, <2>1, FileKinds DEF ResumeRepairs, Readable
    <2> QED  BY <2>3, <2>4, <2>5, <2>6 DEF StoreInv
  <1> QED  BY <1>7, <1>8, <1>9, <1>10 DEF Places

\* Ctrl-C and kills change no file.
LEMMA StopStore == StoreInv /\ (Interrupt \/ Kill) => StoreInv'
  <1> SUFFICES ASSUME StoreInv, Interrupt \/ Kill PROVE StoreInv'
    OBVIOUS
  <1>1. /\ UNCHANGED <<rootResult, rootAnalysis, attempts, inv, outcome, refreshed>>
        /\ \/ pc' = "aggregate" /\ interrupted' = TRUE
           \/ pc' = "idle" /\ interrupted' = interrupted
    BY DEF Interrupt, Kill, files
  <1>2. interrupted' \in BOOLEAN
    BY <1>1 DEF StoreInv, StoreTypes
  <1>3. StoreTypes'
    BY <1>1, <1>2 DEF StoreInv, StoreTypes
  <1>4. AttemptInv' /\ RerunInv' /\ ResumeRepairs'
    BY <1>1 DEF AttemptInv, RerunInv, ResumeRepairs, Unwritten, Saving
  <1>5. RootInv' /\ RootIsBacked'
    BY <1>1 DEF StoreInv, RootInv, RootIsBacked, Readable, Current
  <1> QED  BY <1>3, <1>4, <1>5 DEF StoreInv

\* What a step of aggregate_analysis or --refresh-success that ends idle needs.
LEMMA IdleStore ==
    ASSUME StoreInv, pc' = "idle", UNCHANGED <<rootResult, attempts, inv, outcome>>,
           interrupted' = interrupted, refreshed' \in BOOLEAN,
           rootAnalysis' \in AnalysisDocs \cup Broken, RootInv', RootIsBacked'
    PROVE  StoreInv'
  <1>1. StoreTypes'
    BY DEF StoreInv, StoreTypes
  <1>2. AttemptInv' /\ RerunInv' /\ ResumeRepairs'
    BY DEF AttemptInv, RerunInv, ResumeRepairs, Unwritten, Saving
  <1> QED  BY <1>1, <1>2 DEF StoreInv

\* Aggregation keeps the analysis of the run directory or makes a new one of a
\* completed attempt.
LEMMA AggregateStore == StoreInv /\ (Aggregate \/ AnalyzeOnly) => StoreInv'
  <1> SUFFICES ASSUME StoreInv, Aggregate \/ AnalyzeOnly PROVE StoreInv'
    OBVIOUS
  <1>1. /\ pc' = "idle" /\ UNCHANGED <<inv, outcome, interrupted>>
        /\ LoadCached \/ Reanalyze
    BY DEF Aggregate, AnalyzeOnly, Idle
  <1>2. /\ attempts \in Seq(Attempts) /\ refreshed \in BOOLEAN
        /\ rootAnalysis \in AnalysisDocs \cup Broken
    BY DEF StoreInv, StoreTypes
  <1>3. CASE UNCHANGED <<files, refreshed>>
    <2>1. RootInv' /\ RootIsBacked'
      BY <1>3 DEF StoreInv, RootInv, RootIsBacked, Readable, Current, files
    <2> QED  BY <1>1, <1>2, <1>3, <2>1, IdleStore DEF files
  <1>4. CASE Reanalyze /\ CompletedAttempts # {}
    <2> DEFINE k == find_latest_completed_attempt_dir
    <2>1. /\ rootAnalysis' = analyze_run(k, attempts[k].result)
          /\ UNCHANGED <<rootResult, attempts>> /\ refreshed' = FALSE
      BY <1>4 DEF Reanalyze
    <2>2. /\ k \in 1 .. Current /\ attempts[k].result \in ResultDocs
          /\ attempts[k].result.class = "final"
      BY <1>2, <1>4, LatestCompleted
    <2> HIDE DEF k
    <2>3. rootAnalysis' \in AnalysisDocs /\ RootInv' /\ RootIsBacked'
      BY <1>2, <2>1, <2>2, BackedFresh
    <2> QED  BY <1>1, <2>1, <2>3, IdleStore
  <1>5. CASE Reanalyze /\ CompletedAttempts = {}
    BY <1>3, <1>5 DEF Reanalyze, files
  <1> QED  BY <1>1, <1>3, <1>4, <1>5 DEF LoadCached

\* --refresh-success rewrites the success and nothing else.
LEMMA RefreshStore == StoreInv /\ RefreshSuccess => StoreInv'
  <1> SUFFICES ASSUME StoreInv, RefreshSuccess PROVE StoreInv'
    OBVIOUS
  <1>1. /\ pc' = "idle" /\ UNCHANGED <<rootResult, attempts, inv, outcome, interrupted>>
    BY DEF RefreshSuccess, Idle
  <1>2. /\ attempts \in Seq(Attempts) /\ refreshed \in BOOLEAN
        /\ rootAnalysis \in AnalysisDocs \cup Broken
        /\ rootResult \in ResultDocs \cup Broken
    BY DEF StoreInv, StoreTypes
  <1>3. CASE UNCHANGED <<rootAnalysis, refreshed>>
    <2>1. RootInv' /\ RootIsBacked'
      BY <1>1, <1>3 DEF StoreInv, RootInv, RootIsBacked, Readable, Current
    <2> QED  BY <1>1, <1>2, <1>3, <2>1, IdleStore
  <1>4. CASE Readable(rootAnalysis) /\ Readable(RefreshSource)
    <2> DEFINE k == rootAnalysis.attempt
               v == StrictSuccess(RefreshSource, attempts[k].tele)
    <2>1. rootAnalysis' = [rootAnalysis EXCEPT !.success = v] /\ refreshed' = TRUE
      BY <1>4 DEF RefreshSuccess
    <2>2. rootAnalysis \in AnalysisDocs /\ k \in 1 .. Current
      BY <1>2, <1>4, FileKinds DEF StoreInv, RootInv
    <2>3. attempts[k] \in Attempts
      BY <1>2, <2>2 DEF Current
    <2>4. RefreshSource \in ResultDocs
      BY <1>2, <1>4, <2>3, FileKinds DEF RefreshSource, Attempts
    <2>5. v \in BOOLEAN
      BY <2>3, <2>4, StrictSuccessType DEF Attempts
    <2> HIDE DEF v
    <2>6. /\ rootAnalysis' \in AnalysisDocs /\ Readable(rootAnalysis')
          /\ rootAnalysis'.attempt = k /\ rootAnalysis'.class = rootAnalysis.class
      BY <2>1, <2>2, <2>5 DEF AnalysisDocs, Readable
    <2>7. RootInv' /\ RootIsBacked'
      BY <1>1, <1>4, <2>1, <2>2, <2>6 DEF StoreInv, RootInv, RootIsBacked, Current,
         Readable
    <2> QED  BY <1>1, <2>1, <2>6, <2>7, IdleStore
  <1> QED  BY <1>3, <1>4 DEF RefreshSuccess

\* A kill while the root analysis is rewritten leaves a torn one.
LEMMA KillRewriteStore == StoreInv /\ KillRewrite => StoreInv'
  <1> SUFFICES ASSUME StoreInv, KillRewrite PROVE StoreInv'
    OBVIOUS
  <1>1. /\ pc' = "idle" /\ rootAnalysis' = Torn /\ refreshed' = refreshed
        /\ UNCHANGED <<rootResult, attempts, inv, outcome, interrupted>>
    BY DEF KillRewrite
  <1>2. RootInv' /\ RootIsBacked'
    BY <1>1, BackedBroken DEF Broken
  <1> QED  BY <1>1, <1>2, IdleStore DEF StoreInv, StoreTypes, Broken

-------------------------------------------------------------------------------
(* Theorems.                                                               *)

\* The inductive invariant of the result files of a run.
THEOREM StoreInductive == Spec => []StoreInv
  <1>1. StoreInv /\ [Next]_vars => StoreInv'
    <2> SUFFICES ASSUME StoreInv, [Next]_vars PROVE StoreInv'
      OBVIOUS
    <2>1. CASE Invoke \/ make_attempt_dir \/ Fly
      BY <2>1, InvokeStore, MakeStore, FlyStore
    <2>2. CASE \E place \in Places : OpenFile(place) \/ CloseFile(place)
      BY <2>2, OpenStore, CloseStore
    <2>3. CASE Interrupt \/ Kill
      BY <2>3, StopStore
    <2>4. CASE Aggregate \/ AnalyzeOnly \/ RefreshSuccess \/ KillRewrite
      BY <2>4, AggregateStore, RefreshStore, KillRewriteStore
    <2>5. CASE UNCHANGED vars
      <3>1. UNCHANGED <<rootResult, rootAnalysis, attempts, pc, inv, outcome,
                        interrupted, refreshed>>
        BY <2>5 DEF vars, files
      <3>2. StoreTypes'
        BY <3>1 DEF StoreInv, StoreTypes
      <3>3. AttemptInv' /\ RootInv' /\ RootIsBacked' /\ RerunInv' /\ ResumeRepairs'
        BY <3>1 DEF StoreInv, AttemptInv, RootInv, RootIsBacked, RerunInv,
           ResumeRepairs, Readable, Current
      <3> QED  BY <3>2, <3>3 DEF StoreInv
    <2> QED  BY <2>1, <2>2, <2>3, <2>4, <2>5 DEF Next, RunnerStep
  <1> QED  BY <1>1, InitStore, PTL DEF Spec

\* A readable analysis.json of the run directory always describes an attempt
\* with its own readable result, after any kills and any number of attempts.
THEOREM RootAlwaysBacked == Spec => []RootIsBacked
  BY StoreInductive, PTL DEF StoreInv

\* An uninterrupted --resume always ends with a readable analysis.json.
THEOREM ResumeAlwaysRepairs == Spec => []ResumeRepairs
  BY StoreInductive, PTL DEF StoreInv

\* --resume and --append-missing leave out only runs with a completed attempt.
THEOREM SkipNeedsResult == Spec => SkippedHasResult
  <1>1. StoreInv /\ [Next]_vars =>
           [Idle /\ pc' = "aggregate" => CompletedAttempts # {}]_vars
    <2> SUFFICES ASSUME StoreInv, Next, pc = "idle", pc' = "aggregate"
                 PROVE  CompletedAttempts # {}
      BY DEF Idle
    <2>1. Invoke
      BY DEF Next, RunnerStep, make_attempt_dir, Fly, OpenFile, CloseFile, Places, Writing,
         Interrupt, Kill, Idle, Aggregate, AnalyzeOnly, RefreshSuccess, KillRewrite
    <2>2. \/ run_dir_has_completed_result
          \/ Readable(rootAnalysis) /\ rootAnalysis.class = "final"
      BY <2>1 DEF Invoke, should_skip_run
    <2>3. CASE Readable(rootAnalysis) /\ rootAnalysis.class = "final"
      <3>1. rootAnalysis.attempt \in 1 .. Current /\ Completed(rootAnalysis.attempt)
        BY <2>3 DEF StoreInv, RootInv, RootIsBacked, Completed
      <3> QED  BY <3>1 DEF CompletedAttempts
    <2> QED  BY <2>2, <2>3 DEF run_dir_has_completed_result
  <1> QED  BY <1>1, StoreInductive, PTL DEF Spec, SkippedHasResult

\* --resume and --append-missing never overwrite a completed analysis.json.
THEOREM CompletedAlwaysKept == Spec => CompletedIsKept
  <1>1. StoreInv /\ [Next]_vars =>
           [/\ ~Idle /\ (inv.append \/ inv.resume)
            /\ Readable(rootAnalysis) /\ rootAnalysis.class = "final"
            => rootAnalysis' = rootAnalysis]_vars
    <2> SUFFICES ASSUME StoreInv, Next, ~Idle, inv.append \/ inv.resume,
                        Readable(rootAnalysis), rootAnalysis.class = "final"
                 PROVE  rootAnalysis' = rootAnalysis
      OBVIOUS
    <2>1. pc = "aggregate"
      BY DEF StoreInv, RerunInv, StoreTypes, Idle
    <2>2. Exists(rootAnalysis)
      BY DEF Exists, Readable
    <2> QED
      BY <2>1, <2>2 DEF Next, RunnerStep, Invoke, make_attempt_dir, Fly, OpenFile, CloseFile,
         Places, Writing, Interrupt, Kill, Idle, Aggregate, LoadCached, AnalyzeOnly,
         RefreshSuccess, KillRewrite, files
  <1> QED  BY <1>1, StoreInductive, PTL DEF Spec, CompletedIsKept

\* The result and telemetry of a completed attempt are never written again.
THEOREM AttemptsAlwaysKept == Spec => AttemptsAreKept
  <1> DEFINE Kept(k) == /\ attempts'[k].result = attempts[k].result
                        /\ attempts'[k].tele = attempts[k].tele
  <1>1. StoreInv /\ [Next]_vars => [\A k \in 1 .. Current : Completed(k) => Kept(k)]_vars
    <2> SUFFICES ASSUME StoreInv, Next, NEW k \in 1 .. Current, Completed(k)
                 PROVE  Kept(k)
      OBVIOUS
    <2>1. attempts \in Seq(Attempts) /\ attempts[k] \in Attempts
      BY DEF StoreInv, StoreTypes, Current
    <2>2. pc \in Unwritten => k # Current
      BY DEF StoreInv, AttemptInv, Completed
    <2>3. CASE make_attempt_dir
      BY <2>1, <2>3 DEF make_attempt_dir, Current
    <2>4. CASE Fly
      BY <2>1, <2>2, <2>4 DEF Fly, Current, Unwritten
    <2>5. ASSUME NEW place \in Places, OpenFile(place) \/ CloseFile(place)
          PROVE  Kept(k)
      <3>1. CASE place = "result"
        <4>1. pc \in Unwritten
          BY <2>5, <3>1 DEF OpenFile, CloseFile, Writing, Unwritten
        <4>2. \E f : attempts' = [attempts EXCEPT ![Current].result = f]
          BY <2>5, <3>1 DEF OpenFile, CloseFile, SetFile
        <4> QED  BY <2>1, <2>2, <4>1, <4>2 DEF Current
      <3>2. CASE place = "analysis"
        <4>1. \E f : attempts' = [attempts EXCEPT ![Current].analysis = f]
          BY <2>5, <3>2 DEF OpenFile, CloseFile, SetFile
        <4> QED  BY <2>1, <4>1 DEF Current, Attempts
      <3>3. CASE place \in {"rootResult", "rootAnalysis"}
        BY <2>5, <3>3 DEF OpenFile, CloseFile, SetFile
      <3> QED  BY <3>1, <3>2, <3>3 DEF Places
    <2>6. CASE Invoke \/ Interrupt \/ Kill \/ Aggregate \/ AnalyzeOnly \/
               RefreshSuccess \/ KillRewrite
      BY <2>6 DEF Invoke, Interrupt, Kill, Aggregate, AnalyzeOnly, LoadCached,
         Reanalyze, RefreshSuccess, KillRewrite, files
    <2> QED  BY <2>3, <2>4, <2>5, <2>6 DEF Next, RunnerStep
  <1> QED  BY <1>1, StoreInductive, PTL DEF Spec, AttemptsAreKept

===============================================================================
