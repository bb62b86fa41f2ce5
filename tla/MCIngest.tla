------------------------------ MODULE MCIngest ------------------------------
(***************************************************************************)
(* clickhouse-ingest: the batched insert, the ingest of a run's report     *)
(* files, the copies of reused cases (whose modules this one extends) and  *)
(* the ingest of bundles.  A behaviour is one of one of them, `part` says  *)
(* of which, and the variables of the others keep their initial values.    *)
(*                                                                         *)
(* BatchInsert: three batches, three attempts at each, and up to two rows  *)
(* that other writers add to the probed scope while the call runs.         *)
(***************************************************************************)
EXTENDS BatchInsert, CaseIngest, ReuseCopy, TLC

VARIABLES
    part,
    \* BundleIngest
    kind, results, bundleVerdicts, bundleJob, outcome, roundOutcome, bundleFaults, uploads

-----------------------------------------------------------------------------
\* Two report files: A reports the cases c and d, B reports c twice; a re-ingest
\* without an attempt reads what the second attempt left.  Outcomes of different
\* executions differ, two skips do not.
Outcome(c, s, a) ==
    [case |-> c, status |-> s, mark |-> IF s = "skipped" THEN 0 ELSE a]
Attempt(a, x) ==
    "A" :> <<Outcome("c", x[1], a), Outcome("d", "passed", a)>> @@
    "B" :> <<Outcome("c", x[2], a), Outcome("c", x[2], a)>>
Outcomes == {"passed", "failed", "skipped"} \X {"passed", "failed", "skipped"}

MCFiles == <<"A", "B">>
MCRunAttempts == 0..2
MCReports == {[a \in 0..2 |-> IF a = 1 THEN Attempt(1, x) ELSE Attempt(2, y)] :
                 x, y \in Outcomes}
\* Three ingests and a fault, or more ingests of which no request fails.
MCLimits == {[runs |-> 3, faults |-> 1], [runs |-> 4, faults |-> 0]}

\* Three runs and two cases; c is in both tiers, d in one of them only.
MCRuns == 1..3
MCTiersOf == [c |-> {"integration", "regression"}, d |-> {"regression"}]

\* A first bundle of two files, two further rounds, of which "clash" names a
\* file of the other too, and a bundle that claims the same run.
Content ==
    [first |-> [append |-> FALSE, files |-> (1 :> "failed" @@ 2 :> "passed")],
     round |-> [append |-> TRUE, files |-> (3 :> "passed")],
     clash |-> [append |-> TRUE, files |-> (3 :> "failed" @@ 4 :> "passed")],
     other |-> [append |-> FALSE, files |-> (3 :> "passed")]]
Both == {"error", "crash"}

\* Rivals for a run.
Rivals == INSTANCE BundleIngest
            WITH Bundles <- {"first", "other", "round"}, MaxFaults <- 3, MaxAgain <- 1,
                 FaultsOf <- [junit |-> Both, vllm |-> Both, sendnn |-> Both,
                              benchmarks |-> Both, tables |-> Both],
                 rows <- results, verdicts <- bundleVerdicts, job <- bundleJob,
                 faults <- bundleFaults, again <- uploads

\* A run and its rounds, whose JUnit files are written without an error.  Tables
\* are left out: their rows do not name their upload, so that a round of tables is
\* refused for what its own earlier try left.
Rounds == INSTANCE BundleIngest
            WITH Bundles <- {"first", "round", "clash"}, MaxFaults <- 3, MaxAgain <- 1,
                 FaultsOf <- [junit |-> {"crash"}, vllm |-> Both, sendnn |-> Both,
                              benchmarks |-> Both],
                 rows <- results, verdicts <- bundleVerdicts, job <- bundleJob,
                 faults <- bundleFaults, again <- uploads, outcome <- roundOutcome

-----------------------------------------------------------------------------
bundleVars == <<kind, results, bundleVerdicts, bundleJob, bundleFaults, uploads>>
allVars == <<part, vars, caseVars, copyVars, bundleVars, outcome, roundOutcome>>

AnyInit ==
    /\ part \in {"batches", "cases", "reuse", "rivals", "rounds"}
    /\ Init /\ CaseInit /\ CopyInit /\ Rivals!Init
    /\ roundOutcome = [b \in {"first", "round", "clash"} |-> "new"]
    /\ part = "rounds" => kind \in Rounds!Kinds
    /\ part # "batches" => mode = [probe |-> TRUE, idempotent |-> FALSE] /\ count = 0
    /\ part # "cases" => /\ limit = CHOOSE l \in Limits : TRUE
                         /\ report = CHOOSE r \in Reports : TRUE
    /\ part \notin {"rivals", "rounds"} => kind = "junit"

AnyNext ==
    /\ UNCHANGED part
    /\ \/ /\ part = "batches" /\ Next
          /\ UNCHANGED <<caseVars, copyVars, bundleVars, outcome, roundOutcome>>
       \/ /\ part = "cases" /\ CaseNext
          /\ UNCHANGED <<vars, copyVars, bundleVars, outcome, roundOutcome>>
       \/ /\ part = "reuse" /\ CopyNext
          /\ UNCHANGED <<vars, caseVars, bundleVars, outcome, roundOutcome>>
       \/ /\ part = "rivals" /\ Rivals!Next
          /\ UNCHANGED <<vars, caseVars, copyVars, roundOutcome>>
       \/ /\ part = "rounds" /\ Rounds!Next
          /\ UNCHANGED <<vars, caseVars, copyVars, outcome>>

\* The fairness of insert_chunks and of the relay that calls for each bundle.
AnyFairness ==
    /\ WF_vars(part = "batches" /\ Client)
    /\ WF_vars(part = "batches" /\ LateCommit)
    /\ WF_<<bundleVars, roundOutcome>>(part = "rounds" /\ (Rounds!Write \/ Rounds!Verdict))
    /\ \A b \in {"first", "round", "clash"} :
         WF_<<bundleVars, roundOutcome>>(part = "rounds" /\ Rounds!Retry(b))

AnySpec == AnyInit /\ [][AnyNext]_allVars /\ AnyFairness
-----------------------------------------------------------------------------
(* However often a bundle is tried again after an error, a lost answer or a
   crash, none of its files is stored twice (but for the benchmark rows of a
   tables bundle, which write_tables does not look for), it has at most one
   verdict, its run has one first bundle, and a round that is not of tables is
   not refused for the rows its own earlier try left (existing_run,
   append_target). *)
RetriesHarmless ==
    /\ Rivals!NoDoubling /\ Rivals!VerdictOnce
    /\ part # "rounds" => Rivals!TypeOK
    /\ part = "rounds" => Rounds!TypeOK /\ Rounds!RoundNotRefused

(* The newest verdict is that of all recorded bundles: their durations once
   each, and no failure undone by a later passing round; and exit code 0 means
   that every file of the bundle is stored, if JUnit files are written without
   error (recount_junit). *)
VerdictCovers ==
    part = "rounds" => Rounds!VerdictCovers /\ Rounds!IngestedComplete

(* Every call of insert_chunks ends, and every bundle is settled in the end:
   exit code 1 always means that trying again can succeed. *)
AllSettle ==
    /\ part = "batches" => Terminates
    /\ part = "rounds" => Rounds!AllSettle
=============================================================================
