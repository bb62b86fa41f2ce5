----------------------------- MODULE CaseIngest -----------------------------
(***************************************************************************)
(* The JUnit half of clickhouse-ingest's results.py: one ingest of a run   *)
(* walks the report files, and for each one asks whether its rows landed,  *)
(* drops an older attempt's, inserts the outcomes batch by batch, and      *)
(* deletes what they supersede.  The counters table is fed by a            *)
(* materialized view on every insert and recounted after every delete.     *)
(* Every request may fail, before or after the server executed it, and the *)
(* process may die between any two.  Ingests of one run queue behind each  *)
(* other, so one runs at a time; any attempt's may come (again) later.     *)
(***************************************************************************)
EXTENDS CaseRows, Sequences, FiniteSets

CONSTANTS
    RunId,
    Files,        \* the report files, as a sequence: the order main() walks
    RunAttempts,  \* the values of --run-attempt; 0 is a re-ingest without one
    Reports,      \* the reports: [attempts -> [files -> outcomes, in order]]
    Declares,     \* the files that declare capability verdicts
    Limits        \* [runs, faults]: how many ingests of the run are started, and
                  \* how many requests fail or processes die

FileSet == {Files[i] : i \in DOMAIN Files}

ASSUME FilesAssumption == Files \in Seq(STRING) /\ Files # <<>>
ASSUME RunAttemptsAssumption == RunAttempts \subseteq Nat
ASSUME ReportsAssumption ==
    Reports \subseteq
        [RunAttempts ->
            [FileSet -> Seq([case : STRING, status : {"passed", "failed", "skipped"},
                             mark : Nat])]]
ASSUME LimitsAssumption == Limits \subseteq [runs : Nat, faults : Nat]

VARIABLES
    limit,     \* the bounds of this behaviour
    report,    \* what each file reports on each attempt
    caseRows,  \* test_case_runs of the run: rows with a unique uid
    counter,   \* run_case_counters: total_tests, summed over its rows
    verdicts,  \* capability_runs: <<file, attempt>>
    job,       \* the ingest at work
    started,   \* ingests started so far
    faults,    \* faults so far
    uid,       \* the next audit_uuid
    failedOn,  \* history: <<file, case, attempt>> of every failure recorded
    clean      \* history: has the latest ingest had no fault?

\* What a step of an ingest leaves alone.
around == <<limit, report, started, faults, clean>>
caseVars == <<around, caseRows, counter, verdicts, job, uid, failedOn>>

Idle == [pc |-> "idle"]
CaseRow(r, f, a) ==
    [case |-> r.case, status |-> r.status, mark |-> r.mark, prior |-> "none",
     ranIn |-> RunId, file |-> f, attempt |-> a]

CaseInit ==
    /\ limit \in Limits
    /\ report \in Reports
    /\ caseRows = {}
    /\ counter = 0
    /\ verdicts = {}
    /\ job = Idle
    /\ started = 0
    /\ faults = 0
    /\ uid = 0
    /\ failedOn = {}
    /\ clean = TRUE

Running == job.pc # "idle"
File == Files[job.at]
OfFile(f) == {r \in caseRows : r.file = f}
At(pc) == job.pc = pc
Goto(pc) == job' = [job EXCEPT !.pc = pc]

\* main() goes on to the next file, whether this one was written or failed.
NextFile ==
    job' = IF job.at = Len(Files) THEN Idle
           ELSE [job EXCEPT !.pc = "check", !.at = @ + 1]

-----------------------------------------------------------------------------
Start ==
    /\ ~Running
    /\ started < limit.runs
    /\ started' = started + 1
    /\ clean' = TRUE
    /\ \E a \in RunAttempts :
          job' = [pc |-> "check", attempt |-> a, at |-> 1,
                  keep |-> <<>>, superseded |-> {}, then |-> "none"]
    /\ UNCHANGED <<limit, report, caseRows, counter, verdicts, faults, uid, failedOn>>

\* already_ingested: rows of this attempt of the file, or of a later one.
AlreadyIngested(f, a) == \E r \in OfFile(f) : r.attempt >= a

\* Mutant: an older attempt that comes late is taken for a new one.
CheckSameAttempt ==
    /\ At("check")
    /\ IF \E r \in OfFile(File) : r.attempt = job.attempt
       THEN NextFile ELSE Goto("drop")
    /\ UNCHANGED <<around, caseRows, counter, verdicts, uid, failedOn>>

Check ==
    /\ At("check")
    /\ IF AlreadyIngested(File, job.attempt) THEN NextFile ELSE Goto("drop")
    /\ UNCHANGED <<around, caseRows, counter, verdicts, uid, failedOn>>

\* drop_older_attempts: the rows first, then a recount, then the verdicts.
Older(f, a) == {r \in OfFile(f) : r.attempt < a}

DropRows ==
    /\ At("drop")
    /\ IF Older(File, job.attempt) # {}
       THEN /\ caseRows' = caseRows \ Older(File, job.attempt)
            /\ job' = [job EXCEPT !.pc = "clear", !.then = "dropVerdicts"]
       ELSE UNCHANGED caseRows /\ Goto("dropVerdicts")
    /\ UNCHANGED <<around, counter, verdicts, uid, failedOn>>

DropVerdicts ==
    /\ At("dropVerdicts")
    /\ verdicts' = {v \in verdicts : v[1] # File \/ v[2] >= job.attempt}
    /\ Goto("plan")
    /\ UNCHANGED <<around, caseRows, counter, uid, failedOn>>

\* _rebuild_counters: one DELETE, one INSERT ... SELECT count().
ClearCounters ==
    /\ At("clear")
    /\ counter' = 0
    /\ Goto("recount")
    /\ UNCHANGED <<around, caseRows, verdicts, uid, failedOn>>

Recount ==
    /\ At("recount")
    /\ counter' = counter + Cardinality(caseRows)
    /\ IF job.then = "next" THEN NextFile ELSE Goto(job.then)
    /\ UNCHANGED <<around, caseRows, verdicts, uid, failedOn>>

\* _one_per_case reads the rows of the run that these cases have already.
Plan ==
    /\ At("plan")
    /\ LET new == [i \in DOMAIN report[job.attempt][File] |->
                       CaseRow(report[job.attempt][File][i], File, job.attempt)]
           todo == OnePerCase(RunId, new, caseRows)
       IN  job' = [job EXCEPT !.pc = "insert", !.keep = todo.keep,
                              !.superseded = todo.superseded]
    /\ UNCHANGED <<around, caseRows, counter, verdicts, uid, failedOn>>

\* A row as the table holds it.
Stored(r) ==
    [case |-> r.case, status |-> r.status, mark |-> r.mark, prior |-> r.prior,
     ranIn |-> r.ranIn, file |-> r.file, attempt |-> r.attempt, uid |-> uid]

\* One batch (here one row) is stored, and the view counts it at once.
Store(r) ==
    /\ caseRows' = caseRows \union {Stored(r)}
    /\ uid' = uid + 1
    /\ counter' = counter + 1
    /\ failedOn' = IF r.status = "failed"
                   THEN failedOn \union {<<r.file, r.case, r.attempt>>}
                   ELSE failedOn

InsertBatch ==
    /\ At("insert")
    /\ IF DOMAIN job.keep # {}
       THEN \E i \in DOMAIN job.keep :
                /\ Store(job.keep[i])
                /\ job' = [job EXCEPT !.keep = [j \in DOMAIN @ \ {i} |-> @[j]]]
       ELSE Goto("verdicts") /\ UNCHANGED <<caseRows, uid, counter, failedOn>>
    /\ UNCHANGED <<around, verdicts>>

\* Verdicts are written unless the file has some already.
InsertVerdicts ==
    /\ At("verdicts")
    /\ verdicts' = IF File \in Declares /\ \A v \in verdicts : v[1] # File
                   THEN verdicts \union {<<File, job.attempt>>} ELSE verdicts
    /\ IF job.superseded = {} THEN NextFile ELSE Goto("supersede")
    /\ UNCHANGED <<around, caseRows, counter, uid, failedOn>>

DeleteSuperseded ==
    /\ At("supersede")
    /\ caseRows' = caseRows \ job.superseded
    /\ job' = [job EXCEPT !.pc = "clear", !.then = "next"]
    /\ UNCHANGED <<around, counter, verdicts, uid, failedOn>>

Step == \/ Check \/ DropRows \/ DropVerdicts \/ ClearCounters \/ Recount
        \/ Plan \/ InsertBatch \/ InsertVerdicts \/ DeleteSuperseded

-----------------------------------------------------------------------------
\* A request errors: main() reports the file and goes on to the next.  One that
\* errors after the server executed it is its step followed by this one.
RequestFails ==
    /\ Running
    /\ faults < limit.faults
    /\ faults' = faults + 1
    /\ clean' = FALSE
    /\ NextFile
    /\ UNCHANGED <<limit, report, caseRows, counter, verdicts, started, uid, failedOn>>

\* The process dies.
Crash ==
    /\ Running
    /\ faults < limit.faults
    /\ faults' = faults + 1
    /\ clean' = FALSE
    /\ job' = Idle
    /\ UNCHANGED <<limit, report, caseRows, counter, verdicts, started, uid, failedOn>>

CaseFinished ==
    /\ ~Running
    /\ started = limit.runs
    /\ UNCHANGED caseVars

CaseNext == Start \/ Step \/ RequestFails \/ Crash \/ CaseFinished

CaseSpec == CaseInit /\ [][CaseNext]_caseVars

-----------------------------------------------------------------------------
RowType ==
    [case : STRING, status : {"passed", "failed", "skipped"}, mark : Nat,
     prior : {"none", "failed"}, ranIn : {RunId}, file : FileSet,
     attempt : RunAttempts, uid : Nat]

\* Every stored row has its fields and a uid given out before, and the ingest
\* is at one of the requests of main and insert.
CaseTypeOK ==
    /\ \A r \in caseRows : r \in RowType /\ r.uid < uid
    /\ counter \in Nat
    /\ verdicts \subseteq FileSet \X RunAttempts
    /\ job.pc \in {"idle", "check", "drop", "dropVerdicts", "clear", "recount",
                   "plan", "insert", "verdicts", "supersede"}

(* "rather than leaving two attempts' rows under one run_id" (results.py): the
   outcomes a file has in the run, and its verdicts, are of one attempt,
   whatever request failed and whichever attempt is ingested (again) later. *)
OneAttemptPerFile ==
    /\ \A r, s \in caseRows : r.file = s.file => r.attempt = s.attempt
    /\ \A v, w \in verdicts : v[1] = w[1] => v = w

(* Re-ingesting a run is idempotent: no outcome of a case is stored twice for
   one file, though ingests fail half way and are started again. *)
NoRepeats ==
    \A r, s \in caseRows :
        r.file = s.file /\ r.case = s.case /\ SameOutcome(r, s) => r = s

\* What a step may remove: an executed outcome only while the rows of an older
\* attempt of its own file are dropped.
RemovedByDrop ==
    \A r \in caseRows :
        Ran(RunId, r) /\ r \notin caseRows' =>
            At("drop") /\ File = r.file /\ job.attempt > r.attempt

(* An executed outcome leaves the table only in the drop step of an ingest of a
   newer attempt of its own file: no other file, no skip and nothing that fails
   before that step removes it.  The drop comes before the insert (results.py),
   so an ingest that fails between the two leaves the file without the outcome
   until the file is ingested again. *)
ExecutedKept == [][RemovedByDrop]_caseVars

(* run_case_counters "sums rows" (test_one_outcome_per_case.py): after an
   ingest without a fault it counts each stored outcome once. *)
CountersCount ==
    ~Running /\ clean => counter = Cardinality(caseRows)

(* With no fault at all, a skip is not counted beside another file's executed
   outcome of the same case, in whichever order the files and attempts came. *)
SkipsGiveWay ==
    ~Running /\ faults = 0 =>
        ~\E r, s \in caseRows : r.case = s.case /\ r.file # s.file
                            /\ Ran(RunId, r) /\ s.status = "skipped"

(* A run holds one outcome per case: a file's rows and verdicts are of one
   attempt, whatever request failed and whichever attempt is ingested later; no
   outcome is stored twice for one file; and, when no request fails, a skip is
   not counted beside another file's execution of the case, and
   run_case_counters counts each stored outcome once (results.py, insert). *)
OneOutcomePerCase ==
    /\ CaseTypeOK /\ OneAttemptPerFile /\ NoRepeats
    /\ limit.faults = 0 => CountersCount /\ SkipsGiveWay

(* _keep_prior: "Stamp on `row` the newest failure of an older attempt it
   replaces, else it is lost": a pass that replaces a failure recorded by an
   older attempt of its file says so. *)
PriorKept ==
    ~Running /\ faults = 0 =>
        \A r \in caseRows :
            /\ r.status = "passed"
            /\ \E a \in RunAttempts :
                   a < r.attempt /\ <<r.file, r.case, a>> \in failedOn
            => r.prior = "failed"
=============================================================================
