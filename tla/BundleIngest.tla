---------------------------- MODULE BundleIngest ----------------------------
(***************************************************************************)
(* `results --from-bundle` (bundle.py): offline results bundles recorded   *)
(* under ONE run id, by a relay that calls the command for one bundle at a *)
(* time and again after exit code 1.  A bundle is first of its run or,     *)
(* with --append-to-run, a further round.  Every insert may fail, stored   *)
(* or not; the process may die between two of them.  No file exceeds one   *)
(* insert batch (5000 rows), and no round was retracted (an administrator  *)
(* of the dashboard does that): v_retracted_rounds is empty.               *)
(*                                                                         *)
(* A file is its number, in the order the code takes them; for a `tables`  *)
(* bundle 1, 2, 3 are test_case_runs, benchmark_runs, capability_runs.     *)
(* All of a file's cases share one status and last one unit together.     *)
(***************************************************************************)
EXTENDS Naturals, Sequences, FiniteSets, FiniteSetsExt

CONSTANTS
    Bundles,    \* the bundles (their digests) that name this run
    Content,    \* bundle -> [append: BOOLEAN, files: number -> status]
    FaultsOf,   \* kind of run -> which of "error", "crash" may happen
    MaxFaults,
    MaxAgain    \* re-uploads of a bundle that was settled already

VARIABLES
    kind,       \* the kind of the run's bundles
    rows,       \* stored result rows, one per file written
    verdicts,   \* artifact_results of the run, oldest first
    job,        \* the call in progress, or NoJob
    outcome,    \* bundle -> what its last call reported, "new" until one did
    faults, again

vars == <<kind, rows, verdicts, job, outcome, faults, again>>
budget == <<faults, again>>

NoJob == [phase |-> "idle"]
Kinds == DOMAIN FaultsOf
Settled == {"ingested", "duplicate", "rejected"}
BenchTable == 2

Appends(b) == Content[b].append
Names(b) == DOMAIN Content[b].files
FailedFiles(b) == {n \in Names(b) : Content[b].files[n] = "failed"}

Init ==
    /\ kind \in Kinds
    /\ rows = {} /\ verdicts = <<>>
    /\ job = NoJob
    /\ outcome = [b \in Bundles |-> "new"]
    /\ faults = 0 /\ again = 0

-----------------------------------------------------------------------------
Digests == {verdicts[i].sha : i \in DOMAIN verdicts}

\* The files whose cases the run holds: test_case_runs only.
CaseFiles ==
    {r.name : r \in {x \in rows :
                 kind = "junit" \/ (kind = "tables" /\ x.name # BenchTable)}}

\* File names the run's other uploads hold; vLLM rows name no file.
Taken(b) ==
    {r.name : r \in {x \in rows : kind # "vllm" /\ x.upload # b}}
        \union UNION {verdicts[i].names : i \in DOMAIN verdicts}

\* Mutant: a retried round's own rows count as another's.
TakenByAny(b) ==
    {r.name : r \in {x \in rows : kind # "vllm"}}
        \union UNION {verdicts[i].names : i \in DOMAIN verdicts}

CheckAppendByAny(b) == verdicts # <<>> /\ Names(b) \intersect TakenByAny(b) = {}

CheckAppend(b) == verdicts # <<>> /\ Names(b) \intersect Taken(b) = {}

\* What _ingest decides from the reads it makes before any write.
Admission(b) ==
    CASE Appends(b) /\ b \in Digests -> "duplicate"
      [] Appends(b) -> IF CheckAppend(b) THEN "write" ELSE "rejected"
      [] Digests = {b} -> "duplicate"
      [] Digests # {} -> "rejected"
      [] CaseFiles \subseteq Names(b) -> "write"
      [] OTHER -> "rejected"

Call(b) ==
    /\ job = NoJob
    /\ IF Admission(b) = "write"
       THEN /\ job' = [phase |-> "write", b |-> b, todo |-> Names(b),
                       seen |-> {}]
            /\ outcome' = [outcome EXCEPT ![b] = "new"]
       ELSE /\ outcome' = [outcome EXCEPT ![b] = Admission(b)]
            /\ UNCHANGED job
    /\ UNCHANGED <<kind, rows, verdicts>>

Retry(b) == outcome[b] \notin Settled /\ Call(b) /\ UNCHANGED budget

ReUpload(b) ==
    /\ outcome[b] \in Settled /\ again < MaxAgain
    /\ again' = again + 1
    /\ Call(b)
    /\ UNCHANGED faults

-----------------------------------------------------------------------------
Report(status) ==
    /\ outcome' = [outcome EXCEPT ![job.b] = status]
    /\ job' = NoJob

\* vLLM rows of a leg are one insert, the other kinds insert per file.
Turn == IF kind = "vllm" THEN job.todo ELSE {Min(job.todo)}

\* Is there nothing of these files left to insert?
Landed(ns) ==
    CASE kind = "vllm" ->
            \E r \in rows : Appends(job.b) => r.upload = job.b
      [] kind = "tables" ->
            ns # {BenchTable} /\ \E r \in rows :
                r.name \in ns /\ r.failed = (r.name \in FailedFiles(job.b))
      [] OTHER -> \E r \in rows : r.name \in ns

NewRows(ns) ==
    {[name |-> n, of |-> job.b, failed |-> n \in FailedFiles(job.b),
      upload |-> IF kind = "tables" THEN "" ELSE job.b,
      uid |-> Cardinality(rows) + n] : n \in ns}

\* Mutant: a file found stored is not counted towards the verdict.
WriteUncounted ==
    /\ job.phase = "write" /\ job.todo # {}
    /\ job' = [job EXCEPT !.todo = @ \ Turn,
                          !.seen = IF Landed(Turn) THEN @ ELSE @ \union Turn]
    /\ rows' = IF Landed(Turn) THEN rows ELSE rows \union NewRows(Turn)
    /\ UNCHANGED <<kind, verdicts, outcome, budget>>

\* One file (or leg) checked and inserted; job.seen feeds the verdict.
Write ==
    /\ job.phase = "write" /\ job.todo # {}
    /\ job' = [job EXCEPT !.todo = @ \ Turn, !.seen = @ \union Turn]
    /\ rows' = IF Landed(Turn) THEN rows ELSE rows \union NewRows(Turn)
    /\ UNCHANGED <<kind, verdicts, outcome, budget>>

\* The insert raises: `results` goes on with the next file, the other
\* writers fail the call.
WriteError(stored) ==
    /\ job.phase = "write" /\ job.todo # {}
    /\ rows' = IF stored /\ ~Landed(Turn) THEN rows \union NewRows(Turn)
               ELSE rows
    /\ IF kind = "junit"
       THEN job' = [job EXCEPT !.todo = @ \ Turn] /\ UNCHANGED outcome
       ELSE Report("failed")
    /\ UNCHANGED <<kind, verdicts>>

-----------------------------------------------------------------------------
Prior == verdicts[Len(verdicts)]

State(failed) == IF failed THEN "failed" ELSE "passed"

\* A benchmark round over what the run held: worst state, added durations.
OverPrior(state, dur) ==
    IF Appends(job.b)
    THEN [state |-> State("failed" \in {state, Prior.state}),
          dur |-> dur + Prior.dur]
    ELSE [state |-> state, dur |-> dur]

OwnRows == {r \in rows : r.upload = job.b}

\* The verdict the call would add: of the files seen for `results`, of the
\* whole run for a round, else the bundle's own.
Judged ==
    CASE job.phase = "recount" ->
            [state |-> State(\E r \in rows : r.failed),
             dur |-> Prior.dur + Cardinality(OwnRows)]
      [] kind = "junit" ->
            [state |-> State(job.seen \intersect FailedFiles(job.b) # {}),
             dur |-> Cardinality(job.seen)]
      [] kind = "vllm" ->
            OverPrior(State(FailedFiles(job.b) # {}), Cardinality(Names(job.b)))
      [] kind = "tables" ->
            [state |-> State(FailedFiles(job.b) \ {BenchTable} # {}), dur |-> 0]
      [] OTHER -> OverPrior("passed", 0)

\* write_tables never asks to supersede.
Supersedes ==
    /\ Appends(job.b)
    /\ job.phase = "recount" \/ kind \notin {"junit", "tables"}

\* insert_result: nothing without a leg, nothing over a recorded verdict
\* unless a round supersedes it.
Due == /\ kind = "junit" /\ job.phase = "write" => job.seen # {}
       /\ Supersedes \/ verdicts = <<>>

\* Mutant: a round's verdict is its own alone.
RecordedOwn ==
    IF Due THEN Append(verdicts, [sha |-> job.b, names |-> Names(job.b),
                                  state |-> State(FailedFiles(job.b) # {}),
                                  dur |-> Cardinality(Names(job.b))])
    ELSE verdicts

Recorded ==
    IF Due THEN Append(verdicts, [sha |-> job.b, names |-> Names(job.b),
                                  state |-> Judged.state, dur |-> Judged.dur])
    ELSE verdicts

Recounts == kind = "junit" /\ Appends(job.b) /\ job.phase = "write"

AtVerdict == job.phase = "recount" \/ (job.phase = "write" /\ job.todo = {})

\* After the verdict: the recount of a junit round, or the final check that
\* some verdict of the tier is there.
Conclude ==
    IF Recounts THEN job' = [job EXCEPT !.phase = "recount"] /\ UNCHANGED outcome
    ELSE Report(IF verdicts' # <<>> THEN "ingested" ELSE "failed")

Verdict ==
    /\ AtVerdict
    /\ verdicts' = Recorded
    /\ Conclude
    /\ UNCHANGED <<kind, rows, budget>>

\* The insert raises: swallowed by `results` unless --strict, a retry for
\* the other writers and the recount.
VerdictError(stored, strict) ==
    /\ AtVerdict
    /\ verdicts' = IF stored THEN Recorded ELSE verdicts
    /\ IF kind = "junit" /\ job.phase = "write" /\ ~strict
       THEN Conclude ELSE Report("failed")
    /\ UNCHANGED <<kind, rows>>

Fault(f) ==
    /\ f \in FaultsOf[kind] /\ faults < MaxFaults
    /\ faults' = faults + 1
    /\ UNCHANGED again

InsertError ==
    /\ Fault("error")
    /\ \E stored, strict \in BOOLEAN :
          WriteError(stored) \/ VerdictError(stored, strict)

Crash == /\ job # NoJob /\ Fault("crash")
         /\ job' = NoJob
         /\ UNCHANGED <<kind, rows, verdicts, outcome>>

Finished ==
    /\ job = NoJob /\ again = MaxAgain
    /\ \A b \in Bundles : outcome[b] \in Settled
    /\ UNCHANGED vars

Next ==
    \/ \E b \in Bundles : Retry(b) \/ ReUpload(b)
    \/ Write \/ Verdict \/ InsertError \/ Crash
    \/ Finished

Spec == Init /\ [][Next]_vars

\* The command runs to its end unless it dies, and the relay calls it again
\* for every bundle that is not settled.
FairSpec ==
    Spec /\ WF_vars(Write \/ Verdict) /\ \A b \in Bundles : WF_vars(Retry(b))

-----------------------------------------------------------------------------
\* The shape of the store and of the call in progress: a verdict belongs to
\* a bundle and covers at least one file of it, and a call counts only
\* files it is done with.
TypeOK ==
    /\ \A r \in rows : r.of \in Bundles /\ r.name \in Names(r.of)
    /\ \A i \in DOMAIN verdicts :
          /\ verdicts[i].sha \in Bundles
          /\ verdicts[i].state \in {"passed", "failed"} /\ verdicts[i].dur \in Nat
          /\ verdicts[i].names = Names(verdicts[i].sha)
    /\ job # NoJob =>
          /\ job.phase \in {"write", "recount"}
          /\ job.seen \intersect job.todo = {}
          /\ job.seen \union job.todo \subseteq Names(job.b)
    /\ outcome \in [Bundles -> Settled \union {"new", "failed"}]

\* write_tables inserts the benchmark rows without a look at what is stored.
Unchecked(r) == kind = "tables" /\ r.name = BenchTable

\* The writes dedup: however often a bundle is tried again after an error, a
\* lost answer or a crash, none of its files is stored twice, except the
\* benchmark rows of a tables bundle, which every retry stores again.
NoDoubling ==
    \A r, s \in rows : (r.of = s.of /\ r.name = s.name /\ ~Unchecked(r)) => r = s

\* A bundle has at most one verdict and a run at most one first bundle, a
\* verdict insert whose answer was lost included (existing_run).
VerdictOnce ==
    \A i, j \in DOMAIN verdicts :
        \/ i = j
        \/ /\ verdicts[i].sha # verdicts[j].sha
           /\ Appends(verdicts[i].sha) \/ Appends(verdicts[j].sha)

\* A round is never refused for the rows its own earlier try left
\* (append_target).  vLLM rows name no file, so nothing keeps another round
\* from taking the name in between: that kind is left out.
RoundNotRefused ==
    \A b \in Bundles :
        (outcome[b] = "rejected" /\ Appends(b) /\ kind # "vllm") =>
            \A r \in rows : r.of # b

\* A re-upload of recorded content is a duplicate: no bundle that has its
\* verdict is reported rejected.
ReUploadIsDuplicate ==
    \A b \in Bundles : outcome[b] = "rejected" => b \notin Digests

\* Exit code 0 means the results are recorded: every file of a bundle
\* reported ingested or duplicate is stored.
IngestedComplete ==
    \A b \in Bundles :
        outcome[b] \in {"ingested", "duplicate"} =>
            \A n \in Names(b) : \E r \in rows : r.of = b /\ r.name = n

\* The newest verdict, which every view reads, is the run's: its duration is
\* that of all recorded bundles, each once, and a failure in any of them is
\* not undone by a later passing round (over_prior, recount_junit).
VerdictCovers ==
    verdicts # <<>> =>
        /\ kind \in {"junit", "vllm"} =>
              /\ Prior.dur = MapThenSumSet(LAMBDA b : Cardinality(Names(b)), Digests)
              /\ (\E b \in Digests : FailedFiles(b) # {}) => Prior.state = "failed"
        /\ kind \in {"sendnn", "benchmarks"} => Prior.dur = 0

\* A run key that other results took is refused: a recorded run holds no
\* rows of a first bundle other than the one recorded.
OneFirstBundle ==
    \A r \in rows :
        (~Appends(r.of) /\ verdicts # <<>>) => r.of = verdicts[1].sha

\* Every bundle is settled in the end: exit code 1 always means that trying
\* again can succeed, so what an interrupted call left never wedges it.
AllSettle == \A b \in Bundles : <>[](outcome[b] \in Settled)
=============================================================================
