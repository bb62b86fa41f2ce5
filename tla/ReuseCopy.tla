----------------------------- MODULE ReuseCopy -----------------------------
(***************************************************************************)
(* copy_reused_cases of clickhouse-ingest: a run that executes only part   *)
(* of its tiers copies the other cases' rows from the runs that cover      *)
(* them, keeping in ran_in the run that executed each case.  Runs are      *)
(* numbered in the order they start; a covering run is an earlier one that *)
(* has reported and takes no more rows.                                    *)
(* The run's own outcomes go through the writer's one-outcome-per-case     *)
(* rules, before or after the copies.                                      *)
(***************************************************************************)
EXTENDS CaseRows

CONSTANTS
    Runs,      \* 1..n
    Cases,
    Tiers,
    TiersOf,   \* TiersOf[c]: the tiers that case c's tags name
    MaxCopies  \* how many copies are asked for

ASSUME RunsAssumption == Runs \subseteq Nat \ {0}
ASSUME MaxCopiesAssumption == MaxCopies \in Nat

VARIABLES
    runRows,   \* runRows[r]: the test_case_runs of run r
    executed,  \* history: [run, case, status] of every executed outcome
    served,    \* history: <<run, tier, source>> of every copy asked for
    copies     \* copies asked for so far

copyVars == <<runRows, executed, served, copies>>

Statuses == {"passed", "skipped"}
NoCopy == [copy |-> 0, from |-> 0]

CopyInit ==
    /\ runRows = [r \in Runs |-> {}]
    /\ executed = {}
    /\ served = {}
    /\ copies = 0

\* A run that covers another has reported and is closed.
Reported(r) == \E e \in executed : e.run = r
Open(r) == \A s \in served : s[3] # r

\* A row carries the copy that brought it, so that a repeat is another row.
RunRow(c, s, ranIn, via) ==
    [case |-> c, status |-> s, mark |-> 0, prior |-> "none", ranIn |-> ranIn,
     file |-> "f", attempt |-> 0, via |-> via]

\* The run's own report: what its rows make redundant is deleted.
OwnReport(r) ==
    \E outcome \in UNION {[S -> Statuses] : S \in SUBSET Cases \ {{}}} :
        LET new == {RunRow(c, outcome[c], r, NoCopy) : c \in DOMAIN outcome}
            keep == {n \in new : \A h \in Held(n, runRows[r]) : ~Restates(r, h, n)}
            replaced == UNION {Replaced(r, n, runRows[r]) : n \in keep}
        IN  /\ Open(r) /\ ~Reported(r)
            /\ runRows' = [runRows EXCEPT ![r] = (@ \ replaced) \union keep]
            /\ executed' = executed \union
                   {[run |-> r, case |-> c, status |-> outcome[c]] :
                        c \in DOMAIN outcome}
            /\ UNCHANGED <<served, copies>>

\* Have rows that src executed arrived in r already?
Present(r, src) == \E row \in runRows[r] : row.ranIn = src

OwnOutcome(r, c) ==
    \E row \in runRows[r] :
        row.case = c /\ row.status # "skipped" /\ row.ranIn = r

\* Mutant: the copy names the run it was copied from.
CopiesFromSource(r, tier, src) ==
    {RunRow(row.case, row.status, src, [copy |-> copies + 1, from |-> src]) :
        row \in {x \in runRows[src] :
                     tier \in TiersOf[x.case] /\ ~OwnOutcome(r, x.case)}}

\* The rows the INSERT ... SELECT yields: ran_in is kept as it is.
Copies(r, tier, src) ==
    {[row EXCEPT !.via = [copy |-> copies + 1, from |-> src]] :
        row \in {x \in runRows[src] :
                     tier \in TiersOf[x.case] /\ ~OwnOutcome(r, x.case)}}

Copy(r, tier, src) ==
    /\ Open(r) /\ Reported(src)
    /\ copies < MaxCopies
    /\ copies' = copies + 1
    /\ runRows' = IF Present(r, src) THEN runRows
                  ELSE [runRows EXCEPT ![r] = @ \union Copies(r, tier, src)]
    /\ served' = served \union {<<r, tier, src>>}
    /\ UNCHANGED executed

CopyNext ==
    \E r \in Runs :
        \/ OwnReport(r)
        \/ \E tier \in Tiers, src \in Runs : src < r /\ Copy(r, tier, src)

CopySpec == CopyInit /\ [][CopyNext]_copyVars

-----------------------------------------------------------------------------
\* Every row has its fields, names a run up to its own as its executor, and
\* is of a copy that was counted (copy_reused_cases).
CopyTypeOK ==
    /\ \A r \in Runs : \A row \in runRows[r] :
          /\ row.case \in Cases /\ row.status \in Statuses
          /\ row.ranIn \in 1..r /\ row.via.copy \in 0..copies
    /\ served \subseteq Runs \X Tiers \X Runs

(* "`props['ran_in']` is PRESERVED": through copies of copies, every row names
   a run that did execute the case, with the outcome the row reports. *)
RanInExecuted ==
    \A r \in Runs : \A row \in runRows[r] :
        [run |-> row.ranIn, case |-> row.case, status |-> row.status]
            \in executed

(* "Only a case this run executed itself replaces the copy": whichever comes
   first, a run never counts a copy beside an outcome it executed. *)
ExecutedWins ==
    \A r \in Runs :
        ~\E a, b \in runRows[r] :
            /\ a.case = b.case
            /\ a.ranIn = r /\ a.status # "skipped" /\ b.ranIn # r

(* Through copies of copies, every row names a run that did execute the case,
   with the outcome the row reports; and a run never counts a copy beside an
   outcome it executed itself, whichever came first (copy_reused_cases). *)
CopiesSound == CopyTypeOK /\ RanInExecuted /\ ExecutedWins

(* "a re-copy from the same source adds nothing" (tests/test_reuse_copy.py):
   however often a source is copied, it brings each of its outcomes once. *)
CopiedOnce ==
    \A r \in Runs : \A a, b \in runRows[r] :
        /\ a.case = b.case /\ a.ranIn = b.ranIn /\ a.status = b.status
        /\ a.via.from = b.via.from
        => a = b

(* "a delta run reports its whole tier": once a tier was copied from a
   covering run, every case the source holds of that tier is in the run. *)
TierWhole ==
    \A s \in served : \A row \in runRows[s[3]] :
        s[2] \in TiersOf[row.case] =>
            \E own \in runRows[s[1]] : own.case = row.case
=============================================================================
