------------------------------ MODULE CaseRows ------------------------------
(***************************************************************************)
(* Which outcome rows of a run make which others redundant: _restates,     *)
(* _one_per_case and _keep_prior of clickhouse-ingest's TestResultWriter.  *)
(* An outcome is a status and a mark, which stands for the duration and    *)
(* the failure message; ranIn names the run that executed the case.        *)
(***************************************************************************)
EXTENDS Naturals

Copied(run, r) == r.ranIn # run
Ran(run, r) == ~Copied(run, r) /\ r.status # "skipped"
SameOutcome(a, b) == a.status = b.status /\ a.mark = b.mark

\* Mutant: a newer attempt replaces an older one whichever file it is of.
RestatesAnyFile(run, a, b) ==
    IF Ran(run, a) /\ Copied(run, b) THEN TRUE
    ELSE IF Copied(run, a) = Copied(run, b) /\ a.attempt # b.attempt
         THEN a.attempt > b.attempt
         ELSE IF a.file = b.file THEN SameOutcome(a, b)
              ELSE Ran(run, a) /\ ~Ran(run, b) /\ ~Copied(run, b)

\* Does row a make row b of the same case redundant in the run's counts?
Restates(run, a, b) ==
    IF Ran(run, a) /\ Copied(run, b) THEN TRUE
    ELSE IF a.file = b.file /\ Copied(run, a) = Copied(run, b)
         THEN IF a.attempt # b.attempt THEN a.attempt > b.attempt
              ELSE SameOutcome(a, b)
         ELSE Ran(run, a) /\ ~Ran(run, b) /\ ~Copied(run, b)

\* Of the rows of one call, the places K that no earlier one of K restates.
Unrepeated(run, new, K) ==
    \A i \in DOMAIN new :
        i \in K <=> ~\E j \in K : /\ j < i /\ new[j].case = new[i].case
                                  /\ Restates(run, new[j], new[i])

WithoutRepeats(run, new) == CHOOSE K \in SUBSET DOMAIN new : Unrepeated(run, new, K)

Held(r, rows) == {h \in rows : h.case = r.case}

\* Those of them that no row the run holds restates.
Keep(run, new, rows) ==
    {i \in WithoutRepeats(run, new) :
        \A h \in Held(new[i], rows) : ~Restates(run, h, new[i])}

\* The held rows that row r makes redundant.
Replaced(run, r, rows) == {h \in Held(r, rows) : Restates(run, r, h)}

\* The mark a replaced older attempt leaves: its failure, if it was another
\* execution, else the mark that it carried itself.
MarkOf(h, r) ==
    IF ~SameOutcome(h, r) /\ h.status = "failed" THEN "failed" ELSE h.prior

\* The newest mark of an older attempt of the file that r replaces.
KeepPrior(run, r, rows) ==
    LET older == {h \in Replaced(run, r, rows) :
                      /\ h.attempt < r.attempt
                      /\ h.file = r.file
                      /\ ~Copied(run, h)
                      /\ MarkOf(h, r) # "none"}
    IN  IF r.prior # "none" \/ older = {} THEN r
        ELSE LET newest == CHOOSE h \in older :
                               \A g \in older : g.attempt <= h.attempt
             IN  [r EXCEPT !.prior = MarkOf(newest, r)]

\* The rows to insert, and the held ones they make redundant.
OnePerCase(run, new, rows) ==
    LET keep == Keep(run, new, rows)
    IN  [keep |-> [i \in keep |-> KeepPrior(run, new[i], rows)],
         superseded |-> UNION {Replaced(run, new[i], rows) : i \in keep}]
=============================================================================
