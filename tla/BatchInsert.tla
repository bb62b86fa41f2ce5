---------------------------- MODULE BatchInsert ----------------------------
(***************************************************************************)
(* insert_chunks of clickhouse-ingest's batching.py: the rows of one call  *)
(* are sent as batches, one request each, to a table that keeps whatever   *)
(* it commits (a plain MergeTree has no key and no deduplication).  A      *)
(* request that errors may have been refused, may have been committed, or  *)
(* may still be committing when the client gives up on it.  The client     *)
(* resends only after a row-count probe of its own scope, repeated after a *)
(* settle delay, shows that nothing of the batch was kept.                 *)
(*                                                                         *)
(* Row counts are measured in batches: every batch holds at least one row, *)
(* so a stored batch always moves the count.                               *)
(***************************************************************************)
EXTENDS Naturals

CONSTANTS
    Batches,    \* how many batches the rows of the call make
    Attempts,   \* how often one batch may be sent
    MaxOthers,  \* rows other writers may add to the probed scope
    Settles     \* does the settle delay outlast a request the client gave up on?

ASSUME BatchesAssumption == Batches \in Nat \ {0}
ASSUME AttemptsAssumption == Attempts \in Nat \ {0}
ASSUME OthersAssumption == MaxOthers \in Nat
ASSUME SettlesAssumption == Settles \in BOOLEAN

VARIABLES
    mode,     \* the caller's already_landed probe and idempotent flag
    stored,   \* how many times the table holds each batch of this call
    count,    \* the rows of the scope, which is what the probe returns
    others,   \* rows other writers added since the call started
    base,     \* the count before the first batch was sent
    n,        \* the batch being sent; the n - 1 before it are done
    attempt,  \* the attempt at it
    lost,     \* batches of requests the client gave up on, which may yet commit
    again,    \* is the error of the last request retriable?
    pc

vars == <<mode, stored, count, others, base, n, attempt, lost, again, pc>>

Final == {"ok", "failed", "ambiguous"}
Modes == [probe : BOOLEAN, idempotent : BOOLEAN]

\* Without a probe a table that is not idempotent gets each batch once.
MaxAttempts == IF mode.probe \/ mode.idempotent THEN Attempts ELSE 1

Init ==
    /\ mode \in Modes
    /\ stored = [b \in 1..Batches |-> 0]
    /\ count \in 0..1
    /\ others = 0
    /\ base = 0
    /\ n = 1
    /\ attempt = 1
    /\ lost = {}
    /\ again = FALSE
    /\ pc = IF mode.probe THEN "base" ELSE "send"

-----------------------------------------------------------------------------
\* The count before anything is sent; nothing has been stored if it fails.
ProbeBase ==
    /\ pc = "base"
    /\ \/ base' = count /\ pc' = "send"
       \/ UNCHANGED base /\ pc' = "failed"
    /\ UNCHANGED <<mode, stored, count, others, n, attempt, lost, again>>

Commit(b) ==
    /\ stored' = [stored EXCEPT ![b] = @ + 1]
    /\ count' = count + 1

\* The request is answered: the batch is stored, and the next one starts.
SendOk ==
    /\ pc = "send"
    /\ Commit(n)
    /\ IF n = Batches
       THEN pc' = "ok" /\ UNCHANGED <<n, attempt>>
       ELSE pc' = "send" /\ n' = n + 1 /\ attempt' = 1
    /\ UNCHANGED <<mode, others, base, lost, again>>

\* What follows an error that kept nothing, or that nobody can ask about.
Retry(retriable) ==
    IF attempt = MaxAttempts \/ ~retriable
    THEN pc' = "failed" /\ UNCHANGED attempt
    ELSE pc' = "send" /\ attempt' = attempt + 1

\* The request errors: refused, committed all the same, or given up on while
\* the server still works on it.
SendError ==
    /\ pc = "send"
    /\ again' \in BOOLEAN
    /\ \/ UNCHANGED <<stored, count, lost>>
       \/ Commit(n) /\ UNCHANGED lost
       \/ lost' = lost \union {n} /\ UNCHANGED <<stored, count>>
    /\ IF mode.probe
       THEN pc' = "probe" /\ UNCHANGED attempt
       ELSE Retry(again')
    /\ UNCHANGED <<mode, others, base, n>>

\* The rows a failed batch n leaves when nothing of it was kept.
Expected == base + (n - 1)

\* Mutant: rows that appeared are taken for this batch, which counts as done.
ProbeAssumesLanded ==
    /\ pc = "probe"
    /\ IF count = Expected
       THEN pc' = "settle" /\ UNCHANGED <<n, attempt>>
       ELSE IF n = Batches
            THEN pc' = "ok" /\ UNCHANGED <<n, attempt>>
            ELSE pc' = "send" /\ n' = n + 1 /\ attempt' = 1
    /\ UNCHANGED <<mode, stored, count, others, base, lost, again>>

\* _kept_after asks twice: at once, and again after the settle delay.  A probe
\* that fails, or any other count, leaves the batch ambiguous.
Probe ==
    /\ pc = "probe"
    /\ \/ pc' = "ambiguous"
       \/ count = Expected /\ pc' = "settle"
    /\ UNCHANGED <<mode, stored, count, others, base, n, attempt, lost, again>>

\* Mutant: the second probe does not wait for a request still committing.
SettleAtOnce ==
    /\ pc = "settle"
    /\ \/ pc' = "ambiguous" /\ UNCHANGED attempt
       \/ count = Expected /\ Retry(again)
    /\ UNCHANGED <<mode, stored, count, others, base, n, lost, again>>

\* Mutant: an unexpected count is reported as a batch that was not stored.
SettleAsFailed ==
    /\ pc = "settle"
    /\ Settles => lost = {}
    /\ \/ count # Expected /\ pc' = "failed" /\ UNCHANGED attempt
       \/ count = Expected /\ Retry(again)
    /\ UNCHANGED <<mode, stored, count, others, base, n, lost, again>>

Settle ==
    /\ pc = "settle"
    /\ Settles => lost = {}
    /\ \/ pc' = "ambiguous" /\ UNCHANGED attempt
       \/ count = Expected /\ Retry(again)
    /\ UNCHANGED <<mode, stored, count, others, base, n, lost, again>>

-----------------------------------------------------------------------------
\* The server finishes, or drops, the request the client gave up on.
LateCommit ==
    /\ \E b \in lost :
          /\ lost' = lost \ {b}
          /\ \/ Commit(b)
             \/ UNCHANGED <<stored, count>>
    /\ UNCHANGED <<mode, others, base, n, attempt, again, pc>>

\* Another writer adds a row to the scope this call probes.
OtherWriter ==
    /\ others < MaxOthers
    /\ others' = others + 1
    /\ count' = count + 1
    /\ UNCHANGED <<mode, stored, base, n, attempt, lost, again, pc>>

Finished ==
    /\ pc \in Final
    /\ UNCHANGED vars

Client == ProbeBase \/ SendOk \/ SendError \/ Probe \/ Settle

Next == Client \/ LateCommit \/ OtherWriter \/ Finished

Spec == Init /\ [][Next]_vars

\* The client runs on, and the server ends every request it was sent.
FairSpec == Spec /\ WF_vars(Client) /\ WF_vars(LateCommit)

-----------------------------------------------------------------------------
\* The call is on one of its batches with an attempt left, and only batches
\* whose answer was lost can still commit (insert_chunks).
TypeOK ==
    /\ mode \in Modes
    /\ stored \in [1..Batches -> Nat]
    /\ count \in Nat
    /\ others \in Nat
    /\ base \in Nat
    /\ n \in 1..Batches
    /\ attempt \in 1..Attempts
    /\ lost \subseteq 1..Batches
    /\ again \in BOOLEAN
    /\ pc \in {"base", "send", "probe", "settle"} \union Final

(* "a blind resend can double a batch": on a table that is not idempotent no
   batch is ever held twice, whatever requests are lost, committed with an
   error or committed late, and whatever other writers add to the scope. *)
AtMostOnce ==
    ~mode.idempotent => \A b \in 1..Batches : stored[b] <= 1

(* insert_chunks returns the number stored: when it returns, every batch is in
   the table, though every request but the last of a batch may have failed. *)
ReturnMeansStored ==
    pc = "ok" => \A b \in 1..Batches : stored[b] >= 1

(* BatchFailed of a probed call that is not idempotent is a definite answer:
   the table holds the `landed` batches before the failed one, and neither it
   nor any later one.  Only BatchAmbiguous leaves that open. *)
FailedIsExact ==
    pc = "failed" /\ mode.probe =>
        \A b \in 1..Batches : stored[b] = IF b < n THEN 1 ELSE 0

(* Every call ends: it returns, fails or is ambiguous.  The attempts bound the
   resends, and a probe that keeps failing ends the call at once. *)
Terminates == <>(pc \in Final)
=============================================================================
