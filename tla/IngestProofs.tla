---------------------------- MODULE IngestProofs ----------------------------
(***************************************************************************)
(* clickhouse-ingest: the batched insert, the copies of reused cases and   *)
(* the ingest of a run's report files.                                     *)
(*                                                                         *)
(* The resend rule of insert_chunks, for any number of batches, attempts   *)
(* and rows of other writers.  What makes it work is that the probed count *)
(* never falls below what the call itself has stored: IInv carries that    *)
(* bound, so a count equal to the expected one means that the batch at     *)
(* hand is not in the table.                                               *)
(***************************************************************************)
EXTENDS BatchInsert, CaseIngest, ReuseCopy, FiniteSetTheorems, NaturalsInduction,
        WellFoundedInduction, TLAPS

\* Is batch n either stored or possibly still to be stored, but not both?
Owed == IF lost = {} THEN 0 ELSE 1

\* A call whose batches must not be stored twice, or that can ask.
Careful == mode.probe \/ ~mode.idempotent

\* Before a request of batch n is sent nothing of it is stored or in flight.
Ready == stored[n] = 0 /\ lost = {}

CarefulInv ==
    /\ \A b \in 1..Batches : b < n => stored[b] = 1
    /\ \A b \in 1..Batches : b > n => stored[b] = 0
    /\ lost \subseteq {n}
    /\ pc \in {"base", "send"} => Ready
    /\ pc = "failed" /\ mode.probe => Ready
    /\ pc = "ok" => lost = {}
    /\ stored[n] + Owed <= 1

CountInv ==
    mode.probe /\ pc \in {"send", "probe", "settle"} =>
        count >= base + (n - 1) + stored[n]

StoredInv ==
    /\ \A b \in 1..Batches : b < n => stored[b] >= 1
    /\ pc = "ok" => n = Batches /\ stored[n] >= 1

AttemptInv ==
    /\ attempt <= MaxAttempts
    /\ ~mode.probe => pc \notin {"base", "probe", "settle"}
    /\ pc = "base" => n = 1

IInv ==
    /\ TypeOK
    /\ AttemptInv
    /\ StoredInv
    /\ Careful => CarefulInv
    /\ CountInv

(* The call starts with nothing sent: no batch is stored or in flight. *)
LEMMA InitIInv == Init => IInv
<1> SUFFICES ASSUME Init PROVE IInv
  OBVIOUS
<1>1. TypeOK
  <2>1. pc \in {"base", "send"}
    BY DEF Init
  <2>2. stored \in [1..Batches -> Nat] /\ count \in Nat
    BY DEF Init
  <2>3. /\ mode \in Modes /\ lost \subseteq 1..Batches /\ again \in BOOLEAN
        /\ others \in Nat /\ base \in Nat
    BY DEF Init
  <2>4. n \in 1..Batches /\ attempt \in 1..Attempts
    BY BatchesAssumption, AttemptsAssumption DEF Init
  <2> QED BY <2>1, <2>2, <2>3, <2>4 DEF TypeOK
<1>2. AttemptInv
  BY AttemptsAssumption DEF Init, AttemptInv, MaxAttempts
<1>3. pc \in {"base", "send"} /\ stored[n] = 0 /\ n = 1 /\ lost = {}
  BY BatchesAssumption DEF Init
<1>4. StoredInv
  BY <1>3 DEF StoredInv
<1>5. CarefulInv
  BY <1>3 DEF Init, CarefulInv, Ready, Owed
<1>6. CountInv
  BY <1>3 DEF Init, CountInv
<1> QED BY <1>1, <1>2, <1>4, <1>5, <1>6 DEF IInv

(* A resend only follows an error that left attempts and nothing stored. *)
LEMMA RetryFacts ==
    ASSUME IInv, NEW r \in BOOLEAN, Retry(r)
    PROVE  /\ attempt' \in 1..Attempts
           /\ attempt' <= MaxAttempts
           /\ pc' \in {"send", "failed"}
           /\ pc' = "send" => Attempts > 1 /\ (mode.probe \/ mode.idempotent)
BY AttemptsAssumption DEF IInv, TypeOK, Modes, AttemptInv, MaxAttempts, Retry

(* Every step of the client, the server or another writer keeps the bound on
   the count and the single copy of every batch. *)
LEMMA NextIInv == ASSUME Settles PROVE IInv /\ [Next]_vars => IInv'
<1> SUFFICES ASSUME IInv, [Next]_vars PROVE IInv'
  OBVIOUS
<1> USE BatchesAssumption, AttemptsAssumption
<1>1. CASE ProbeBase
  BY <1>1 DEF ProbeBase, IInv, TypeOK, Modes, Final, AttemptInv, MaxAttempts,
     StoredInv, Careful, CarefulInv, Ready, Owed, CountInv
<1>2. CASE SendOk
  <2>1. TypeOK' /\ AttemptInv' /\ StoredInv'
    BY <1>2, SMTT(30) DEF SendOk, Commit, IInv, TypeOK, Modes, Final, AttemptInv,
       MaxAttempts, StoredInv
  <2>2. Careful' => CarefulInv'
    BY <1>2, SMTT(30) DEF SendOk, Commit, IInv, TypeOK, Modes, Final, Careful,
       CarefulInv, Ready, Owed
  <2>3. CountInv'
    BY <1>2 DEF SendOk, Commit, IInv, TypeOK, Modes, Final, CountInv, Careful,
       CarefulInv, Ready
  <2> QED BY <2>1, <2>2, <2>3 DEF IInv
<1>3. CASE SendError
  <2>0. /\ stored' \in [1..Batches -> Nat]
        /\ \A b \in 1..Batches : b # n => stored'[b] = stored[b]
        /\ \/ stored'[n] = stored[n] /\ count' = count /\ lost' = lost
           \/ stored'[n] = stored[n] + 1 /\ count' = count + 1 /\ lost' = lost
           \/ /\ stored'[n] = stored[n] /\ count' = count
              /\ lost' = lost \union {n}
    BY <1>3, SMTT(30) DEF SendError, Commit, IInv, TypeOK
  <2>a. /\ pc = "send" /\ again' \in BOOLEAN
        /\ mode' = mode /\ others' = others /\ base' = base /\ n' = n
    BY <1>3 DEF SendError
  <2>b. Careful => stored[n] = 0 /\ lost = {}
    BY <2>a DEF IInv, CarefulInv, Ready
  <2>c. count' \in Nat /\ lost' \subseteq 1..Batches
    <3>1. n \in 1..Batches /\ lost \subseteq 1..Batches /\ count \in Nat
      BY DEF IInv, TypeOK
    <3>2. count' \in Nat
      BY <2>0, <3>1
    <3>3. lost' = lost \/ lost' = lost \union {n}
      BY <2>0
    <3> QED BY <3>1, <3>2, <3>3
  <2>d. Careful => lost' \subseteq {n} /\ stored'[n] + Owed' <= 1
    BY <2>0, <2>b DEF Owed
  <2>e. Careful => /\ \A b \in 1..Batches : b < n => stored'[b] = 1
                   /\ \A b \in 1..Batches : b > n => stored'[b] = 0
    BY <2>0, SMTT(30) DEF IInv, TypeOK, CarefulInv
  <2>1. CASE mode.probe
    <3>0. pc' = "probe" /\ attempt' = attempt
      BY <1>3, <2>1 DEF SendError
    <3>1. TypeOK' /\ AttemptInv' /\ StoredInv'
      BY <2>0, <2>a, <2>c, <2>1, <3>0 DEF IInv, TypeOK, AttemptInv,
         MaxAttempts, StoredInv
    <3>2. Careful' => CarefulInv'
      BY <2>a, <2>d, <2>e, <2>1, <3>0 DEF Careful, CarefulInv
    <3>3. CountInv'
      BY <2>0, <2>a, <2>1, <3>0, SMTT(30) DEF IInv, TypeOK, CountInv
    <3> QED BY <3>1, <3>2, <3>3 DEF IInv
  <2>2. CASE ~mode.probe
    <3>1. PICK r \in BOOLEAN : Retry(r)
      BY <1>3, <2>a, <2>2 DEF SendError
    <3>3. /\ attempt' \in 1..Attempts
          /\ attempt' <= MaxAttempts
          /\ pc' \in {"send", "failed"}
          /\ pc' = "send" => mode.idempotent
      BY <3>1, <2>2, RetryFacts
    <3>4. TypeOK' /\ AttemptInv' /\ StoredInv'
      <4>1. TypeOK'
        BY <2>0, <2>a, <2>c, <3>3 DEF IInv, TypeOK, Final
      <4>2. AttemptInv'
        BY <2>a, <3>3 DEF AttemptInv, MaxAttempts
      <4>3. StoredInv'
        BY <2>0, <2>a, <3>3 DEF IInv, TypeOK, StoredInv
      <4> QED BY <4>1, <4>2, <4>3
    <3>5. Careful' => CarefulInv'
      <4> SUFFICES ASSUME Careful PROVE CarefulInv'
        BY <2>a DEF Careful
      <4>1. pc' = "failed" /\ ~mode'.probe
        BY <2>2, <2>a, <3>3 DEF Careful
      <4> QED BY <2>a, <2>d, <2>e, <4>1 DEF CarefulInv
    <3>6. CountInv'
      BY <2>2, <2>a DEF CountInv
    <3> QED BY <3>4, <3>5, <3>6 DEF IInv
  <2> QED BY <2>1, <2>2
<1>4. CASE Probe
  BY <1>4 DEF Probe, Expected, IInv, TypeOK, Modes, Final, AttemptInv,
     MaxAttempts, StoredInv, Careful, CarefulInv, Ready, Owed, CountInv
<1>5. CASE Settle
  <2>1. CASE pc' = "ambiguous" /\ UNCHANGED attempt
    BY <1>5, <2>1 DEF Settle, IInv, TypeOK, Modes, Final, AttemptInv,
       MaxAttempts, StoredInv, Careful, CarefulInv, Ready, Owed, CountInv
  <2>2. CASE count = Expected /\ Retry(again)
    <3>1. /\ attempt' \in 1..Attempts
          /\ attempt' <= MaxAttempts
          /\ pc' \in {"send", "failed"}
      BY <2>2, RetryFacts DEF IInv, TypeOK
    <3>2. mode.probe /\ pc = "settle" /\ lost = {}
      BY <1>5 DEF Settle, IInv, AttemptInv
    <3>3. stored[n] = 0
      BY <2>2, <3>2 DEF Expected, IInv, TypeOK, CountInv
    <3>4. TypeOK' /\ AttemptInv' /\ StoredInv'
      BY <1>5, <3>1 DEF Settle, IInv, TypeOK, Modes, Final, AttemptInv,
         MaxAttempts, StoredInv
    <3>5. Careful' => CarefulInv'
      BY <1>5, <3>1, <3>2, <3>3 DEF Settle, IInv, TypeOK, Modes, Final,
         Careful, CarefulInv, Ready, Owed
    <3>6. CountInv'
      BY <1>5, <3>1, <3>2 DEF Settle, IInv, TypeOK, CountInv
    <3> QED BY <3>4, <3>5, <3>6 DEF IInv
  <2> QED BY <1>5, <2>1, <2>2 DEF Settle
<1>6. CASE LateCommit
  <2>1. PICK b \in lost : /\ lost' = lost \ {b}
                          /\ Commit(b) \/ UNCHANGED <<stored, count>>
    BY <1>6 DEF LateCommit
  <2>2. b \in 1..Batches
    BY <2>1 DEF IInv, TypeOK
  <2>3. /\ stored' \in [1..Batches -> Nat]
        /\ \A c \in 1..Batches : c # b => stored'[c] = stored[c]
        /\ stored'[b] \in {stored[b], stored[b] + 1}
        /\ stored'[b] = stored[b] => count' = count
        /\ stored'[b] = stored[b] + 1 => count' = count + 1
    BY <2>1, <2>2, SMTT(30) DEF Commit, IInv, TypeOK
  <2>4. TypeOK' /\ AttemptInv' /\ StoredInv'
    <3>1. TypeOK'
      BY <1>6, <2>1, <2>2, <2>3, SMTT(30) DEF LateCommit, IInv, TypeOK
    <3>2. AttemptInv'
      BY <1>6 DEF LateCommit, IInv, AttemptInv, MaxAttempts
    <3>3. \A c \in 1..Batches : stored'[c] >= stored[c]
      BY <2>3, SMTT(30) DEF IInv, TypeOK
    <3>4. StoredInv'
      <4>1. n' = n /\ pc' = pc /\ n \in 1..Batches
        BY <1>6 DEF LateCommit, IInv, TypeOK
      <4>2. \A c \in 1..Batches : stored[c] >= 1 => stored'[c] >= 1
        BY <2>3, <3>3 DEF IInv, TypeOK
      <4> QED BY <4>1, <4>2 DEF IInv, StoredInv
    <3> QED BY <3>1, <3>2, <3>4
  <2>5. Careful' => CarefulInv'
    <3>1. SUFFICES ASSUME Careful PROVE CarefulInv'
      BY <1>6 DEF LateCommit, Careful
    <3>2. b = n /\ lost = {n} /\ lost' = {}
      BY <2>1, <3>1 DEF IInv, CarefulInv
    <3> QED BY <1>6, <2>3, <3>1, <3>2 DEF LateCommit, IInv, TypeOK, CarefulInv,
               Ready, Owed
  <2>6. CountInv'
    BY <1>6, <2>1, <2>3, SMTT(30) DEF LateCommit, IInv, TypeOK, CountInv, Careful,
       CarefulInv
  <2> QED BY <2>4, <2>5, <2>6 DEF IInv
<1>7. CASE OtherWriter
  BY <1>7 DEF OtherWriter, IInv, TypeOK, Modes, Final, AttemptInv, MaxAttempts,
     StoredInv, Careful, CarefulInv, Ready, Owed, CountInv
<1>8. CASE UNCHANGED vars
  BY <1>8 DEF vars, IInv, TypeOK, Modes, Final, AttemptInv, MaxAttempts,
     StoredInv, Careful, CarefulInv, Ready, Owed, CountInv
<1> QED BY <1>1, <1>2, <1>3, <1>4, <1>5, <1>6, <1>7, <1>8
           DEF Next, Client, Finished

(* The inductive invariant holds throughout, when no request outlasts the
   settle delay. *)
THEOREM Inductive == ASSUME Settles PROVE Spec => []IInv
<1>1. Init => IInv
  BY InitIInv
<1>2. IInv /\ [Next]_vars => IInv'
  BY NextIInv
<1> QED BY <1>1, <1>2, PTL DEF Spec

(* No batch is stored twice in a table that is not idempotent, for any number
   of batches, attempts and foreign rows. *)
THEOREM NeverTwice == ASSUME Settles PROVE Spec => []AtMostOnce
<1>1. IInv => AtMostOnce
  <2> SUFFICES ASSUME IInv, ~mode.idempotent, NEW b \in 1..Batches
               PROVE  stored[b] <= 1
    BY DEF AtMostOnce
  <2>1. CarefulInv /\ n \in 1..Batches /\ stored \in [1..Batches -> Nat]
    BY DEF IInv, Careful, TypeOK
  <2> QED BY <2>1, BatchesAssumption DEF CarefulInv, Owed
<1> QED BY <1>1, Inductive, PTL

(* A call that returns has stored every one of its batches. *)
THEOREM ReturnIsComplete == ASSUME Settles PROVE Spec => []ReturnMeansStored
<1>1. IInv => ReturnMeansStored
  BY BatchesAssumption DEF IInv, TypeOK, StoredInv, ReturnMeansStored
<1> QED BY <1>1, Inductive, PTL

(* A definite failure of a probed call says exactly what the table holds. *)
THEOREM FailureIsExact == ASSUME Settles PROVE Spec => []FailedIsExact
<1>1. IInv => FailedIsExact
  BY BatchesAssumption
     DEF IInv, TypeOK, Careful, CarefulInv, Ready, FailedIsExact
<1> QED BY <1>1, Inductive, PTL

-----------------------------------------------------------------------------
(***************************************************************************)
(* copy_reused_cases and the run's own report, for any runs, cases and     *)
(* tiers.  A row a run executed itself is there only once it has reported, *)
(* and a run reports once: that is why a copy never stands beside it.      *)
(***************************************************************************)
RunRowType ==
    [case : Cases, status : Statuses, mark : {0}, prior : {"none"}, ranIn : Nat,
     file : {"f"}, attempt : {0}, via : [copy : Nat, from : Nat]]

CopyTypes ==
    /\ runRows \in [Runs -> SUBSET RunRowType]
    /\ copies \in Nat

CopyInv == CopyTypes /\ CopiesSound

(* No run has a row before the first report.                               *)
LEMMA InitCopyInv == CopyInit => CopyInv
  BY DEF CopyInit, CopyInv, CopyTypes, CopiesSound, CopyTypeOK, RanInExecuted, ExecutedWins

(* A copy brings rows that keep what they say of the run that executed     *)
(* them, and none for a case that the run has an executed outcome of.      *)
LEMMA CopiedRows ==
  ASSUME CopyInv, NEW r \in Runs, NEW src \in Runs, src < r, NEW tier,
         NEW b \in Copies(r, tier, src)
  PROVE  /\ b \in RunRowType
         /\ b.ranIn \in 1..src /\ b.via.copy = copies + 1
         /\ [run |-> b.ranIn, case |-> b.case, status |-> b.status] \in executed
         /\ ~OwnOutcome(r, b.case)
<1>1. PICK x \in runRows[src] : /\ b = [x EXCEPT !.via = [copy |-> copies + 1, from |-> src]]
                               /\ ~OwnOutcome(r, x.case)
  BY Zenon DEF Copies
<1>2. /\ x \in RunRowType
      /\ copies \in Nat /\ src \in Nat
  BY RunsAssumption DEF CopyInv, CopyTypes
<1>3. /\ b.case = x.case /\ b.status = x.status /\ b.ranIn = x.ranIn
      /\ b.via = [copy |-> copies + 1, from |-> src]
      /\ b \in RunRowType
  BY <1>1, <1>2 DEF RunRowType
<1>4. x.ranIn \in 1..src /\ [run |-> x.ranIn, case |-> x.case, status |-> x.status] \in executed
  BY DEF CopyInv, CopiesSound, CopyTypeOK, RanInExecuted
<1> QED
  BY <1>1, <1>3, <1>4

(* A copy keeps the invariant.                                             *)
LEMMA CopyStep ==
  ASSUME CopyInv, NEW r \in Runs, NEW src \in Runs, src < r, NEW tier \in Tiers,
         Copy(r, tier, src)
  PROVE  CopyInv'
<1> DEFINE New == Copies(r, tier, src)
<1>1. /\ copies \in Nat /\ copies' = copies + 1 /\ executed' = executed
      /\ served' = served \union {<<r, tier, src>>}
      /\ runRows' = IF Present(r, src) THEN runRows
                    ELSE [runRows EXCEPT ![r] = @ \union New]
  BY DEF Copy, CopyInv, CopyTypes
<1>2. \A q \in Runs : \A b \in runRows'[q] : b \in runRows[q] \/ (q = r /\ b \in New)
  BY <1>1 DEF CopyInv, CopyTypes
<1>3. CopyTypes'
  <2>1. New \subseteq RunRowType
    BY CopiedRows
  <2> QED
    BY <1>1, <2>1 DEF CopyInv, CopyTypes
<1>4. CopyTypeOK'
  <2>1. ASSUME NEW q \in Runs, NEW b \in runRows'[q]
        PROVE  /\ b.case \in Cases /\ b.status \in Statuses
               /\ b.ranIn \in 1..q /\ b.via.copy \in 0..copies'
    <3>1. CASE b \in runRows[q]
      BY <1>1, <3>1 DEF CopyInv, CopiesSound, CopyTypeOK
    <3>2. CASE q = r /\ b \in New
      <4>1. /\ b \in RunRowType /\ b.ranIn \in 1..src /\ b.via.copy = copies + 1
        BY <3>2, CopiedRows, Zenon
      <4>2. r \in Nat /\ src \in Nat
        BY RunsAssumption
      <4> QED
        BY <1>1, <3>2, <4>1, <4>2 DEF RunRowType
    <3> QED
      BY <1>2, <2>1, <3>1, <3>2
  <2>2. served' \subseteq Runs \X Tiers \X Runs
    BY <1>1 DEF CopyInv, CopiesSound, CopyTypeOK
  <2> QED
    BY <2>1, <2>2 DEF CopyTypeOK
<1>5. RanInExecuted'
  BY <1>1, <1>2, CopiedRows DEF CopyInv, CopiesSound, RanInExecuted
<1>6. ExecutedWins'
  <2> SUFFICES ASSUME NEW q \in Runs, NEW a \in runRows'[q], NEW b \in runRows'[q],
                      a.case = b.case, a.ranIn = q, a.status # "skipped", b.ranIn # q
               PROVE  FALSE
    BY DEF ExecutedWins
  <2>1. a \in runRows[q]
    <3>1. ~(q = r /\ a \in New)
      <4> SUFFICES ASSUME q = r, a \in New PROVE FALSE
        OBVIOUS
      <4>1. a.ranIn \in 1..src
        BY CopiedRows, Zenon
      <4>2. r \in Nat /\ src \in Nat
        BY RunsAssumption
      <4> QED
        BY <4>1, <4>2
    <3> QED
      BY <1>2, <3>1
  <2>2. CASE b \in runRows[q]
    BY <2>1, <2>2 DEF CopyInv, CopiesSound, ExecutedWins
  <2>3. CASE q = r /\ b \in New
    <3>1. ~OwnOutcome(r, b.case)
      BY <2>3, CopiedRows
    <3> QED
      BY <2>1, <2>3, <3>1 DEF OwnOutcome
  <2> QED
    BY <1>2, <2>2, <2>3
<1> QED
  BY <1>3, <1>4, <1>5, <1>6 DEF CopyInv, CopiesSound

(* The run's own report replaces the copies of the cases it executed, and  *)
(* it is the first of the run.                                             *)
LEMMA OwnReportStep == ASSUME CopyInv, NEW r \in Runs, OwnReport(r) PROVE CopyInv'
<1>1. PICK outcome \in UNION {[S -> Statuses] : S \in SUBSET Cases \ {{}}} :
        LET new == {RunRow(c, outcome[c], r, NoCopy) : c \in DOMAIN outcome}
            keep == {x \in new : \A h \in Held(x, runRows[r]) : ~Restates(r, h, x)}
            replaced == UNION {Replaced(r, x, runRows[r]) : x \in keep}
        IN  /\ Open(r) /\ ~Reported(r)
            /\ runRows' = [runRows EXCEPT ![r] = (@ \ replaced) \union keep]
            /\ executed' = executed \union
                   {[run |-> r, case |-> c, status |-> outcome[c]] : c \in DOMAIN outcome}
            /\ UNCHANGED <<served, copies>>
  BY Zenon DEF OwnReport
<1> DEFINE new == {RunRow(c, outcome[c], r, NoCopy) : c \in DOMAIN outcome}
           keep == {x \in new : \A h \in Held(x, runRows[r]) : ~Restates(r, h, x)}
           replaced == UNION {Replaced(r, x, runRows[r]) : x \in keep}
<1>2. /\ ~Reported(r) /\ served' = served /\ copies' = copies /\ copies \in Nat
      /\ runRows' = [runRows EXCEPT ![r] = (@ \ replaced) \union keep]
      /\ executed' = executed \union
             {[run |-> r, case |-> c, status |-> outcome[c]] : c \in DOMAIN outcome}
  BY <1>1, Zenon DEF CopyInv, CopyTypes
<1>3. PICK S \in SUBSET Cases : outcome \in [S -> Statuses]
  BY Zenon
<1>4. ASSUME NEW x \in keep
      PROVE  /\ x \in RunRowType /\ x.ranIn = r /\ x.via.copy = 0
             /\ x.case \in Cases /\ x.status \in Statuses
             /\ [run |-> x.ranIn, case |-> x.case, status |-> x.status] \in executed'
  <2>1. PICK c \in S : x = RunRow(c, outcome[c], r, NoCopy)
    BY <1>3, <1>4
  <2>2. c \in Cases /\ outcome[c] \in Statuses /\ r \in Nat
    BY <1>3, RunsAssumption
  <2>3. /\ x \in RunRowType /\ x.ranIn = r /\ x.via.copy = 0
        /\ x.case = c /\ x.status = outcome[c]
    BY <2>1, <2>2 DEF RunRow, NoCopy, RunRowType
  <2>4. [run |-> r, case |-> c, status |-> outcome[c]] \in executed'
    BY <1>2, <1>3
  <2> QED
    BY <2>2, <2>3, <2>4
<1> HIDE DEF new
<1>5. /\ \A q \in Runs : \A b \in runRows'[q] : b \in runRows[q] \/ (q = r /\ b \in keep)
      /\ \A b \in runRows'[r] : b \notin keep => b \notin replaced
  BY <1>2 DEF CopyInv, CopyTypes
<1>6. CopyTypes'
  <2>1. keep \subseteq RunRowType
    BY <1>4
  <2> HIDE DEF keep, replaced
  <2> QED
    BY <1>2, <2>1 DEF CopyInv, CopyTypes
<1>7. CopyTypeOK'
  <2>1. ASSUME NEW q \in Runs, NEW b \in runRows'[q]
        PROVE  /\ b.case \in Cases /\ b.status \in Statuses
               /\ b.ranIn \in 1..q /\ b.via.copy \in 0..copies'
    <3>1. CASE b \in runRows[q]
      BY <1>2, <3>1 DEF CopyInv, CopiesSound, CopyTypeOK
    <3>2. CASE q = r /\ b \in keep
      <4>1. q \in Nat \ {0}
        BY RunsAssumption, Zenon
      <4>2. b.case \in Cases /\ b.status \in Statuses /\ b.ranIn = q /\ b.via.copy = 0
        BY <1>4, <3>2, Zenon
      <4>3. copies' \in Nat
        BY <1>2, Zenon
      <4>4. q \in 1..q /\ 0 \in 0..copies'
        BY <4>1, <4>3
      <4> QED
        BY <4>2, <4>4, Zenon
    <3> QED
      BY <1>5, <2>1, <3>1, <3>2
  <2>2. served' \subseteq Runs \X Tiers \X Runs
    BY <1>2 DEF CopyInv, CopiesSound, CopyTypeOK
  <2> QED
    BY <2>1, <2>2, Zenon DEF CopyTypeOK
<1>8. RanInExecuted'
  <2> SUFFICES ASSUME NEW q \in Runs, NEW b \in runRows'[q]
               PROVE  [run |-> b.ranIn, case |-> b.case, status |-> b.status] \in executed'
    BY Zenon DEF RanInExecuted
  <2>1. CASE b \in runRows[q]
    BY <1>2, <2>1 DEF CopyInv, CopiesSound, RanInExecuted
  <2> QED
    BY <1>4, <1>5, <2>1, Zenon
<1>9. ExecutedWins'
  <2> SUFFICES ASSUME NEW q \in Runs, NEW a \in runRows'[q], NEW b \in runRows'[q],
                      a.case = b.case, a.ranIn = q, a.status # "skipped", b.ranIn # q
               PROVE  FALSE
    BY Zenon DEF ExecutedWins
  <2>1. b \in runRows[q]
    BY <1>4, <1>5, Zenon
  <2>2. CASE a \in runRows[q] /\ q # r
    BY <2>1, <2>2 DEF CopyInv, CopiesSound, ExecutedWins
  <2>3. CASE a \in runRows[q] /\ q = r
    <3>1. [run |-> r, case |-> a.case, status |-> a.status] \in executed
      BY <2>3 DEF CopyInv, CopiesSound, RanInExecuted
    <3> QED
      BY <1>2, <3>1 DEF Reported
  <2>4. CASE q = r /\ a \in keep
    <3>1. b \in Replaced(r, a, runRows[r])
      BY <2>1, <2>4 DEF Replaced, Held, Restates, Ran, Copied
    <3>2. b \in replaced /\ b \notin keep
      BY <1>4, <2>4, <3>1, Zenon
    <3> QED
      BY <1>5, <2>4, <3>2, Zenon
  <2> QED
    BY <1>5, <2>2, <2>3, <2>4, Zenon
<1> QED
  BY <1>6, <1>7, <1>8, <1>9 DEF CopyInv, CopiesSound

(* Through copies of copies, every row names a run that executed the case  *)
(* with the outcome the row reports, and a run never counts a copy beside  *)
(* an outcome it executed itself.                                          *)
THEOREM CopiesStaySound == CopySpec => []CopiesSound
<1>1. CopyInv /\ [CopyNext]_copyVars => CopyInv'
  <2> SUFFICES ASSUME CopyInv, [CopyNext]_copyVars PROVE CopyInv'
    OBVIOUS
  <2>1. CASE CopyNext
    BY <2>1, OwnReportStep, CopyStep, Zenon DEF CopyNext
  <2>2. CASE UNCHANGED copyVars
    BY <2>2 DEF copyVars, CopyInv, CopyTypes, CopiesSound, CopyTypeOK, RanInExecuted,
       ExecutedWins
  <2> QED
    BY <2>1, <2>2
<1>2. CopyInv => CopiesSound
  BY DEF CopyInv
<1> QED
  BY InitCopyInv, <1>1, <1>2, PTL DEF CopySpec

-----------------------------------------------------------------------------
(***************************************************************************)
(* The ingest of a run's report files, for any files, attempts and reports *)
(* and with faults between any two requests.  The invariant says what the  *)
(* ingest at work may rely on at each request: which rows of the file at   *)
(* hand can be there, and what the planned rows may be stored beside.      *)
(***************************************************************************)
Pcs == {"check", "drop", "dropVerdicts", "clear", "recount", "plan", "insert",
        "verdicts", "supersede"}

JobShape ==
    \/ job = Idle
    \/ /\ job = [pc |-> job.pc, attempt |-> job.attempt, at |-> job.at, keep |-> job.keep,
                 superseded |-> job.superseded, then |-> job.then]
       /\ job.pc \in Pcs /\ job.attempt \in RunAttempts /\ job.at \in DOMAIN Files
       /\ job.then \in {"none", "next", "dropVerdicts"}
       /\ job.pc \in {"clear", "recount"} => job.then # "none"

CaseTypes ==
    /\ JobShape
    /\ CaseTypeOK /\ IsFiniteSet(caseRows) /\ uid \in Nat
    /\ limit \in Limits /\ report \in Reports
    /\ faults \in Nat /\ faults <= limit.faults

\* Is the older attempt of the file at hand dropped, and nothing stored yet?
Dropped ==
    \/ job.pc \in {"dropVerdicts", "plan"}
    \/ job.pc \in {"clear", "recount"} /\ job.then = "dropVerdicts"

FileInv ==
    /\ At("drop") => \A r \in caseRows : r.file = File => r.attempt < job.attempt
    /\ Dropped => \A r \in caseRows : r.file # File
    /\ At("insert") => \A r \in caseRows : r.file = File => r.attempt = job.attempt

\* A row that a step may store: it repeats nothing, and what stands beside it
\* is about to be deleted.
Planned(r) ==
    /\ r.case \in STRING /\ r.status \in {"passed", "failed", "skipped"}
    /\ r.mark \in Nat /\ r.prior \in {"none", "failed"} /\ r.ranIn = RunId
    /\ r.file = File /\ r.attempt = job.attempt
    /\ \A s \in caseRows :
          s.case = r.case =>
              /\ s.file = File => ~SameOutcome(s, r)
              /\ s.file # File /\ r.status = "skipped" => s.status = "skipped"
              /\ s.file # File /\ r.status # "skipped" /\ s.status = "skipped" =>
                     s \in job.superseded

PlanInv ==
    At("insert") =>
        \A i \in DOMAIN job.keep :
            /\ Planned(job.keep[i])
            /\ \A j \in DOMAIN job.keep :
                  i # j /\ job.keep[i].case = job.keep[j].case =>
                      ~SameOutcome(job.keep[i], job.keep[j])

\* Are superseded rows still to be deleted?
Writing == job.pc \in {"insert", "verdicts", "supersede"}

SkipsOnly == Writing => \A h \in job.superseded : h.status = "skipped"

Beside(r, s) ==
    r.case = s.case /\ r.file # s.file /\ r.status # "skipped" /\ s.status = "skipped"

\* Without a fault a skip stands beside an execution only until it is deleted.
BesideInv ==
    faults = 0 =>
        \A r, s \in caseRows : Beside(r, s) => Writing /\ s \in job.superseded

CounterInv ==
    faults = 0 =>
        /\ job.pc \notin {"clear", "recount"} => counter = Cardinality(caseRows)
        /\ At("recount") => counter = 0

CaseInv ==
    /\ CaseTypes /\ OneAttemptPerFile /\ NoRepeats
    /\ FileInv /\ PlanInv /\ SkipsOnly /\ BesideInv /\ CounterInv

(* A set of naturals that is not empty has a least element.                *)
LEMMA LeastNatural ==
  ASSUME NEW T, T \subseteq Nat, T # {}
  PROVE  \E x \in T : \A y \in T : x <= y
<1>1. PICK x \in T : \A y \in T : ~(<<y, x>> \in OpToRel(<, Nat))
  BY NatLessThanWellFounded, WFMin, Zenon
<1>2. ASSUME NEW y \in T PROVE x <= y
  <2>1. ~(y < x)
    BY <1>1, Zenon DEF OpToRel
  <2> QED
    BY <2>1
<1> QED
  BY <1>2

(* The places _one_per_case keeps of one call exist: a place is decided by *)
(* those before it.                                                        *)
LEMMA UnrepeatedExists ==
  ASSUME NEW run, NEW new, NEW m \in Nat, DOMAIN new = 1..m
  PROVE  \E K \in SUBSET DOMAIN new : Unrepeated(run, new, K)
<1> DEFINE Rep(j, i) == new[j].case = new[i].case /\ Restates(run, new[j], new[i])
           Good(k, K) == \A i \in 1..k : i \in K <=> ~\E j \in K : j < i /\ Rep(j, i)
           T == {k \in 0..m : ~\E K \in SUBSET (1..k) : Good(k, K)}
<1>1. ASSUME NEW K, Good(m, K) PROVE Unrepeated(run, new, K)
  BY <1>1 DEF Unrepeated
<1> HIDE DEF Rep
<1>2. CASE T = {}
  <2>1. m \in 0..m
    OBVIOUS
  <2>2. PICK K \in SUBSET (1..m) : Good(m, K)
    BY <1>2, <2>1, Zenon
  <2> QED
    BY <1>1, <2>2, Zenon
<1>3. CASE T # {}
  <2>1. PICK x \in T : \A y \in T : x <= y
    <3>1. T \subseteq Nat
      OBVIOUS
    <3> QED
      BY <1>3, <3>1, LeastNatural, Zenon
  <2>2. x # 0
    <3>1. {} \in SUBSET (1..0) /\ Good(0, {})
      OBVIOUS
    <3> QED
      BY <2>1, <3>1
  <2>3. x \in 1..m
    BY <2>1, <2>2
  <2>4. x - 1 \in 0..m /\ x - 1 \notin T
    <3> HIDE DEF T
    <3> QED
      BY <2>1, <2>3
  <2>5. PICK K \in SUBSET (1..(x - 1)) : Good(x - 1, K)
    BY <2>4, Zenon
  <2> DEFINE L == IF \E j \in K : Rep(j, x) THEN K ELSE K \union {x}
  <2>6. L \in SUBSET (1..x)
    BY <2>3
  <2>7. ASSUME NEW i \in 1..x PROVE i \in L <=> ~\E j \in L : j < i /\ Rep(j, i)
    <3>1. CASE i = x
      BY <2>3, <3>1
    <3>2. CASE i < x
      <4>1. i \in 1..(x - 1)
        BY <2>3, <3>2
      <4>2. i \in K <=> ~\E j \in K : j < i /\ Rep(j, i)
        BY <2>5, <4>1
      <4> QED
        BY <2>3, <3>2, <4>2
    <3> QED
      BY <2>3, <3>1, <3>2
  <2>8. Good(x, L)
    BY <2>7
  <2> QED
    BY <2>1, <2>6, <2>8
<1> QED
  BY <1>2, <1>3

(* What _one_per_case keeps of one call, by the rule it follows.           *)
LEMMA UnrepeatedChosen ==
  ASSUME NEW run, NEW new, NEW m \in Nat, DOMAIN new = 1..m
  PROVE  /\ WithoutRepeats(run, new) \subseteq 1..m
         /\ Unrepeated(run, new, WithoutRepeats(run, new))
  BY UnrepeatedExists, Zenon DEF WithoutRepeats

-----------------------------------------------------------------------------
(* The ingest of a run starts with an empty table.                         *)
LEMMA InitCaseInv == CaseInit => CaseInv
<1> SUFFICES ASSUME CaseInit PROVE CaseInv
  OBVIOUS
<1>1. job.pc = "idle"
  BY DEF CaseInit, Idle
<1>2. CaseTypes
  <2>1. limit.faults \in Nat
    BY LimitsAssumption DEF CaseInit
  <2> QED
    BY <1>1, <2>1, FS_EmptySet DEF CaseInit, CaseTypes, JobShape, CaseTypeOK
<1>3. OneAttemptPerFile /\ NoRepeats /\ BesideInv
  BY DEF CaseInit, OneAttemptPerFile, NoRepeats, BesideInv
<1>4. FileInv /\ PlanInv /\ SkipsOnly
  BY <1>1 DEF FileInv, At, Dropped, PlanInv, SkipsOnly, Writing
<1>5. CounterInv
  BY <1>1, FS_EmptySet DEF CaseInit, CounterInv, At
<1> QED
  BY <1>2, <1>3, <1>4, <1>5 DEF CaseInv

(* main() at a request of the file at hand.                                *)
LEMMA RunningJob ==
  ASSUME CaseInv, Running
  PROVE  /\ job = [pc |-> job.pc, attempt |-> job.attempt, at |-> job.at, keep |-> job.keep,
                 superseded |-> job.superseded, then |-> job.then]
         /\ job.pc \in Pcs /\ job.attempt \in RunAttempts /\ job.at \in DOMAIN Files
         /\ job.then \in {"none", "next", "dropVerdicts"}
         /\ job.pc \in {"clear", "recount"} => job.then # "none"
  BY DEF CaseInv, CaseTypes, JobShape, Running, Idle

(* main() at the next file, or at the end, relies on nothing.              *)
LEMMA NextFileJob ==
  ASSUME CaseInv, Running, NextFile
  PROVE  /\ JobShape' /\ job'.pc \in {"idle", "check"}
         /\ FileInv' /\ PlanInv' /\ SkipsOnly'
<1>1. Len(Files) \in Nat /\ DOMAIN Files = 1..Len(Files)
  BY FilesAssumption
<1>2. JobShape' /\ job'.pc \in {"idle", "check"}
  <2>1. CASE job.at = Len(Files)
    BY <2>1 DEF NextFile, JobShape, Idle
  <2>2. CASE job.at # Len(Files)
    <3>1. job' = [job EXCEPT !.pc = "check", !.at = job.at + 1]
      BY <2>2 DEF NextFile
    <3>2. job.at \in 1..Len(Files) /\ job.at + 1 \in 1..Len(Files)
      BY <1>1, <2>2, RunningJob
    <3>3. job' = [pc |-> "check", attempt |-> job.attempt, at |-> job.at + 1,
                  keep |-> job.keep, superseded |-> job.superseded, then |-> job.then]
      BY <3>1, RunningJob
    <3> QED
      BY <1>1, <3>2, <3>3, RunningJob DEF JobShape, Pcs
  <2> QED
    BY <2>1, <2>2
<1> QED
  BY <1>2 DEF FileInv, At, Dropped, PlanInv, SkipsOnly, Writing

(* The rows, the counters and the faults are as they were.                 *)
LEMMA SameTable ==
  ASSUME CaseInv, JobShape', UNCHANGED <<limit, report, faults, caseRows, uid>>,
         counter' \in Nat, verdicts' \subseteq FileSet \X RunAttempts,
         \A v, w \in verdicts' : v[1] = w[1] => v = w
  PROVE  CaseTypes' /\ OneAttemptPerFile' /\ NoRepeats'
<1>1. CaseTypeOK'
  <2>1. job'.pc \in Pcs \union {"idle"}
    BY DEF JobShape, Idle
  <2> QED
    BY <2>1 DEF CaseInv, CaseTypes, CaseTypeOK, Pcs
<1>2. CaseTypes'
  BY <1>1 DEF CaseInv, CaseTypes
<1>3. OneAttemptPerFile'
  BY DEF CaseInv, OneAttemptPerFile
<1>4. NoRepeats'
  BY DEF CaseInv, NoRepeats
<1> QED
  BY <1>2, <1>3, <1>4

(* A step of the job alone, from and to requests at which nothing is still *)
(* to be deleted or counted.                                               *)
LEMMA CalmStep ==
  ASSUME CaseInv, JobShape', UNCHANGED <<limit, report, faults, caseRows, uid, counter>>,
         ~Writing, job.pc \notin {"clear", "recount"}, job'.pc \notin {"clear", "recount"},
         verdicts' \subseteq verdicts
  PROVE  /\ CaseTypes' /\ OneAttemptPerFile' /\ NoRepeats'
         /\ BesideInv' /\ CounterInv'
<1>1. CaseTypes' /\ OneAttemptPerFile' /\ NoRepeats'
  <2>1. /\ counter' \in Nat /\ verdicts' \subseteq FileSet \X RunAttempts
        /\ \A v, w \in verdicts' : v[1] = w[1] => v = w
    BY DEF CaseInv, CaseTypes, CaseTypeOK, OneAttemptPerFile
  <2> QED
    BY <2>1, SameTable
<1>2. BesideInv'
  BY DEF CaseInv, BesideInv, Beside
<1>3. CounterInv'
  BY DEF CaseInv, CounterInv, At
<1> QED
  BY <1>1, <1>2, <1>3

(* An ingest of the run starts at its first file.                          *)
LEMMA StartStep == ASSUME CaseInv, Start PROVE CaseInv'
<1>1. PICK a \in RunAttempts : job' = [pc |-> "check", attempt |-> a, at |-> 1,
                                     keep |-> <<>>, superseded |-> {}, then |-> "none"]
  BY DEF Start
<1>2. JobShape' /\ job'.pc = "check"
  <2>1. 1 \in DOMAIN Files
    BY FilesAssumption
  <2> QED
    BY <1>1, <2>1 DEF JobShape, Pcs
<1>3. ~Writing /\ job.pc \notin {"clear", "recount"}
  BY DEF Start, Running, Writing
<1>4. UNCHANGED <<limit, report, faults, caseRows, uid, counter, verdicts>>
  BY DEF Start
<1>5. CaseTypes' /\ OneAttemptPerFile' /\ NoRepeats' /\ BesideInv' /\ CounterInv'
  BY <1>2, <1>3, <1>4, CalmStep
<1>6. FileInv' /\ PlanInv' /\ SkipsOnly'
  BY <1>2 DEF FileInv, At, Dropped, PlanInv, SkipsOnly, Writing
<1> QED
  BY <1>5, <1>6 DEF CaseInv

(* A file whose rows landed is passed over, of the others every row is of  *)
(* an older attempt.                                                       *)
LEMMA CheckStep == ASSUME CaseInv, Check PROVE CaseInv'
<1>1. /\ job.pc = "check" /\ Running /\ ~Writing
      /\ UNCHANGED <<limit, report, faults, caseRows, uid, counter, verdicts>>
  BY DEF Check, At, Running, Writing, around
<1>2. JobShape' /\ job'.pc \in {"idle", "check", "drop"} /\ FileInv' /\ PlanInv' /\ SkipsOnly'
  <2>1. CASE AlreadyIngested(File, job.attempt)
    BY <1>1, <2>1, NextFileJob DEF Check
  <2>2. CASE ~AlreadyIngested(File, job.attempt)
    <3>1. job' = [pc |-> "drop", attempt |-> job.attempt, at |-> job.at, keep |-> job.keep,
                  superseded |-> job.superseded, then |-> job.then]
      BY <1>1, <2>2, RunningJob DEF Check, Goto
    <3>2. JobShape' /\ job'.pc = "drop"
      BY <1>1, <3>1, RunningJob DEF JobShape, Pcs
    <3>3. ASSUME NEW r \in caseRows, r.file = File PROVE r.attempt < job.attempt
      <4>1. ~(r.attempt >= job.attempt)
        BY <2>2, <3>3 DEF AlreadyIngested, OfFile
      <4>2. r.attempt \in Nat /\ job.attempt \in Nat
        BY <1>1, RunningJob, RunAttemptsAssumption DEF CaseInv, CaseTypes, CaseTypeOK, RowType
      <4> QED
        BY <4>1, <4>2
    <3>4. FileInv'
      BY <1>1, <3>1, <3>3 DEF FileInv, At, Dropped, File
    <3> QED
      BY <3>2, <3>4 DEF At, PlanInv, SkipsOnly, Writing
  <2> QED
    BY <2>1, <2>2
<1>3. CaseTypes' /\ OneAttemptPerFile' /\ NoRepeats' /\ BesideInv' /\ CounterInv'
  BY <1>1, <1>2, CalmStep
<1> QED
  BY <1>2, <1>3 DEF CaseInv

(* Rows leave the table: what was said of every row is said of the others. *)
LEMMA FewerRows ==
  ASSUME CaseInv, JobShape', UNCHANGED <<limit, report, faults, uid, counter, verdicts>>,
         caseRows' \subseteq caseRows
  PROVE  CaseTypes' /\ OneAttemptPerFile' /\ NoRepeats'
<1>1. IsFiniteSet(caseRows')
  BY FS_Subset DEF CaseInv, CaseTypes
<1>2. CaseTypeOK'
  <2>1. job'.pc \in Pcs \union {"idle"}
    BY DEF JobShape, Idle
  <2> QED
    BY <2>1 DEF CaseInv, CaseTypes, CaseTypeOK, Pcs
<1>3. CaseTypes'
  BY <1>1, <1>2 DEF CaseInv, CaseTypes
<1>4. OneAttemptPerFile'
  BY DEF CaseInv, OneAttemptPerFile
<1>5. NoRepeats'
  BY DEF CaseInv, NoRepeats
<1> QED
  BY <1>3, <1>4, <1>5

(* The rows of the older attempt go, and with them every row of the file.  *)
LEMMA DropRowsStep == ASSUME CaseInv, DropRows PROVE CaseInv'
<1>1. /\ job.pc = "drop" /\ Running /\ ~Writing
      /\ UNCHANGED <<limit, report, faults, uid, counter, verdicts>>
  BY DEF DropRows, At, Running, Writing, around
<1>2. /\ caseRows' = caseRows \ Older(File, job.attempt)
      /\ \/ job' = [job EXCEPT !.pc = "clear", !.then = "dropVerdicts"]
         \/ job' = [job EXCEPT !.pc = "dropVerdicts"] /\ caseRows' = caseRows
  BY DEF DropRows, Goto
<1>3. PICK p \in {"clear", "dropVerdicts"}, t \in {"none", "next", "dropVerdicts"} :
        /\ job' = [pc |-> p, attempt |-> job.attempt, at |-> job.at, keep |-> job.keep,
                   superseded |-> job.superseded, then |-> t]
        /\ p = "clear" => t = "dropVerdicts"
        /\ p = "dropVerdicts" => caseRows' = caseRows
  BY <1>1, <1>2, RunningJob
<1>4. JobShape'
  BY <1>1, <1>3, RunningJob DEF JobShape, Pcs
<1>5. CaseTypes' /\ OneAttemptPerFile' /\ NoRepeats'
  BY <1>1, <1>2, <1>4, FewerRows
<1>6. FileInv'
  <2>1. ASSUME NEW r \in caseRows' PROVE r.file # File
    BY <1>1, <1>2 DEF CaseInv, FileInv, At, Older, OfFile
  <2> QED
    BY <1>3, <2>1 DEF FileInv, At, Dropped, File
<1>7. PlanInv' /\ SkipsOnly'
  BY <1>3 DEF At, PlanInv, SkipsOnly, Writing
<1>8. BesideInv'
  BY <1>1, <1>2 DEF CaseInv, BesideInv, Beside
<1>9. CounterInv'
  BY <1>1, <1>3 DEF CaseInv, CounterInv, At
<1> QED
  BY <1>5, <1>6, <1>7, <1>8, <1>9 DEF CaseInv

(* Older verdicts of the file go.                                          *)
LEMMA DropVerdictsStep == ASSUME CaseInv, DropVerdicts PROVE CaseInv'
<1>1. /\ job.pc = "dropVerdicts" /\ Running /\ ~Writing
      /\ UNCHANGED <<limit, report, faults, caseRows, uid, counter>>
      /\ verdicts' \subseteq verdicts
  BY DEF DropVerdicts, At, Running, Writing, around
<1>2. job' = [pc |-> "plan", attempt |-> job.attempt, at |-> job.at, keep |-> job.keep,
              superseded |-> job.superseded, then |-> job.then]
  BY <1>1, RunningJob DEF DropVerdicts, Goto
<1>3. JobShape'
  BY <1>1, <1>2, RunningJob DEF JobShape, Pcs
<1>4. CaseTypes' /\ OneAttemptPerFile' /\ NoRepeats' /\ BesideInv' /\ CounterInv'
  BY <1>1, <1>2, <1>3, CalmStep
<1>5. FileInv'
  BY <1>1, <1>2 DEF CaseInv, FileInv, At, Dropped, File
<1>6. PlanInv' /\ SkipsOnly'
  BY <1>2 DEF At, PlanInv, SkipsOnly, Writing
<1> QED
  BY <1>4, <1>5, <1>6 DEF CaseInv

(* The DELETE of _rebuild_counters.                                        *)
LEMMA ClearStep == ASSUME CaseInv, ClearCounters PROVE CaseInv'
<1>1. /\ job.pc = "clear" /\ Running /\ ~Writing /\ counter' = 0
      /\ UNCHANGED <<limit, report, faults, caseRows, uid, verdicts>>
  BY DEF ClearCounters, At, Running, Writing, around
<1>2. job' = [pc |-> "recount", attempt |-> job.attempt, at |-> job.at, keep |-> job.keep,
              superseded |-> job.superseded, then |-> job.then]
  BY <1>1, RunningJob DEF ClearCounters, Goto
<1>3. JobShape'
  BY <1>1, <1>2, RunningJob DEF JobShape, Pcs
<1>4. CaseTypes' /\ OneAttemptPerFile' /\ NoRepeats'
  <2>1. /\ counter' \in Nat /\ verdicts' \subseteq FileSet \X RunAttempts
        /\ \A v, w \in verdicts' : v[1] = w[1] => v = w
    BY <1>1 DEF CaseInv, CaseTypes, CaseTypeOK, OneAttemptPerFile
  <2> QED
    BY <1>1, <1>3, <2>1, SameTable
<1>5. FileInv'
  BY <1>1, <1>2 DEF CaseInv, FileInv, At, Dropped, File
<1>6. PlanInv' /\ SkipsOnly'
  BY <1>2 DEF At, PlanInv, SkipsOnly, Writing
<1>7. BesideInv'
  BY <1>1 DEF CaseInv, BesideInv, Beside
<1>8. CounterInv'
  BY <1>1, <1>2 DEF CounterInv, At
<1> QED
  BY <1>4, <1>5, <1>6, <1>7, <1>8 DEF CaseInv

(* The INSERT ... SELECT count() of _rebuild_counters.                     *)
LEMMA RecountStep == ASSUME CaseInv, Recount PROVE CaseInv'
<1>1. /\ job.pc = "recount" /\ Running /\ ~Writing
      /\ counter' = counter + Cardinality(caseRows)
      /\ UNCHANGED <<limit, report, faults, caseRows, uid, verdicts>>
  BY DEF Recount, At, Running, Writing, around
<1>2. /\ JobShape' /\ job'.pc \in {"idle", "check", "dropVerdicts"}
      /\ FileInv' /\ PlanInv' /\ SkipsOnly'
  <2>1. CASE job.then = "next"
    BY <1>1, <2>1, NextFileJob DEF Recount
  <2>2. CASE job.then # "next"
    <3>1. job.then = "dropVerdicts"
      BY <1>1, <2>2, RunningJob
    <3>2. job' = [pc |-> "dropVerdicts", attempt |-> job.attempt, at |-> job.at,
                  keep |-> job.keep, superseded |-> job.superseded, then |-> job.then]
      BY <1>1, <3>1, RunningJob DEF Recount, Goto
    <3>3. JobShape'
      BY <1>1, <3>2, RunningJob DEF JobShape, Pcs
    <3>4. FileInv'
      BY <1>1, <3>1, <3>2 DEF CaseInv, FileInv, At, Dropped, File
    <3> QED
      BY <3>2, <3>3, <3>4 DEF At, PlanInv, SkipsOnly, Writing
  <2> QED
    BY <2>1, <2>2
<1>3. Cardinality(caseRows) \in Nat /\ counter \in Nat
  BY FS_CardinalityType DEF CaseInv, CaseTypes, CaseTypeOK
<1>4. CaseTypes' /\ OneAttemptPerFile' /\ NoRepeats'
  <2>1. /\ counter' \in Nat /\ verdicts' \subseteq FileSet \X RunAttempts
        /\ \A v, w \in verdicts' : v[1] = w[1] => v = w
    BY <1>1, <1>3 DEF CaseInv, CaseTypes, CaseTypeOK, OneAttemptPerFile
  <2> QED
    BY <1>1, <1>2, <2>1, SameTable
<1>5. BesideInv'
  BY <1>1 DEF CaseInv, BesideInv, Beside
<1>6. CounterInv'
  BY <1>1, <1>2, <1>3 DEF CaseInv, CounterInv, At
<1> QED
  BY <1>2, <1>4, <1>5, <1>6 DEF CaseInv

(* Verdicts are written for a file that has none.                          *)
LEMMA VerdictsStep == ASSUME CaseInv, InsertVerdicts PROVE CaseInv'
<1>1. /\ job.pc = "verdicts" /\ Running
      /\ UNCHANGED <<limit, report, faults, caseRows, uid, counter>>
  BY DEF InsertVerdicts, At, Running, around
<1>2. /\ JobShape' /\ job'.pc \in {"idle", "check", "supersede"}
      /\ job'.pc = "supersede" => job'.superseded = job.superseded
      /\ job'.pc # "supersede" => job.superseded = {}
      /\ FileInv' /\ PlanInv' /\ SkipsOnly'
  <2>1. CASE job.superseded = {}
    BY <1>1, <2>1, NextFileJob DEF InsertVerdicts
  <2>2. CASE job.superseded # {}
    <3>1. job' = [pc |-> "supersede", attempt |-> job.attempt, at |-> job.at,
                  keep |-> job.keep, superseded |-> job.superseded, then |-> job.then]
      BY <1>1, <2>2, RunningJob DEF InsertVerdicts, Goto
    <3>2. JobShape'
      BY <1>1, <3>1, RunningJob DEF JobShape, Pcs
    <3>3. FileInv' /\ PlanInv'
      BY <3>1 DEF FileInv, At, Dropped, PlanInv
    <3>4. SkipsOnly'
      BY <1>1, <3>1 DEF CaseInv, SkipsOnly, Writing
    <3> QED
      BY <3>1, <3>2, <3>3, <3>4
  <2> QED
    BY <2>1, <2>2
<1>3. CaseTypes' /\ OneAttemptPerFile' /\ NoRepeats'
  <2>1. File \in FileSet /\ job.attempt \in RunAttempts
    BY <1>1, RunningJob DEF File, FileSet
  <2>2. /\ counter' \in Nat /\ verdicts' \subseteq FileSet \X RunAttempts
        /\ \A v, w \in verdicts' : v[1] = w[1] => v = w
    BY <1>1, <2>1 DEF InsertVerdicts, CaseInv, CaseTypes, CaseTypeOK, OneAttemptPerFile
  <2> QED
    BY <1>1, <1>2, <2>2, SameTable
<1>4. BesideInv'
  BY <1>1, <1>2 DEF CaseInv, BesideInv, Beside, Writing
<1>5. CounterInv'
  BY <1>1, <1>2 DEF CaseInv, CounterInv, At
<1> QED
  BY <1>2, <1>3, <1>4, <1>5 DEF CaseInv

(* The superseded skips go, and no skip stands beside an execution.        *)
LEMMA SupersedeStep == ASSUME CaseInv, DeleteSuperseded PROVE CaseInv'
<1>1. /\ job.pc = "supersede" /\ Running /\ caseRows' = caseRows \ job.superseded
      /\ UNCHANGED <<limit, report, faults, uid, counter, verdicts>>
  BY DEF DeleteSuperseded, At, Running, around
<1>2. job' = [pc |-> "clear", attempt |-> job.attempt, at |-> job.at, keep |-> job.keep,
              superseded |-> job.superseded, then |-> "next"]
  BY <1>1, RunningJob DEF DeleteSuperseded
<1>3. JobShape'
  BY <1>1, <1>2, RunningJob DEF JobShape, Pcs
<1>4. CaseTypes' /\ OneAttemptPerFile' /\ NoRepeats'
  BY <1>1, <1>3, FewerRows
<1>5. FileInv' /\ PlanInv' /\ SkipsOnly'
  BY <1>2 DEF FileInv, At, Dropped, PlanInv, SkipsOnly, Writing
<1>6. BesideInv'
  BY <1>1 DEF CaseInv, BesideInv, Beside
<1>7. CounterInv'
  BY <1>2 DEF CounterInv, At
<1> QED
  BY <1>4, <1>5, <1>6, <1>7 DEF CaseInv

(* A request that fails, or a process that dies, leaves the table as it    *)
(* is, and ends the promises made for ingests without a fault.             *)
LEMMA FaultStep == ASSUME CaseInv, RequestFails \/ Crash PROVE CaseInv'
<1>1. /\ Running /\ faults < limit.faults /\ faults' = faults + 1
      /\ UNCHANGED <<limit, report, caseRows, uid, counter, verdicts>>
      /\ NextFile \/ job' = Idle
  BY DEF RequestFails, Crash
<1>2. JobShape' /\ FileInv' /\ PlanInv' /\ SkipsOnly'
  <2>1. CASE NextFile
    BY <1>1, <2>1, NextFileJob
  <2>2. CASE job' = Idle
    BY <2>2 DEF JobShape, Idle, FileInv, At, Dropped, PlanInv, SkipsOnly, Writing
  <2> QED
    BY <1>1, <2>1, <2>2
<1>3. faults' \in Nat /\ faults' <= limit'.faults /\ faults' # 0
  <2>1. faults \in Nat /\ limit.faults \in Nat
    BY LimitsAssumption DEF CaseInv, CaseTypes
  <2> QED
    BY <1>1, <2>1
<1>4. CaseTypeOK'
  <2>1. job'.pc \in Pcs \union {"idle"}
    BY <1>2 DEF JobShape, Idle
  <2> QED
    BY <1>1, <2>1 DEF CaseInv, CaseTypes, CaseTypeOK, Pcs
<1>5. CaseTypes'
  BY <1>1, <1>2, <1>3, <1>4 DEF CaseInv, CaseTypes
<1>6. OneAttemptPerFile' /\ NoRepeats'
  BY <1>1 DEF CaseInv, OneAttemptPerFile, NoRepeats
<1>7. BesideInv' /\ CounterInv'
  BY <1>3 DEF BesideInv, CounterInv
<1> QED
  BY <1>2, <1>5, <1>6, <1>7 DEF CaseInv

(* _restates between rows that the run executed: of different files, and   *)
(* of one attempt of a file.                                               *)
LEMMA RestatesAcross ==
  ASSUME NEW a, NEW b, a.ranIn = RunId, b.ranIn = RunId, a.file # b.file
  PROVE  Restates(RunId, a, b) <=> a.status # "skipped" /\ b.status = "skipped"
  BY DEF Restates, Ran, Copied

LEMMA RestatesWithin ==
  ASSUME NEW a, NEW b, a.ranIn = RunId, b.ranIn = RunId, a.file = b.file,
         a.attempt = b.attempt
  PROVE  Restates(RunId, a, b) <=> SameOutcome(a, b)
  BY DEF Restates, Ran, Copied

(* An element of a sequence.                                               *)
LEMMA ElementOf ==
  ASSUME NEW T, NEW q \in Seq(T), NEW i \in DOMAIN q
  PROVE  q[i] \in T
  OBVIOUS

(* The rows a report makes of the file at hand.                            *)
LEMMA NewRows ==
  ASSUME CaseInv, Running
  PROVE  LET L == report[job.attempt][File]
             new == [i \in DOMAIN L |-> CaseRow(L[i], File, job.attempt)]
         IN  /\ \E m \in Nat : DOMAIN new = 1..m
             /\ \A i \in DOMAIN new :
                   /\ new[i].case \in STRING
                   /\ new[i].status \in {"passed", "failed", "skipped"}
                   /\ new[i].mark \in Nat /\ new[i].prior = "none"
                   /\ new[i].ranIn = RunId /\ new[i].file = File
                   /\ new[i].attempt = job.attempt
<1> DEFINE L == report[job.attempt][File]
           new == [i \in DOMAIN L |-> CaseRow(L[i], File, job.attempt)]
           Entry == [case : STRING, status : {"passed", "failed", "skipped"}, mark : Nat]
<1>1. File \in FileSet /\ job.attempt \in RunAttempts
  BY RunningJob DEF File, FileSet
<1>2. report \in [RunAttempts -> [FileSet -> Seq(Entry)]]
  BY ReportsAssumption DEF CaseInv, CaseTypes
<1>3. L \in Seq(Entry)
  BY <1>1, <1>2
<1> HIDE DEF L
<1>4. Len(L) \in Nat /\ DOMAIN new = 1..Len(L)
  BY <1>3
<1>5. ASSUME NEW i \in DOMAIN new
      PROVE  /\ new[i].case \in STRING
             /\ new[i].status \in {"passed", "failed", "skipped"}
             /\ new[i].mark \in Nat /\ new[i].prior = "none"
             /\ new[i].ranIn = RunId /\ new[i].file = File
             /\ new[i].attempt = job.attempt
  <2>1. i \in DOMAIN L /\ new[i] = CaseRow(L[i], File, job.attempt)
    BY <1>5, Zenon
  <2>2. L[i] \in Entry
    BY <1>3, <2>1, ElementOf, Zenon
  <2> QED
    BY <2>1, <2>2 DEF CaseRow
<1> QED
  BY <1>4, <1>5 DEF L

(* The plan: no row of it repeats another, or is to stand beside rows that *)
(* it does not supersede; and it supersedes skips only.                    *)
LEMMA PlanStep == ASSUME CaseInv, Plan PROVE CaseInv'
<1> DEFINE L == report[job.attempt][File]
           new == [i \in DOMAIN L |-> CaseRow(L[i], File, job.attempt)]
           K == Keep(RunId, new, caseRows)
           S == UNION {Replaced(RunId, new[i], caseRows) : i \in K}
<1>1. /\ job.pc = "plan" /\ Running /\ ~Writing
      /\ UNCHANGED <<limit, report, faults, caseRows, uid, counter, verdicts>>
      /\ job' = [job EXCEPT !.pc = "insert",
                   !.keep = [i \in K |-> KeepPrior(RunId, new[i], caseRows)],
                   !.superseded = S]
  BY DEF Plan, At, Running, Writing, around, OnePerCase
<1>2. PICK m \in Nat : DOMAIN new = 1..m
  BY <1>1, NewRows, Zenon
<1>3. \A i \in 1..m : /\ new[i].case \in STRING
                      /\ new[i].status \in {"passed", "failed", "skipped"}
                      /\ new[i].mark \in Nat /\ new[i].prior = "none"
                      /\ new[i].ranIn = RunId /\ new[i].file = File
                      /\ new[i].attempt = job.attempt
  BY <1>1, <1>2, NewRows
<1>4. \A s \in caseRows : s.file # File /\ s.ranIn = RunId
  BY <1>1 DEF CaseInv, FileInv, Dropped, CaseTypes, CaseTypeOK, RowType
<1> HIDE DEF new
<1>5. /\ K \subseteq 1..m
      /\ \A i, j \in K : j < i => ~(new[j].case = new[i].case /\ Restates(RunId, new[j], new[i]))
      /\ \A i \in K : \A s \in caseRows :
            s.case = new[i].case => ~Restates(RunId, s, new[i])
  BY <1>2, UnrepeatedChosen DEF Keep, Unrepeated, Held
<1>6. ASSUME NEW i \in K PROVE KeepPrior(RunId, new[i], caseRows) = new[i]
  BY <1>3, <1>4, <1>5 DEF KeepPrior, Replaced, Held
<1>7. \A h : h \in S <=> \E i \in K : /\ h \in caseRows /\ h.case = new[i].case
                                     /\ Restates(RunId, new[i], h)
  BY DEF Replaced, Held
<1> HIDE DEF K, S
<1>8. job' = [pc |-> "insert", attempt |-> job.attempt, at |-> job.at,
              keep |-> [i \in K |-> new[i]], superseded |-> S, then |-> job.then]
  <2>1. [i \in K |-> KeepPrior(RunId, new[i], caseRows)] = [i \in K |-> new[i]]
    BY <1>6
  <2> QED
    BY <1>1, <2>1, RunningJob
<1>9. JobShape'
  BY <1>1, <1>8, RunningJob DEF JobShape, Pcs
<1>10. CaseTypes' /\ OneAttemptPerFile' /\ NoRepeats' /\ BesideInv' /\ CounterInv'
  BY <1>1, <1>8, <1>9, CalmStep
<1>11. File' = File /\ job'.attempt = job.attempt
  BY <1>8 DEF File
<1>12. FileInv'
  BY <1>1, <1>4, <1>8, <1>11 DEF FileInv, At, Dropped
<1>13. SkipsOnly'
  <2> SUFFICES ASSUME NEW h \in S PROVE h.status = "skipped"
    BY <1>8 DEF SkipsOnly
  <2>1. PICK i \in K : h \in caseRows /\ Restates(RunId, new[i], h)
    BY <1>7
  <2> QED
    BY <1>3, <1>4, <1>5, <2>1, RestatesAcross
<1>14. PlanInv'
  <2>1. ASSUME NEW i \in K, NEW s \in caseRows, s.case = new[i].case
        PROVE  /\ s.file # File
               /\ new[i].status = "skipped" => s.status = "skipped"
               /\ new[i].status # "skipped" /\ s.status = "skipped" => s \in S
    <3>1. s.file # File /\ s.ranIn = RunId /\ new[i].file = File /\ new[i].ranIn = RunId
      BY <1>3, <1>4, <1>5
    <3>2. ~(s.status # "skipped" /\ new[i].status = "skipped")
      BY <1>5, <2>1, <3>1, RestatesAcross
    <3>3. new[i].status # "skipped" /\ s.status = "skipped" => Restates(RunId, new[i], s)
      BY <3>1, RestatesAcross
    <3> QED
      BY <1>7, <2>1, <3>1, <3>2, <3>3
  <2>2. ASSUME NEW i \in K, NEW j \in K, i # j, new[i].case = new[j].case
        PROVE  ~SameOutcome(new[i], new[j])
    <3>1. /\ i \in 1..m /\ j \in 1..m
          /\ Restates(RunId, new[j], new[i]) <=> SameOutcome(new[j], new[i])
          /\ Restates(RunId, new[i], new[j]) <=> SameOutcome(new[i], new[j])
      BY <1>3, <1>5, RestatesWithin
    <3>2. j < i \/ i < j
      BY <2>2, <3>1
    <3>3. SameOutcome(new[i], new[j]) <=> SameOutcome(new[j], new[i])
      BY DEF SameOutcome
    <3> QED
      BY <1>5, <2>2, <3>1, <3>2, <3>3
  <2>3. /\ DOMAIN job'.keep = K /\ \A i \in K : job'.keep[i] = new[i]
        /\ job'.superseded = S /\ caseRows' = caseRows
    <3>1. caseRows' = caseRows
      BY <1>1, Zenon
    <3>2. job'.keep = [i \in K |-> new[i]] /\ job'.superseded = S
      BY <1>8
    <3> QED
      BY <3>1, <3>2
  <2> SUFFICES ASSUME NEW i \in K
               PROVE  /\ Planned(job.keep[i])'
                      /\ \A j \in K : i # j /\ job'.keep[i].case = job'.keep[j].case =>
                                        ~SameOutcome(job'.keep[i], job'.keep[j])
    BY <2>3 DEF PlanInv, SameOutcome
  <2>4. Planned(job.keep[i])'
    <3>1. i \in 1..m /\ job'.keep[i] = new[i] /\ job'.superseded = S /\ caseRows' = caseRows
      BY <1>5, <2>3, Zenon
    <3>2. /\ new[i].case \in STRING /\ new[i].status \in {"passed", "failed", "skipped"}
          /\ new[i].mark \in Nat /\ new[i].prior \in {"none", "failed"}
          /\ new[i].ranIn = RunId /\ new[i].file = File' /\ new[i].attempt = job'.attempt
      BY <1>3, <1>11, <3>1
    <3>3. \A s \in caseRows :
            s.case = new[i].case =>
              /\ s.file # File'
              /\ new[i].status = "skipped" => s.status = "skipped"
              /\ new[i].status # "skipped" /\ s.status = "skipped" => s \in S
      BY <1>11, <2>1, Zenon
    <3> QED
      BY <3>1, <3>2, <3>3 DEF Planned, SameOutcome
  <2> QED
    BY <2>2, <2>3, <2>4
<1> QED
  BY <1>10, <1>12, <1>13, <1>14 DEF CaseInv

(* A planned row is stored, and the others are still fit to be.            *)
LEMMA StoreStep ==
  ASSUME CaseInv, At("insert"), NEW i \in DOMAIN job.keep, Store(job.keep[i]),
         job' = [job EXCEPT !.keep = [j \in DOMAIN @ \ {i} |-> @[j]]],
         UNCHANGED <<limit, report, faults, verdicts>>
  PROVE  CaseInv'
<1> DEFINE r == job.keep[i]
           x == Stored(r)
           D == DOMAIN job.keep
<1>1. job.pc = "insert" /\ Running /\ Writing
  BY DEF At, Running, Writing
<1>2. job' = [pc |-> "insert", attempt |-> job.attempt, at |-> job.at,
              keep |-> [j \in D \ {i} |-> job.keep[j]],
              superseded |-> job.superseded, then |-> job.then]
  BY <1>1, RunningJob
<1>3. /\ JobShape' /\ job'.pc = "insert" /\ File' = File /\ job'.attempt = job.attempt
      /\ job'.superseded = job.superseded
      /\ DOMAIN job'.keep = D \ {i} /\ \A j \in D \ {i} : job'.keep[j] = job.keep[j]
  <2>1. JobShape'
    BY <1>1, <1>2, RunningJob DEF JobShape, Pcs
  <2> QED
    BY <1>2, <2>1 DEF File
<1>4. /\ Planned(r)
      /\ \A j \in D : j # i /\ r.case = job.keep[j].case => ~SameOutcome(r, job.keep[j])
      /\ \A j \in D : Planned(job.keep[j])
  BY <1>1 DEF CaseInv, PlanInv, At
<1>5. /\ x.case = r.case /\ x.status = r.status /\ x.mark = r.mark /\ x.ranIn = RunId
      /\ x.file = File /\ x.attempt = job.attempt /\ x.uid = uid
      /\ x \in RowType
  <2>1. File \in FileSet /\ job.attempt \in RunAttempts /\ uid \in Nat
    BY <1>1, RunningJob DEF File, FileSet, CaseInv, CaseTypes
  <2> HIDE DEF r
  <2> QED
    BY <1>4, <2>1 DEF Planned, Stored, RowType
<1>6. caseRows' = caseRows \union {x} /\ uid' = uid + 1 /\ counter' = counter + 1
  BY DEF Store
<1> HIDE DEF r, x, D
<1>7. x \notin caseRows
  BY <1>5 DEF CaseInv, CaseTypes, CaseTypeOK, RowType
<1>8. /\ IsFiniteSet(caseRows') /\ Cardinality(caseRows') = Cardinality(caseRows) + 1
  BY <1>6, <1>7, FS_AddElement DEF CaseInv, CaseTypes
<1>9. CaseTypes'
  <2>1. uid \in Nat /\ counter \in Nat /\ uid' \in Nat /\ counter' \in Nat
    BY <1>6 DEF CaseInv, CaseTypes, CaseTypeOK
  <2>2. ASSUME NEW s \in caseRows' PROVE s \in RowType /\ s.uid < uid'
    <3>1. CASE s \in caseRows
      <4>1. s \in RowType /\ s.uid < uid
        BY <3>1 DEF CaseInv, CaseTypes, CaseTypeOK
      <4>2. s.uid \in Nat
        BY <4>1 DEF RowType
      <4> QED
        BY <1>6, <2>1, <4>1, <4>2
    <3>2. CASE s = x
      BY <1>5, <1>6, <2>1, <3>2
    <3> QED
      BY <1>6, <3>1, <3>2
  <2>3. CaseTypeOK'
    BY <1>3, <2>1, <2>2 DEF CaseInv, CaseTypes, CaseTypeOK
  <2> QED
    BY <1>3, <1>8, <2>1, <2>3 DEF CaseInv, CaseTypes
<1>10. \A s \in caseRows : s.file = File => s.attempt = job.attempt
  BY <1>1 DEF CaseInv, FileInv, At
<1>11. OneAttemptPerFile'
  BY <1>5, <1>6, <1>10 DEF CaseInv, OneAttemptPerFile
<1>12. \A s \in caseRows : s.file = File /\ s.case = x.case => ~SameOutcome(s, x)
  BY <1>4, <1>5 DEF Planned, SameOutcome
<1>13. NoRepeats'
  <2>1. \A s \in caseRows : SameOutcome(s, x) <=> SameOutcome(x, s)
    BY DEF SameOutcome
  <2> QED
    BY <1>5, <1>6, <1>12, <2>1 DEF CaseInv, NoRepeats, SameOutcome
<1>14. FileInv'
  BY <1>3, <1>5, <1>6, <1>10 DEF FileInv, At, Dropped
<1>15. SkipsOnly'
  BY <1>1, <1>3 DEF CaseInv, SkipsOnly, Writing
<1>16. BesideInv'
  <2> SUFFICES ASSUME faults' = 0, NEW a \in caseRows', NEW b \in caseRows', Beside(a, b)
               PROVE  Writing' /\ b \in job'.superseded
    BY DEF BesideInv, Beside
  <2>1. Writing'
    BY <1>3 DEF Writing
  <2>2. CASE a \in caseRows /\ b \in caseRows
    BY <1>3, <2>1, <2>2 DEF CaseInv, BesideInv
  <2>3. CASE a = x /\ b \in caseRows
    BY <1>3, <1>4, <1>5, <2>1, <2>3 DEF Planned, Beside
  <2>4. CASE b = x /\ a \in caseRows
    BY <1>4, <1>5, <2>4 DEF Planned, Beside
  <2>5. ~(a = x /\ b = x)
    BY DEF Beside
  <2> QED
    BY <1>6, <2>2, <2>3, <2>4, <2>5
<1>17. PlanInv'
  <2> SUFFICES ASSUME NEW j \in D \ {i}
               PROVE  /\ Planned(job.keep[j])'
                      /\ \A k \in D \ {i} : j # k /\ job'.keep[j].case = job'.keep[k].case =>
                                              ~SameOutcome(job'.keep[j], job'.keep[k])
    BY <1>3 DEF PlanInv, SameOutcome
  <2>1. job'.keep[j] = job.keep[j] /\ Planned(job.keep[j])
    BY <1>3, <1>4
  <2>2. job.keep[j].case = x.case => ~SameOutcome(x, job.keep[j])
    BY <1>4, <1>5 DEF SameOutcome
  <2>3. Planned(job.keep[j])'
    BY <1>3, <1>5, <1>6, <2>1, <2>2 DEF Planned, SameOutcome
  <2> QED
    BY <1>1, <1>3, <2>3 DEF CaseInv, PlanInv, At, D
<1>18. CounterInv'
  BY <1>1, <1>3, <1>6, <1>8 DEF CaseInv, CounterInv, At
<1> QED
  BY <1>9, <1>11, <1>13, <1>14, <1>15, <1>16, <1>17, <1>18 DEF CaseInv

(* The last planned row is stored.                                         *)
LEMMA InsertStep == ASSUME CaseInv, InsertBatch PROVE CaseInv'
<1>1. CASE DOMAIN job.keep # {}
  BY <1>1, StoreStep DEF InsertBatch, around
<1>2. CASE DOMAIN job.keep = {}
  <2>1. /\ job.pc = "insert" /\ Running
        /\ UNCHANGED <<limit, report, faults, caseRows, uid, counter, verdicts>>
    BY <1>2 DEF InsertBatch, At, Running, around
  <2>2. job' = [pc |-> "verdicts", attempt |-> job.attempt, at |-> job.at,
                keep |-> job.keep, superseded |-> job.superseded, then |-> job.then]
    BY <1>2, <2>1, RunningJob DEF InsertBatch, Goto
  <2>3. JobShape'
    BY <2>1, <2>2, RunningJob DEF JobShape, Pcs
  <2>4. CaseTypes' /\ OneAttemptPerFile' /\ NoRepeats'
    <3>1. /\ counter' \in Nat /\ verdicts' \subseteq FileSet \X RunAttempts
          /\ \A v, w \in verdicts' : v[1] = w[1] => v = w
      BY <2>1 DEF CaseInv, CaseTypes, CaseTypeOK, OneAttemptPerFile
    <3> QED
      BY <2>1, <2>3, <3>1, SameTable
  <2>5. FileInv' /\ PlanInv'
    BY <2>2 DEF FileInv, At, Dropped, PlanInv
  <2>6. SkipsOnly' /\ BesideInv'
    BY <2>1, <2>2 DEF CaseInv, SkipsOnly, BesideInv, Beside, Writing
  <2>7. CounterInv'
    BY <2>1, <2>2 DEF CaseInv, CounterInv, At
  <2> QED
    BY <2>4, <2>5, <2>6, <2>7 DEF CaseInv
<1> QED
  BY <1>1, <1>2

(* CaseInv is inductive.                                                   *)
LEMMA NextCaseInv == CaseInv /\ [CaseNext]_caseVars => CaseInv'
<1> SUFFICES ASSUME CaseInv, [CaseNext]_caseVars PROVE CaseInv'
  OBVIOUS
<1>1. CASE Step
  BY <1>1, CheckStep, DropRowsStep, DropVerdictsStep, ClearStep, RecountStep, PlanStep,
     InsertStep, VerdictsStep, SupersedeStep, Zenon DEF Step
<1>2. CASE UNCHANGED caseVars
  <2>1. UNCHANGED <<limit, report, faults, caseRows, uid, counter, verdicts, job>>
    BY <1>2 DEF caseVars, around
  <2>2. CaseTypes' /\ OneAttemptPerFile' /\ NoRepeats'
    BY <2>1 DEF CaseInv, CaseTypes, JobShape, CaseTypeOK, OneAttemptPerFile, NoRepeats
  <2>3. FileInv'
    BY <2>1 DEF CaseInv, FileInv, At, Dropped, File
  <2>4. PlanInv'
    <3>1. PlanInv
      BY DEF CaseInv
    <3>2. ASSUME NEW r, Planned(r) PROVE Planned(r)'
      BY <2>1, <3>2 DEF Planned, File, SameOutcome
    <3> QED
      BY <2>1, <3>1, <3>2 DEF PlanInv, At, SameOutcome
  <2>5. SkipsOnly' /\ BesideInv'
    BY <2>1 DEF CaseInv, SkipsOnly, BesideInv, Beside, Writing
  <2>6. CounterInv'
    BY <2>1 DEF CaseInv, CounterInv, At
  <2> QED
    BY <2>2, <2>3, <2>4, <2>5, <2>6 DEF CaseInv
<1> QED
  BY <1>1, <1>2, StartStep, FaultStep DEF CaseNext, CaseFinished

(* A run holds one outcome per case, for any report files, attempts and    *)
(* faults: one attempt of each file, no outcome twice; and without faults  *)
(* no skip beside an execution, and each stored outcome counted once.      *)
THEOREM OneOutcomeEach == CaseSpec => []OneOutcomePerCase
<1>1. CaseInv => OneOutcomePerCase
  <2> SUFFICES ASSUME CaseInv PROVE OneOutcomePerCase
    OBVIOUS
  <2>1. CaseTypeOK /\ OneAttemptPerFile /\ NoRepeats
    BY DEF CaseInv, CaseTypes
  <2>2. limit.faults = 0 => CountersCount
    <3>1. limit.faults = 0 => faults = 0
      BY DEF CaseInv, CaseTypes
    <3> QED
      BY <3>1 DEF CaseInv, CounterInv, CountersCount, Running
  <2>3. SkipsGiveWay
    BY DEF CaseInv, BesideInv, Beside, Writing, SkipsGiveWay, Running, Ran
  <2> QED
    BY <2>1, <2>2, <2>3 DEF OneOutcomePerCase
<1> QED
  BY InitCaseInv, NextCaseInv, <1>1, PTL DEF CaseSpec

(* An executed outcome leaves the table only to make room for a newer      *)
(* attempt of its own file, whatever request fails.                        *)
THEOREM ExecutionsStay == CaseSpec => ExecutedKept
<1>1. CaseInv /\ [CaseNext]_caseVars => [RemovedByDrop]_caseVars
  <2> SUFFICES ASSUME CaseInv, CaseNext, NEW r \in caseRows, Ran(RunId, r), r \notin caseRows'
               PROVE  At("drop") /\ File = r.file /\ job.attempt > r.attempt
    BY DEF RemovedByDrop
  <2>1. CASE DropRows
    <3>1. r.attempt \in Nat /\ job.attempt \in Nat
      <4>1. Running
        BY <2>1 DEF DropRows, At, Running
      <4> QED
        BY <4>1, RunningJob, RunAttemptsAssumption DEF CaseInv, CaseTypes, CaseTypeOK, RowType
    <3> QED
      BY <2>1, <3>1 DEF DropRows, Older, OfFile
  <2>2. ~DeleteSuperseded
    BY DEF DeleteSuperseded, At, CaseInv, SkipsOnly, Writing, Ran
  <2>3. ~InsertBatch
    BY DEF InsertBatch, Store
  <2> QED
    BY <2>1, <2>2, <2>3 DEF CaseNext, Step, Start, Check, DropVerdicts, ClearCounters, Recount,
       Plan, InsertVerdicts, RequestFails, Crash, CaseFinished, caseVars
<1> QED
  BY InitCaseInv, NextCaseInv, <1>1, PTL DEF CaseSpec, ExecutedKept
=============================================================================
