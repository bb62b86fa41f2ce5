---------------------------- MODULE JobPlanLaunch ----------------------------
(***************************************************************************)
(* SpyreStream::launch (csrc/spyre_stream.cpp) on one JobPlan, launched    *)
(* again and again while earlier launches are still running on the device. *)
(* The steps of a launch are constructed one by one on the caller's        *)
(* thread; the binding keeps the GIL, so launches do not overlap on the    *)
(* host.  HostCompute runs inline; uploads, computes and downloads are     *)
(* queued on streams the device works off in FIFO order.                   *)
(*                                                                         *)
(* With flex's hazard tracker on, Prep steps go to the one persistent host *)
(* compute stream and user streams may differ from launch to launch: flex  *)
(* orders operations of different streams that touch the same region.      *)
(* With the tracker off every step of every launch goes to one stream.     *)
(*                                                                         *)
(* Data is a tag <<launch, step>>: who produced it.                        *)
(***************************************************************************)
EXTENDS JobPlan

CONSTANTS
  UserStreams,     \* streams a launch can be made on when the tracker is on
  PrepStream,      \* S_prep, the persistent host compute stream
  DefaultStream,   \* the only stream in use when the tracker is off
  Plans,           \* step sequences of the JobPlans considered
  CorrectionCaps,  \* what maxProgramCorrections() may report
  MaxLaunches      \* bound on the launches of one JobPlan

Streams == UserStreams \cup {PrepStream, DefaultStream}

ASSUME StreamAssumption ==
  /\ PrepStream \notin UserStreams \cup {DefaultStream}
  /\ Plans \subseteq Seq(PlanSteps)
  /\ CorrectionCaps \subseteq Nat
  /\ MaxLaunches \in Nat

VARIABLES
  tracker,      \* get_hazard_tracker_enabled(), fixed when the module loads
  plan,         \* the steps of the JobPlan
  launches,     \* launches begun so far
  cur,          \* next step of the launch in progress, 0 between launches
  dev,          \* S_dev of the launch in progress
  cap,          \* max_corrections of that launch
  batch,        \* ctx.batch_program_corrections
  corrections,  \* ctx.program_corrections: <<region, tag>> pairs
  queue,        \* queue[s]: operations submitted to s and not yet done
  clock,        \* operations submitted so far
  region,       \* region[r]: the data in region r of the program allocation
  host,         \* host[h]: the data in the host buffer named h
  stale,        \* computes that ran with a correction of another launch
  early,        \* a HostCompute read its input before the D2H had written it
  orphan        \* "Program correction has no consuming compute step" thrown

vars == <<tracker, plan, launches, cur, dev, cap, batch, corrections, queue,
          clock, region, host, stale, early, orphan>>

Nothing == <<0, 0>>

Init ==
  /\ tracker \in BOOLEAN
  /\ plan \in Plans
  /\ launches = 0
  /\ cur = 0
  /\ dev = DefaultStream
  /\ cap = 0
  /\ batch = FALSE
  /\ corrections = <<>>
  /\ queue = [s \in Streams |-> <<>>]
  /\ clock = 0
  /\ region = [r \in Regions |-> Nothing]
  /\ host = [h \in Handles |-> Nothing]
  /\ stale = {}
  /\ early = FALSE
  /\ orphan = FALSE

-----------------------------------------------------------------------------
(* The host side of launch().                                              *)

LaunchBegin(s, c) ==
  /\ cur = 0
  /\ launches < MaxLaunches
  /\ s \in IF tracker THEN UserStreams ELSE {DefaultStream}
  /\ launches' = launches + 1
  /\ cur' = 1
  /\ dev' = s
  /\ cap' = c
  /\ batch' = FALSE
  /\ corrections' = <<>>
  /\ UNCHANGED <<tracker, plan, queue, clock, region, host, stale, early,
                 orphan>>

Tag == <<launches, cur>>

(* A mutant: Prep steps are split off although nothing orders the streams.    *)
TargetIgnoringTracker(step) == IF step.role = "Prep" THEN PrepStream ELSE dev

(* S_prep or S_dev: Prep steps are split off only when the tracker is on.  *)
Target(step) ==
  IF tracker /\ step.role = "Prep" THEN PrepStream ELSE dev

Operation(kind, writes) ==
  [kind |-> kind, launch |-> launches, step |-> cur, writes |-> writes,
   seq |-> clock + 1]

(* A mutant: a stream is not handed its operations in launch order.           *)
SubmitAhead(step, op) ==
  /\ queue' = [queue EXCEPT ![Target(step)] = <<op>> \o @]
  /\ clock' = clock + 1

Submit(step, op) ==
  /\ queue' = [queue EXCEPT ![Target(step)] = Append(@, op)]
  /\ clock' = clock + 1

(* batch_program_corrections, decided at the first step of each group.     *)
Batch(i) ==
  IF /\ cap > 0
     /\ plan[i].kind = "HostCompute"
     /\ i = 1 \/ plan[i - 1].kind # "HostCompute"
  THEN batchable(plan, i, cap)
  ELSE batch

Advance ==
  /\ cur \in 1 .. Len(plan)
  /\ cur' = cur + 1
  /\ batch' = Batch(cur)
  /\ UNCHANGED <<tracker, plan, launches, dev, cap, region, host, stale, orphan>>

(* The D2H step that fills the host buffer h, among the steps before i.    *)
Filled(h, i) == \E j \in 1 .. i - 1 : plan[j].kind = "D2H" /\ plan[j].host = h

FilledBy(h, i) ==
  CHOOSE j \in 1 .. i - 1 : plan[j].kind = "D2H" /\ plan[j].host = h

(* JobPlanStepHostCompute::construct: the blob is computed inline, from    *)
(* the input buffer if there is one, and is batched or queued as an upload.*)
ConstructHostCompute ==
  LET step == plan[cur]
  IN  /\ Advance
      /\ step.kind = "HostCompute"
      /\ early' = (early \/ /\ step.host # NoName
                            /\ Filled(step.host, cur)
                            /\ host[step.host]
                                 # <<launches, FilledBy(step.host, cur)>>)
      /\ IF Batch(cur)
         THEN /\ corrections' = Append(corrections, <<step.region, Tag>>)
              /\ UNCHANGED <<queue, clock>>
         ELSE /\ Submit(step, Operation("Upload", {<<step.region, Tag>>}))
              /\ UNCHANGED corrections

(* A mutant: the corrections are copied into the compute, not moved.          *)
ConstructComputeCopying ==
  /\ Advance
  /\ plan[cur].kind = "Compute"
  /\ Submit(plan[cur],
            Operation("Compute", {corrections[i] : i \in DOMAIN corrections}))
  /\ UNCHANGED <<corrections, early>>

(* JobPlanStepCompute::construct moves the corrections into its params.    *)
ConstructCompute ==
  /\ Advance
  /\ plan[cur].kind = "Compute"
  /\ Submit(plan[cur],
            Operation("Compute", {corrections[i] : i \in DOMAIN corrections}))
  /\ corrections' = <<>>
  /\ UNCHANGED early

(* JobPlanStepH2D::construct and JobPlanStepD2H::construct.                *)
ConstructTransfer ==
  /\ Advance
  /\ plan[cur].kind \in {"H2D", "D2H"}
  /\ Submit(plan[cur], Operation(plan[cur].kind, {}))
  /\ UNCHANGED <<corrections, early>>

(* A construct() throws: a symbolic argument that does not resolve, a D2H  *)
(* out of range, a failed launch.  What was submitted stays submitted.     *)
LaunchThrow ==
  /\ cur \in 1 .. Len(plan)
  /\ cur' = 0
  /\ corrections' = <<>>
  /\ UNCHANGED <<tracker, plan, launches, dev, cap, batch, queue, clock, region,
                 host, stale, early, orphan>>

(* The final TORCH_CHECK of launch().                                      *)
LaunchEnd ==
  /\ cur = Len(plan) + 1
  /\ cur' = 0
  /\ orphan' = (orphan \/ corrections # <<>>)
  /\ corrections' = <<>>
  /\ UNCHANGED <<tracker, plan, launches, dev, cap, batch, queue, clock, region,
                 host, stale, early>>

-----------------------------------------------------------------------------
(* The device side, from how launch() relies on it.                        *)

StepOf(op) == plan[op.step]

Writes(op) ==
  {w[1] : w \in op.writes}
    \cup IF op.kind = "H2D" THEN {StepOf(op).region} ELSE {}

Reads(op) ==
  CASE op.kind = "Compute" -> Regions
    [] op.kind = "D2H"     -> {StepOf(op).region}
    [] OTHER               -> {}

Conflict(p, q) ==
  \/ Writes(p) \cap (Reads(q) \cup Writes(q)) # {}
  \/ Reads(p) \cap Writes(q) # {}

(* The head of a stream may run: with the tracker on, no operation that    *)
(* conflicts with it and was submitted earlier is pending elsewhere.       *)
Ready(s) ==
  /\ queue[s] # <<>>
  /\ tracker => \A z \in Streams \ {s} : \A i \in DOMAIN queue[z] :
       queue[z][i].seq < Head(queue[s]).seq =>
         ~Conflict(queue[z][i], Head(queue[s]))

(* The steps before i that write region r, and the last of them.           *)
Writers(r, i) ==
  {j \in 1 .. i - 1 : plan[j].region = r /\ plan[j].role = "Prep"}

LastWriter(r, i) ==
  CHOOSE j \in Writers(r, i) : \A k \in Writers(r, i) : k <= j

(* Some region holds a correction other than the one the compute of this   *)
(* launch was built for.                                                   *)
Mismatch(op, contents) ==
  \E r \in Regions :
    /\ Writers(r, op.step) # {}
    /\ plan[LastWriter(r, op.step)].kind = "HostCompute"
    /\ contents[r] # <<op.launch, LastWriter(r, op.step)>>

Patched(contents, writes) ==
  [r \in Regions |-> IF \E w \in writes : w[1] = r
                     THEN (CHOOSE w \in writes :
                             /\ w[1] = r
                             /\ \A v \in writes : v[1] = r => v[2][2] <= w[2][2])[2]
                     ELSE contents[r]]

Execute(s) ==
  LET op == Head(queue[s])
  IN  /\ Ready(s)
      /\ queue' = [queue EXCEPT ![s] = Tail(@)]
      /\ region' = IF op.kind = "H2D"
                   THEN [region EXCEPT ![StepOf(op).region]
                                          = host[StepOf(op).host]]
                   ELSE Patched(region, op.writes)
      /\ host' = IF op.kind = "D2H"
                 THEN [host EXCEPT ![StepOf(op).host] = <<op.launch, op.step>>]
                 ELSE host
      /\ stale' = stale \cup IF op.kind = "Compute" /\ Mismatch(op, region')
                             THEN {<<op.launch, op.step>>} ELSE {}
      /\ UNCHANGED <<tracker, plan, launches, cur, dev, cap, batch, corrections,
                     clock, early, orphan>>

-----------------------------------------------------------------------------
Done ==
  /\ launches = MaxLaunches /\ cur = 0
  /\ \A s \in Streams : queue[s] = <<>>
  /\ UNCHANGED vars

Next ==
  \/ \E s \in UserStreams \cup {DefaultStream}, c \in CorrectionCaps :
       LaunchBegin(s, c)
  \/ ConstructHostCompute
  \/ ConstructCompute
  \/ ConstructTransfer
  \/ LaunchThrow
  \/ LaunchEnd
  \/ \E s \in Streams : Execute(s)
  \/ Done

Spec == Init /\ [][Next]_vars

(* The device works off what it can run.                                   *)
Fairness == \A s \in Streams : WF_vars(Execute(s))

FairSpec == Spec /\ Fairness

-----------------------------------------------------------------------------
Tags == (0 .. MaxLaunches) \X Nat

(* Types of the state.                                                     *)
TypeOK ==
  /\ tracker \in BOOLEAN
  /\ plan \in Plans
  /\ launches \in 0 .. MaxLaunches
  /\ cur \in 0 .. Len(plan) + 1
  /\ dev \in UserStreams \cup {DefaultStream}
  /\ cap \in CorrectionCaps \cup {0}
  /\ batch \in BOOLEAN
  /\ corrections \in Seq(Regions \X Tags)
  /\ DOMAIN queue = Streams
  /\ \A s \in Streams : \A i \in DOMAIN queue[s] : queue[s][i].seq \in 1 .. clock
  /\ region \in [Regions -> Tags]
  /\ host \in [Handles -> Tags]
  /\ stale \subseteq Tags
  /\ early \in BOOLEAN
  /\ orphan \in BOOLEAN

(* Every compute runs with exactly the corrections its own launch made for *)
(* it, batched or uploaded, on one stream or split over two, whatever      *)
(* later launches have queued meanwhile and wherever earlier ones threw.   *)
ComputeSeesOwnCorrections == stale = {}

(* launch() never ends with corrections nobody consumes: a group is only   *)
(* batched when the step behind it is the compute that takes it.           *)
NoOrphanCorrections == ~orphan

(* The corrections waiting to be batched are those of the group in         *)
(* progress: none survives from an earlier compute, and a group that does  *)
(* not fit is uploaded as a whole.                                         *)
CorrectionsOfOneGroup ==
  \A i \in DOMAIN corrections :
    /\ corrections[i][2][1] = launches
    /\ cur <= Len(plan) /\ plan[cur].kind \in {"HostCompute", "Compute"}
    /\ \A j \in corrections[i][2][2] .. cur - 1 : plan[j].kind = "HostCompute"
    /\ Len(corrections) <= cap

(* Everything submitted is executed in the end, even when the launch it    *)
(* belongs to throws: FIFO order within streams and hazard edges between   *)
(* them never wait for each other in a circle.                             *)
AllExecuted == \A s \in Streams : []<>(queue[s] = <<>>)

(* The documentation's reading of a launch (docs/source/runtime/index.md): *)
(* FIFO order makes each step complete before the next one starts, so a    *)
(* HostCompute step that reads a buffer an earlier D2H step fills sees     *)
(* what that step transferred.                                             *)
HostComputeSeesTransfer == ~early
=============================================================================
