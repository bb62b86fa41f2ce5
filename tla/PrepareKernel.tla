---------------------------- MODULE PrepareKernel ----------------------------
(***************************************************************************)
(* prepareKernel (csrc/prepare_kernel.cpp): JobPlanBuilder loads the       *)
(* programs of a SpyreCode directory onto the device, translates the       *)
(* JobExecPlan into a JobPlan, validates it and registers the bundle       *)
(* directory for the profiler.  The program uploads are DMAs that run on   *)
(* after copyProgramAsync has returned and read inits_, which the builder  *)
(* owns first and the JobPlan afterwards.                                  *)
(***************************************************************************)
EXTENDS JobPlan

CONSTANTS
  ExecPlans,    \* the JobExecPlans considered
  MaxPrograms   \* bound on the InitTransfer commands of a preparation plan

ASSUME PrepareAssumption ==
  /\ ExecPlans \subseteq Seq(Commands)
  /\ MaxPrograms \in Nat \ {0}

VARIABLES
  phase,       \* how far build() has come
  exec,        \* the JobExecPlan
  programs,    \* how many InitTransfer commands the preparation plan has
  sent,        \* how many of them were executed
  owner,       \* who owns inits and the program allocation
  uploads,     \* programs whose upload is still in flight
  steps,       \* the steps of the JobPlan
  registered   \* registerBundleDirPrefix was called

vars == <<phase, exec, programs, sent, owner, uploads, steps, registered>>

Init ==
  /\ phase = "new"
  /\ exec \in ExecPlans
  /\ programs \in 1 .. MaxPrograms
  /\ sent = 0
  /\ owner = "none"
  /\ uploads = {}
  /\ steps = <<>>
  /\ registered = FALSE

(* A check throws out of build(): whoever owns the buffers is destroyed.   *)
Throw ==
  /\ phase' = "failed"
  /\ owner' = "none"

-----------------------------------------------------------------------------
(* The constructor and executeAllocate: either may throw.                  *)
executeAllocate ==
  /\ phase = "new"
  /\ \/ phase' = "preparing" /\ owner' = "builder"
     \/ Throw
  /\ UNCHANGED <<exec, programs, sent, uploads, steps, registered>>

(* executeInitTransfer: read the program and upload it, or throw because a *)
(* property or the file is missing.                                        *)
executeInitTransfer ==
  /\ phase = "preparing"
  /\ sent < programs
  /\ \/ /\ sent' = sent + 1
        /\ uploads' = uploads \cup {sent + 1}
        /\ UNCHANGED <<phase, owner>>
     \/ Throw /\ UNCHANGED <<sent, uploads>>
  /\ UNCHANGED <<exec, programs, steps, registered>>

(* translateJobExecPlan: the JobPlan takes over the builder's buffers.  It *)
(* may throw over what is abstracted too: a property missing, two sizes    *)
(* that differ, no memory for a buffer.                                    *)
Translate ==
  /\ phase = "preparing"
  /\ sent = programs
  /\ LET built == translateJobExecPlan(exec)
     IN  \/ /\ ~built.failed
            /\ phase' = "translated"
            /\ owner' = "plan"
            /\ steps' = built.steps
         \/ Throw /\ UNCHANGED steps
  /\ UNCHANGED <<exec, programs, sent, uploads, registered>>

(* build() validates the JobPlan and registers the bundle directory.       *)
Validate ==
  /\ phase = "translated"
  /\ IF validate(steps)
     THEN phase' = "built" /\ registered' = TRUE /\ UNCHANGED owner
     ELSE Throw /\ UNCHANGED registered
  /\ UNCHANGED <<exec, programs, sent, uploads, steps>>

(* flex's scheduler thread finishes the upload of program p.               *)
UploadDone(p) ==
  /\ uploads' = uploads \ {p}
  /\ UNCHANGED <<phase, exec, programs, sent, owner, steps, registered>>

(* The JobPlan is destroyed when the compiled kernel is dropped.           *)
DropPlan ==
  /\ phase = "built"
  /\ phase' = "dropped"
  /\ owner' = "none"
  /\ UNCHANGED <<exec, programs, sent, uploads, steps, registered>>

Finished == phase \in {"failed", "dropped"} /\ uploads = {} /\ UNCHANGED vars

Next ==
  \/ executeAllocate
  \/ executeInitTransfer
  \/ Translate
  \/ Validate
  \/ DropPlan
  \/ \E p \in uploads : UploadDone(p)
  \/ Finished

Spec == Init /\ [][Next]_vars

-----------------------------------------------------------------------------
(* Types of the state.                                                     *)
TypeOK ==
  /\ phase \in {"new", "preparing", "translated", "built", "failed",
                "dropped"}
  /\ exec \in Seq(Commands)
  /\ programs \in 1 .. MaxPrograms
  /\ sent \in 0 .. programs
  /\ owner \in {"none", "builder", "plan"}
  /\ uploads \subseteq 1 .. sent
  /\ registered \in BOOLEAN

(* A failed build leaves no entry in the bundle directory registry.        *)
FailedUnregistered == phase = "failed" => ~registered

(* What a step moves: to which region or from which place, the correction  *)
(* it computes with the buffer that is read for it, or the buffer.         *)
StepEffect(s) ==
  IF s.kind = "HostCompute" THEN <<"H2D", s.region, s.hcm, s.host>>
  ELSE <<s.kind, s.region, s.host, NoName>>

(* The buffer that the ComputeOnHost with ohandle h reads, if there is one.*)
InputOf(cmds, h) ==
  LET made == {m \in DOMAIN cmds : cmds[m].op = "ComputeOnHost" /\ cmds[m].handle = h}
  IN  IF made = {} THEN NoName ELSE cmds[CHOOSE m \in made : TRUE].input

(* What a command moves, where a command other than ComputeOnHost stands.  *)
CommandEffect(cmds, i) ==
  IF cmds[i].op = "H2D"
  THEN <<"H2D", cmds[i].region, cmds[i].handle, InputOf(cmds, cmds[i].handle)>>
  ELSE IF cmds[i].op = "D2H"
  THEN <<"D2H", cmds[i].region, cmds[i].handle, NoName>>
  ELSE <<"Compute", NoName, NoName, NoName>>

(* The effects of the commands in their order: a ComputeOnHost moves       *)
(* nothing, the H2D behind it does.                                        *)
Effects(cmds) ==
  LET upTo[n \in 0 .. Len(cmds)] ==
        IF n = 0 THEN <<>>
        ELSE IF cmds[n].op = "ComputeOnHost" THEN upTo[n - 1]
        ELSE Append(upTo[n - 1], CommandEffect(cmds, n))
  IN  upTo[Len(cmds)]

(* The comments in translateJobExecPlan and translateComputeOnHostWithH2D: *)
(* a ComputeOnHost is followed at once by the H2D of the same handle, and  *)
(* its buffer is not read otherwise.  The code checks neither.             *)
Paired(cmds) ==
  \A m \in DOMAIN cmds : cmds[m].op = "ComputeOnHost" =>
    /\ m < Len(cmds) /\ cmds[m + 1].op = "H2D"
    /\ cmds[m + 1].handle = cmds[m].handle
    /\ \A n \in DOMAIN cmds :
         /\ cmds[n].op = "H2D" /\ n # m + 1 => cmds[n].handle # cmds[m].handle
         /\ cmds[n].op = "ComputeOnHost" => cmds[n].input # cmds[m].handle

(* Every buffer that a step reads was filled by an earlier step.           *)
BuffersFilled(q) ==
  \A n \in DOMAIN q :
    (q[n].kind \in {"H2D", "HostCompute"} /\ q[n].host # NoName) =>
      \E m \in 1 .. n - 1 : q[m].kind = "D2H" /\ q[m].host = q[n].host

(* Built from a JobExecPlan with paired corrections, a JobPlan does what   *)
(* the JobExecPlan says, in its order: the computes, each download, each   *)
(* upload with the data it carries (which correction, computed from which  *)
(* buffer, or which buffer).  Merging a ComputeOnHost with its H2D loses,  *)
(* repeats, reorders and confuses none, and no step reads the stub that    *)
(* the merged step leaves under its ohandle.                               *)
PlanPreserved ==
  (phase = "built" /\ Paired(exec)) =>
    /\ [n \in DOMAIN steps |-> StepEffect(steps[n])] = Effects(exec)
    /\ BuffersFilled(steps)

(* The comment on copyAsync (csrc/spyre_stream.cpp): the pages an upload   *)
(* without conversion reads are kept alive while the DMA is in flight.     *)
UploadPagesAlive == uploads # {} => owner # "none"

(* The comment on checkJobPlanStepOrdering (csrc/job_plan.h): validate()   *)
(* classifies the plan and calls this, so a built plan passes it.          *)
BuiltPlansOrdered == phase = "built" => checkJobPlanStepOrdering(steps)
=============================================================================
