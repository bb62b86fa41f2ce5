------------------------------- MODULE JobPlan -------------------------------
(***************************************************************************)
(* JobPlans as data (csrc/job_plan.{h,cpp}) and how JobPlanBuilder makes   *)
(* them from the JobExecPlan of a SpyreCode directory                      *)
(* (csrc/prepare_kernel.cpp).                                              *)
(*                                                                         *)
(* A command is a record [op, handle, input, region]: "ComputeOnDevice";   *)
(* "ComputeOnHost" with its ohandle and ihandle; "H2D" and "D2H", the two  *)
(* directions of "DataTransfer", with host_handle and the place dev_ptr    *)
(* names.  A step is a record [kind, role, host, region, hcm]: host is the *)
(* buffer the step reads or writes, region the part of the program         *)
(* allocation it reads or writes, hcm the correction a HostCompute step    *)
(* computes, known by the ohandle of the ComputeOnHost it came with (no    *)
(* two have the same).  Fields a step does not have are NoName.            *)
(***************************************************************************)
EXTENDS Naturals, Sequences

CONSTANTS
  Regions,        \* places in the program segment that dev_ptr can name
  TensorSegment,  \* a place in a tensor segment
  Handles,        \* names of host buffers
  NoName,         \* a field that is absent, an empty ihandle
  BindIo          \* bind_io_addresses_: BUNDLE_SYMBOLIC_ARGS is not "1"

Places == Regions \cup {TensorSegment}

Commands ==
  [op : {"ComputeOnDevice"}, handle : {NoName}, input : {NoName},
   region : {NoName}]
  \cup [op : {"ComputeOnHost"}, handle : Handles,
        input : Handles \cup {NoName}, region : {NoName}]
  \cup [op : {"H2D", "D2H"}, handle : Handles, input : {NoName},
        region : Places]

Step(kind, role, host, region, hcm) ==
  [kind |-> kind, role |-> role, host |-> host, region |-> region, hcm |-> hcm]

Compute == Step("Compute", "Dev", NoName, NoName, NoName)

(* The steps the builder emits.                                            *)
PlanSteps ==
  [kind : {"HostCompute"}, role : {"Prep"}, host : Handles \cup {NoName},
   region : Regions, hcm : Handles]
  \cup [kind : {"H2D"}, role : {"Prep"}, host : Handles, region : Regions,
        hcm : {NoName}]
  \cup [kind : {"D2H"}, role : {"Dev"}, host : Handles, region : Places,
        hcm : {NoName}]
  \cup {Compute}

-----------------------------------------------------------------------------
(* The builder while it translates: the steps so far, the handles in       *)
(* pinned_buffer_map_, whether the next command was consumed already, and  *)
(* whether a check has thrown.                                             *)
Blank == [steps |-> <<>>, handles |-> {}, skip |-> FALSE, failed |-> FALSE]

Fail(b) == [b EXCEPT !.failed = TRUE]

Emit(b, step, handles) ==
  [b EXCEPT !.steps = Append(@, step), !.handles = @ \cup handles]

(* translateComputeOnHostWithH2D: ohandle must be new; it is registered    *)
(* before ihandle is looked up.  The host_handle of the H2D is not read.   *)
translateComputeOnHostWithH2D(b, host, h2d) ==
  IF \/ host.handle \in b.handles
     \/ host.input # NoName /\ host.input \notin b.handles \cup {host.handle}
     \/ h2d.region \notin Regions
  THEN Fail(b)
  ELSE [Emit(b, Step("HostCompute", "Prep", host.input, h2d.region, host.handle),
             {host.handle}) EXCEPT !.skip = TRUE]

(* translateDataTransfer: H2D uploads a buffer that is registered, D2H     *)
(* registers the buffer it fills.                                          *)
translateDataTransfer(b, cmd) ==
  IF cmd.op = "H2D"
  THEN IF cmd.handle \notin b.handles \/ cmd.region \notin Regions
       THEN Fail(b)
       ELSE Emit(b, Step("H2D", "Prep", cmd.handle, cmd.region, NoName), {})
  ELSE IF cmd.handle \in b.handles \/ (cmd.region = TensorSegment /\ ~BindIo)
       THEN Fail(b)
       ELSE Emit(b, Step("D2H", "Dev", cmd.handle, cmd.region, NoName), {cmd.handle})

(* translateCommand: a ComputeOnHost that was not merged with the H2D that *)
(* follows it is refused.                                                  *)
translateCommand(b, cmd) ==
  CASE cmd.op = "ComputeOnDevice" -> Emit(b, Compute, {})
    [] cmd.op = "ComputeOnHost"   -> Fail(b)
    [] OTHER                      -> translateDataTransfer(b, cmd)

(* A mutant: the merged H2D is translated once more as a step of its own.     *)
translateAtWithoutSkip(cmds, b, i) ==
  IF b.failed THEN b
  ELSE IF /\ cmds[i].op = "ComputeOnHost"
          /\ i < Len(cmds)
          /\ cmds[i + 1].op = "H2D"
       THEN [translateComputeOnHostWithH2D(b, cmds[i], cmds[i + 1])
               EXCEPT !.skip = FALSE]
       ELSE translateCommand(b, cmds[i])

(* The body of translateJobExecPlan's loop, for the command at i.          *)
translateAt(cmds, b, i) ==
  IF b.failed THEN b
  ELSE IF b.skip THEN [b EXCEPT !.skip = FALSE]
  ELSE IF /\ cmds[i].op = "ComputeOnHost"
          /\ i < Len(cmds)
          /\ cmds[i + 1].op = "H2D"
       THEN translateComputeOnHostWithH2D(b, cmds[i], cmds[i + 1])
       ELSE translateCommand(b, cmds[i])

translateJobExecPlan(cmds) ==
  LET built[i \in 0 .. Len(cmds)] ==
        IF i = 0 THEN Blank ELSE translateAt(cmds, built[i - 1], i)
  IN  built[Len(cmds)]

(* validate, P2-14: the leading HostCompute steps, if there are any, are   *)
(* followed by a Compute.                                                  *)
validate(steps) ==
  \/ steps = <<>> \/ steps[1].kind # "HostCompute"
  \/ \E n \in 2 .. Len(steps) :
       /\ steps[n].kind = "Compute"
       /\ \A m \in 1 .. n - 1 : steps[m].kind = "HostCompute"

-----------------------------------------------------------------------------
(* checkJobPlanStepOrdering, TRUE where the code returns the empty string. *)
checkJobPlanStepOrdering(steps) ==
  LET prep == SelectSeq(steps, LAMBDA s : s.role = "Prep")
      dev  == SelectSeq(steps, LAMBDA s : s.role # "Prep")
  IN  (\E i \in DOMAIN steps : steps[i].kind = "HostCompute") =>
        /\ Len(prep) >= 2
        /\ prep[1].kind = "HostCompute" /\ prep[2].kind = "H2D"
        /\ \A i \in DOMAIN prep : prep[i].kind \in {"HostCompute", "H2D"}
        /\ Len(dev) >= 1 /\ dev[1].kind = "Compute"
        /\ \A i \in DOMAIN dev : dev[i].kind \in {"Compute", "D2H"}

-----------------------------------------------------------------------------
(* The step behind the group that starts at i, or Len(steps) + 1.          *)
GroupEnd(steps, i) ==
  CHOOSE n \in i + 1 .. Len(steps) + 1 :
    /\ \A m \in i .. n - 1 : steps[m].kind = "HostCompute"
    /\ n = Len(steps) + 1 \/ steps[n].kind # "HostCompute"

(* SpyreStream::launch: the group that starts at step i may travel with    *)
(* the compute behind it.                                                  *)
batchable(steps, i, maxCorrections) ==
  LET end == GroupEnd(steps, i)
  IN  /\ end - i <= maxCorrections
      /\ end <= Len(steps)
      /\ steps[end].kind = "Compute"
=============================================================================
