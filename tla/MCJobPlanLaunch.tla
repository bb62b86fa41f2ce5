--------------------------- MODULE MCJobPlanLaunch ---------------------------
(* JobPlanLaunch on JobPlans of every shape the builder accepts: one group *)
(* of corrections and two, groups larger than what flex can batch, the     *)
(* same region corrected twice, a group that an upload or nothing follows. *)
(* The plans are given as JobExecPlans and translated by the builder.      *)
EXTENDS JobPlanLaunch, TLC

CONSTANTS r1, r2, h1, h2, h3, s1, s2

Dev == [op |-> "ComputeOnDevice", handle |-> NoName, input |-> NoName,
        region |-> NoName]
Hc(h, i) == [op |-> "ComputeOnHost", handle |-> h, input |-> i,
             region |-> NoName]
H2d(h, r) == [op |-> "H2D", handle |-> h, input |-> NoName, region |-> r]
D2h(h, r) == [op |-> "D2H", handle |-> h, input |-> NoName, region |-> r]
Fix(h, r) == <<Hc(h, NoName), H2d(h, r)>>

MCExecPlans ==
  { Fix(h1, r1) \o <<Dev>>,
    Fix(h1, r1) \o Fix(h2, r2) \o <<Dev>>,
    Fix(h1, r1) \o Fix(h2, r1) \o <<Dev>>,
    Fix(h1, r1) \o <<Dev>> \o Fix(h2, r2) \o <<Dev, D2h(h3, r1)>>,
    Fix(h1, r1) \o <<Dev>> \o Fix(h2, r1) \o Fix(h3, r2) \o <<Dev>>,
    <<Dev>> \o Fix(h1, r1) \o <<H2d(h1, r2), Dev>>,
    <<Dev>> \o Fix(h1, r1) \o <<D2h(h2, TensorSegment)>> }

MCReadBackPlans ==
  { <<Dev, D2h(h1, r1), Hc(h2, h1), H2d(h2, r1), Dev>> }

ASSUME \A e \in MCExecPlans \cup MCReadBackPlans :
         LET b == translateJobExecPlan(e)
         IN  ~b.failed /\ validate(b.steps)

MCPlans == {translateJobExecPlan(e).steps : e \in MCExecPlans}
MCReadBack == {translateJobExecPlan(e).steps : e \in MCReadBackPlans}
MCStreams == {s1, s2}
MCRegions == {r1, r2}
MCHandles == {h1, h2, h3}
MCCaps == {0, 1, 2}
=============================================================================
