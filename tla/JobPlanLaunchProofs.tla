------------------------ MODULE JobPlanLaunchProofs ------------------------
(***************************************************************************)
(* What SpyreStream::launch promises for every JobPlan the builder can     *)
(* emit, any number of launches, user streams, regions and whatever        *)
(* maxProgramCorrections() reports: the corrections that wait to be        *)
(* batched are those of the group in progress, none is left over at the    *)
(* end, and every compute runs with the corrections of its own launch.     *)
(***************************************************************************)
EXTENDS JobPlanLaunch, NaturalsInduction, WellFoundedInduction, TLAPS

(* The inductive invariant of SpyreStream::launch and the streams, and the *)
(* lemmas about its parts: the group of corrections in progress, the       *)
(* queues of pending operations, and what an operation finds in a region.  *)
Ops == [kind : {"Upload", "Compute", "H2D", "D2H"}, launch : Nat, step : Nat,
        writes : SUBSET (Regions \X (Nat \X Nat)), seq : Nat]

Types ==
  /\ plan \in Seq(PlanSteps)
  /\ launches \in Nat /\ cap \in Nat /\ clock \in Nat
  /\ cur \in 0 .. Len(plan) + 1
  /\ dev \in UserStreams \cup {DefaultStream}
  /\ corrections \in Seq(Regions \X (Nat \X Nat))
  /\ queue \in [Streams -> Seq(Ops)]
  /\ region = [r \in Regions |-> region[r]]

IsHostCompute(i) == plan[i].kind = "HostCompute"

(* The corrections collected so far are those of the steps g .. cur - 1 of *)
(* a group that ends before the compute e.                                 *)
Collected(g, e) ==
  /\ \A i \in g .. e - 1 : IsHostCompute(i)
  /\ plan[e].kind = "Compute"
  /\ e - g <= cap
  /\ Len(corrections) = cur - g
  /\ \A i \in 1 .. cur - g :
       corrections[i] = <<plan[g + i - 1].region, <<launches, g + i - 1>>>>

(* A group that has begun to be batched is batched as a whole.             *)
GroupInv ==
  /\ corrections # <<>> =>
       batch /\ \E g \in 1 .. cur - 1, e \in cur .. Len(plan) : Collected(g, e)
  /\ cur > 1 /\ IsHostCompute(cur - 1) /\ batch => corrections # <<>>
  /\ cap = 0 => ~batch
  /\ cur = 0 => corrections = <<>>
  /\ ~orphan

-----------------------------------------------------------------------------
(* The operations that are submitted and not yet done.                     *)
Queued(s) == {queue[s][i] : i \in DOMAIN queue[s]}
Pending == UNION {Queued(s) : s \in Streams}

(* Streams are FIFO, operations are numbered as they are submitted, and    *)
(* with the tracker off there is one stream.                               *)
QueueInv ==
  /\ \A s \in Streams : \A i, j \in DOMAIN queue[s] :
       i < j => queue[s][i].seq < queue[s][j].seq
  /\ \A s, z \in Streams : s # z =>
       \A i \in DOMAIN queue[s], j \in DOMAIN queue[z] : queue[s][i].seq # queue[z][j].seq
  /\ \A p \in Pending :
       /\ p.seq <= clock /\ p.step \in DOMAIN plan
       /\ plan[p.step].kind = IF p.kind = "Upload" THEN "HostCompute" ELSE p.kind
       /\ p.kind = "H2D" => p.writes = {}
  /\ ~tracker => dev = DefaultStream /\ \A s \in Streams \ {DefaultStream} : queue[s] = <<>>

(* Patching with these writes leaves the value v in region r.              *)
Gives(writes, r, v) ==
  /\ <<r, v>> \in writes
  /\ \A w \in writes : w[1] = r /\ w # <<r, v>> => w[2][2] < v[2]

(* The pending writers of r that were submitted before seq.                *)
Earlier(r, seq) == {p \in Pending : p.seq < seq /\ r \in Writes(p)}

(* An operation with this number and these writes will find v in region r: *)
(* it brings it, or the last pending writer before it does, or there is    *)
(* none and it is there.                                                   *)
Finds(writes, seq, r, v) ==
  \/ Gives(writes, r, v)
  \/ /\ \A w \in writes : w[1] # r
     /\ \/ Earlier(r, seq) = {} /\ region[r] = v
        \/ \E p \in Earlier(r, seq) :
             /\ \A q \in Earlier(r, seq) : q.seq <= p.seq
             /\ p.kind # "H2D" /\ Gives(p.writes, r, v)

(* A compute at step i needs the correction of r by an earlier step.       *)
Needs(i, r) == Writers(r, i) # {} /\ IsHostCompute(LastWriter(r, i))

InHand == {corrections[i] : i \in DOMAIN corrections}

(* Every compute that is queued, or could come next in the launch in       *)
(* progress, will find the corrections of its own launch.                  *)
FreshInv ==
  /\ \A c \in Pending : c.kind = "Compute" =>
       \A r \in Regions :
         Needs(c.step, r) => Finds(c.writes, c.seq, r, <<c.launch, LastWriter(r, c.step)>>)
  /\ cur > 0 =>
       \A r \in Regions :
         Needs(cur, r) => Finds(InHand, clock + 1, r, <<launches, LastWriter(r, cur)>>)
  /\ stale = {}

LaunchInv == Types /\ GroupInv /\ QueueInv /\ FreshInv

-----------------------------------------------------------------------------
(* A set of naturals that is not empty has a least element.                *)
LEMMA LeastNatural ==
  ASSUME NEW T, T \subseteq Nat, T # {}
  PROVE  \E x \in T : \A y \in T : x <= y
<1>1. PICK x \in T : \A y \in T : ~(<<y, x>> \in OpToRel(<, Nat))
  BY NatLessThanWellFounded, WFMin, Zenon
<1>2. ASSUME NEW y \in T PROVE x <= y
  <2>1. ~(y < x)
    BY <1>1, Zenon DEF OpToRel
  <2> QED
    BY <2>1
<1> QED
  BY <1>2

(* GroupEnd is the first step behind the group, or the end of the plan.    *)
LEMMA GroupEndIs ==
  ASSUME NEW steps \in Seq(PlanSteps), NEW i \in 1 .. Len(steps),
         steps[i].kind = "HostCompute"
  PROVE  LET n == GroupEnd(steps, i)
         IN  /\ n \in i + 1 .. Len(steps) + 1
             /\ \A m \in i .. n - 1 : steps[m].kind = "HostCompute"
<1> DEFINE T == {n \in i + 1 .. Len(steps) + 1 :
                   n = Len(steps) + 1 \/ steps[n].kind # "HostCompute"}
<1>1. Len(steps) \in Nat
  OBVIOUS
<1>2. T \subseteq Nat /\ Len(steps) + 1 \in T
  BY <1>1
<1>3. PICK n \in T : \A m \in T : n <= m
  BY <1>2, LeastNatural, Zenon
<1>4. \A m \in i .. n - 1 : steps[m].kind = "HostCompute"
  <2> SUFFICES ASSUME NEW m \in i .. n - 1, m # i PROVE steps[m].kind = "HostCompute"
    OBVIOUS
  <2>1. m \notin T
    BY <1>1, <1>3
  <2> QED
    BY <1>1, <1>3, <2>1
<1>5. \E k \in i + 1 .. Len(steps) + 1 :
        /\ \A m \in i .. k - 1 : steps[m].kind = "HostCompute"
        /\ k = Len(steps) + 1 \/ steps[k].kind # "HostCompute"
  BY <1>3, <1>4
<1> QED
  BY <1>5, Zenon DEF GroupEnd

(* The kinds of steps, and which of them prepare a region.                 *)
LEMMA StepKinds ==
  ASSUME plan \in Seq(PlanSteps), NEW i \in DOMAIN plan
  PROVE  /\ plan[i].kind \in {"HostCompute", "H2D", "D2H", "Compute"}
         /\ plan[i].role = IF plan[i].kind \in {"HostCompute", "H2D"} THEN "Prep" ELSE "Dev"
         /\ plan[i].kind \in {"HostCompute", "H2D"} => plan[i].region \in Regions
<1>1. plan[i] \in PlanSteps
  OBVIOUS
<1> QED
  BY <1>1 DEF PlanSteps, Compute, Step

-----------------------------------------------------------------------------
(* LaunchBegin, LaunchThrow and LaunchEnd leave no correction behind.      *)
LEMMA BeginGroup ==
  ASSUME Types, GroupInv, NEW s, NEW c, LaunchBegin(s, c)
  PROVE  GroupInv'
  BY DEF Types, GroupInv, LaunchBegin, IsHostCompute

(* A launch that returns or throws leaves no corrections in hand.          *)
LEMMA EndGroup ==
  ASSUME Types, GroupInv, LaunchThrow \/ LaunchEnd
  PROVE  GroupInv'
<1>1. ~orphan'
  <2>1. CASE LaunchThrow
    BY <2>1 DEF LaunchThrow, GroupInv
  <2>2. CASE LaunchEnd
    <3>1. corrections = <<>>
      BY <2>2 DEF LaunchEnd, GroupInv, Types
    <3> QED
      BY <2>2, <3>1, Zenon DEF LaunchEnd, GroupInv
  <2> QED
    BY <2>1, <2>2
<1>2. cur' = 0 /\ corrections' = <<>> /\ UNCHANGED <<plan, cap, batch>>
  BY DEF LaunchThrow, LaunchEnd
<1> QED
  BY <1>1, <1>2 DEF GroupInv

(* A group whose steps are all HostCompute ends before any other step but  *)
(* its compute.                                                            *)
LEMMA NothingInHand ==
  ASSUME Types, GroupInv, cur \in 1 .. Len(plan),
         \/ ~IsHostCompute(cur) /\ plan[cur].kind # "Compute"
         \/ ~Batch(cur)
         \/ cur = 1
         \/ ~IsHostCompute(cur - 1)
  PROVE  corrections = <<>>
<1> SUFFICES ASSUME corrections # <<>> PROVE FALSE
  OBVIOUS
<1>0. cur \in Nat /\ Len(plan) \in Nat
  BY DEF Types
<1>1. PICK g \in 1 .. cur - 1, e \in cur .. Len(plan) : Collected(g, e)
  BY DEF GroupInv
<1>2. batch /\ cur > 1 /\ IsHostCompute(cur - 1)
  <2>1. cur - 1 \in g .. e - 1 /\ cur > 1
    BY <1>0, <1>1
  <2> QED
    BY <1>1, <2>1 DEF GroupInv, Collected
<1>3. Batch(cur)
  BY <1>2 DEF Batch, IsHostCompute
<1>4. IsHostCompute(cur) \/ plan[cur].kind = "Compute"
  <2>1. cur = e \/ cur \in g .. e - 1
    BY <1>0, <1>1
  <2> QED
    BY <1>1, <2>1 DEF Collected
<1> QED
  BY <1>0, <1>2, <1>3, <1>4

(* A batched step is one of a group that fits.                             *)
LEMMA BatchedGroup ==
  ASSUME Types, GroupInv, cur \in 1 .. Len(plan), IsHostCompute(cur), Batch(cur)
  PROVE  /\ cap > 0
         /\ \E g \in 1 .. cur, e \in cur + 1 .. Len(plan) : Collected(g, e)
<1>0. plan \in Seq(PlanSteps) /\ cur \in Nat /\ Len(plan) \in Nat /\ cap \in Nat
  BY DEF Types
<1>1. CASE corrections # <<>>
  <2>1. PICK g \in 1 .. cur - 1, e \in cur .. Len(plan) : Collected(g, e)
    BY <1>1 DEF GroupInv
  <2>2. e # cur
    BY <2>1 DEF Collected, IsHostCompute
  <2>3. cap > 0
    BY <1>0, <1>1 DEF GroupInv
  <2> QED
    BY <1>0, <2>1, <2>2, <2>3
<1>2. CASE corrections = <<>>
  <2>1. cur = 1 \/ ~IsHostCompute(cur - 1)
    BY <1>0, <1>2 DEF GroupInv, Batch, IsHostCompute
  <2>2. cap > 0 /\ batchable(plan, cur, cap)
    BY <1>0, <1>2, <2>1 DEF GroupInv, Batch, IsHostCompute
  <2> DEFINE e == GroupEnd(plan, cur)
  <2>3. /\ e \in cur + 1 .. Len(plan) /\ plan[e].kind = "Compute" /\ e - cur <= cap
        /\ \A m \in cur .. e - 1 : IsHostCompute(m)
    BY <1>0, <2>2, GroupEndIs DEF batchable, IsHostCompute
  <2> HIDE DEF e
  <2>4. Collected(cur, e)
    BY <1>0, <1>2, <2>3 DEF Collected
  <2>5. cur \in 1 .. cur
    BY <1>0
  <2> QED
    BY <2>2, <2>3, <2>4, <2>5
<1> QED
  BY <1>1, <1>2

(* A HostCompute step joins the group in progress, or is uploaded.         *)
LEMMA HostComputeGroup ==
  ASSUME Types, GroupInv, ConstructHostCompute
  PROVE  GroupInv'
<1>0. /\ plan \in Seq(PlanSteps) /\ cur \in 1 .. Len(plan) /\ Len(plan) \in Nat /\ cap \in Nat
      /\ IsHostCompute(cur) /\ cur' = cur + 1 /\ batch' = Batch(cur)
      /\ UNCHANGED <<plan, launches, cap, orphan>>
      /\ launches \in Nat /\ corrections \in Seq(Regions \X (Nat \X Nat))
  BY DEF Types, ConstructHostCompute, Advance, IsHostCompute
<1>1. CASE Batch(cur)
  <2>1. PICK g \in 1 .. cur, e \in cur + 1 .. Len(plan) : Collected(g, e)
    BY <1>0, <1>1, BatchedGroup
  <2>2. corrections' = Append(corrections, <<plan[cur].region, <<launches, cur>>>>)
    BY <1>1 DEF ConstructHostCompute, Tag
  <2>2a. <<plan[cur].region, <<launches, cur>>>> \in Regions \X (Nat \X Nat)
    BY <1>0, StepKinds DEF IsHostCompute
  <2>3. Len(corrections') = Len(corrections) + 1 /\ corrections' # <<>>
    <3>1. \A x \in Regions \X (Nat \X Nat) :
            Len(Append(corrections, x)) = Len(corrections) + 1
      BY <1>0
    <3>2. Len(corrections') = Len(corrections) + 1 /\ Len(corrections) \in Nat
      BY <1>0, <2>2, <2>2a, <3>1
    <3>3. Len(<<>>) = 0
      OBVIOUS
    <3>4. Len(corrections') # Len(<<>>)
      BY <3>2, <3>3
    <3> QED
      BY <3>2, <3>4
  <2>4. \A i \in 1 .. cur + 1 - g :
          corrections'[i] = <<plan[g + i - 1].region, <<launches, g + i - 1>>>>
    <3> SUFFICES ASSUME NEW i \in 1 .. cur + 1 - g
                 PROVE  corrections'[i] = <<plan[g + i - 1].region, <<launches, g + i - 1>>>>
      OBVIOUS
    <3>1. Len(corrections) = cur - g
      BY <2>1 DEF Collected
    <3>2. CASE i <= cur - g
      <4>1. corrections'[i] = corrections[i]
        BY <1>0, <2>2, <2>2a, <3>1, <3>2
      <4>2. i \in 1 .. cur - g
        BY <1>0, <3>2
      <4> QED
        BY <2>1, <4>1, <4>2 DEF Collected
    <3>3. CASE i = cur - g + 1
      <4>1. g + i - 1 = cur
        BY <1>0, <3>3
      <4>2. corrections'[i] = <<plan[cur].region, <<launches, cur>>>>
        <5>1. i = Len(corrections) + 1
          BY <3>1, <3>3
        <5>2. \A x \in Regions \X (Nat \X Nat) :
                Append(corrections, x)[Len(corrections) + 1] = x
          BY <1>0
        <5> QED
          BY <2>2, <2>2a, <5>1, <5>2
      <4> QED
        BY <4>1, <4>2
    <3> QED
      BY <1>0, <3>2, <3>3
  <2>5. Collected(g, e)'
    <3>1. /\ \A i \in g .. e - 1 : IsHostCompute(i)
          /\ plan[e].kind = "Compute" /\ e - g <= cap /\ Len(corrections) = cur - g
      BY <2>1 DEF Collected
    <3>2. \A i \in g .. e - 1 : IsHostCompute(i)'
      BY <1>0, <3>1 DEF IsHostCompute
    <3>3. Len(corrections') = cur' - g
      BY <1>0, <2>3, <3>1
    <3>4. \A i \in 1 .. cur' - g :
            corrections'[i] = <<plan'[g + i - 1].region, <<launches', g + i - 1>>>>
      BY <1>0, <2>4
    <3> QED
      BY <1>0, <3>1, <3>2, <3>3, <3>4 DEF Collected
  <2>6. cap > 0
    BY <1>0, <1>1, BatchedGroup
  <2> QED
    BY <1>0, <1>1, <2>1, <2>3, <2>5, <2>6 DEF GroupInv
<1>2. CASE ~Batch(cur)
  <2>1. corrections' = corrections /\ corrections = <<>>
    BY <1>0, <1>2, NothingInHand DEF ConstructHostCompute
  <2> QED
    BY <1>0, <1>2, <2>1 DEF GroupInv
<1> QED
  BY <1>1, <1>2

(* The invariant of the group depends on the launch in progress only.      *)
LEMMA GroupSame ==
  ASSUME GroupInv, UNCHANGED <<plan, launches, cur, cap, batch, corrections, orphan>>
  PROVE  GroupInv'
<1>1. \A g, e : Collected(g, e)' <=> Collected(g, e)
  BY DEF Collected, IsHostCompute
<1>2. IsHostCompute(cur - 1)' <=> IsHostCompute(cur - 1)
  BY DEF IsHostCompute
<1> QED
  BY <1>1, <1>2 DEF GroupInv

(* A step of another kind leaves the batching of the group before it.      *)
LEMMA OtherGroup ==
  ASSUME Types, GroupInv, ConstructCompute \/ ConstructTransfer
  PROVE  GroupInv' /\ corrections' = <<>>
<1>0. /\ cur \in 1 .. Len(plan) /\ Len(plan) \in Nat
      /\ ~IsHostCompute(cur) /\ cur' = cur + 1 /\ batch' = batch
      /\ UNCHANGED <<plan, launches, cap, orphan>>
  <2>1. Advance /\ plan[cur].kind \in {"Compute", "H2D", "D2H"}
    BY DEF ConstructCompute, ConstructTransfer
  <2>2. ~IsHostCompute(cur)
    BY <2>1 DEF IsHostCompute
  <2>3. Batch(cur) = batch
    BY <2>2 DEF Batch, IsHostCompute
  <2>4. Len(plan) \in Nat
    BY DEF Types
  <2> QED
    BY <2>1, <2>2, <2>3, <2>4 DEF Advance
<1>1. corrections' = <<>>
  <2>1. CASE ConstructCompute
    BY <2>1 DEF ConstructCompute
  <2>2. CASE ConstructTransfer
    BY <1>0, <2>2, NothingInHand DEF ConstructTransfer
  <2> QED
    BY <2>1, <2>2
<1> QED
  BY <1>0, <1>1 DEF GroupInv, IsHostCompute

-----------------------------------------------------------------------------
(* A queue with one more operation, and a queue without its head.          *)
LEMMA AppendRange ==
  ASSUME NEW q \in Seq(Ops), NEW op \in Ops
  PROVE  /\ Append(q, op) \in Seq(Ops) /\ DOMAIN Append(q, op) = 1 .. Len(q) + 1
         /\ \A i \in DOMAIN q : Append(q, op)[i] = q[i]
         /\ Append(q, op)[Len(q) + 1] = op
         /\ DOMAIN q = 1 .. Len(q) /\ Len(q) \in Nat
  OBVIOUS

(* The other half: what is left of a queue without its head.               *)
LEMMA TailRange ==
  ASSUME NEW q \in Seq(Ops), q # <<>>
  PROVE  /\ Tail(q) \in Seq(Ops) /\ DOMAIN Tail(q) = 1 .. Len(q) - 1
         /\ \A i \in 1 .. Len(q) - 1 : Tail(q)[i] = q[i + 1]
         /\ Head(q) = q[1] /\ 1 \in DOMAIN q
         /\ DOMAIN q = 1 .. Len(q) /\ Len(q) \in Nat
  OBVIOUS

(* What is pending stands in the queue of some stream.                     *)
LEMMA PendingOp ==
  ASSUME Types, NEW p \in Pending
  PROVE  p \in Ops /\ \E s \in Streams : \E i \in DOMAIN queue[s] : p = queue[s][i]
<1>1. PICK s \in Streams : \E i \in DOMAIN queue[s] : p = queue[s][i]
  BY DEF Pending, Queued
<1>2. queue[s] \in Seq(Ops)
  BY DEF Types
<1> QED
  BY <1>1, <1>2

(* Submitting adds one operation, with a number above all others.          *)
LEMMA SubmitPending ==
  ASSUME Types, QueueInv, NEW step, NEW op \in Ops, Submit(step, op),
         op.seq = clock + 1, op.step \in DOMAIN plan,
         plan[op.step].kind = IF op.kind = "Upload" THEN "HostCompute" ELSE op.kind,
         op.kind = "H2D" => op.writes = {},
         UNCHANGED <<tracker, plan, dev>>
  PROVE  /\ QueueInv' /\ queue' \in [Streams -> Seq(Ops)] /\ clock' = clock + 1
         /\ Pending' = Pending \cup {op}
<1> DEFINE z == Target(step)
<1>1. /\ z \in Streams
      /\ ~tracker => z = DefaultStream
      /\ queue \in [Streams -> Seq(Ops)] /\ clock \in Nat
  BY DEF Target, Types, Streams, QueueInv
<1> HIDE DEF z
<1>2. /\ queue' = [queue EXCEPT ![z] = Append(queue[z], op)]
      /\ clock' = clock + 1
  BY DEF Submit, z
<1>3. /\ queue' \in [Streams -> Seq(Ops)]
      /\ \A s \in Streams : s # z => queue'[s] = queue[s]
      /\ queue'[z] = Append(queue[z], op)
  <2>1. Append(queue[z], op) \in Seq(Ops)
    BY <1>1, AppendRange
  <2> QED
    BY <1>1, <1>2, <2>1
<1>4. /\ DOMAIN queue'[z] = 1 .. Len(queue[z]) + 1 /\ DOMAIN queue[z] = 1 .. Len(queue[z])
      /\ \A k \in 1 .. Len(queue[z]) : queue'[z][k] = queue[z][k]
      /\ queue'[z][Len(queue[z]) + 1] = op /\ Len(queue[z]) \in Nat
  BY <1>1, <1>3, AppendRange
<1>5. \A s \in Streams : \A i \in DOMAIN queue'[s] :
        \/ i \in DOMAIN queue[s] /\ queue'[s][i] = queue[s][i]
        \/ s = z /\ i = Len(queue[z]) + 1 /\ queue'[s][i] = op
  BY <1>3, <1>4
<1>5a. \A s \in Streams : \A i \in DOMAIN queue[s] :
         /\ i \in DOMAIN queue'[s] /\ queue'[s][i] = queue[s][i]
  <2>1. \A i \in DOMAIN queue[z] : i \in DOMAIN queue'[z] /\ queue'[z][i] = queue[z][i]
    BY <1>4
  <2> QED
    BY <1>3, <2>1
<1>6. \A s \in Streams : \A i \in DOMAIN queue[s] :
        queue[s][i].seq \in Nat /\ queue[s][i].seq <= clock
  <2> SUFFICES ASSUME NEW s \in Streams, NEW i \in DOMAIN queue[s]
               PROVE  queue[s][i].seq \in Nat /\ queue[s][i].seq <= clock
    OBVIOUS
  <2>1. queue[s][i] \in Pending
    BY DEF Pending, Queued
  <2> QED
    BY <2>1, PendingOp DEF QueueInv, Ops
<1>6a. Pending' = Pending \cup {op}
  <2>1. ASSUME NEW p \in Pending' PROVE p \in Pending \cup {op}
    <3>1. PICK s \in Streams : \E i \in DOMAIN queue'[s] : p = queue'[s][i]
      BY DEF Pending, Queued
    <3> QED
      BY <1>5, <3>1 DEF Pending, Queued
  <2>2. ASSUME NEW p \in Pending PROVE p \in Pending'
    <3>1. PICK s \in Streams : \E i \in DOMAIN queue[s] : p = queue[s][i]
      BY DEF Pending, Queued
    <3> QED
      BY <1>5a, <3>1 DEF Pending, Queued
  <2>3. op \in Pending'
    <3>1. Len(queue[z]) + 1 \in DOMAIN queue'[z]
      BY <1>4
    <3> QED
      BY <1>1, <1>4, <3>1 DEF Pending, Queued
  <2> QED
    BY <2>1, <2>2, <2>3
<1>7. \A s \in Streams : \A i, j \in DOMAIN queue'[s] :
        i < j => queue'[s][i].seq < queue'[s][j].seq
  <2> SUFFICES ASSUME NEW s \in Streams, NEW i \in DOMAIN queue'[s], NEW j \in DOMAIN queue'[s],
                      i < j
               PROVE  queue'[s][i].seq < queue'[s][j].seq
    OBVIOUS
  <2>1. CASE j \in DOMAIN queue[s]
    <3>1. i \in DOMAIN queue[s]
      BY <1>3, <1>4, <2>1
    <3>2. queue[s][i].seq < queue[s][j].seq
      BY <2>1, <3>1 DEF QueueInv
    <3> QED
      BY <1>5a, <2>1, <3>1, <3>2
  <2>2. CASE j \notin DOMAIN queue[s]
    <3>1. s = z /\ j = Len(queue[z]) + 1 /\ queue'[s][j] = op
      BY <1>5, <2>2
    <3>2. queue'[s][i] = queue[s][i] /\ i \in DOMAIN queue[s]
      BY <1>5, <3>1
    <3> QED
      BY <1>1, <1>6, <3>1, <3>2
  <2> QED
    BY <2>1, <2>2
<1>8. \A s, y \in Streams : s # y =>
        \A i \in DOMAIN queue'[s], j \in DOMAIN queue'[y] : queue'[s][i].seq # queue'[y][j].seq
  <2> SUFFICES ASSUME NEW s \in Streams, NEW y \in Streams, s # y,
                      NEW i \in DOMAIN queue'[s], NEW j \in DOMAIN queue'[y]
               PROVE  queue'[s][i].seq # queue'[y][j].seq
    OBVIOUS
  <2>1. CASE i \in DOMAIN queue[s] /\ j \in DOMAIN queue[y]
    BY <1>5a, <2>1 DEF QueueInv
  <2>2. CASE i \notin DOMAIN queue[s]
    <3>1. queue'[s][i] = op /\ s = z /\ queue'[y][j] = queue[y][j] /\ j \in DOMAIN queue[y]
      BY <1>5, <2>2
    <3> QED
      BY <1>1, <1>6, <3>1
  <2>3. CASE j \notin DOMAIN queue[y]
    <3>1. queue'[y][j] = op /\ y = z /\ queue'[s][i] = queue[s][i] /\ i \in DOMAIN queue[s]
      BY <1>5, <2>3
    <3> QED
      BY <1>1, <1>6, <3>1
  <2> QED
    BY <2>1, <2>2, <2>3
<1>9. \A p \in Pending' :
       /\ p.seq <= clock' /\ p.step \in DOMAIN plan
       /\ plan[p.step].kind = IF p.kind = "Upload" THEN "HostCompute" ELSE p.kind
       /\ p.kind = "H2D" => p.writes = {}
  <2>1. \A p \in Pending : p.seq \in Nat
    BY PendingOp DEF Ops
  <2> QED
    BY <1>1, <1>2, <1>6a, <2>1 DEF QueueInv
<1>10. ~tracker => \A s \in Streams \ {DefaultStream} : queue'[s] = <<>>
  BY <1>1, <1>3 DEF QueueInv
<1>11. QueueInv'
  <2>1. UNCHANGED <<tracker, plan, dev>>
    OBVIOUS
  <2>2. ~tracker' => dev' = DefaultStream
    BY <2>1 DEF QueueInv
  <2> QED
    BY <1>7, <1>8, <1>9, <1>10, <2>1, <2>2 DEF QueueInv
<1> QED
  BY <1>2, <1>3, <1>6a, <1>11

(* The device removes one operation that no earlier one conflicts with.    *)
LEMMA ExecutePending ==
  ASSUME Types, QueueInv, NEW s \in Streams, Ready(s),
         queue' = [queue EXCEPT ![s] = Tail(queue[s])],
         UNCHANGED <<tracker, plan, dev, clock>>
  PROVE  LET op == Head(queue[s])
         IN  /\ QueueInv' /\ queue' \in [Streams -> Seq(Ops)]
             /\ op \in Pending /\ Pending' = Pending \ {op}
             /\ \A p \in Pending : p.seq < op.seq => ~Conflict(p, op)
             /\ \A p \in Pending : p # op => p.seq # op.seq
<1> DEFINE op == Head(queue[s])
<1>1. queue \in [Streams -> Seq(Ops)] /\ queue[s] # <<>> /\ clock \in Nat
  BY DEF Types, Ready
<1>2. /\ queue' \in [Streams -> Seq(Ops)]
      /\ \A z \in Streams : z # s => queue'[z] = queue[z]
      /\ queue'[s] = Tail(queue[s])
  BY <1>1, TailRange
<1>3. /\ DOMAIN queue[s] = 1 .. Len(queue[s]) /\ Len(queue[s]) \in Nat /\ Len(queue[s]) >= 1
      /\ DOMAIN queue'[s] = 1 .. Len(queue[s]) - 1
      /\ \A i \in 1 .. Len(queue[s]) - 1 : queue'[s][i] = queue[s][i + 1]
      /\ op = queue[s][1]
  BY <1>1, <1>2, TailRange
<1> HIDE DEF op
<1>4. op \in Ops /\ op \in Pending /\ op \in Queued(s)
  <2>1. op \in Queued(s)
    BY <1>3 DEF Queued
  <2>2. op \in Pending
    BY <2>1 DEF Pending
  <2> QED
    BY <2>1, <2>2, PendingOp
<1>5. \A p \in Queued(s) : p = op \/ (p \in Queued(s)' /\ op.seq < p.seq)
  <2> SUFFICES ASSUME NEW i \in DOMAIN queue[s], queue[s][i] # op
               PROVE  queue[s][i] \in Queued(s)' /\ op.seq < queue[s][i].seq
    BY DEF Queued
  <2>1. 1 < i /\ i - 1 \in DOMAIN queue'[s] /\ queue'[s][i - 1] = queue[s][i]
    BY <1>3
  <2> QED
    BY <1>3, <2>1 DEF QueueInv, Queued
<1>6. \A p \in Queued(s)' : p \in Queued(s) /\ op.seq < p.seq
  <2> SUFFICES ASSUME NEW i \in DOMAIN queue'[s]
               PROVE  queue'[s][i] \in Queued(s) /\ op.seq < queue'[s][i].seq
    BY DEF Queued
  <2>1. i + 1 \in DOMAIN queue[s] /\ 1 \in DOMAIN queue[s] /\ 1 < i + 1
        /\ queue'[s][i] = queue[s][i + 1]
    BY <1>3
  <2> QED
    BY <1>3, <2>1 DEF QueueInv, Queued
<1>7. \A z \in Streams : z # s => /\ Queued(z)' = Queued(z)
                                  /\ \A p \in Queued(z) : p.seq # op.seq
  <2> SUFFICES ASSUME NEW z \in Streams, z # s
               PROVE  Queued(z)' = Queued(z) /\ \A p \in Queued(z) : p.seq # op.seq
    OBVIOUS
  <2>1. 1 \in DOMAIN queue[s]
    BY <1>3
  <2> QED
    BY <1>2, <1>3, <2>1 DEF Queued, QueueInv
<1>8. \A p \in Pending : p.seq \in Nat
  BY PendingOp DEF Ops
<1>9. Pending' = Pending \ {op} /\ \A p \in Pending : p # op => p.seq # op.seq
  <2>1. \A p \in Pending : p # op => p.seq # op.seq /\ p \in Pending'
    <3> SUFFICES ASSUME NEW z \in Streams, NEW p \in Queued(z), p # op
                 PROVE  p.seq # op.seq /\ p \in Pending'
      BY DEF Pending
    <3>1. p.seq \in Nat /\ op.seq \in Nat
      BY <1>4, <1>8 DEF Pending
    <3> QED
      BY <1>5, <1>7, <3>1 DEF Pending
  <2>2. \A p \in Pending' : p \in Pending /\ p.seq # op.seq
    <3> SUFFICES ASSUME NEW z \in Streams, NEW p \in Queued(z)'
                 PROVE  p \in Pending /\ p.seq # op.seq
      BY DEF Pending
    <3>1. p \in Queued(z)
      BY <1>6, <1>7
    <3>2. p.seq \in Nat /\ op.seq \in Nat
      BY <1>4, <1>8, <3>1 DEF Pending
    <3> QED
      BY <1>6, <1>7, <3>1, <3>2 DEF Pending
  <2> QED
    BY <2>1, <2>2
<1>10. \A p \in Pending : p.seq < op.seq => ~Conflict(p, op)
  <2> SUFFICES ASSUME NEW z \in Streams, NEW p \in Queued(z), p.seq < op.seq
               PROVE  ~Conflict(p, op)
    BY DEF Pending
  <2>1. p.seq \in Nat /\ op.seq \in Nat
    BY <1>4, <1>8 DEF Pending
  <2>2. z # s
    BY <1>5, <2>1
  <2>3. PICK i \in DOMAIN queue[z] : p = queue[z][i]
    BY DEF Queued
  <2>4. tracker
    BY <1>1, <1>3, <2>2, <2>3 DEF QueueInv
  <2> QED
    BY <2>2, <2>3, <2>4 DEF Ready, op
<1>11. QueueInv'
  <2>1. \A z \in Streams : \A i, j \in DOMAIN queue'[z] :
          i < j => queue'[z][i].seq < queue'[z][j].seq
    <3> SUFFICES ASSUME NEW z \in Streams, NEW i \in DOMAIN queue'[z], NEW j \in DOMAIN queue'[z],
                        i < j
                 PROVE  queue'[z][i].seq < queue'[z][j].seq
      OBVIOUS
    <3>1. CASE z # s
      BY <1>2, <3>1 DEF QueueInv
    <3>2. CASE z = s
      <4>1. /\ i + 1 \in DOMAIN queue[s] /\ j + 1 \in DOMAIN queue[s] /\ i + 1 < j + 1
            /\ queue'[s][i] = queue[s][i + 1] /\ queue'[s][j] = queue[s][j + 1]
        BY <1>3, <3>2
      <4> QED
        BY <3>2, <4>1 DEF QueueInv
    <3> QED
      BY <3>1, <3>2
  <2>2. \A y, z \in Streams : y # z =>
          \A i \in DOMAIN queue'[y], j \in DOMAIN queue'[z] : queue'[y][i].seq # queue'[z][j].seq
    <3>1. \A z \in Streams : \A i \in DOMAIN queue'[z] :
            \E k \in DOMAIN queue[z] : queue'[z][i] = queue[z][k]
      BY <1>6, <1>7 DEF Queued
    <3> QED
      BY <3>1 DEF QueueInv
  <2>3. ~tracker => \A z \in Streams \ {DefaultStream} : queue'[z] = <<>>
    BY <1>1, <1>2 DEF QueueInv
  <2>4. \A p \in Pending' :
          /\ p.seq <= clock /\ p.step \in DOMAIN plan
          /\ plan[p.step].kind = IF p.kind = "Upload" THEN "HostCompute" ELSE p.kind
          /\ p.kind = "H2D" => p.writes = {}
    BY <1>9 DEF QueueInv
  <2>5. UNCHANGED <<tracker, plan, dev, clock>>
    OBVIOUS
  <2>6. ~tracker => dev = DefaultStream
    BY DEF QueueInv
  <2> QED
    BY <2>1, <2>2, <2>3, <2>4, <2>5, <2>6 DEF QueueInv
<1> QED
  BY <1>2, <1>4, <1>9, <1>10, <1>11 DEF op

-----------------------------------------------------------------------------
(* Patching leaves what Gives says, and other regions alone.               *)
LEMMA PatchedGives ==
  ASSUME NEW writes \in SUBSET (Regions \X (Nat \X Nat)), NEW contents, NEW r \in Regions,
         NEW v \in Nat \X Nat, Gives(writes, r, v)
  PROVE  Patched(contents, writes)[r] = v
<1> DEFINE Last(w) == /\ w[1] = r
                      /\ \A u \in writes : u[1] = r => u[2][2] <= w[2][2]
<1>1. <<r, v>> \in writes
  BY DEF Gives
<1>2. \A w \in writes : w[2][2] \in Nat
  OBVIOUS
<1>3. v[2] \in Nat
  OBVIOUS
<1>4. Last(<<r, v>>)
  BY <1>1, <1>2, <1>3 DEF Gives
<1>5. ASSUME NEW w \in writes, Last(w) PROVE w = <<r, v>>
  BY <1>1, <1>2, <1>3, <1>5 DEF Gives
<1> DEFINE chosen == CHOOSE w \in writes : Last(w)
<1>6. Patched(contents, writes)[r] = chosen[2]
  BY <1>1 DEF Patched
<1>7. chosen = <<r, v>>
  <2> HIDE DEF Last
  <2> QED
    BY <1>1, <1>4, <1>5
<1> HIDE DEF chosen
<1> QED
  BY <1>6, <1>7

(* Patching leaves the regions alone that no write names.                  *)
LEMMA PatchedKeeps ==
  ASSUME NEW writes, NEW contents, NEW r \in Regions, \A w \in writes : w[1] # r
  PROVE  Patched(contents, writes)[r] = contents[r]
  BY DEF Patched

(* What executing an operation does to a region it writes, and to others.  *)
LEMMA ExecuteRegion ==
  ASSUME Types, QueueInv, NEW op \in Pending,
         region' = IF op.kind = "H2D"
                   THEN [region EXCEPT ![StepOf(op).region] = host[StepOf(op).host]]
                   ELSE Patched(region, op.writes)
  PROVE  /\ region' = [x \in Regions |-> region'[x]]
         /\ \A r \in Regions :
              /\ r \notin Writes(op) => region'[r] = region[r]
              /\ \A v \in Nat \X Nat :
                   op.kind # "H2D" /\ Gives(op.writes, r, v) => region'[r] = v
<1>1. op \in Ops /\ region = [x \in Regions |-> region[x]]
  BY PendingOp DEF Types
<1>2. op.writes \in SUBSET (Regions \X (Nat \X Nat))
  BY <1>1 DEF Ops
<1>3. CASE op.kind = "H2D"
  <2>1. region' = [region EXCEPT ![StepOf(op).region] = host[StepOf(op).host]]
    BY <1>3
  <2>2. ASSUME NEW r \in Regions, r \notin Writes(op) PROVE r # StepOf(op).region
    BY <1>3, <2>2 DEF Writes
  <2> QED
    BY <1>1, <1>3, <2>1, <2>2
<1>4. CASE op.kind # "H2D"
  <2>1. region' = Patched(region, op.writes)
    BY <1>4
  <2>2. region' = [x \in Regions |-> region'[x]]
    BY <2>1, Zenon DEF Patched
  <2>3. ASSUME NEW r \in Regions, r \notin Writes(op) PROVE region'[r] = region[r]
    <3>1. \A w \in op.writes : w[1] # r
      BY <2>3 DEF Writes
    <3> QED
      BY <2>1, <3>1, PatchedKeeps
  <2>4. ASSUME NEW r \in Regions, NEW v \in Nat \X Nat, Gives(op.writes, r, v)
        PROVE  region'[r] = v
    <3>1. Patched(region, op.writes)[r] = v
      BY <1>2, <2>4, PatchedGives, Zenon
    <3> QED
      BY <2>1, <3>1, Zenon
  <2> QED
    BY <2>2, <2>3, <2>4
<1> QED
  BY <1>3, <1>4

(* A step that neither submits nor executes leaves the queues as they are. *)
LEMMA QueueSame ==
  ASSUME QueueInv, UNCHANGED <<tracker, plan, queue, clock>>,
         ~tracker => dev' = DefaultStream
  PROVE  QueueInv' /\ Pending' = Pending
<1>1. Pending' = Pending
  BY DEF Pending, Queued
<1> QED
  BY <1>1, SMTT(30) DEF QueueInv

(* What the next compute of the launch in progress will find.              *)
LEMMA NextFinds ==
  ASSUME FreshInv, cur > 0, NEW r \in Regions, Needs(cur, r)
  PROVE  Finds(InHand, clock + 1, r, <<launches, LastWriter(r, cur)>>)
  BY DEF FreshInv

(* What an operation will find does not change while others that may run   *)
(* before it do.                                                           *)
LEMMA FindsKept ==
  ASSUME Types, QueueInv, NEW op \in Pending, NEW r \in Regions, NEW v \in Nat \X Nat,
         NEW writes, NEW seq \in Nat, Finds(writes, seq, r, v),
         Pending' = Pending \ {op}, UNCHANGED plan,
         \A p \in Pending : p.seq < op.seq => ~Conflict(p, op),
         \A p \in Pending : p # op => p.seq # op.seq,
         op.seq < seq \/ r \notin Writes(op),
         r \notin Writes(op) => region'[r] = region[r],
         op.kind # "H2D" /\ Gives(op.writes, r, v) => region'[r] = v
  PROVE  Finds(writes, seq, r, v)'
<1>0. \A p \in Pending : p.seq \in Nat
  BY PendingOp DEF Ops
<1>1. Earlier(r, seq)' = Earlier(r, seq) \ {op}
  BY DEF Earlier, Writes, StepOf
<1>2. CASE Gives(writes, r, v)
  BY <1>2 DEF Finds, Gives
<1>3. CASE (\A w \in writes : w[1] # r) /\ Earlier(r, seq) = {} /\ region[r] = v
  <2>1. r \notin Writes(op)
    BY <1>3 DEF Earlier
  <2> QED
    BY <1>1, <1>3, <2>1 DEF Finds
<1>4. ASSUME \A w \in writes : w[1] # r, NEW p \in Earlier(r, seq),
             \A q \in Earlier(r, seq) : q.seq <= p.seq, p.kind # "H2D", Gives(p.writes, r, v)
      PROVE  Finds(writes, seq, r, v)'
  <2>1. CASE p # op
    <3>1. p \in Earlier(r, seq)' /\ \A q \in Earlier(r, seq)' : q.seq <= p.seq
      BY <1>1, <1>4, <2>1
    <3>2. Gives(p.writes, r, v)'
      BY <1>4 DEF Gives
    <3> QED
      BY <1>4, <3>1, <3>2 DEF Finds
  <2>2. CASE p = op
    <3>1. r \in Writes(op)
      BY <1>4, <2>2 DEF Earlier
    <3>2. ASSUME NEW q \in Earlier(r, seq), q # op PROVE FALSE
      <4>1. q \in Pending /\ r \in Writes(q) /\ q.seq <= op.seq
        BY <1>4, <2>2, Zenon DEF Earlier
      <4>2. Conflict(q, op)
        BY <3>1, <4>1 DEF Conflict
      <4>3. q.seq # op.seq
        BY <3>2, <4>1
      <4> QED
        BY <1>0, <4>1, <4>2, <4>3
    <3>3. Earlier(r, seq)' = {}
      BY <1>1, <3>2
    <3>4. region'[r] = v
      BY <1>4, <2>2
    <3> QED
      BY <1>4, <3>3, <3>4, Zenon DEF Finds
  <2> QED
    BY <2>1, <2>2
<1> QED
  BY <1>2, <1>3, <1>4, Zenon DEF Finds

-----------------------------------------------------------------------------
(* The last writer exists when there is one.                               *)
LEMMA LastWriterIs ==
  ASSUME NEW i \in Nat, NEW r, Writers(r, i) # {}
  PROVE  /\ LastWriter(r, i) \in Writers(r, i) /\ LastWriter(r, i) \in Nat
         /\ \A k \in Writers(r, i) : k <= LastWriter(r, i)
<1> DEFINE T == {i - j : j \in Writers(r, i)}
<1>1. \A j \in Writers(r, i) : j \in Nat /\ j < i
  BY DEF Writers
<1>2. T \subseteq Nat /\ T # {}
  BY <1>1
<1>3. PICK x \in T : \A y \in T : x <= y
  BY <1>2, LeastNatural, Zenon
<1>4. PICK j \in Writers(r, i) : x = i - j
  BY <1>3
<1>5. ASSUME NEW k \in Writers(r, i) PROVE k <= j
  <2>1. i - j <= i - k
    BY <1>3, <1>4
  <2> QED
    BY <1>1, <2>1
<1>6. \E m \in Writers(r, i) : \A k \in Writers(r, i) : k <= m
  BY <1>5
<1> QED
  BY <1>1, <1>6 DEF LastWriter

(* One step further: this step is the last writer, or nothing changes.     *)
LEMMA NextWriters ==
  ASSUME plan \in Seq(PlanSteps), NEW i \in 1 .. Len(plan), NEW r
  PROVE  IF plan[i].role = "Prep" /\ plan[i].region = r
         THEN Writers(r, i + 1) # {} /\ LastWriter(r, i + 1) = i
         ELSE Writers(r, i + 1) = Writers(r, i) /\ LastWriter(r, i + 1) = LastWriter(r, i)
<1>0. Len(plan) \in Nat
  OBVIOUS
<1>1. CASE plan[i].role = "Prep" /\ plan[i].region = r
  <2>1. i \in Writers(r, i + 1) /\ \A k \in Writers(r, i + 1) : k <= i /\ k \in Nat
    BY <1>0, <1>1 DEF Writers
  <2>2. /\ LastWriter(r, i + 1) \in Writers(r, i + 1)
        /\ \A k \in Writers(r, i + 1) : k <= LastWriter(r, i + 1)
    BY <1>0, <2>1, LastWriterIs
  <2> QED
    BY <1>0, <1>1, <2>1, <2>2
<1>2. CASE ~(plan[i].role = "Prep" /\ plan[i].region = r)
  <2>1. Writers(r, i + 1) = Writers(r, i)
    BY <1>0, <1>2 DEF Writers
  <2> QED
    BY <1>2, <2>1 DEF LastWriter
<1> QED
  BY <1>1, <1>2

(* What a compute needs depends on the plan alone.                         *)
LEMMA NeedsKept ==
  ASSUME UNCHANGED plan
  PROVE  \A i, r : (Needs(i, r)' <=> Needs(i, r)) /\ LastWriter(r, i)' = LastWriter(r, i)
  BY DEF Needs, LastWriter, Writers, IsHostCompute

-----------------------------------------------------------------------------
(* An operation is submitted: nothing changes for those before it; what it *)
(* brings is what the next one finds; what it does not write stays.        *)
LEMMA FindsBefore ==
  ASSUME Types, NEW op, NEW r, NEW v, NEW writes, NEW seq \in Nat, Finds(writes, seq, r, v),
         Pending' = Pending \cup {op}, UNCHANGED <<plan, region>>, seq <= op.seq,
         op.seq \in Nat
  PROVE  Finds(writes, seq, r, v)'
<1>1. Earlier(r, seq)' = Earlier(r, seq)
  BY DEF Earlier, Writes, StepOf
<1> QED
  BY <1>1 DEF Finds, Gives

(* Whoever comes after an operation that writes a region finds what that   *)
(* operation brings.                                                       *)
LEMMA FindsBrought ==
  ASSUME Types, QueueInv, NEW op, NEW r, NEW v, NEW seq \in Nat,
         Pending' = Pending \cup {op}, UNCHANGED plan, seq = op.seq + 1,
         op.seq = clock + 1, op.kind # "H2D", Gives(op.writes, r, v)
  PROVE  Finds({}, seq, r, v)'
<1>1. \A p \in Pending : p.seq \in Nat /\ p.seq <= clock
  BY PendingOp DEF Ops, QueueInv
<1>2. r \in {w[1] : w \in op.writes}
  BY DEF Gives
<1>3. op \in Earlier(r, seq)'
  BY <1>2 DEF Earlier, Writes, Types
<1>4. \A q \in Earlier(r, seq)' : q.seq <= op.seq
  BY <1>1 DEF Earlier, Types
<1>5. Gives(op.writes, r, v)'
  BY DEF Gives
<1> QED
  BY <1>3, <1>4, <1>5 DEF Finds

(* An operation that does not write a region hides nothing that was to be  *)
(* found there.                                                            *)
LEMMA FindsPast ==
  ASSUME Types, QueueInv, NEW op, NEW r, NEW v, NEW writes, NEW seq \in Nat,
         Finds(writes, seq, r, v), seq = clock + 1, op.seq = seq,
         Pending' = Pending \cup {op}, UNCHANGED <<plan, region>>, r \notin Writes(op)
  PROVE  Finds(writes, seq + 1, r, v)'
<1>1. \A p \in Pending : p.seq \in Nat /\ p.seq <= clock
  BY PendingOp DEF Ops, QueueInv
<1>2. Earlier(r, seq + 1)' = Earlier(r, seq)
  <2>0. clock \in Nat
    BY DEF Types
  <2>1. \A p : Writes(p)' = Writes(p)
    BY DEF Writes, StepOf
  <2>2. Earlier(r, seq + 1)' = {p \in Pending \cup {op} : p.seq < seq + 1 /\ r \in Writes(p)}
    BY <2>1 DEF Earlier
  <2>3. \A p \in Pending : p.seq < seq + 1 /\ p.seq < seq
    BY <1>1, <2>0
  <2> QED
    BY <2>2, <2>3 DEF Earlier
<1> QED
  BY <1>2 DEF Finds, Gives

(* A step that leaves queues and regions alone.                            *)
LEMMA FreshSame ==
  ASSUME FreshInv, UNCHANGED <<plan, region, queue>>,
         NEW c \in Pending', c.kind = "Compute", NEW r \in Regions, Needs(c.step, r)'
  PROVE  Finds(c.writes, c.seq, r, <<c.launch, LastWriter(r, c.step)>>)'
<1>1. Pending' = Pending
  BY DEF Pending, Queued
<1>2. PICK v : v = <<c.launch, LastWriter(r, c.step)>>
  BY Zenon
<1>3. v = <<c.launch, LastWriter(r, c.step)'>> /\ Needs(c.step, r)
  BY <1>2, NeedsKept
<1>4. Finds(c.writes, c.seq, r, v)
  BY <1>1, <1>2, <1>3 DEF FreshInv
<1>5. Earlier(r, c.seq)' = Earlier(r, c.seq)
  BY <1>1 DEF Earlier, Writes, StepOf
<1>6. Finds(c.writes, c.seq, r, v)'
  BY <1>4, <1>5, Zenon DEF Finds, Gives
<1> QED
  BY <1>3, <1>6

(* Every step that submits: the queued computes still find their own       *)
(* corrections, and so does the new one if it is a compute.                *)
LEMMA SubmitFresh ==
  ASSUME LaunchInv, NEW step, NEW kind \in {"Upload", "Compute", "H2D", "D2H"},
         NEW writes \in SUBSET (Regions \X (Nat \X Nat)), Submit(step, Operation(kind, writes)),
         cur \in 1 .. Len(plan),
         plan[cur].kind = IF kind = "Upload" THEN "HostCompute" ELSE kind,
         kind = "H2D" => writes = {},
         kind = "Compute" => writes = InHand,
         UNCHANGED <<tracker, plan, dev, region>>
  PROVE  /\ QueueInv' /\ queue' \in [Streams -> Seq(Ops)] /\ clock' = clock + 1
         /\ Pending' = Pending \cup {Operation(kind, writes)}
         /\ \A c \in Pending' : c.kind = "Compute" =>
              \A r \in Regions : Needs(c.step, r)' =>
                Finds(c.writes, c.seq, r, <<c.launch, LastWriter(r, c.step)>>)'
<1>0. /\ Types /\ QueueInv /\ FreshInv
      /\ launches \in Nat /\ cur \in Nat /\ clock \in Nat /\ DOMAIN plan = 1 .. Len(plan)
  BY DEF LaunchInv, Types
<1>1. PICK op : op = Operation(kind, writes)
  OBVIOUS
<1>2. /\ op \in Ops /\ op.kind = kind /\ op.writes = writes /\ op.launch = launches
      /\ op.step = cur /\ op.seq = clock + 1
  BY <1>0, <1>1 DEF Operation, Ops
<1>3. /\ QueueInv' /\ queue' \in [Streams -> Seq(Ops)] /\ clock' = clock + 1
      /\ Pending' = Pending \cup {op}
  BY <1>0, <1>1, <1>2, SubmitPending, Zenon
<1>4. ASSUME NEW c \in Pending', c.kind = "Compute", NEW r \in Regions, Needs(c.step, r)'
      PROVE  Finds(c.writes, c.seq, r, <<c.launch, LastWriter(r, c.step)>>)'
  <2>1. Needs(c.step, r)
    BY <1>4, NeedsKept
  <2>2. PICK v : v = <<c.launch, LastWriter(r, c.step)>>
    BY Zenon
  <2>3. c \in Ops /\ c.seq \in Nat /\ c.seq <= op.seq
    <3>1. c \in Ops /\ c.seq <= op.seq
      <4>1. CASE c \in Pending
        <5>1. c \in Ops /\ c.seq <= clock
          BY <1>0, <4>1, PendingOp, Zenon DEF QueueInv
        <5>2. c.seq \in Nat
          BY <5>1, Zenon DEF Ops
        <5> QED
          BY <1>0, <1>2, <5>1, <5>2
      <4>2. CASE c = op
        BY <1>0, <1>2, <4>2
      <4> QED
        BY <1>3, <4>1, <4>2, Zenon
    <3> QED
      BY <3>1 DEF Ops
  <2>4. Finds(c.writes, c.seq, r, v)
    <3>1. CASE c \in Pending
      BY <1>0, <1>4, <2>1, <2>2, <3>1 DEF FreshInv
    <3>2. CASE c = op
      <4>1. c.writes = InHand /\ c.seq = clock + 1 /\ c.launch = launches /\ c.step = cur
        BY <1>2, <1>4, <3>2
      <4>2. Needs(cur, r) /\ v = <<launches, LastWriter(r, cur)>>
        BY <2>1, <2>2, <4>1
      <4>3. Finds(InHand, clock + 1, r, v)
        BY <1>0, <4>2, NextFinds
      <4> QED
        BY <4>1, <4>3
    <3> QED
      BY <1>3, <3>1, <3>2
  <2>5. Finds(c.writes, c.seq, r, v)'
    <3>1. UNCHANGED <<plan, region>> /\ op.seq \in Nat
      BY <1>0, <1>2
    <3> QED
      BY <1>0, <1>3, <2>3, <2>4, <3>1, FindsBefore, Zenon
  <2>6. v = <<c.launch, LastWriter(r, c.step)'>>
    BY <2>2, NeedsKept
  <2> QED
    BY <2>5, <2>6
<1> QED
  BY <1>1, <1>3, <1>4

(* What the steps that submit have in common.                              *)
LEMMA SubmitTypes ==
  ASSUME LaunchInv, cur \in 1 .. Len(plan), cur' = cur + 1, batch' = Batch(cur),
         clock' = clock + 1, queue' \in [Streams -> Seq(Ops)],
         corrections' \in Seq(Regions \X (Nat \X Nat)),
         UNCHANGED <<tracker, plan, launches, dev, cap, region>>
  PROVE  Types'
<1>1. Types
  BY DEF LaunchInv
<1> QED
  BY <1>1 DEF Types

(* A stream executes the head of its queue: the regions change, and what   *)
(* later computes find with them.                                          *)
LEMMA ExecuteStep ==
  ASSUME LaunchInv, NEW s \in Streams, Execute(s)
  PROVE  LaunchInv'
<1> DEFINE op == Head(queue[s])
<1>0. Types /\ GroupInv /\ QueueInv /\ FreshInv
  BY DEF LaunchInv
<1>1. /\ Ready(s) /\ queue' = [queue EXCEPT ![s] = Tail(queue[s])]
      /\ region' = IF op.kind = "H2D"
                   THEN [region EXCEPT ![StepOf(op).region] = host[StepOf(op).host]]
                   ELSE Patched(region, op.writes)
      /\ stale' = stale \cup IF op.kind = "Compute" /\ Mismatch(op, region')
                             THEN {<<op.launch, op.step>>} ELSE {}
      /\ UNCHANGED <<tracker, plan, launches, cur, dev, cap, batch, corrections,
                     clock, early, orphan>>
  BY Zenon DEF Execute
<1>2. /\ QueueInv' /\ queue' \in [Streams -> Seq(Ops)]
      /\ op \in Pending /\ Pending' = Pending \ {op}
      /\ \A p \in Pending : p.seq < op.seq => ~Conflict(p, op)
      /\ \A p \in Pending : p # op => p.seq # op.seq
  BY <1>0, <1>1, ExecutePending, Zenon
<1> HIDE DEF op
<1>3. /\ region' = [x \in Regions |-> region'[x]]
      /\ \A r \in Regions :
           /\ r \notin Writes(op) => region'[r] = region[r]
           /\ \A v \in Nat \X Nat :
                op.kind # "H2D" /\ Gives(op.writes, r, v) => region'[r] = v
  BY <1>0, <1>1, <1>2, ExecuteRegion, Zenon
<1>4. Types' /\ GroupInv'
  <2>1. Types'
    BY <1>0, <1>1, <1>2, <1>3 DEF Types
  <2>2. UNCHANGED <<plan, launches, cur, cap, batch, corrections, orphan>>
    BY <1>1, Zenon
  <2> QED
    BY <1>0, <2>1, <2>2, GroupSame
<1>5. \A p \in Pending : p \in Ops /\ p.seq \in Nat /\ p.seq <= clock /\ p.step \in DOMAIN plan
  BY <1>0, PendingOp DEF Ops, QueueInv
<1>6. ASSUME NEW c \in Pending', c.kind = "Compute", NEW r \in Regions, Needs(c.step, r)'
      PROVE  Finds(c.writes, c.seq, r, <<c.launch, LastWriter(r, c.step)>>)'
  <2>1. c \in Pending /\ c # op /\ Needs(c.step, r)
    BY <1>1, <1>2, <1>6, NeedsKept, Zenon
  <2>2. PICK v \in Nat \X Nat : v = <<c.launch, LastWriter(r, c.step)>>
    <3>1. LastWriter(r, c.step) \in Nat
      BY <1>5, <2>1, LastWriterIs DEF Needs, Ops
    <3> QED
      BY <1>5, <2>1, <3>1, Zenon DEF Ops
  <2>3. Finds(c.writes, c.seq, r, v)
    BY <1>0, <1>6, <2>1, <2>2 DEF FreshInv
  <2>4. op.seq < c.seq \/ r \notin Writes(op)
    <3>1. c.seq < op.seq => ~Conflict(c, op)
      BY <1>2, <2>1
    <3>2. Reads(c) = Regions
      BY <1>6 DEF Reads
    <3> QED
      BY <1>2, <1>5, <2>1, <3>1, <3>2 DEF Conflict
  <2>5. Finds(c.writes, c.seq, r, v)'
    BY <1>0, <1>1, <1>2, <1>3, <1>5, <2>1, <2>3, <2>4, FindsKept
  <2>6. v = <<c.launch, LastWriter(r, c.step)'>>
    BY <1>1, <2>2, NeedsKept
  <2> QED
    BY <2>5, <2>6
<1>7. ASSUME cur' > 0, NEW r \in Regions, Needs(cur, r)'
      PROVE  Finds(InHand, clock + 1, r, <<launches, LastWriter(r, cur)>>)'
  <2>0. cur \in Nat /\ launches \in Nat /\ clock \in Nat
    BY <1>0 DEF Types
  <2>1. cur > 0 /\ Needs(cur, r)
    <3>1. PICK i : i = cur /\ i = cur'
      BY <1>1, Zenon
    <3>2. Needs(i, r)'
      BY <1>7, <3>1 DEF Needs, LastWriter, Writers, IsHostCompute
    <3> QED
      BY <1>1, <1>7, <3>1, <3>2, NeedsKept, Zenon
  <2>2. PICK v \in Nat \X Nat : v = <<launches, LastWriter(r, cur)>>
    BY <2>0, <2>1, LastWriterIs, Zenon DEF Needs
  <2>3. PICK writes : writes = InHand
    OBVIOUS
  <2>4. PICK seq \in Nat : seq = clock + 1
    BY <2>0
  <2>5. Finds(writes, seq, r, v)
    <3>1. Finds(InHand, clock + 1, r, v)
      BY <1>0, <2>1, <2>2, NextFinds
    <3> QED
      BY <2>3, <2>4, <3>1
  <2>6. op.seq < seq
    BY <1>2, <1>5, <2>0, <2>4
  <2>7. Finds(writes, seq, r, v)'
    BY <1>0, <1>1, <1>2, <1>3, <2>5, <2>6, FindsKept
  <2>8. writes = InHand' /\ seq = clock' + 1 /\ v = <<launches', LastWriter(r, cur)'>>
    BY <1>1, <2>2, <2>3, <2>4 DEF InHand, LastWriter, Writers
  <2> QED
    BY <2>7, <2>8
<1>8. stale' = {}
  <2> SUFFICES ASSUME op.kind = "Compute", NEW r \in Regions,
                      Writers(r, op.step) # {},
                      plan[LastWriter(r, op.step)].kind = "HostCompute"
               PROVE  region'[r] = <<op.launch, LastWriter(r, op.step)>>
    BY <1>0, <1>1, Zenon DEF FreshInv, Mismatch
  <2>1. Needs(op.step, r)
    BY DEF Needs, IsHostCompute
  <2>2. PICK v \in Nat \X Nat : v = <<op.launch, LastWriter(r, op.step)>>
    <3>1. LastWriter(r, op.step) \in Nat
      BY <1>2, <1>5, LastWriterIs DEF Ops
    <3> QED
      BY <1>2, <1>5, <3>1, Zenon DEF Ops
  <2>3. Finds(op.writes, op.seq, r, v)
    BY <1>0, <1>2, <2>1, <2>2, Zenon DEF FreshInv
  <2>4. CASE Gives(op.writes, r, v)
    BY <1>3, <2>2, <2>4
  <2>5. CASE ~Gives(op.writes, r, v)
    <3>1. r \notin Writes(op)
      BY <2>3, <2>5 DEF Finds, Writes
    <3>2. ASSUME NEW p \in Earlier(r, op.seq) PROVE FALSE
      <4>1. p \in Pending /\ p.seq < op.seq /\ r \in Writes(p) /\ r \in Reads(op)
        BY DEF Earlier, Reads
      <4> QED
        BY <1>2, <4>1 DEF Conflict
    <3>3. region[r] = v
      BY <2>3, <2>5, <3>2 DEF Finds
    <3> QED
      BY <1>3, <2>2, <3>1, <3>3
  <2> QED
    BY <2>4, <2>5
<1> QED
  BY <1>2, <1>4, <1>6, <1>7, <1>8, Zenon DEF LaunchInv, FreshInv

(* A HostCompute step that joins the batch.                                *)
LEMMA BatchedStep ==
  ASSUME LaunchInv, ConstructHostCompute, Batch(cur)
  PROVE  LaunchInv'
<1> DEFINE z == plan[cur].region
           new == <<z, <<launches, cur>>>>
<1>0. /\ Types /\ GroupInv /\ QueueInv /\ FreshInv
      /\ plan \in Seq(PlanSteps) /\ Len(plan) \in Nat /\ DOMAIN plan = 1 .. Len(plan)
      /\ launches \in Nat /\ cur \in Nat /\ clock \in Nat
      /\ corrections \in Seq(Regions \X (Nat \X Nat))
  BY DEF LaunchInv, Types
<1>1. /\ cur \in 1 .. Len(plan) /\ IsHostCompute(cur) /\ cur' = cur + 1
      /\ batch' = Batch(cur)
      /\ corrections' = Append(corrections, new)
      /\ UNCHANGED <<tracker, plan, launches, dev, cap, region, stale, orphan, queue, clock>>
  BY Zenon DEF ConstructHostCompute, Advance, IsHostCompute, Tag
<1>2. new \in Regions \X (Nat \X Nat) /\ z \in Regions /\ plan[cur].role = "Prep"
  BY <1>0, <1>1, StepKinds DEF IsHostCompute
<1>3. GroupInv'
  BY <1>0, HostComputeGroup
<1>4. Types'
  <2>1. corrections' \in Seq(Regions \X (Nat \X Nat))
    <3> DEFINE Kinds == Regions \X (Nat \X Nat)
    <3> HIDE DEF Kinds, new
    <3>1. corrections \in Seq(Kinds) /\ new \in Kinds /\ corrections' = Append(corrections, new)
      BY <1>0, <1>1, <1>2, Zenon DEF Kinds
    <3>2. corrections' \in Seq(Kinds)
      BY <3>1
    <3> QED
      BY <3>2 DEF Kinds
  <2> QED
    BY <1>0, <1>1, <2>1 DEF Types
<1>5. QueueInv' /\ Pending' = Pending
  <2>1. ~tracker => dev' = DefaultStream
    BY <1>0, <1>1 DEF QueueInv
  <2> QED
    BY <1>0, <1>1, <2>1, QueueSame
<1>6. InHand' = InHand \cup {new} /\ \A w \in InHand : w[2][2] < cur
  <2>1. InHand' = InHand \cup {new}
    <3>1. /\ DOMAIN corrections = 1 .. Len(corrections) /\ Len(corrections) \in Nat
          /\ DOMAIN corrections' = 1 .. Len(corrections) + 1
          /\ \A i \in 1 .. Len(corrections) : corrections'[i] = corrections[i]
          /\ corrections'[Len(corrections) + 1] = new
      <4>1. \A x \in Regions \X (Nat \X Nat) :
              /\ DOMAIN Append(corrections, x) = 1 .. Len(corrections) + 1
              /\ \A i \in 1 .. Len(corrections) : Append(corrections, x)[i] = corrections[i]
              /\ Append(corrections, x)[Len(corrections) + 1] = x
        BY <1>0
      <4>2. DOMAIN corrections = 1 .. Len(corrections) /\ Len(corrections) \in Nat
        BY <1>0
      <4> HIDE DEF new
      <4> QED
        BY <1>1, <1>2, <4>1, <4>2
    <3> HIDE DEF new
    <3> QED
      BY <3>1 DEF InHand
  <2>2. ASSUME NEW i \in DOMAIN corrections PROVE corrections[i][2][2] < cur
    <3>1. PICK g \in 1 .. cur - 1, e \in cur .. Len(plan) : Collected(g, e)
      BY <1>0, <2>2 DEF GroupInv
    <3>2. i \in 1 .. cur - g
      <4>1. DOMAIN corrections = 1 .. Len(corrections) /\ Len(corrections) = cur - g
        BY <1>0, <3>1 DEF Collected
      <4> QED
        BY <2>2, <4>1
    <3>3. corrections[i] = <<plan[g + i - 1].region, <<launches, g + i - 1>>>>
      BY <3>1, <3>2, Zenon DEF Collected
    <3>4. corrections[i][2][2] = g + i - 1
      BY <3>3
    <3>5. g + i - 1 < cur
      BY <1>0, <3>1, <3>2
    <3> QED
      BY <3>4, <3>5
  <2> QED
    BY <2>1, <2>2 DEF InHand
<1>7. ASSUME NEW r \in Regions, Needs(cur, r)'
      PROVE  Finds(InHand, clock + 1, r, <<launches, LastWriter(r, cur)>>)'
  <2>1. PICK v : v = <<launches, LastWriter(r, cur + 1)>>
    BY Zenon
  <2>2. Needs(cur + 1, r) /\ v = <<launches', LastWriter(r, cur)'>>
    BY <1>1, <1>7, <2>1 DEF Needs, LastWriter, Writers, IsHostCompute
  <2>3. PICK hand : hand = InHand'
    OBVIOUS
  <2>4. CASE r = z
    <3>1. v = <<launches, cur>> /\ v[2] = cur
      BY <1>0, <1>1, <1>2, <2>1, <2>4, NextWriters, Zenon
    <3>2. Gives(hand, r, v)
      BY <1>6, <2>3, <2>4, <3>1 DEF Gives
    <3> QED
      BY <2>2, <2>3, <3>2, Zenon DEF Finds, Gives
  <2>5. CASE r # z
    <3>1. Needs(cur, r) /\ v = <<launches, LastWriter(r, cur)>>
      BY <1>0, <1>1, <2>1, <2>2, <2>5, NextWriters DEF Needs
    <3>0. FreshInv /\ cur > 0
      BY <1>0, <1>1
    <3>2. Finds(InHand, clock + 1, r, v)
      BY <3>0, <3>1, NextFinds
    <3>3. Earlier(r, clock + 1)' = Earlier(r, clock + 1)
      BY <1>1, <1>5, Zenon DEF Earlier, Writes, StepOf
    <3>4. \A w \in hand : w \in InHand \/ w[1] # r
      BY <1>6, <2>3, <2>5
    <3>5. Gives(InHand, r, v) => Gives(hand, r, v)
      BY <1>6, <2>3, <3>4 DEF Gives
    <3>6. (\A w \in InHand : w[1] # r) => \A w \in hand : w[1] # r
      BY <3>4
    <3> QED
      BY <1>1, <2>2, <2>3, <3>2, <3>3, <3>5, <3>6, Zenon DEF Finds, Gives
  <2> QED
    BY <2>4, <2>5
<1>8. ASSUME NEW c \in Pending', c.kind = "Compute", NEW r \in Regions, Needs(c.step, r)'
      PROVE  Finds(c.writes, c.seq, r, <<c.launch, LastWriter(r, c.step)>>)'
  BY <1>0, <1>1, <1>8, FreshSame
<1> QED
  BY <1>0, <1>1, <1>3, <1>4, <1>5, <1>7, <1>8 DEF LaunchInv, FreshInv

(* A HostCompute step that is uploaded on its own.                         *)
LEMMA UploadStep ==
  ASSUME LaunchInv, ConstructHostCompute, ~Batch(cur)
  PROVE  LaunchInv'
<1> DEFINE z == plan[cur].region
           writes == {<<z, <<launches, cur>>>>}
<1>0. /\ Types /\ GroupInv /\ QueueInv /\ FreshInv
      /\ plan \in Seq(PlanSteps) /\ Len(plan) \in Nat /\ DOMAIN plan = 1 .. Len(plan)
      /\ launches \in Nat /\ cur \in Nat /\ clock \in Nat
  BY DEF LaunchInv, Types
<1>1. /\ cur \in 1 .. Len(plan) /\ IsHostCompute(cur) /\ cur' = cur + 1
      /\ batch' = Batch(cur) /\ corrections' = corrections
      /\ Submit(plan[cur], Operation("Upload", writes))
      /\ UNCHANGED <<tracker, plan, launches, dev, cap, region, stale, orphan>>
  BY Zenon DEF ConstructHostCompute, Advance, IsHostCompute, Tag
<1>2. z \in Regions /\ plan[cur].role = "Prep" /\ writes \in SUBSET (Regions \X (Nat \X Nat))
  BY <1>0, <1>1, StepKinds DEF IsHostCompute
<1>3. GroupInv' /\ corrections = <<>> /\ InHand = {} /\ InHand' = {}
  <2>1. corrections = <<>>
    BY <1>0, <1>1, NothingInHand
  <2> QED
    BY <1>0, <1>1, <2>1, HostComputeGroup DEF InHand
<1>4. PICK op : op = Operation("Upload", writes)
  OBVIOUS
<1>5. /\ op.kind = "Upload" /\ op.writes = writes /\ op.seq = clock + 1 /\ op.step = cur
      /\ Writes(op) = {z}
  BY <1>4 DEF Operation, Writes
<1> HIDE DEF writes
<1>6. /\ QueueInv' /\ queue' \in [Streams -> Seq(Ops)] /\ clock' = clock + 1
      /\ Pending' = Pending \cup {op}
      /\ \A c \in Pending' : c.kind = "Compute" =>
           \A r \in Regions : Needs(c.step, r)' =>
             Finds(c.writes, c.seq, r, <<c.launch, LastWriter(r, c.step)>>)'
  BY <1>1, <1>2, <1>4, SubmitFresh, Zenon DEF IsHostCompute
<1>7. Types'
  BY <1>0, <1>1, <1>6, SubmitTypes DEF Types
<1>8. ASSUME NEW r \in Regions, Needs(cur, r)'
      PROVE  Finds(InHand, clock + 1, r, <<launches, LastWriter(r, cur)>>)'
  <2>1. PICK v : v = <<launches, LastWriter(r, cur + 1)>>
    BY Zenon
  <2>2. Needs(cur + 1, r) /\ v = <<launches', LastWriter(r, cur)'>>
    BY <1>1, <1>8, <2>1, Zenon DEF Needs, LastWriter, Writers, IsHostCompute
  <2>3. PICK seq \in Nat : seq = clock + 1
    BY <1>0
  <2>4. Finds({}, seq + 1, r, v)'
    <3>1. CASE r = z
      <4>1. v = <<launches, cur>>
        BY <1>0, <1>1, <1>2, <2>1, <3>1, NextWriters, Zenon
      <4>2. Gives(op.writes, r, v)
        BY <1>5, <3>1, <4>1 DEF Gives, writes
      <4>3. PICK next \in Nat : next = seq + 1
        BY <2>3
      <4>4. /\ Types /\ QueueInv /\ Pending' = Pending \cup {op} /\ UNCHANGED plan
            /\ next = op.seq + 1 /\ op.seq = clock + 1 /\ op.kind # "H2D"
        BY <1>0, <1>1, <1>5, <1>6, <2>3, <4>3
      <4>5. Finds({}, next, r, v)'
        BY <4>2, <4>4, FindsBrought
      <4> QED
        BY <4>3, <4>5
    <3>2. CASE r # z
      <4>1. Needs(cur, r) /\ v = <<launches, LastWriter(r, cur)>>
        BY <1>0, <1>1, <2>1, <2>2, <3>2, NextWriters, Zenon DEF Needs
      <4>2. FreshInv /\ cur > 0
        BY <1>0, <1>1
      <4>3. Finds(InHand, clock + 1, r, v)
        BY <4>1, <4>2, NextFinds
      <4>4. Finds({}, seq, r, v)
        BY <1>3, <2>3, <4>3
      <4>5. r \notin Writes(op)
        BY <1>5, <3>2
      <4> QED
        BY <1>0, <1>1, <1>5, <1>6, <2>3, <4>4, <4>5, FindsPast, Zenon
    <3> QED
      BY <3>1, <3>2
  <2>5. seq + 1 = clock' + 1
    BY <1>6, <2>3
  <2> QED
    BY <1>3, <2>2, <2>4, <2>5
<1> QED
  BY <1>0, <1>1, <1>3, <1>6, <1>7, <1>8, Zenon DEF LaunchInv, FreshInv

(* A compute takes the corrections in hand: what they do not cover, it     *)
(* finds where the next step would have.                                   *)
LEMMA ComputeStep ==
  ASSUME LaunchInv, ConstructCompute
  PROVE  LaunchInv'
<1>0. /\ Types /\ GroupInv /\ QueueInv /\ FreshInv
      /\ plan \in Seq(PlanSteps) /\ Len(plan) \in Nat /\ DOMAIN plan = 1 .. Len(plan)
      /\ launches \in Nat /\ cur \in Nat /\ clock \in Nat
      /\ corrections \in Seq(Regions \X (Nat \X Nat))
  BY DEF LaunchInv, Types
<1>1. /\ cur \in 1 .. Len(plan) /\ plan[cur].kind = "Compute" /\ cur' = cur + 1
      /\ batch' = Batch(cur) /\ corrections' = <<>>
      /\ Submit(plan[cur], Operation("Compute", InHand))
      /\ UNCHANGED <<tracker, plan, launches, dev, cap, region, stale, orphan>>
  BY DEF ConstructCompute, Advance, InHand
<1>2. plan[cur].role = "Dev" /\ InHand \in SUBSET (Regions \X (Nat \X Nat))
  <2>1. \A i \in DOMAIN corrections : corrections[i] \in Regions \X (Nat \X Nat)
    BY <1>0
  <2>2. InHand \subseteq Regions \X (Nat \X Nat)
    BY <2>1 DEF InHand
  <2> QED
    BY <1>0, <1>1, <2>2, StepKinds, Zenon
<1>3. GroupInv' /\ InHand' = {}
  <2>1. GroupInv'
    BY <1>0, OtherGroup
  <2> QED
    BY <1>1, <2>1 DEF InHand
<1>4. PICK op, hand : op = Operation("Compute", InHand) /\ hand = InHand
  OBVIOUS
<1>5. /\ op.kind = "Compute" /\ op.writes = hand /\ op.seq = clock + 1
      /\ Writes(op) = {w[1] : w \in hand}
  BY <1>4 DEF Operation, Writes
<1>6. /\ QueueInv' /\ queue' \in [Streams -> Seq(Ops)] /\ clock' = clock + 1
      /\ Pending' = Pending \cup {op}
      /\ \A c \in Pending' : c.kind = "Compute" =>
           \A r \in Regions : Needs(c.step, r)' =>
             Finds(c.writes, c.seq, r, <<c.launch, LastWriter(r, c.step)>>)'
  BY <1>1, <1>2, <1>4, SubmitFresh, Zenon
<1>7. Types'
  <2>1. corrections' \in Seq(Regions \X (Nat \X Nat))
    BY <1>1
  <2> QED
    BY <1>1, <1>6, <2>1, SubmitTypes
<1>8. ASSUME NEW r \in Regions, Needs(cur, r)'
      PROVE  Finds(InHand, clock + 1, r, <<launches, LastWriter(r, cur)>>)'
  <2>1. PICK v : v = <<launches, LastWriter(r, cur + 1)>>
    BY Zenon
  <2>2. Needs(cur + 1, r) /\ v = <<launches', LastWriter(r, cur)'>>
    BY <1>1, <1>8, <2>1, Zenon DEF Needs, LastWriter, Writers, IsHostCompute
  <2>3. Needs(cur, r) /\ v = <<launches, LastWriter(r, cur)>>
    BY <1>0, <1>1, <1>2, <2>1, <2>2, NextWriters, Zenon DEF Needs
  <2>4. PICK seq \in Nat : seq = clock + 1
    BY <1>0
  <2>5. Finds(hand, seq, r, v)
    <3>0. FreshInv /\ cur > 0
      BY <1>0, <1>1
    <3>1. Finds(InHand, clock + 1, r, v)
      BY <2>3, <3>0, NextFinds
    <3> QED
      BY <1>4, <2>4, <3>1
  <2>6. Finds({}, seq + 1, r, v)'
    <3>1. CASE Gives(hand, r, v)
      <4>1. Gives(op.writes, r, v) /\ op.kind # "H2D"
        BY <1>5, <3>1
      <4>2. seq + 1 = op.seq + 1 /\ seq + 1 \in Nat
        BY <1>5, <2>4
      <4>3. UNCHANGED plan
        BY <1>1
      <4> QED
        BY <1>0, <1>5, <1>6, <4>1, <4>2, <4>3, FindsBrought, Zenon
    <3>2. CASE ~Gives(hand, r, v)
      <4>1. r \notin Writes(op) /\ Finds({}, seq, r, v)
        BY <1>5, <2>5, <3>2 DEF Finds
      <4> QED
        BY <1>0, <1>1, <1>5, <1>6, <2>4, <4>1, FindsPast, Zenon
    <3> QED
      BY <3>1, <3>2
  <2>7. seq + 1 = clock' + 1
    BY <1>6, <2>4
  <2> QED
    BY <1>3, <2>2, <2>6, <2>7
<1> QED
  BY <1>0, <1>1, <1>3, <1>6, <1>7, <1>8, Zenon DEF LaunchInv, FreshInv

(* An H2D step makes its own region one that no compute needs a correction *)
(* of; a D2H step writes no region.                                        *)
LEMMA TransferStep ==
  ASSUME LaunchInv, ConstructTransfer
  PROVE  LaunchInv'
<1>0. /\ Types /\ GroupInv /\ QueueInv /\ FreshInv
      /\ plan \in Seq(PlanSteps) /\ Len(plan) \in Nat /\ DOMAIN plan = 1 .. Len(plan)
      /\ launches \in Nat /\ cur \in Nat /\ clock \in Nat
  BY DEF LaunchInv, Types
<1>1. PICK kind \in {"H2D", "D2H"} :
        /\ cur \in 1 .. Len(plan) /\ plan[cur].kind = kind /\ cur' = cur + 1
        /\ batch' = Batch(cur) /\ corrections' = corrections
        /\ Submit(plan[cur], Operation(kind, {}))
        /\ UNCHANGED <<tracker, plan, launches, dev, cap, region, stale, orphan>>
  BY DEF ConstructTransfer, Advance
<1>2. plan[cur].role = IF kind = "H2D" THEN "Prep" ELSE "Dev"
  BY <1>0, <1>1, StepKinds
<1>3. GroupInv' /\ InHand = {} /\ InHand' = {}
  <2>1. corrections = <<>>
    BY <1>0, <1>1, NothingInHand, Zenon DEF IsHostCompute
  <2> QED
    BY <1>0, <1>1, <2>1, OtherGroup DEF InHand
<1>4. PICK op : op = Operation(kind, {})
  OBVIOUS
<1>5. /\ op.kind = kind /\ op.seq = clock + 1
      /\ Writes(op) = IF kind = "H2D" THEN {plan[cur].region} ELSE {}
  BY <1>4 DEF Operation, Writes, StepOf
<1>6. /\ QueueInv' /\ queue' \in [Streams -> Seq(Ops)] /\ clock' = clock + 1
      /\ Pending' = Pending \cup {op}
      /\ \A c \in Pending' : c.kind = "Compute" =>
           \A r \in Regions : Needs(c.step, r)' =>
             Finds(c.writes, c.seq, r, <<c.launch, LastWriter(r, c.step)>>)'
  BY <1>1, <1>4, SubmitFresh, Zenon
<1>7. Types'
  BY <1>0, <1>1, <1>6, SubmitTypes DEF Types
<1>8. ASSUME NEW r \in Regions, Needs(cur, r)'
      PROVE  Finds(InHand, clock + 1, r, <<launches, LastWriter(r, cur)>>)'
  <2>1. PICK v : v = <<launches, LastWriter(r, cur + 1)>>
    BY Zenon
  <2>2. Needs(cur + 1, r) /\ v = <<launches', LastWriter(r, cur)'>>
    BY <1>1, <1>8, <2>1, Zenon DEF Needs, LastWriter, Writers, IsHostCompute
  <2>3. ~(plan[cur].role = "Prep" /\ plan[cur].region = r)
    <3> SUFFICES ASSUME plan[cur].role = "Prep" /\ plan[cur].region = r PROVE FALSE
      OBVIOUS
    <3>1. LastWriter(r, cur + 1) = cur
      BY <1>0, <1>1, NextWriters, Zenon
    <3> QED
      BY <1>1, <2>2, <3>1, Zenon DEF Needs, IsHostCompute
  <2>4. Needs(cur, r) /\ v = <<launches, LastWriter(r, cur)>>
    BY <1>0, <1>1, <2>1, <2>2, <2>3, NextWriters, Zenon DEF Needs
  <2>5. PICK seq \in Nat : seq = clock + 1
    BY <1>0
  <2>6. Finds({}, seq, r, v) /\ r \notin Writes(op)
    <3>0. FreshInv /\ cur > 0
      BY <1>0, <1>1
    <3>1. Finds(InHand, clock + 1, r, v)
      BY <2>4, <3>0, NextFinds
    <3>2. r \notin Writes(op)
      BY <1>1, <1>2, <1>5, <2>3, Zenon
    <3> QED
      BY <1>3, <2>5, <3>1, <3>2
  <2>7. Finds({}, seq + 1, r, v)'
    BY <1>0, <1>1, <1>5, <1>6, <2>5, <2>6, FindsPast, Zenon
  <2>8. seq + 1 = clock' + 1
    BY <1>6, <2>5
  <2> QED
    BY <1>3, <2>2, <2>7, <2>8
<1> QED
  BY <1>0, <1>1, <1>3, <1>6, <1>7, <1>8, Zenon DEF LaunchInv, FreshInv

(* A launch begins with nothing written and ends, or throws, with what it  *)
(* submitted still submitted.                                              *)
LEMMA BeginStep ==
  ASSUME LaunchInv, NEW s \in UserStreams \cup {DefaultStream}, NEW c \in CorrectionCaps,
         LaunchBegin(s, c)
  PROVE  LaunchInv'
<1>0. Types /\ GroupInv /\ QueueInv /\ FreshInv
  BY DEF LaunchInv
<1>1. /\ cur' = 1 /\ dev' = s /\ cap' = c /\ batch' = FALSE /\ corrections' = <<>>
      /\ launches' = launches + 1 /\ (~tracker => s = DefaultStream)
      /\ UNCHANGED <<tracker, plan, queue, clock, region, stale>>
  BY DEF LaunchBegin
<1>2. Types' /\ GroupInv'
  <2>1. /\ cur' \in 0 .. Len(plan') + 1 /\ cap' \in Nat /\ launches' \in Nat
        /\ dev' \in UserStreams \cup {DefaultStream}
    <3>1. launches \in Nat /\ plan \in Seq(PlanSteps) /\ Len(plan) \in Nat /\ plan' = plan
      BY <1>0, <1>1 DEF Types
    <3>2. c \in Nat
      BY StreamAssumption
    <3>3. cur' \in 0 .. Len(plan') + 1 /\ launches' \in Nat
      BY <1>1, <3>1
    <3>4. cap' \in Nat /\ dev' \in UserStreams \cup {DefaultStream}
      BY <1>1, <3>2
    <3> QED
      BY <3>3, <3>4
  <2>2. corrections' \in Seq(Regions \X (Nat \X Nat))
    BY <1>1
  <2>3. Types'
    BY <1>0, <1>1, <2>1, <2>2 DEF Types
  <2> QED
    BY <1>0, <2>3, BeginGroup
<1>3. QueueInv'
  BY <1>0, <1>1, QueueSame
<1>4. \A r \in Regions : ~Needs(cur, r)'
  BY <1>1 DEF Needs, Writers
<1>5. UNCHANGED <<plan, region, queue>> /\ stale' = {}
  BY <1>0, <1>1 DEF FreshInv
<1>6. FreshInv'
  BY <1>0, <1>4, <1>5, FreshSame DEF FreshInv
<1> QED
  BY <1>2, <1>3, <1>6 DEF LaunchInv

(* The end of a launch leaves the queues to the streams.                   *)
LEMMA EndStep ==
  ASSUME LaunchInv, LaunchThrow \/ LaunchEnd
  PROVE  LaunchInv'
<1>0. Types /\ GroupInv /\ QueueInv /\ FreshInv
  BY DEF LaunchInv
<1>1. /\ cur' = 0 /\ corrections' = <<>>
      /\ UNCHANGED <<tracker, plan, launches, dev, cap, batch, queue, clock, region, stale>>
  BY DEF LaunchThrow, LaunchEnd
<1>2. Types'
  <2>1. cur' \in 0 .. Len(plan') + 1
    BY <1>0, <1>1 DEF Types
  <2>2. corrections' \in Seq(Regions \X (Nat \X Nat))
    BY <1>1
  <2> QED
    BY <1>0, <1>1, <2>1, <2>2 DEF Types
<1>3. GroupInv'
  BY <1>0, EndGroup
<1>4. QueueInv'
  <2>1. ~tracker => dev' = DefaultStream
    BY <1>0, <1>1 DEF QueueInv
  <2> QED
    BY <1>0, <1>1, <2>1, QueueSame
<1>5. UNCHANGED <<plan, region, queue>> /\ stale' = {} /\ ~(cur' > 0)
  BY <1>0, <1>1 DEF FreshInv
<1>6. FreshInv'
  BY <1>0, <1>5, FreshSame DEF FreshInv
<1> QED
  BY <1>2, <1>3, <1>4, <1>6 DEF LaunchInv

-----------------------------------------------------------------------------
(* The invariant holds before the first launch.                            *)
LEMMA LaunchInit == Init => LaunchInv
<1> SUFFICES ASSUME Init PROVE LaunchInv
  OBVIOUS
<1>1. Types
  <2>1. plan \in Seq(PlanSteps) /\ cur \in 0 .. Len(plan) + 1
    BY StreamAssumption DEF Init
  <2>2. corrections \in Seq(Regions \X (Nat \X Nat))
    BY DEF Init
  <2>3. queue \in [Streams -> Seq(Ops)]
    BY DEF Init
  <2>4. region = [r \in Regions |-> region[r]]
    BY DEF Init
  <2> QED
    BY <2>1, <2>2, <2>3, <2>4 DEF Init, Types
<1>2. Pending = {} /\ \A s \in Streams : queue[s] = <<>>
  BY DEF Init, Pending, Queued
<1>3. GroupInv
  BY DEF Init, GroupInv
<1>4. QueueInv
  BY <1>2 DEF Init, QueueInv
<1>5. FreshInv
  BY <1>2 DEF Init, FreshInv
<1> QED
  BY <1>1, <1>3, <1>4, <1>5 DEF LaunchInv

(* Every step of launch() and of the streams preserves it.                 *)
LEMMA LaunchNext == LaunchInv /\ [Next]_vars => LaunchInv'
<1> SUFFICES ASSUME LaunchInv, [Next]_vars PROVE LaunchInv'
  OBVIOUS
<1>1. CASE UNCHANGED vars
  <2>0. Types /\ GroupInv /\ QueueInv /\ FreshInv
    BY DEF LaunchInv
  <2>1. UNCHANGED <<tracker, plan, launches, cur, dev, cap, batch, corrections, queue, clock,
                    region, stale, orphan>>
    BY <1>1 DEF vars
  <2>2. Types'
    BY <2>0, <2>1 DEF Types
  <2>3. GroupInv'
    BY <2>0, <2>1, GroupSame
  <2>4. QueueInv'
    <3>1. ~tracker => dev' = DefaultStream
      BY <2>0, <2>1 DEF QueueInv
    <3> QED
      BY <2>0, <2>1, <3>1, QueueSame
  <2>5. ASSUME cur' > 0, NEW r \in Regions, Needs(cur, r)'
        PROVE  Finds(InHand, clock + 1, r, <<launches, LastWriter(r, cur)>>)'
    <3>1. PICK v, hand, seq : /\ v = <<launches, LastWriter(r, cur)>> /\ hand = InHand
                              /\ seq = clock + 1
      BY Zenon
    <3>2. /\ v = <<launches', LastWriter(r, cur)'>> /\ hand = InHand' /\ seq = clock' + 1
          /\ Needs(cur, r)
      BY <2>1, <2>5, <3>1, Zenon DEF InHand, Needs, LastWriter, Writers, IsHostCompute
    <3>3. Finds(hand, seq, r, v)
      <4>1. cur > 0
        BY <2>1, <2>5
      <4>2. Finds(InHand, clock + 1, r, <<launches, LastWriter(r, cur)>>)
        BY <2>0, <3>2, <4>1, NextFinds
      <4> QED
        BY <3>1, <4>2
    <3>4. Earlier(r, seq)' = Earlier(r, seq)
      <4>1. Pending' = Pending
        BY <2>1 DEF Pending, Queued
      <4>2. \A p : Writes(p)' = Writes(p)
        BY <2>1, Zenon DEF Writes, StepOf
      <4> QED
        BY <4>1, <4>2, Zenon DEF Earlier
    <3>5. Finds(hand, seq, r, v)'
      BY <2>1, <3>3, <3>4, Zenon DEF Finds, Gives
    <3> QED
      BY <3>2, <3>5
  <2>6. FreshInv'
    BY <2>0, <2>1, <2>5, FreshSame, Zenon DEF FreshInv
  <2> QED
    BY <2>2, <2>3, <2>4, <2>6 DEF LaunchInv
<1>2. CASE Done
  BY <1>1, <1>2 DEF Done
<1>3. CASE ConstructHostCompute
  BY <1>3, BatchedStep, UploadStep
<1>4. CASE ConstructCompute \/ ConstructTransfer \/ LaunchThrow \/ LaunchEnd
  BY <1>4, ComputeStep, TransferStep, EndStep
<1>5. CASE \E s \in UserStreams \cup {DefaultStream}, c \in CorrectionCaps : LaunchBegin(s, c)
  BY <1>5, BeginStep
<1>6. CASE \E s \in Streams : Execute(s)
  BY <1>6, ExecuteStep
<1> QED
  BY <1>1, <1>2, <1>3, <1>4, <1>5, <1>6 DEF Next

(* The inductive invariant holds of every behaviour of launch() and the    *)
(* device.                                                                 *)
THEOREM LaunchInvariant == Spec => []LaunchInv
  BY LaunchInit, LaunchNext, PTL DEF Spec

(* For every JobPlan the builder can emit, any number of launches, streams *)
(* and regions and any maxProgramCorrections(): each compute runs with     *)
(* exactly the corrections its own launch made for it.                     *)
THEOREM OwnCorrections == Spec => []ComputeSeesOwnCorrections
<1>1. LaunchInv => ComputeSeesOwnCorrections
  BY DEF LaunchInv, FreshInv, ComputeSeesOwnCorrections
<1> QED
  BY <1>1, LaunchInvariant, PTL

(* The TORCH_CHECK at the end of launch() never fires.                     *)
THEOREM NoOrphans == Spec => []NoOrphanCorrections
<1>1. LaunchInv => NoOrphanCorrections
  BY DEF LaunchInv, GroupInv, NoOrphanCorrections
<1> QED
  BY <1>1, LaunchInvariant, PTL

(* ctx.program_corrections only ever holds the corrections of the group in *)
(* progress, and never more than flex can batch.                           *)
THEOREM OneGroup == Spec => []CorrectionsOfOneGroup
<1>1. LaunchInv => CorrectionsOfOneGroup
  <2> SUFFICES ASSUME LaunchInv, NEW i \in DOMAIN corrections
               PROVE  /\ corrections[i][2][1] = launches
                      /\ cur <= Len(plan) /\ plan[cur].kind \in {"HostCompute", "Compute"}
                      /\ \A j \in corrections[i][2][2] .. cur - 1 : plan[j].kind = "HostCompute"
                      /\ Len(corrections) <= cap
    BY DEF CorrectionsOfOneGroup
  <2>0. /\ corrections \in Seq(Regions \X (Nat \X Nat)) /\ cur \in Nat /\ Len(plan) \in Nat
        /\ cap \in Nat
    BY DEF LaunchInv, Types
  <2>1. PICK g \in 1 .. cur - 1, e \in cur .. Len(plan) : Collected(g, e)
    BY <2>0 DEF LaunchInv, GroupInv
  <2>2. DOMAIN corrections = 1 .. Len(corrections) /\ Len(corrections) = cur - g
    BY <2>0, <2>1 DEF Collected
  <2>3. corrections[i] = <<plan[g + i - 1].region, <<launches, g + i - 1>>>>
    BY <2>1, <2>2 DEF Collected
  <2>4. corrections[i][2][1] = launches /\ corrections[i][2][2] = g + i - 1
    BY <2>3
  <2>5. cur = e \/ cur \in g .. e - 1
    BY <2>0, <2>1
  <2>6. \A j \in g + i - 1 .. cur - 1 : j \in g .. e - 1
    <3>1. i \in Nat /\ i >= 1
      BY <2>0, <2>2
    <3> QED
      BY <2>0, <2>1, <3>1
  <2>7. e - g <= cap
    BY <2>1 DEF Collected
  <2>8. cur <= Len(plan) /\ Len(corrections) <= cap
    BY <2>0, <2>1, <2>2, <2>7
  <2>9. plan[cur].kind \in {"HostCompute", "Compute"}
    BY <2>1, <2>5 DEF Collected, IsHostCompute
  <2>10. \A j \in g + i - 1 .. cur - 1 : plan[j].kind = "HostCompute"
    BY <2>1, <2>6 DEF Collected, IsHostCompute
  <2> QED
    BY <2>4, <2>8, <2>9, <2>10, Zenon
<1> QED
  BY <1>1, LaunchInvariant, PTL
=============================================================================
