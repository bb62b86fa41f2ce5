------------------------ MODULE PrepareKernelProofs ------------------------
(***************************************************************************)
(* What prepareKernel promises for every JobExecPlan: the steps it builds  *)
(* are of the shapes launch() expects, and when the corrections are paired *)
(* they do what the JobExecPlan says, in its order.  The builder's loop is *)
(* a recursive function over the commands; facts about it are proved from  *)
(* the least command at which they fail.                                   *)
(***************************************************************************)
EXTENDS PrepareKernel, NaturalsInduction, WellFoundedInduction, TLAPS

(* A set of naturals that is not empty has a least element.                *)
LEMMA LeastNatural ==
  ASSUME NEW T, T \subseteq Nat, T # {}
  PROVE  \E x \in T : \A y \in T : x <= y
<1>1. PICK x \in T : \A y \in T : ~(<<y, x>> \in OpToRel(<, Nat))
  BY NatLessThanWellFounded, WFMin
<1>2. ASSUME NEW y \in T PROVE x <= y
  <2>1. ~(y < x)
    BY <1>1 DEF OpToRel
  <2> QED
    BY <2>1
<1> QED
  BY <1>2

(* So what holds of 0 and passes from each number to the next holds of all *)
(* numbers up to a bound.                                                  *)
LEMMA UpTo ==
  ASSUME NEW n \in Nat, NEW Holds, 0 \in Holds,
         \A i \in 1 .. n : i - 1 \in Holds => i \in Holds
  PROVE  \A i \in 0 .. n : i \in Holds
<1> SUFFICES ASSUME NEW k \in 0 .. n, k \notin Holds PROVE FALSE
  OBVIOUS
<1> DEFINE T == {i \in 0 .. n : i \notin Holds}
<1>1. PICK x \in T : \A y \in T : x <= y
  <2>1. T \subseteq Nat /\ T # {}
    OBVIOUS
  <2> HIDE DEF T
  <2> QED
    BY <2>1, LeastNatural
<1>2. x # 0 /\ x - 1 \in 0 .. n /\ x \in 1 .. n
  BY <1>1
<1>3. x - 1 \in Holds
  BY <1>1, <1>2
<1> QED
  BY <1>1, <1>2, <1>3

-----------------------------------------------------------------------------
(* The loop of translateJobExecPlan and the collection of effects, up to   *)
(* command n.                                                              *)
IsLoop(f, cmds, n) ==
  f = [i \in 0 .. n |-> IF i = 0 THEN Blank ELSE translateAt(cmds, f[i - 1], i)]

Further(cmds, i, v) ==
  IF cmds[i].op = "ComputeOnHost" THEN v ELSE Append(v, CommandEffect(cmds, i))

IsCollected(f, cmds, n) ==
  f = [i \in 0 .. n |-> IF i = 0 THEN <<>> ELSE Further(cmds, i, f[i - 1])]

(* There is such a loop for any number of commands.                        *)
LEMMA LoopExists ==
  ASSUME NEW cmds, NEW n \in Nat
  PROVE  \E f : IsLoop(f, cmds, n)
<1> DEFINE Holds == {i \in Nat : \E f : IsLoop(f, cmds, i)}
<1>1. 0 \in Holds
  <2>1. IsLoop([i \in 0 .. 0 |-> Blank], cmds, 0)
    BY DEF IsLoop
  <2> QED
    BY <2>1
<1>2. ASSUME NEW k \in 1 .. n, k - 1 \in Holds PROVE k \in Holds
  <2>1. PICK f : IsLoop(f, cmds, k - 1)
    BY <1>2
  <2> DEFINE g == [i \in 0 .. k |-> IF i = k THEN translateAt(cmds, f[k - 1], k) ELSE f[i]]
  <2>2. \A i \in 0 .. k - 1 :
          f[i] = IF i = 0 THEN Blank ELSE translateAt(cmds, f[i - 1], i)
    BY <2>1 DEF IsLoop
  <2>3. \A i \in 0 .. k : g[i] = IF i = 0 THEN Blank ELSE translateAt(cmds, g[i - 1], i)
    BY <2>2
  <2>4. g = [i \in 0 .. k |-> g[i]]
    OBVIOUS
  <2>5. IsLoop(g, cmds, k)
    <3> HIDE DEF g
    <3> QED
      BY <2>3, <2>4 DEF IsLoop
  <2> QED
    BY <2>5
<1> HIDE DEF Holds
<1>3. n \in Holds
  BY <1>1, <1>2, UpTo
<1> QED
  BY <1>3 DEF Holds

(* And such a collection for any number of commands.                       *)
LEMMA CollectedExists ==
  ASSUME NEW cmds, NEW n \in Nat
  PROVE  \E f : IsCollected(f, cmds, n)
<1> DEFINE Holds == {i \in Nat : \E f : IsCollected(f, cmds, i)}
<1>1. 0 \in Holds
  <2>1. IsCollected([i \in 0 .. 0 |-> <<>>], cmds, 0)
    BY DEF IsCollected
  <2> QED
    BY <2>1
<1>2. ASSUME NEW k \in 1 .. n, k - 1 \in Holds PROVE k \in Holds
  <2>1. PICK f : IsCollected(f, cmds, k - 1)
    BY <1>2
  <2> DEFINE g == [i \in 0 .. k |-> IF i = k THEN Further(cmds, k, f[k - 1]) ELSE f[i]]
  <2>2. \A i \in 0 .. k - 1 : f[i] = IF i = 0 THEN <<>> ELSE Further(cmds, i, f[i - 1])
    BY <2>1 DEF IsCollected
  <2>3. \A i \in 0 .. k : g[i] = IF i = 0 THEN <<>> ELSE Further(cmds, i, g[i - 1])
    BY <2>2
  <2>4. g = [i \in 0 .. k |-> g[i]]
    OBVIOUS
  <2>5. IsCollected(g, cmds, k)
    <3> HIDE DEF g
    <3> QED
      BY <2>3, <2>4 DEF IsCollected
  <2> QED
    BY <2>5
<1> HIDE DEF Holds
<1>3. n \in Holds
  BY <1>1, <1>2, UpTo
<1> QED
  BY <1>3 DEF Holds

(* translateJobExecPlan is where its loop ends, Effects where its           *)
(* collection ends.                                                        *)
LEMMA TranslateLoop ==
  ASSUME NEW cmds \in Seq(Commands)
  PROVE  \E f : /\ translateJobExecPlan(cmds) = f[Len(cmds)] /\ f[0] = Blank
                /\ \A i \in 1 .. Len(cmds) : f[i] = translateAt(cmds, f[i - 1], i)
<1>1. Len(cmds) \in Nat
  OBVIOUS
<1>2. PICK e : IsLoop(e, cmds, Len(cmds))
  BY <1>1, LoopExists
<1>3. e = [i \in 0 .. Len(cmds) |-> IF i = 0 THEN Blank ELSE translateAt(cmds, e[i - 1], i)]
  BY <1>2 DEF IsLoop
<1>4. PICK f : /\ f = [i \in 0 .. Len(cmds) |->
                        IF i = 0 THEN Blank ELSE translateAt(cmds, f[i - 1], i)]
               /\ translateJobExecPlan(cmds) = f[Len(cmds)]
  BY <1>3 DEF translateJobExecPlan
<1>5. \A i \in 0 .. Len(cmds) :
        f[i] = IF i = 0 THEN Blank ELSE translateAt(cmds, f[i - 1], i)
  BY <1>4
<1>6. f[0] = Blank
  BY <1>1, <1>5
<1>7. \A i \in 1 .. Len(cmds) : f[i] = translateAt(cmds, f[i - 1], i)
  BY <1>1, <1>5
<1> QED
  BY <1>4, <1>6, <1>7

(* The same for the collection of effects.                                 *)
LEMMA EffectsLoop ==
  ASSUME NEW cmds, Len(cmds) \in Nat
  PROVE  \E f : IsCollected(f, cmds, Len(cmds)) /\ Effects(cmds) = f[Len(cmds)]
<1>1. PICK e : IsCollected(e, cmds, Len(cmds))
  BY CollectedExists
<1>2. e = [n \in 0 .. Len(cmds) |->
             IF n = 0 THEN <<>>
             ELSE IF cmds[n].op = "ComputeOnHost" THEN e[n - 1]
             ELSE Append(e[n - 1], CommandEffect(cmds, n))]
  BY <1>1 DEF IsCollected, Further
<1> QED
  BY <1>2 DEF Effects, IsCollected, Further

-----------------------------------------------------------------------------
Builders ==
  [steps : Seq(PlanSteps), handles : SUBSET Handles, skip : BOOLEAN, failed : BOOLEAN]

(* What the body of the loop may do with the command at i: throw; step     *)
(* over an H2D that was merged; merge a ComputeOnHost with the H2D behind  *)
(* it; or emit one step for another command.                               *)
Skips(b, r) == b.skip /\ ~r.skip /\ r.steps = b.steps /\ r.handles = b.handles

MergedStep(cmds, i) ==
  Step("HostCompute", "Prep", cmds[i].input, cmds[i + 1].region, cmds[i].handle)

Merges(cmds, b, i, r) ==
  /\ ~b.skip /\ r.skip
  /\ cmds[i].op = "ComputeOnHost"
  /\ i < Len(cmds) /\ cmds[i + 1].op = "H2D"
  /\ cmds[i].input \in b.handles \cup {cmds[i].handle, NoName}
  /\ MergedStep(cmds, i) \in PlanSteps
  /\ r.steps = Append(b.steps, MergedStep(cmds, i))
  /\ r.handles = b.handles \cup {cmds[i].handle}

OwnStep(cmd) ==
  IF cmd.op = "H2D" THEN Step("H2D", "Prep", cmd.handle, cmd.region, NoName)
  ELSE IF cmd.op = "D2H" THEN Step("D2H", "Dev", cmd.handle, cmd.region, NoName)
  ELSE Compute

Emits(cmds, b, i, r) ==
  /\ ~b.skip /\ ~r.skip
  /\ cmds[i].op # "ComputeOnHost"
  /\ cmds[i].op = "H2D" => cmds[i].handle \in b.handles
  /\ OwnStep(cmds[i]) \in PlanSteps
  /\ r.steps = Append(b.steps, OwnStep(cmds[i]))
  /\ r.handles = IF cmds[i].op = "D2H" THEN b.handles \cup {cmds[i].handle} ELSE b.handles

(* Emit appends the step and leaves the flags.                             *)
LEMMA EmitStep ==
  ASSUME NEW b \in Builders, NEW s \in PlanSteps, NEW H \in SUBSET Handles
  PROVE  /\ Emit(b, s, H) \in Builders
         /\ Emit(b, s, H).steps = Append(b.steps, s)
         /\ Emit(b, s, H).handles = b.handles \cup H
         /\ Emit(b, s, H).skip = b.skip
         /\ Emit(b, s, H).failed = b.failed
<1> DEFINE q == Append(b.steps, s)
           h == b.handles \cup H
<1>1. q \in Seq(PlanSteps) /\ h \in SUBSET Handles
  BY DEF Builders
<1>2. Emit(b, s, H) = [b EXCEPT !.steps = q, !.handles = h]
  BY DEF Emit
<1> HIDE DEF q, h
<1>3. Emit(b, s, H) = [steps |-> q, handles |-> h, skip |-> b.skip, failed |-> b.failed]
  BY <1>2 DEF Builders
<1> QED
  BY <1>1, <1>3 DEF Builders, q, h

(* Fail is a builder that has thrown.                                      *)
LEMMA FailStep ==
  ASSUME NEW b \in Builders
  PROVE  Fail(b) \in Builders /\ Fail(b).failed
BY DEF Fail, Builders

(* translateComputeOnHostWithH2D throws, or emits the one step that does   *)
(* the upload of the H2D behind the command.                               *)
LEMMA MergeStep ==
  ASSUME NEW cmds \in Seq(Commands), NEW b \in Builders, NEW i \in 1 .. Len(cmds),
         ~b.skip, cmds[i].op = "ComputeOnHost", i < Len(cmds), cmds[i + 1].op = "H2D"
  PROVE  LET r == translateComputeOnHostWithH2D(b, cmds[i], cmds[i + 1])
         IN  r \in Builders /\ (r.failed \/ Merges(cmds, b, i, r))
<1> DEFINE host == cmds[i]
           h2d == cmds[i + 1]
           bad == \/ host.handle \in b.handles
                  \/ host.input # NoName /\ host.input \notin b.handles \cup {host.handle}
                  \/ h2d.region \notin Regions
           s == Step("HostCompute", "Prep", host.input, h2d.region, host.handle)
           r == translateComputeOnHostWithH2D(b, host, h2d)
<1>1. host \in Commands /\ h2d \in Commands
  OBVIOUS
<1>2. CASE bad
  <2>1. r = Fail(b)
    BY <1>2 DEF translateComputeOnHostWithH2D
  <2> QED
    BY <2>1, FailStep
<1>3. CASE ~bad
  <2>1. host.handle \in Handles /\ host.input \in Handles \cup {NoName}
    BY <1>1 DEF Commands
  <2>2. h2d.region \in Regions
    BY <1>3
  <2>3. s \in PlanSteps
    BY <2>1, <2>2 DEF PlanSteps, Step
  <2> DEFINE e == Emit(b, s, {host.handle})
  <2>4. /\ e \in Builders /\ e.steps = Append(b.steps, s)
        /\ e.handles = b.handles \cup {host.handle}
    BY <2>1, <2>3, EmitStep
  <2>5. r = [e EXCEPT !.skip = TRUE]
    BY <1>3 DEF translateComputeOnHostWithH2D
  <2> HIDE DEF e, s, r
  <2>6. /\ r \in Builders /\ r.skip /\ r.steps = Append(b.steps, s)
        /\ r.handles = b.handles \cup {host.handle}
    BY <2>4, <2>5 DEF Builders
  <2>7. Merges(cmds, b, i, r)
    BY <1>3, <2>3, <2>6 DEF Merges, MergedStep, s
  <2> QED
    BY <2>6, <2>7 DEF r
<1> QED
  BY <1>2, <1>3

(* translateCommand throws, or emits the one step that stands for the      *)
(* command.                                                                *)
LEMMA CommandStep ==
  ASSUME NEW cmds \in Seq(Commands), NEW b \in Builders, NEW i \in 1 .. Len(cmds),
         ~b.skip
  PROVE  LET r == translateCommand(b, cmds[i])
         IN  r \in Builders /\ (r.failed \/ Emits(cmds, b, i, r))
<1> DEFINE cmd == cmds[i]
           r == translateCommand(b, cmd)
<1>0. cmd \in Commands
  OBVIOUS
<1>f. ASSUME r = Fail(b) PROVE r \in Builders /\ (r.failed \/ Emits(cmds, b, i, r))
  BY <1>f, FailStep
<1>e. ASSUME NEW s \in PlanSteps, NEW H \in SUBSET Handles, r = Emit(b, s, H),
             s = OwnStep(cmd), H = IF cmd.op = "D2H" THEN {cmd.handle} ELSE {},
             cmd.op # "ComputeOnHost", cmd.op = "H2D" => cmd.handle \in b.handles
      PROVE  r \in Builders /\ (r.failed \/ Emits(cmds, b, i, r))
  <2>1. /\ r \in Builders /\ r.steps = Append(b.steps, s)
        /\ r.handles = b.handles \cup H /\ r.skip = b.skip
    BY <1>e, EmitStep
  <2>2. r.handles = IF cmd.op = "D2H" THEN b.handles \cup {cmd.handle} ELSE b.handles
    BY <1>e, <2>1
  <2>3. Emits(cmds, b, i, r)
    BY <1>e, <2>1, <2>2 DEF Emits
  <2> QED
    BY <2>1, <2>3
<1>1. CASE cmd.op = "ComputeOnDevice"
  <2>1. r = Emit(b, Compute, {})
    BY <1>1 DEF translateCommand
  <2>2. Compute \in PlanSteps /\ Compute = OwnStep(cmd)
    BY <1>1 DEF PlanSteps, Compute, Step, OwnStep
  <2> QED
    BY <1>1, <1>e, <2>1, <2>2
<1>2. CASE cmd.op = "ComputeOnHost"
  BY <1>2, <1>f DEF translateCommand
<1>3. CASE cmd.op = "H2D"
  <2>1. r = translateDataTransfer(b, cmd)
    BY <1>3 DEF translateCommand
  <2> DEFINE s == Step("H2D", "Prep", cmd.handle, cmd.region, NoName)
  <2>2. CASE cmd.handle \notin b.handles \/ cmd.region \notin Regions
    BY <1>3, <1>f, <2>1, <2>2 DEF translateDataTransfer
  <2>3. CASE ~(cmd.handle \notin b.handles \/ cmd.region \notin Regions)
    <3>1. r = Emit(b, s, {})
      BY <1>3, <2>1, <2>3 DEF translateDataTransfer
    <3>2. s \in PlanSteps
      BY <2>3 DEF PlanSteps, Step, Builders
    <3>3. s = OwnStep(cmd)
      BY <1>3 DEF OwnStep
    <3> QED
      BY <1>3, <1>e, <2>3, <3>1, <3>2, <3>3
  <2> QED
    BY <2>2, <2>3
<1>4. CASE cmd.op = "D2H"
  <2>1. r = translateDataTransfer(b, cmd)
    BY <1>4 DEF translateCommand
  <2> DEFINE s == Step("D2H", "Dev", cmd.handle, cmd.region, NoName)
             bad == cmd.handle \in b.handles \/ (cmd.region = TensorSegment /\ ~BindIo)
  <2>2. CASE bad
    BY <1>4, <1>f, <2>1, <2>2 DEF translateDataTransfer
  <2>3. CASE ~bad
    <3>1. r = Emit(b, s, {cmd.handle})
      BY <1>4, <2>1, <2>3 DEF translateDataTransfer
    <3>2. cmd.handle \in Handles /\ cmd.region \in Places
      BY <1>0, <1>4 DEF Commands
    <3>3. s \in PlanSteps /\ s = OwnStep(cmd)
      BY <1>4, <3>2 DEF PlanSteps, Step, OwnStep
    <3>4. {cmd.handle} \in SUBSET Handles
      BY <3>2
    <3> QED
      BY <1>4, <1>e, <3>1, <3>3, <3>4
  <2> QED
    BY <2>2, <2>3
<1>5. cmd.op \in {"ComputeOnDevice", "ComputeOnHost", "H2D", "D2H"}
  BY <1>0 DEF Commands
<1> QED
  BY <1>1, <1>2, <1>3, <1>4, <1>5

(* So the body of the loop does one of these four, and never goes on after *)
(* it has thrown.                                                          *)
LEMMA TranslateStep ==
  ASSUME NEW cmds \in Seq(Commands), NEW b \in Builders, NEW i \in 1 .. Len(cmds)
  PROVE  LET r == translateAt(cmds, b, i)
         IN  /\ r \in Builders
             /\ r.failed \/ (/\ ~b.failed
                             /\ Skips(b, r) \/ Merges(cmds, b, i, r) \/ Emits(cmds, b, i, r))
<1> DEFINE r == translateAt(cmds, b, i)
           merge == cmds[i].op = "ComputeOnHost" /\ i < Len(cmds) /\ cmds[i + 1].op = "H2D"
<1>0. b.failed \in BOOLEAN /\ b.skip \in BOOLEAN
  BY DEF Builders
<1>1. CASE b.failed
  <2>1. r = b
    BY <1>1 DEF translateAt
  <2> QED
    BY <1>1, <2>1
<1>2. CASE ~b.failed /\ b.skip
  <2>1. r = [b EXCEPT !.skip = FALSE]
    BY <1>2 DEF translateAt
  <2>2. r \in Builders /\ ~r.skip /\ r.steps = b.steps /\ r.handles = b.handles
    BY <2>1 DEF Builders
  <2> QED
    BY <1>2, <2>2 DEF Skips
<1>3. CASE ~b.failed /\ ~b.skip /\ merge
  <2>1. r = translateComputeOnHostWithH2D(b, cmds[i], cmds[i + 1])
    BY <1>3 DEF translateAt
  <2> QED
    BY <1>3, <2>1, MergeStep
<1>4. CASE ~b.failed /\ ~b.skip /\ ~merge
  <2>1. r = translateCommand(b, cmds[i])
    BY <1>4 DEF translateAt
  <2> QED
    BY <1>4, <2>1, CommandStep
<1> QED
  BY <1>0, <1>1, <1>2, <1>3, <1>4

-----------------------------------------------------------------------------
(* What the steps move, in their order.                                    *)
Did(q) == [n \in DOMAIN q |-> StepEffect(q[n])]

(* Appending a step appends what it moves.                                 *)
LEMMA DidAppend ==
  ASSUME NEW q \in Seq(PlanSteps), NEW s \in PlanSteps
  PROVE  Did(Append(q, s)) = Append(Did(q), StepEffect(s))
<1> DEFINE d == Did(q)
           e == Did(Append(q, s))
           x == StepEffect(s)
<1>1. /\ Len(q) \in Nat /\ DOMAIN q = 1 .. Len(q)
      /\ DOMAIN Append(q, s) = 1 .. Len(q) + 1
      /\ Append(q, s)[Len(q) + 1] = s
      /\ \A n \in 1 .. Len(q) : Append(q, s)[n] = q[n]
  OBVIOUS
<1>2. d = [n \in 1 .. Len(q) |-> d[n]]
  BY <1>1 DEF Did
<1>3. Len(d) = Len(q)
  BY <1>1, <1>2
<1>4. e = [n \in 1 .. Len(q) + 1 |-> e[n]]
  BY <1>1 DEF Did
<1>5. /\ e[Len(q) + 1] = x
      /\ \A n \in 1 .. Len(q) : e[n] = d[n]
  BY <1>1 DEF Did
<1> HIDE DEF d, e, x
<1>6. e = Append(d, x)
  <2> DEFINE S == {d[n] : n \in 1 .. Len(q)} \cup {x}
  <2>1. d \in Seq(S) /\ x \in S
    BY <1>1, <1>2
  <2> HIDE DEF S
  <2> DEFINE a == Append(d, x)
  <2>2. /\ a \in Seq(S) /\ Len(a) = Len(d) + 1
        /\ \A n \in 1 .. Len(d) : a[n] = d[n]
        /\ a[Len(d) + 1] = x
    BY <2>1
  <2> HIDE DEF a
  <2>3. a = [n \in 1 .. Len(q) + 1 |-> a[n]]
    BY <1>3, <2>2
  <2>4. \A n \in 1 .. Len(q) + 1 : a[n] = e[n]
    BY <1>1, <1>3, <1>5, <2>2
  <2>5. e = a
    BY <1>4, <2>3, <2>4
  <2> QED
    BY <2>5 DEF a
<1> QED
  BY <1>6 DEF d, e, x

(* A step of q fills the buffer h; a command computes a correction into h. *)
FilledIn(q, h) == \E m \in DOMAIN q : q[m].kind = "D2H" /\ q[m].host = h
ComputedIn(cmds, h) ==
  \E m \in DOMAIN cmds : cmds[m].op = "ComputeOnHost" /\ cmds[m].handle = h

(* Appending a step whose buffer is filled keeps the buffers filled.       *)
LEMMA FilledAppend ==
  ASSUME NEW q \in Seq(PlanSteps), NEW s \in PlanSteps, BuffersFilled(q),
         s.kind \in {"H2D", "HostCompute"} /\ s.host # NoName => FilledIn(q, s.host)
  PROVE  /\ BuffersFilled(Append(q, s))
         /\ \A h : FilledIn(q, h) => FilledIn(Append(q, s), h)
         /\ s.kind = "D2H" => FilledIn(Append(q, s), s.host)
<1> DEFINE p == Append(q, s)
<1>1. /\ Len(q) \in Nat /\ DOMAIN q = 1 .. Len(q)
      /\ DOMAIN p = 1 .. Len(q) + 1
      /\ p[Len(q) + 1] = s
      /\ \A n \in 1 .. Len(q) : p[n] = q[n]
  OBVIOUS
<1> HIDE DEF p
<1>2. \A h : FilledIn(q, h) => FilledIn(p, h)
  BY <1>1 DEF FilledIn
<1>3. s.kind = "D2H" => FilledIn(p, s.host)
  BY <1>1 DEF FilledIn
<1>4. ASSUME NEW n \in 1 .. Len(q) + 1, p[n].kind \in {"H2D", "HostCompute"}, p[n].host # NoName
      PROVE  \E m \in 1 .. n - 1 : p[m].kind = "D2H" /\ p[m].host = p[n].host
  <2>1. CASE n = Len(q) + 1
    <3>1. PICK m \in DOMAIN q : q[m].kind = "D2H" /\ q[m].host = s.host
      BY <1>1, <1>4, <2>1 DEF FilledIn
    <3> QED
      BY <1>1, <2>1, <3>1
  <2>2. CASE n # Len(q) + 1
    <3>1. n \in 1 .. Len(q) /\ p[n] = q[n]
      BY <1>1, <2>2
    <3>2. PICK m \in 1 .. n - 1 : q[m].kind = "D2H" /\ q[m].host = q[n].host
      BY <1>1, <1>4, <3>1 DEF BuffersFilled
    <3>3. m \in 1 .. Len(q)
      BY <1>1, <3>1
    <3> QED
      BY <1>1, <3>1, <3>2, <3>3
  <2> QED
    BY <2>1, <2>2
<1> QED
  BY <1>1, <1>2, <1>3, <1>4 DEF BuffersFilled, p

-----------------------------------------------------------------------------
(* In a paired plan only the H2D at i + 1 uploads the correction of the    *)
(* ComputeOnHost at i.                                                     *)
LEMMA PairAt ==
  ASSUME NEW cmds \in Seq(Commands), Paired(cmds), NEW i \in DOMAIN cmds,
         cmds[i].op = "H2D", ComputedIn(cmds, cmds[i].handle)
  PROVE  /\ i - 1 \in DOMAIN cmds /\ cmds[i - 1].op = "ComputeOnHost"
         /\ InputOf(cmds, cmds[i].handle) = cmds[i - 1].input
<1> DEFINE h == cmds[i].handle
           made == {m \in DOMAIN cmds : cmds[m].op = "ComputeOnHost" /\ cmds[m].handle = h}
<1>1. \A m \in made : m = i - 1
  <2> SUFFICES ASSUME NEW m \in DOMAIN cmds, cmds[m].op = "ComputeOnHost", cmds[m].handle = h
               PROVE  m = i - 1
    OBVIOUS
  <2>1. m + 1 = i
    BY DEF Paired
  <2> QED
    BY <2>1
<1>2. made # {}
  BY DEF ComputedIn
<1>3. i - 1 \in made
  BY <1>1, <1>2
<1>4. InputOf(cmds, h) = cmds[CHOOSE m \in made : TRUE].input
  BY <1>2 DEF InputOf
<1>5. (CHOOSE m \in made : TRUE) = i - 1
  BY <1>1, <1>3
<1> QED
  BY <1>3, <1>4, <1>5

(* So the merged step moves what that H2D says.                            *)
LEMMA MergedEffect ==
  ASSUME NEW cmds \in Seq(Commands), Paired(cmds), NEW i \in DOMAIN cmds,
         cmds[i].op = "ComputeOnHost"
  PROVE  StepEffect(MergedStep(cmds, i)) = CommandEffect(cmds, i + 1)
<1>1. /\ i + 1 \in DOMAIN cmds /\ i \in Nat
      /\ cmds[i + 1].op = "H2D" /\ cmds[i + 1].handle = cmds[i].handle
  BY DEF Paired
<1>2. ComputedIn(cmds, cmds[i + 1].handle)
  BY <1>1 DEF ComputedIn
<1>3. InputOf(cmds, cmds[i + 1].handle) = cmds[(i + 1) - 1].input
  BY <1>1, <1>2, PairAt
<1>4. (i + 1) - 1 = i
  BY <1>1
<1>5. CommandEffect(cmds, i + 1) = <<"H2D", cmds[i + 1].region, cmds[i].handle, cmds[i].input>>
  BY <1>1, <1>3, <1>4 DEF CommandEffect
<1>6. StepEffect(MergedStep(cmds, i))
        = <<"H2D", cmds[i + 1].region, cmds[i].handle, cmds[i].input>>
  BY DEF StepEffect, MergedStep, Step
<1> QED
  BY <1>5, <1>6

(* And a command that no ComputeOnHost precedes is its own step's effect.  *)
LEMMA OwnEffect ==
  ASSUME NEW cmds \in Seq(Commands), Paired(cmds), NEW i \in DOMAIN cmds,
         cmds[i].op # "ComputeOnHost",
         cmds[i].op = "H2D" => ~ComputedIn(cmds, cmds[i].handle)
  PROVE  StepEffect(OwnStep(cmds[i])) = CommandEffect(cmds, i)
<1>1. cmds[i] \in Commands
  OBVIOUS
<1>2. cmds[i].op \in {"ComputeOnDevice", "H2D", "D2H"}
  BY <1>1 DEF Commands
<1>3. CASE cmds[i].op = "H2D"
  <2>1. InputOf(cmds, cmds[i].handle) = NoName
    BY <1>3 DEF ComputedIn, InputOf
  <2> QED
    BY <1>3, <2>1 DEF StepEffect, OwnStep, Step, CommandEffect
<1>4. CASE cmds[i].op = "D2H"
  BY <1>4 DEF StepEffect, OwnStep, Step, CommandEffect
<1>5. CASE cmds[i].op = "ComputeOnDevice"
  BY <1>5 DEF StepEffect, OwnStep, Step, CommandEffect, Compute
<1> QED
  BY <1>2, <1>3, <1>4, <1>5

-----------------------------------------------------------------------------
(* The loop keeps pace with the commands: after i of them the steps have   *)
(* done what those commands say, and when the next command was merged they *)
(* have done that one too; a handle that is known belongs to a buffer that *)
(* was filled or to a correction.                                          *)
KeepsPace(cmds, b, i, v) ==
  /\ ~b.skip => /\ Did(b.steps) = v
                /\ i > 0 => cmds[i].op # "ComputeOnHost"
  /\ b.skip => /\ i < Len(cmds) /\ cmds[i + 1].op = "H2D"
               /\ Did(b.steps) = Append(v, CommandEffect(cmds, i + 1))
  /\ BuffersFilled(b.steps)
  /\ \A h \in b.handles : FilledIn(b.steps, h) \/ ComputedIn(cmds, h)

(* Merging keeps pace.                                                     *)
LEMMA PaceMerged ==
  ASSUME NEW cmds \in Seq(Commands), Paired(cmds), NEW i \in 1 .. Len(cmds),
         NEW b \in Builders, NEW v, KeepsPace(cmds, b, i - 1, v),
         NEW r \in Builders, Merges(cmds, b, i, r)
  PROVE  KeepsPace(cmds, r, i, Further(cmds, i, v))
<1> DEFINE s == MergedStep(cmds, i)
           c == cmds[i]
<1>0. i \in DOMAIN cmds /\ i \in Nat
  OBVIOUS
<1>1. /\ ~b.skip /\ r.skip /\ c.op = "ComputeOnHost"
      /\ i < Len(cmds) /\ cmds[i + 1].op = "H2D"
      /\ c.input \in b.handles \cup {c.handle, NoName}
      /\ s \in PlanSteps /\ r.steps = Append(b.steps, s)
      /\ r.handles = b.handles \cup {c.handle}
  BY DEF Merges
<1>2. b.steps \in Seq(PlanSteps)
  BY DEF Builders
<1>3. /\ Did(b.steps) = v /\ BuffersFilled(b.steps)
      /\ \A h \in b.handles : FilledIn(b.steps, h) \/ ComputedIn(cmds, h)
  BY <1>1 DEF KeepsPace
<1>4. s.kind = "HostCompute" /\ s.host = c.input
  BY DEF MergedStep, Step
<1>5. ComputedIn(cmds, c.handle)
  BY <1>0, <1>1 DEF ComputedIn
<1>6. ~ComputedIn(cmds, c.input)
  BY <1>0, <1>1 DEF ComputedIn, Paired
<1>7. s.kind \in {"H2D", "HostCompute"} /\ s.host # NoName => FilledIn(b.steps, s.host)
  BY <1>1, <1>3, <1>4, <1>5, <1>6
<1>8. StepEffect(s) = CommandEffect(cmds, i + 1)
  BY <1>0, <1>1, MergedEffect
<1> HIDE DEF s
<1>9. /\ BuffersFilled(r.steps)
      /\ \A h : FilledIn(b.steps, h) => FilledIn(r.steps, h)
  BY <1>1, <1>2, <1>3, <1>7, FilledAppend
<1>10. Did(r.steps) = Append(v, CommandEffect(cmds, i + 1))
  BY <1>1, <1>2, <1>3, <1>8, DidAppend
<1>11. Further(cmds, i, v) = v
  BY <1>1 DEF Further
<1>12. \A h \in r.handles : FilledIn(r.steps, h) \/ ComputedIn(cmds, h)
  BY <1>1, <1>3, <1>5, <1>9
<1> QED
  BY <1>1, <1>9, <1>10, <1>11, <1>12 DEF KeepsPace

(* Emitting a step keeps pace.                                             *)
LEMMA PaceEmitted ==
  ASSUME NEW cmds \in Seq(Commands), Paired(cmds), NEW i \in 1 .. Len(cmds),
         NEW b \in Builders, NEW v, KeepsPace(cmds, b, i - 1, v),
         NEW r \in Builders, Emits(cmds, b, i, r)
  PROVE  KeepsPace(cmds, r, i, Further(cmds, i, v))
<1> DEFINE s == OwnStep(cmds[i])
           c == cmds[i]
<1>0. i \in DOMAIN cmds /\ i \in Nat /\ c \in Commands
  OBVIOUS
<1>1. /\ ~b.skip /\ ~r.skip /\ c.op # "ComputeOnHost"
      /\ c.op = "H2D" => c.handle \in b.handles
      /\ s \in PlanSteps /\ r.steps = Append(b.steps, s)
      /\ r.handles = IF c.op = "D2H" THEN b.handles \cup {c.handle} ELSE b.handles
  BY DEF Emits
<1>2. b.steps \in Seq(PlanSteps)
  BY DEF Builders
<1>3. /\ Did(b.steps) = v /\ BuffersFilled(b.steps)
      /\ i - 1 > 0 => cmds[i - 1].op # "ComputeOnHost"
      /\ \A h \in b.handles : FilledIn(b.steps, h) \/ ComputedIn(cmds, h)
  BY <1>1 DEF KeepsPace
<1>4. c.op = "H2D" => ~ComputedIn(cmds, c.handle)
  <2> SUFFICES ASSUME c.op = "H2D", ComputedIn(cmds, c.handle) PROVE FALSE
    OBVIOUS
  <2>1. i - 1 \in DOMAIN cmds /\ cmds[i - 1].op = "ComputeOnHost"
    BY <1>0, PairAt
  <2> QED
    BY <1>3, <2>1
<1>5. StepEffect(s) = CommandEffect(cmds, i)
  BY <1>0, <1>1, <1>4, OwnEffect
<1>6. /\ s.kind \in {"H2D", "HostCompute"} => c.op = "H2D" /\ s.host = c.handle
      /\ c.op = "D2H" => s.kind = "D2H" /\ s.host = c.handle
  BY DEF OwnStep, Step, Compute
<1> HIDE DEF s
<1>7. s.kind \in {"H2D", "HostCompute"} /\ s.host # NoName => FilledIn(b.steps, s.host)
  BY <1>1, <1>3, <1>4, <1>6
<1>8. /\ BuffersFilled(r.steps)
      /\ \A h : FilledIn(b.steps, h) => FilledIn(r.steps, h)
      /\ c.op = "D2H" => FilledIn(r.steps, c.handle)
  BY <1>1, <1>2, <1>3, <1>6, <1>7, FilledAppend
<1>9. Did(r.steps) = Append(v, CommandEffect(cmds, i))
  BY <1>1, <1>2, <1>3, <1>5, DidAppend
<1>10. Further(cmds, i, v) = Append(v, CommandEffect(cmds, i))
  BY <1>1 DEF Further
<1>11. \A h \in r.handles : FilledIn(r.steps, h) \/ ComputedIn(cmds, h)
  BY <1>1, <1>3, <1>8
<1> QED
  BY <1>1, <1>8, <1>9, <1>10, <1>11 DEF KeepsPace

(* Each round of the loop keeps pace.                                      *)
LEMMA PaceKept ==
  ASSUME NEW cmds \in Seq(Commands), Paired(cmds), NEW i \in 1 .. Len(cmds),
         NEW b \in Builders, NEW v, KeepsPace(cmds, b, i - 1, v),
         NEW r, r = translateAt(cmds, b, i), ~r.failed
  PROVE  KeepsPace(cmds, r, i, Further(cmds, i, v))
<1>1. /\ r \in Builders
      /\ Skips(b, r) \/ Merges(cmds, b, i, r) \/ Emits(cmds, b, i, r)
  BY TranslateStep
<1>2. CASE Skips(b, r)
  <2>1. /\ b.skip /\ ~r.skip /\ r.steps = b.steps /\ r.handles = b.handles
        /\ i - 1 + 1 = i
    BY <1>2 DEF Skips
  <2>2. /\ cmds[i].op = "H2D" /\ Did(b.steps) = Append(v, CommandEffect(cmds, i))
        /\ BuffersFilled(b.steps)
        /\ \A h \in b.handles : FilledIn(b.steps, h) \/ ComputedIn(cmds, h)
    BY <2>1 DEF KeepsPace
  <2>3. Further(cmds, i, v) = Append(v, CommandEffect(cmds, i))
    BY <2>2 DEF Further
  <2> QED
    BY <2>1, <2>2, <2>3 DEF KeepsPace
<1> QED
  BY <1>1, <1>2, PaceMerged, PaceEmitted

(* Whatever the commands, a translation that did not throw has well-formed *)
(* steps.                                                                  *)
LEMMA TranslationTyped ==
  ASSUME NEW cmds \in Seq(Commands)
  PROVE  translateJobExecPlan(cmds) \in Builders
<1> DEFINE n == Len(cmds)
<1>1. n \in Nat /\ Blank \in Builders
  BY DEF Blank, Builders
<1>2. PICK g : /\ translateJobExecPlan(cmds) = g[n] /\ g[0] = Blank
               /\ \A i \in 1 .. n : g[i] = translateAt(cmds, g[i - 1], i)
  BY TranslateLoop
<1> DEFINE Holds == {i \in 0 .. n : g[i] \in Builders}
<1>3. 0 \in Holds
  BY <1>1, <1>2
<1>4. \A i \in 1 .. n : i - 1 \in Holds => i \in Holds
  BY <1>2, TranslateStep
<1> HIDE DEF Holds, n
<1>5. n \in Holds
  <2>1. n \in 0 .. n
    BY <1>1
  <2> QED
    BY <1>1, <1>3, <1>4, <2>1, UpTo
<1> QED
  BY <1>2, <1>5 DEF Holds

(* With paired corrections it does what the commands say, in their order,  *)
(* and reads only buffers that it has filled.                              *)
THEOREM TranslationFaithful ==
  ASSUME NEW cmds \in Seq(Commands), Paired(cmds), ~translateJobExecPlan(cmds).failed
  PROVE  LET built == translateJobExecPlan(cmds)
         IN  Did(built.steps) = Effects(cmds) /\ BuffersFilled(built.steps)
<1> DEFINE n == Len(cmds)
<1>1. n \in Nat
  OBVIOUS
<1>2. PICK g : /\ translateJobExecPlan(cmds) = g[n] /\ g[0] = Blank
               /\ \A i \in 1 .. n : g[i] = translateAt(cmds, g[i - 1], i)
  BY TranslateLoop
<1>3. PICK f : IsCollected(f, cmds, n) /\ Effects(cmds) = f[n]
  BY <1>1, EffectsLoop
<1>4. f[0] = <<>> /\ \A i \in 1 .. n : f[i] = Further(cmds, i, f[i - 1])
  <2>1. \A i \in 0 .. n : f[i] = IF i = 0 THEN <<>> ELSE Further(cmds, i, f[i - 1])
    BY <1>3 DEF IsCollected
  <2> QED
    BY <1>1, <2>1
<1> DEFINE Holds == {i \in 0 .. n : /\ g[i] \in Builders
                                    /\ g[i].failed \/ KeepsPace(cmds, g[i], i, f[i])}
<1>5. 0 \in Holds
  <2>1. /\ Blank \in Builders /\ Blank.steps = <<>> /\ ~Blank.skip
        /\ Blank.handles = {}
    BY DEF Blank, Builders
  <2>2. Did(<<>>) = <<>> /\ BuffersFilled(<<>>)
    BY DEF Did, BuffersFilled
  <2> QED
    BY <1>1, <1>2, <1>4, <2>1, <2>2 DEF KeepsPace
<1>6. ASSUME NEW i \in 1 .. n, i - 1 \in Holds PROVE i \in Holds
  <2>1. /\ g[i - 1] \in Builders /\ g[i] = translateAt(cmds, g[i - 1], i)
        /\ g[i - 1].failed \/ KeepsPace(cmds, g[i - 1], i - 1, f[i - 1])
    BY <1>2, <1>6
  <2>2. g[i] \in Builders /\ (g[i].failed \/ ~g[i - 1].failed)
    BY <2>1, TranslateStep
  <2>3. g[i].failed \/ KeepsPace(cmds, g[i], i, f[i])
    BY <1>4, <2>1, <2>2, PaceKept
  <2> QED
    BY <2>2, <2>3
<1> HIDE DEF Holds, n
<1>7. n \in Holds
  <2>1. n \in 0 .. n /\ \A i \in 1 .. n : i - 1 \in Holds => i \in Holds
    BY <1>1, <1>6
  <2> QED
    BY <1>1, <1>5, <2>1, UpTo
<1>8. g[n] \in Builders /\ KeepsPace(cmds, g[n], n, f[n])
  BY <1>2, <1>7 DEF Holds
<1>9. ~g[n].skip
  BY <1>1, <1>8 DEF KeepsPace, Builders, n
<1> QED
  BY <1>2, <1>3, <1>8, <1>9 DEF KeepsPace

-----------------------------------------------------------------------------
(* The state of build() at every phase: who owns the buffers, what the     *)
(* steps are and do, and that the bundle directory is registered when the  *)
(* plan was validated and not before.                                      *)
PrepareInv ==
  /\ TypeOK
  /\ registered <=> (phase \in {"built", "dropped"})
  /\ (owner = "builder") <=> (phase = "preparing")
  /\ (owner = "plan") <=> (phase \in {"translated", "built"})
  /\ phase \in {"translated", "built"} =>
       /\ steps \in Seq(PlanSteps)
       /\ Paired(exec) => Did(steps) = Effects(exec) /\ BuffersFilled(steps)

(* The invariant holds when build() begins.                                *)
LEMMA PrepareInit == Init => PrepareInv
<1> SUFFICES ASSUME Init PROVE PrepareInv
  OBVIOUS
<1>1. programs \in 1 .. MaxPrograms /\ 0 \in 0 .. programs
  BY PrepareAssumption DEF Init
<1>2. TypeOK
  BY <1>1, PrepareAssumption DEF Init, TypeOK
<1> QED
  BY <1>2 DEF Init, PrepareInv

(* Every step of build(), the uploads and the end of the plan preserve it. *)
LEMMA PrepareNext == PrepareInv /\ [Next]_vars => PrepareInv'
<1> SUFFICES ASSUME PrepareInv, [Next]_vars PROVE PrepareInv'
  OBVIOUS
<1> USE DEF PrepareInv, TypeOK
<1>1. CASE executeAllocate
  BY <1>1 DEF executeAllocate, Throw
<1>2. CASE executeInitTransfer
  <2>1. sent \in Nat /\ programs \in Nat
    BY PrepareAssumption
  <2>2. CASE /\ sent' = sent + 1 /\ sent < programs
             /\ uploads' = uploads \cup {sent + 1} /\ phase = "preparing"
             /\ UNCHANGED <<phase, owner, exec, programs, steps, registered>>
    <3>1. sent + 1 \in 0 .. programs
      BY <2>1, <2>2
    <3>2. 1 .. sent \cup {sent + 1} \subseteq 1 .. sent + 1
      BY <2>1
    <3>3. uploads' \subseteq 1 .. sent'
      BY <2>2, <3>2
    <3> QED
      BY <2>2, <3>1, <3>3
  <2>3. CASE /\ Throw /\ phase = "preparing"
             /\ UNCHANGED <<sent, uploads, exec, programs, steps, registered>>
    BY <2>3 DEF Throw
  <2> QED
    BY <1>2, <2>2, <2>3 DEF executeInitTransfer
<1>3. CASE Translate
  <2>1. CASE Throw /\ UNCHANGED steps
    BY <1>3, <2>1 DEF Translate, Throw
  <2>2. CASE /\ ~translateJobExecPlan(exec).failed
             /\ phase' = "translated" /\ owner' = "plan"
             /\ steps' = translateJobExecPlan(exec).steps
    <3>1. translateJobExecPlan(exec).steps \in Seq(PlanSteps)
      BY TranslationTyped DEF Builders
    <3>2. Paired(exec) => /\ Did(translateJobExecPlan(exec).steps) = Effects(exec)
                          /\ BuffersFilled(translateJobExecPlan(exec).steps)
      BY <2>2, TranslationFaithful
    <3>3. phase = "preparing" /\ UNCHANGED <<exec, programs, sent, uploads, registered>>
      BY <1>3 DEF Translate
    <3>4. steps' \in Seq(PlanSteps)
      BY <2>2, <3>1
    <3>5. (Paired(exec) => Did(steps) = Effects(exec) /\ BuffersFilled(steps))'
      BY <2>2, <3>2, <3>3
    <3> QED
      BY <2>2, <3>3, <3>4, <3>5
  <2> QED
    BY <1>3, <2>1, <2>2 DEF Translate
<1>4. CASE Validate
  <2>1. /\ phase = "translated" /\ owner = "plan" /\ ~registered
        /\ UNCHANGED <<exec, programs, sent, uploads, steps>>
    BY <1>4 DEF Validate
  <2>2. CASE /\ validate(steps) /\ phase' = "built" /\ registered' = TRUE
             /\ UNCHANGED owner
    BY <2>1, <2>2
  <2>3. CASE Throw /\ UNCHANGED registered
    BY <2>1, <2>3 DEF Throw
  <2> QED
    BY <1>4, <2>2, <2>3 DEF Validate
<1>5. CASE DropPlan
  BY <1>5 DEF DropPlan
<1>6. ASSUME NEW p \in uploads, UploadDone(p) PROVE PrepareInv'
  BY <1>6 DEF UploadDone
<1>7. CASE UNCHANGED vars
  BY <1>7 DEF vars
<1> QED
  BY <1>1, <1>2, <1>3, <1>4, <1>5, <1>6, <1>7 DEF Next, Finished

(* The inductive invariant holds of every build.                           *)
THEOREM PrepareInvariant == Spec => []PrepareInv
BY PrepareInit, PrepareNext, PTL DEF Spec

(* The types of build()'s state.                                           *)
THEOREM PrepareTypes == Spec => []TypeOK
<1>1. PrepareInv => TypeOK
  BY DEF PrepareInv
<1> QED
  BY <1>1, PrepareInvariant, PTL

(* The steps of a translated plan have the shapes that SpyreStream::launch *)
(* is proved to handle.                                                    *)
THEOREM StepsWellFormed ==
  Spec => [](phase \in {"translated", "built"} => steps \in Seq(PlanSteps))
<1>1. PrepareInv => (phase \in {"translated", "built"} => steps \in Seq(PlanSteps))
  BY DEF PrepareInv
<1> QED
  BY <1>1, PrepareInvariant, PTL

(* A built plan with paired corrections does what its JobExecPlan says, in *)
(* its order, and reads no buffer that was not filled.                     *)
THEOREM PlanKept == Spec => []PlanPreserved
<1>1. PrepareInv => PlanPreserved
  BY DEF PrepareInv, PlanPreserved, Did
<1> QED
  BY <1>1, PrepareInvariant, PTL

(* A build that threw left no bundle directory in the profiler's registry. *)
THEOREM FailureUnregistered == Spec => []FailedUnregistered
<1>1. PrepareInv => FailedUnregistered
  BY DEF PrepareInv, FailedUnregistered
<1> QED
  BY <1>1, PrepareInvariant, PTL
=============================================================================
