--------------------------- MODULE RuntimeProofs ---------------------------
(***************************************************************************)
(* What the components of Runtime promise, for any threads, devices, uses  *)
(* and bounds.                                                             *)
(***************************************************************************)
EXTENDS Runtime, Integers, TLAPS

(***************************************************************************)
(* SpyreCCLWork.  No lock orders the reads and writes of completed_,       *)
(* exception_ and the future, so none of the properties is inductive:      *)
(* WorkInv adds what a thread at each point of a call knows of the         *)
(* schedule, which never changes once it has ended.                        *)
(***************************************************************************)
WorkPoints == {"idle", "enter", "query", "store", "catch", "rethrow", "block", "finish",
           "resolve", "mark", "return"}

WorkCalls ==
    [op : {"none", "isCompleted", "wait", "timedWait"}, pc : WorkPoints, done : BOOLEAN,
     ret : {"none", "true", "false", "throw"}, calls : 0 .. MaxCalls]

WorkTypes ==
    /\ schedule \in {"running", "done", "failed"}
    /\ completed \in BOOLEAN /\ future \in {"pending", "resolved"}
    /\ exception \in {"none", "device", "timeout"}
    /\ call \in [Callers -> WorkCalls]

\* A thread that is polling.
Polls(t) == call[t].op = "isCompleted"

\* Which calls reach which points.
PointsOfCall ==
    \A t \in Callers :
        /\ call[t].pc \in {"query", "store", "rethrow"} => Polls(t)
        /\ call[t].pc \in {"block", "finish"} => ~Polls(t)

\* While the schedule runs nobody has seen it end.
NothingEarly ==
    ~Handle!Ended =>
        /\ ~completed /\ future = "pending"
        /\ \A t \in Callers :
             /\ call[t].ret # "true" /\ ~call[t].done
             /\ call[t].pc \notin {"finish", "catch", "rethrow", "mark"}
             /\ call[t].pc \in {"resolve", "return"} => Polls(t)

\* Once it has failed, whoever takes the work for completed has left, or met,
\* an exception.
FailureKept ==
    schedule = "failed" =>
        /\ completed => exception # "none"
        /\ \A t \in Callers :
             /\ ~call[t].done /\ call[t].pc # "finish"
             /\ \/ call[t].ret = "true"
                \/ call[t].pc = "rethrow"
                \/ ~Polls(t) /\ call[t].pc \in {"resolve", "mark", "return"}
                => exception # "none"

\* A wait past the future finds it resolved.
FutureResolved ==
    \A t \in Callers :
        ~Polls(t) /\ (call[t].ret = "true" \/ call[t].pc = "return") => future = "resolved"

WorkInv == WorkTypes /\ PointsOfCall /\ NothingEarly /\ FailureKept /\ FutureResolved

-----------------------------------------------------------------------------
(* A new handle: nothing has happened and no thread has called. *)
LEMMA InitWork == Handle!Init => WorkInv
<1> SUFFICES ASSUME Handle!Init PROVE WorkInv
  OBVIOUS
<1>1. \A t \in Callers : call[t] = Handle!Idle
  BY DEF Handle!Init
<1>2. Handle!Idle \in WorkCalls
  BY WorkAssumption DEF Handle!Idle, WorkCalls, WorkPoints
<1> QED
  BY <1>1, <1>2, Zenon DEF Handle!Init, WorkInv, WorkTypes, PointsOfCall, NothingEarly, FailureKept,
                    FutureResolved, Handle!Idle, Handle!Ended, Polls

(* The device ends the collective under any calls in progress. *)
LEMMA ProgressWork == WorkInv /\ Handle!Progress => WorkInv'
  BY DEF Handle!Progress, WorkInv, WorkTypes, PointsOfCall, NothingEarly, FailureKept,
         FutureResolved, WorkCalls, WorkPoints, Handle!Ended, Polls

(* What a step of thread t does to the record of its call, field by field. *)
Moves(t, pc, done, ret) ==
    /\ call' \in [Callers -> WorkCalls]
    /\ \A u \in Callers : u # t => call'[u] = call[u]
    /\ call'[t].op = call[t].op /\ call'[t].pc = pc /\ call'[t].done = done /\ call'[t].ret = ret

(* Goto moves the program counter and leaves the rest of the call.         *)
LEMMA GotoMoves ==
  ASSUME NEW t \in Callers, call \in [Callers -> WorkCalls], NEW pc \in WorkPoints,
         Handle!Goto(t, pc)
  PROVE  Moves(t, pc, call[t].done, call[t].ret)
  BY DEF Handle!Goto, Moves, WorkCalls

(* Return ends the call with its outcome.                                  *)
LEMMA ReturnMoves ==
  ASSUME NEW t \in Callers, call \in [Callers -> WorkCalls],
         NEW ret \in {"none", "true", "false", "throw"}, Handle!Return(t, ret)
  PROVE  Moves(t, "idle", call[t].done, ret)
  BY ZenonT(30) DEF Handle!Return, Moves, WorkCalls, WorkPoints

(* Entering isCompleted(), wait() or wait(timeout). *)
LEMMA CallWork ==
  ASSUME NEW t \in Callers, NEW op \in {"isCompleted", "wait", "timedWait"}, WorkInv,
         Handle!Call(t, op)
  PROVE  WorkInv'
<1>1. /\ call' \in [Callers -> WorkCalls]
      /\ \A u \in Callers : u # t => call'[u] = call[u]
      /\ call'[t].op = op /\ call'[t].pc = "enter" /\ call'[t].ret = "none"
      /\ call'[t].done = call[t].done
  <2>1. call[t] \in WorkCalls /\ call \in [Callers -> WorkCalls]
    BY DEF WorkInv, WorkTypes
  <2> DEFINE made == [call[t] EXCEPT !.op = op, !.pc = "enter", !.ret = "none",
                                   !.calls = call[t].calls + 1]
  <2>2. /\ made \in WorkCalls
        /\ made.op = op /\ made.pc = "enter" /\ made.ret = "none"
        /\ made.done = call[t].done
    <3>1. PICK c \in WorkCalls : c = call[t]
      BY <2>1
    <3>2. PICK n \in 0 .. MaxCalls : n = c.calls + 1
      BY <3>1, WorkAssumption DEF WorkCalls, Handle!Call
    <3>3. made = [c EXCEPT !.op = op, !.pc = "enter", !.ret = "none", !.calls = n]
      BY <3>1, <3>2
    <3> HIDE DEF made
    <3>4. /\ [c EXCEPT !.op = op, !.pc = "enter", !.ret = "none", !.calls = n] \in WorkCalls
          /\ \A r : r = [c EXCEPT !.op = op, !.pc = "enter", !.ret = "none", !.calls = n]
                => r.op = op /\ r.pc = "enter" /\ r.ret = "none" /\ r.done = c.done
      BY Zenon DEF WorkCalls, WorkPoints
    <3> QED
      BY <3>1, <3>3, <3>4
  <2>3. call' = [call EXCEPT ![t] = made]
    BY DEF Handle!Call
  <2> QED
    BY <2>1, <2>2, <2>3
<1>2. UNCHANGED <<schedule, completed, exception, future>>
  BY DEF Handle!Call, Handle!object
<1> QED
  BY <1>1, <1>2 DEF WorkInv, WorkTypes, PointsOfCall, NothingEarly, FailureKept,
                    FutureResolved, Handle!Ended, Polls

(* Every step inside a call, of whichever thread. *)
LEMMA StepWork ==
  ASSUME NEW t \in Callers, WorkInv, Handle!Step(t)
  PROVE  WorkInv'
<1> DEFINE done == call[t].done
           ret == call[t].ret
<1>0. call \in [Callers -> WorkCalls]
  BY DEF WorkInv, WorkTypes
<1> USE DEF Handle!object, WorkInv, WorkTypes, PointsOfCall, NothingEarly, FailureKept,
            FutureResolved, Handle!Ended, Polls
<1>1. CASE Handle!IsCompleted(t)
  <2>1. Moves(t, IF completed THEN "return" ELSE "query", done, ret)
    BY <1>0, <1>1, GotoMoves DEF Handle!IsCompleted, WorkPoints
  <2> QED
    BY <1>1, <2>1 DEF Handle!IsCompleted, Moves
<1>2. CASE Handle!Query(t)
  <2>0. PICK c \in WorkCalls : c = call[t]
    BY <1>0
  <2>1. CASE schedule = "done"
    <3>1. Moves(t, "store", TRUE, ret)
      <4>1. call' = [call EXCEPT ![t] = [c EXCEPT !.pc = "store", !.done = TRUE]]
        BY <1>2, <2>0, <2>1, Zenon DEF Handle!Query
      <4> QED
        BY <1>0, <2>0, <4>1, ZenonT(30) DEF Moves, WorkCalls, WorkPoints
    <3> QED
      BY <1>2, <2>1, <3>1 DEF Handle!Query, Moves
  <2>2. CASE schedule # "done"
    <3> DEFINE to == IF schedule = "failed" THEN "catch" ELSE "store"
    <3>1. Moves(t, to, FALSE, ret)
      <4>1. call' = [call EXCEPT ![t] = [c EXCEPT !.pc = to, !.done = FALSE]]
        BY <1>2, <2>0, <2>2, Zenon DEF Handle!Query
      <4> QED
        BY <1>0, <2>0, <4>1, ZenonT(30) DEF Moves, WorkCalls, WorkPoints
    <3> QED
      BY <1>2, <2>2, <3>1 DEF Handle!Query, Moves
  <2> QED
    BY <2>1, <2>2
<1>3. CASE Handle!Store(t)
  <2>1. Moves(t, "resolve", done, ret)
    BY <1>0, <1>3, GotoMoves DEF Handle!Store, WorkPoints
  <2>2. CASE done
    BY <1>3, <2>1, <2>2 DEF Handle!Store, Moves
  <2>3. CASE ~done
    <3>1. completed' = FALSE
      BY <1>0, <1>3, <2>3 DEF Handle!Store, WorkCalls
    <3>2. UNCHANGED <<schedule, exception, future>>
      BY <1>3 DEF Handle!Store
    <3>3. Polls(t) /\ call[t].pc = "store"
      BY <1>3 DEF Handle!Store
    <3> QED
      BY <2>1, <2>3, <3>1, <3>2, <3>3, ZenonT(30) DEF Moves
  <2> QED
    BY <2>2, <2>3
<1>4. CASE Handle!Catch(t)
  <2>1. IF Polls(t) THEN Moves(t, "rethrow", done, ret) ELSE Moves(t, "idle", done, "throw")
    BY <1>0, <1>4, GotoMoves, ReturnMoves DEF Handle!Catch, WorkPoints
  <2> QED
    BY <1>4, <2>1 DEF Handle!Catch, Moves
<1>5. CASE Handle!Rethrow(t)
  <2>1. Moves(t, "idle", done, "throw")
    BY <1>0, <1>5, ReturnMoves DEF Handle!Rethrow, WorkPoints
  <2> QED
    BY <1>5, <2>1 DEF Handle!Rethrow, Moves
<1>6. CASE Handle!Wait(t)
  <2>1. Moves(t, IF completed THEN "resolve" ELSE "block", done, ret)
    BY <1>0, <1>6, GotoMoves DEF Handle!Wait, WorkPoints
  <2> QED
    BY <1>6, <2>1 DEF Handle!Wait, Moves
<1>7. CASE Handle!Block(t)
  <2>1. Moves(t, IF schedule = "failed" THEN "catch" ELSE "finish", done, ret)
    BY <1>0, <1>7, GotoMoves DEF Handle!Block, WorkPoints
  <2> QED
    BY <1>7, <2>1 DEF Handle!Block, Moves
<1>8. CASE Handle!Timeout(t)
  <2>1. Moves(t, "idle", done, "throw")
    BY <1>0, <1>8, ReturnMoves DEF Handle!Timeout, WorkPoints
  <2> QED
    BY <1>8, <2>1 DEF Handle!Timeout, Moves
<1>9. CASE Handle!Finish(t)
  <2>1. Moves(t, "resolve", done, ret)
    BY <1>0, <1>9, GotoMoves DEF Handle!Finish, WorkPoints
  <2> QED
    BY <1>9, <2>1 DEF Handle!Finish, Moves
<1>10. CASE Handle!Resolve(t)
  <2>1. Moves(t, IF future = "pending" /\ (Polls(t) => completed) THEN "mark" ELSE "return",
             done, ret)
    BY <1>0, <1>10, GotoMoves DEF Handle!Resolve, WorkPoints
  <2> QED
    BY <1>10, <2>1 DEF Handle!Resolve, Moves
<1>11. CASE Handle!Mark(t)
  <2>1. IF future = "pending" THEN Moves(t, "return", done, ret)
        ELSE Moves(t, "idle", done, "throw")
    BY <1>0, <1>11, GotoMoves, ReturnMoves DEF Handle!Mark, WorkPoints
  <2> QED
    BY <1>11, <2>1 DEF Handle!Mark, Moves
<1>12. CASE Handle!Leave(t)
  <2>1. Moves(t, "idle", done, IF Polls(t) /\ ~completed THEN "false" ELSE "true")
    BY <1>0, <1>12, ReturnMoves DEF Handle!Leave, WorkPoints
  <2> QED
    BY <1>12, <2>1 DEF Handle!Leave, Moves
<1> QED
  BY <1>1, <1>2, <1>3, <1>4, <1>5, <1>6, <1>7, <1>8, <1>9, <1>10, <1>11, <1>12 DEF Handle!Step

(* WorkInv holds after every step of a handle, whatever its threads do. *)
LEMMA NextWork == WorkInv /\ [Handle!Next]_callVars => WorkInv'
<1> SUFFICES ASSUME WorkInv, [Handle!Next]_callVars PROVE WorkInv'
  OBVIOUS
<1>1. CASE UNCHANGED callVars
  BY <1>1 DEF callVars, WorkInv, WorkTypes, PointsOfCall, NothingEarly, FailureKept,
              FutureResolved, Handle!Ended, Polls
<1>2. CASE Handle!Progress
  BY <1>2, ProgressWork
<1>3. CASE \E t \in Callers :
             \/ \E op \in {"isCompleted", "wait", "timedWait"} : Handle!Call(t, op)
             \/ Handle!Step(t)
  BY <1>3, CallWork, StepWork
<1>4. CASE Handle!Finished
  BY <1>1, <1>4 DEF Handle!Finished, Handle!vars, callVars
<1> QED
  BY <1>1, <1>2, <1>3, <1>4 DEF Handle!Next

(* What a handle has told its callers is true in the states of WorkInv. *)
LEMMA WorkHolds == WorkInv => WorkTruthful
  BY DEF WorkInv, WorkTypes, PointsOfCall, NothingEarly, FailureKept, FutureResolved,
         Polls, WorkTruthful, WorkCalls, Handle!TypeOK, Handle!NeverEarly,
         Handle!FailureVisible, Handle!WaitResolves, Handle!Ended

-----------------------------------------------------------------------------
(***************************************************************************)
(* Starting the runtime.  StartInv says who holds the lock of _lazy_init,  *)
(* that nothing says the runtime runs before it does, and, of a thread     *)
(* that is alone, that the index it starts with is the pending one.  It    *)
(* needs where each call can be: a step of set_device or of a C++ entry    *)
(* must not pass for one of _lazy_init.                                    *)
(***************************************************************************)
\* The threads of both processes,
Everyone == Callers \cup {Child}

\* what a thread is at,
StartCalls == [op : {"none", "lazy", "set", "native"},
               pc : {"idle", "lazy", "lock", "apply", "start", "once", "create", "done",
                     "native", "set", "pass"},
               arg : Nat, ret : {"none", "ok", "error"}, calls : Nat]

StartTypes ==
    /\ use \in Uses
    /\ initialized \in [Start!Procs -> BOOLEAN] /\ badFork \in [Start!Procs -> BOOLEAN]
    /\ pending \in [Start!Procs -> use.asked \cup {1000}]
    /\ module \in [Start!Procs -> BOOLEAN]
    /\ lock \in [Start!Procs -> Everyone \cup {"free"}]
    /\ once \in [Start!Procs -> {"no", "running", "done"}]
    /\ device \in [Start!Procs -> (0 .. Count - 1) \cup {1000}]
    /\ tls \in [Everyone -> {use.rank} \cup use.asked]
    /\ forked \in BOOLEAN /\ thrown \in 0 .. MaxThrown

\* where each call can be,
Proper(c, t, w) ==
    /\ c \in StartCalls
    /\ c.pc \in {"lazy", "lock", "apply", "start", "done"} => c.op = "lazy"
    /\ c.pc \in {"set", "pass"} => c.op = "set" /\ c.arg \in w.asked
    /\ c.pc = "native" => c.op = "native"
    /\ c.pc \in {"once", "create"} => c.op \in {"lazy", "native"}
    /\ c.op = "native" => t \in w.native
    /\ c.pc # "idle" => w.calls[t] # 0

ControlInv ==
    start \in [Everyone -> StartCalls] /\ \A t \in Everyone : Proper(start[t], t, use)

\* who holds _runtime_init_lock,
Holding(c) ==
    c.op = "lazy" /\ c.pc \in {"apply", "start", "once", "create", "done"}

LockInv == \A t \in Callers : Holding(start[t]) => lock["parent"] = t

\* what says that the runtime runs,
RunInv ==
    /\ once["parent"] = "done" => device["parent"] # 1000
    /\ initialized["parent"] => device["parent"] # 1000
    /\ \A t \in Callers : start[t].pc = "done" => device["parent"] # 1000

\* and, for a thread alone, the device it is about to start on.
Aimed(d, p) == p = 1000 \/ d = p \/ (p = 0 /\ d = use.rank)

Aiming(c) == c.op = "lazy" /\ c.pc \in {"start", "once", "create"}

PendingInv ==
    Start!Solo => \A t \in Callers : Aiming(start[t]) => Aimed(tls[t], pending["parent"])

StartInv == StartTypes /\ ControlInv /\ LockInv /\ RunInv /\ PendingInv

(* Before the first call. *)
LEMMA InitStart == Start!Init => StartInv
<1> SUFFICES ASSUME Start!Init PROVE StartInv
  OBVIOUS
<1> USE DEF Start!Init, Start!None, Start!NoOne, Start!All, Everyone
<1>1. StartTypes
  <2>1. thrown \in 0 .. MaxThrown /\ use \in Uses
    BY StartAssumption
  <2>2. /\ initialized \in [Start!Procs -> BOOLEAN] /\ badFork \in [Start!Procs -> BOOLEAN]
        /\ module \in [Start!Procs -> BOOLEAN]
        /\ once \in [Start!Procs -> {"no", "running", "done"}]
    OBVIOUS
  <2>3. /\ pending \in [Start!Procs -> use.asked \cup {1000}]
        /\ lock \in [Start!Procs -> Callers \cup {Child} \cup {"free"}]
        /\ device \in [Start!Procs -> (0 .. Count - 1) \cup {1000}]
    OBVIOUS
  <2>4. tls \in [Callers \cup {Child} -> {use.rank} \cup use.asked] /\ forked \in BOOLEAN
    BY Zenon
  <2> QED
    BY <2>1, <2>2, <2>3, <2>4 DEF StartTypes
<1>2. ControlInv
  BY DEF ControlInv, Proper, StartCalls
<1>3. LockInv /\ RunInv /\ PendingInv
  BY DEF LockInv, RunInv, PendingInv, Holding, Aiming, Start!Procs
<1> QED
  BY <1>1, <1>2, <1>3 DEF StartInv

(* The step of one thread: where it goes, and nothing of the others. *)
OnlyAt(t) == /\ start' \in [Everyone -> StartCalls]
             /\ \A u \in Everyone : u # t => start'[u] = start[u]

Went(t, pc) ==
    /\ OnlyAt(t) /\ start'[t].pc = pc /\ start'[t].op = start[t].op
    /\ start'[t].arg = start[t].arg

Where == {"idle", "lazy", "lock", "apply", "start", "once", "create", "done", "native", "set",
          "pass"}

LEMMA GotoWent ==
  ASSUME NEW t \in Everyone, ControlInv, NEW pc \in Where, Start!Goto(t, pc)
  PROVE  Went(t, pc)
  BY DEF ControlInv, Start!Goto, Went, OnlyAt, StartCalls, Where

LEMMA ReturnWent ==
  ASSUME NEW t \in Everyone, ControlInv, NEW ret \in {"ok", "error"}, Start!Return(t, ret)
  PROVE  Went(t, "idle")
<1> DEFINE made == [start[t] EXCEPT !.pc = "idle", !.ret = ret]
<1>1. start \in [Everyone -> StartCalls] /\ start[t] \in StartCalls
  BY DEF ControlInv
<1>2. start' = [start EXCEPT ![t] = made]
  BY <1>1, Zenon DEF Start!Return
<1>3. /\ made \in StartCalls /\ made.pc = "idle" /\ made.op = start[t].op
      /\ made.arg = start[t].arg
  BY <1>1, Zenon DEF StartCalls
<1> HIDE DEF made
<1> QED
  BY <1>1, <1>2, <1>3 DEF Went, OnlyAt

(* A thread that goes where its call may be keeps its call proper. *)
LEMMA ControlKept ==
  ASSUME NEW t \in Everyone, ControlInv, OnlyAt(t), UNCHANGED use, Proper(start'[t], t, use)
  PROVE  ControlInv'
<1>1. ASSUME NEW u \in Everyone PROVE Proper(start'[u], u, use')
  BY Zenon DEF ControlInv, OnlyAt
<1> QED
  BY <1>1 DEF ControlInv, OnlyAt

LEMMA WentProper ==
  ASSUME NEW t \in Everyone, ControlInv, NEW pc, Went(t, pc),
         \/ pc = "idle"
         \/ /\ start[t].pc # "idle" /\ start[t].op = "lazy"
            /\ pc \in {"lock", "apply", "start", "once", "create", "done"}
         \/ start[t].pc # "idle" /\ start[t].op = "native" /\ pc \in {"once", "create"}
         \/ start[t].pc = "set" /\ pc = "pass"
  PROVE  Proper(start'[t], t, use)
<1>1. start'[t] \in StartCalls /\ Proper(start[t], t, use)
  BY DEF ControlInv, Went, OnlyAt
<1> QED
  BY <1>1 DEF Proper, Went

(* The lock of the others stays theirs. *)
LEMMA LockKept ==
  ASSUME NEW t \in Everyone, LockInv, OnlyAt(t),
         \A u \in Callers : u # t /\ lock["parent"] = u => lock'["parent"] = u,
         t \in Callers /\ Holding(start'[t]) => lock'["parent"] = t
  PROVE  LockInv'
  BY DEF LockInv, OnlyAt, Everyone

(* Nothing begins to say that the runtime runs. *)
LEMMA RunKept ==
  ASSUME NEW t \in Everyone, RunInv, OnlyAt(t), start'[t].pc # "done",
         device'["parent"] = device["parent"],
         initialized'["parent"] => initialized["parent"],
         once'["parent"] = "done" => once["parent"] = "done"
  PROVE  RunInv'
  BY DEF RunInv, OnlyAt, Everyone

(* No other thread is aimed elsewhere. *)
LEMMA PendingKept ==
  ASSUME NEW t \in Everyone, PendingInv, OnlyAt(t), UNCHANGED use,
         pending'["parent"] = pending["parent"], \A u \in Callers : u # t => tls'[u] = tls[u],
         t \in Callers /\ Start!Solo /\ Aiming(start'[t]) => Aimed(tls'[t], pending["parent"])
  PROVE  PendingInv'
  BY DEF PendingInv, OnlyAt, Everyone, Aimed, Start!Solo

(* The threads are those of the process, but for the child's. *)
LEMMA ProcOf ==
  ASSUME NEW t \in Everyone
  PROVE  /\ Start!Proc(t) \in Start!Procs /\ Start!Procs = {"parent", "child"}
         /\ t \in Callers => Start!Proc(t) = "parent"
         /\ t \notin Callers => Start!Proc(t) = "child"
  BY StartAssumption DEF Start!Proc, Start!Procs, Everyone

(* A thread calls. *)
LEMMA CallStart ==
  ASSUME NEW t \in Everyone, StartInv, Start!Call(t)
  PROVE  StartInv'
<1>1. PICK op \in {"lazy", "set"} \cup (IF t \in use.native THEN {"native"} ELSE {}) :
        \E d \in IF op = "set" THEN use.asked ELSE {1000} :
          start' = [start EXCEPT ![t] = [op |-> op, pc |-> op, arg |-> d, ret |-> "none",
                                         calls |-> @.calls + 1]]
  BY Zenon DEF Start!Call, Start!None
<1>2. PICK d \in IF op = "set" THEN use.asked ELSE {1000} :
        start' = [start EXCEPT ![t] = [op |-> op, pc |-> op, arg |-> d, ret |-> "none",
                                       calls |-> @.calls + 1]]
  BY <1>1, Zenon
<1>3. /\ start[t].calls < use.calls[t]
      /\ UNCHANGED <<initialized, badFork, pending, module, lock, once, device, tls, forked,
                     thrown, use>>
  BY Zenon DEF Start!Call, Start!impl
<1>4. use \in Uses /\ start \in [Everyone -> StartCalls]
  BY DEF StartInv, StartTypes, ControlInv
<1>5. d \in Nat /\ start[t].calls \in Nat /\ use.calls[t] \in Nat
  BY <1>4, StartAssumption DEF StartCalls, Everyone
<1> DEFINE c == [op |-> op, pc |-> op, arg |-> d, ret |-> "none", calls |-> start[t].calls + 1]
<1>6. Proper(c, t, use)
  BY <1>3, <1>5 DEF Proper, StartCalls
<1>7. c \in StartCalls /\ c.pc \in {"lazy", "set", "native"}
  BY <1>5 DEF StartCalls
<1>8. start' = [start EXCEPT ![t] = c]
  BY <1>2
<1> HIDE DEF c
<1>9. OnlyAt(t) /\ start'[t] = c
  BY <1>4, <1>7, <1>8 DEF OnlyAt
<1>10. StartTypes'
  BY <1>3 DEF StartInv, StartTypes
<1>11. ControlInv'
  BY <1>3, <1>6, <1>9, ControlKept DEF StartInv
<1>12. LockInv'
  BY <1>3, <1>7, <1>9, LockKept DEF StartInv, Holding
<1>13. RunInv'
  BY <1>3, <1>7, <1>9, RunKept DEF StartInv
<1>14. PendingInv'
  BY <1>3, <1>7, <1>9, PendingKept DEF StartInv, Aiming
<1> QED
  BY <1>10, <1>11, <1>12, <1>13, <1>14 DEF StartInv

(* The steps of _lazy_init and of the C++ entry that touch nothing else. *)
LEMMA MoveStart ==
  ASSUME NEW t \in Everyone, StartInv, NEW pc, Went(t, pc),
         UNCHANGED <<initialized, badFork, pending, module, lock, once, device, tls, forked,
                     thrown, use>>,
         \/ pc = "idle"
         \/ start[t].pc = "lazy" /\ pc = "lock"
         \/ start[t].pc = "start" /\ pc = "once"
         \/ start[t].pc = "native" /\ pc = "once"
  PROVE  StartInv'
<1>1. OnlyAt(t) /\ start'[t].op = start[t].op /\ start'[t].pc = pc
  BY DEF Went
<1>2. Proper(start[t], t, use)
  BY DEF StartInv, ControlInv
<1>3. Proper(start'[t], t, use)
  BY <1>2, WentProper DEF StartInv, Proper
<1>4. StartTypes'
  BY DEF StartInv, StartTypes
<1>5. ControlInv'
  BY <1>1, <1>3, ControlKept DEF StartInv
<1>6. LockInv'
  BY <1>1, <1>2, LockKept DEF StartInv, LockInv, Holding, Proper
<1>7. RunInv'
  BY <1>1, RunKept DEF StartInv
<1>8. PendingInv'
  BY <1>1, <1>2, PendingKept, Zenon DEF StartInv, PendingInv, Aiming, Proper
<1> QED
  BY <1>4, <1>5, <1>6, <1>7, <1>8 DEF StartInv

LEMMA LazyStepsStart ==
  ASSUME NEW t \in Everyone, StartInv,
         Start!LazyCheck(t) \/ Start!LazyStart(t) \/ Start!NativeEntry(t)
  PROVE  StartInv'
<1>1. ControlInv
  BY DEF StartInv
<1>2. CASE Start!LazyCheck(t)
  <2>1. start[t].pc = "lazy" /\ (Start!Return(t, "ok") \/ Start!Goto(t, "lock"))
    BY <1>2, Zenon DEF Start!LazyCheck, Start!At
  <2>2. Went(t, "idle") \/ Went(t, "lock")
    BY <1>1, <2>1, ReturnWent, GotoWent DEF Where
  <2> QED
    BY <1>2, <2>1, <2>2, MoveStart DEF Start!LazyCheck, Start!impl
<1>3. CASE Start!LazyStart(t)
  <2>1. start[t].pc = "start" /\ Start!Goto(t, "once")
    BY <1>3, Zenon DEF Start!LazyStart, Start!At
  <2>2. Went(t, "once")
    BY <1>1, <2>1, GotoWent DEF Where
  <2> QED
    BY <1>3, <2>1, <2>2, MoveStart DEF Start!LazyStart, Start!impl
<1>4. CASE Start!NativeEntry(t)
  <2>1. start[t].pc = "native" /\ (Start!Return(t, "ok") \/ Start!Goto(t, "once"))
    BY <1>4, Zenon DEF Start!NativeEntry, Start!At
  <2>2. Went(t, "idle") \/ Went(t, "once")
    BY <1>1, <2>1, ReturnWent, GotoWent DEF Where
  <2> QED
    BY <1>4, <2>1, <2>2, MoveStart DEF Start!NativeEntry, Start!impl
<1> QED
  BY <1>2, <1>3, <1>4

(* The lock is taken only when it is free, so nobody else is past it. *)
LEMMA LazyLockStart ==
  ASSUME NEW t \in Everyone, StartInv, Start!LazyLock(t)
  PROVE  StartInv'
<1> DEFINE p == Start!Proc(t)
<1>1. /\ start[t].pc = "lock" /\ lock[p] = "free"
      /\ lock' = [lock EXCEPT ![p] = IF initialized[p] THEN "free" ELSE t]
      /\ IF initialized[p] THEN Start!Return(t, "ok") ELSE Start!Goto(t, "apply")
      /\ UNCHANGED <<initialized, badFork, pending, module, once, device, tls, forked,
                     thrown, use>>
  BY Zenon DEF Start!LazyLock, Start!At, Start!NoOne, Start!impl
<1>2. p \in Start!Procs /\ Start!Procs = {"parent", "child"}
      /\ (t \in Callers => p = "parent") /\ (t \notin Callers => p = "child")
  BY ProcOf
<1> HIDE DEF p
<1>3. lock \in [Start!Procs -> Everyone \cup {"free"}]
  BY DEF StartInv, StartTypes
<1>4. PICK pc : pc \in {"idle", "apply"} /\ Went(t, pc) /\ (pc = "apply" => ~initialized[p])
  BY <1>1, ReturnWent, GotoWent DEF StartInv, Where
<1>5. OnlyAt(t) /\ start'[t].op = start[t].op /\ start'[t].pc = pc
  BY <1>4 DEF Went
<1>6. Proper(start'[t], t, use)
  <2>1. start[t].op = "lazy"
    BY <1>1 DEF StartInv, ControlInv, Proper
  <2> QED
    BY <1>1, <1>4, <2>1, WentProper DEF StartInv
<1>7. StartTypes'
  <2>1. lock' \in [Start!Procs -> Everyone \cup {"free"}]
    BY <1>1, <1>2, <1>3, Zenon
  <2> QED
    BY <1>1, <2>1 DEF StartInv, StartTypes
<1>8. ControlInv'
  BY <1>1, <1>5, <1>6, ControlKept DEF StartInv
<1>9. LockInv'
  <2>1. \A u \in Callers : u # t /\ lock["parent"] = u => lock'["parent"] = u
    BY <1>1, <1>2, <1>3, StartAssumption
  <2>2. t \in Callers /\ Holding(start'[t]) => lock'["parent"] = t
    BY <1>1, <1>2, <1>3, <1>4, <1>5 DEF Holding
  <2> QED
    BY <1>5, <2>1, <2>2, LockKept DEF StartInv
<1>10. RunInv'
  BY <1>1, <1>4, <1>5, RunKept DEF StartInv
<1>11. PendingInv'
  BY <1>1, <1>4, <1>5, PendingKept DEF StartInv, Aiming
<1> QED
  BY <1>7, <1>8, <1>9, <1>10, <1>11 DEF StartInv

(* The lock is left by the one that holds it. *)
LEMMA Released ==
  ASSUME NEW t \in Everyone, StartInv,
         \/ lock' = lock
         \/ /\ start[t].pc \in {"apply", "done"}
            /\ lock' = [lock EXCEPT ![Start!Proc(t)] = "free"]
         \/ lock' = [lock EXCEPT ![Start!Proc(t)] = IF @ = t THEN "free" ELSE @]
  PROVE  /\ lock' \in [Start!Procs -> Everyone \cup {"free"}]
         /\ \A u \in Callers : u # t /\ lock["parent"] = u => lock'["parent"] = u
<1>1. /\ Start!Proc(t) \in Start!Procs /\ Start!Procs = {"parent", "child"}
      /\ (t \in Callers => Start!Proc(t) = "parent")
      /\ (t \notin Callers => Start!Proc(t) = "child")
  BY ProcOf
<1>2. lock \in [Start!Procs -> Everyone \cup {"free"}]
  BY DEF StartInv, StartTypes
<1>3. start[t].pc \in {"apply", "done"} /\ t \in Callers => lock["parent"] = t
  BY DEF StartInv, ControlInv, Proper, LockInv, Holding
<1> QED
  BY <1>1, <1>2, <1>3

(* The pending index becomes the thread's. *)
LEMMA ApplyStart ==
  ASSUME NEW t \in Everyone, StartInv, Start!Apply(t)
  PROVE  StartInv'
<1> DEFINE p == Start!Proc(t)
           d == pending[p]
<1>1. /\ start[t].pc = "apply" /\ module' = [module EXCEPT ![p] = TRUE]
      /\ UNCHANGED <<initialized, badFork, pending, once, device, forked, thrown, use>>
  BY Zenon DEF Start!Apply, Start!At
<1>2. \/ Start!Goto(t, "start") /\ lock' = lock /\ d = 1000 /\ tls' = tls
      \/ Start!Goto(t, "start") /\ lock' = lock /\ d # 1000 /\ tls' = [tls EXCEPT ![t] = d]
      \/ Start!Return(t, "error") /\ lock' = [lock EXCEPT ![p] = "free"] /\ tls' = tls
  <2>1. \/ /\ tls' = (IF d = 1000 THEN tls ELSE [tls EXCEPT ![t] = d])
           /\ Start!Goto(t, "start") /\ lock' = lock
        \/ /\ lock' = [lock EXCEPT ![p] = "free"]
           /\ Start!Return(t, "error") /\ tls' = tls
    BY Zenon DEF Start!Apply, Start!None, Start!NoOne
  <2> HIDE DEF d
  <2>2. CASE d = 1000
    BY <2>1, <2>2, Zenon
  <2>3. CASE d # 1000
    BY <2>1, <2>3, Zenon
  <2> QED
    BY <2>2, <2>3, Zenon
<1>3. PICK pc : /\ Went(t, pc)
                /\ \/ pc = "start" /\ lock' = lock /\ d = 1000 /\ tls' = tls
                   \/ pc = "start" /\ lock' = lock /\ d # 1000 /\ tls' = [tls EXCEPT ![t] = d]
                   \/ pc = "idle" /\ tls' = tls
  BY <1>2, ReturnWent, GotoWent DEF StartInv, Where
<1>4. OnlyAt(t) /\ start'[t].op = start[t].op /\ start'[t].pc = pc
  BY <1>3 DEF Went
<1>5. /\ p \in Start!Procs /\ (t \in Callers => p = "parent")
  BY ProcOf
<1>6. /\ lock' \in [Start!Procs -> Everyone \cup {"free"}]
      /\ \A u \in Callers : u # t /\ lock["parent"] = u => lock'["parent"] = u
  BY <1>1, <1>2, Released
<1> HIDE DEF p
<1>7. start[t].op = "lazy"
  BY <1>1 DEF StartInv, ControlInv, Proper
<1>8. Proper(start'[t], t, use)
  BY <1>1, <1>3, <1>7, WentProper DEF StartInv
<1>9. StartTypes'
  <2>1. module' \in [Start!Procs -> BOOLEAN]
    BY <1>1, <1>5 DEF StartInv, StartTypes
  <2>2. d \in use.asked \cup {1000} /\ tls \in [Everyone -> {use.rank} \cup use.asked]
    BY <1>5 DEF StartInv, StartTypes
  <2>3. tls' \in [Everyone -> {use.rank} \cup use.asked]
    BY <1>3, <2>2
  <2> QED
    BY <1>1, <1>6, <2>1, <2>3 DEF StartInv, StartTypes
<1>10. ControlInv'
  BY <1>1, <1>4, <1>8, ControlKept DEF StartInv
<1>11. LockInv'
  <2>1. t \in Callers => lock["parent"] = t
    BY <1>1, <1>7 DEF StartInv, LockInv, Holding
  <2> QED
    BY <1>3, <1>4, <1>6, <2>1, LockKept DEF StartInv, Holding
<1>12. RunInv'
  BY <1>1, <1>3, <1>4, RunKept DEF StartInv
<1>13. PendingInv'
  <2>1. tls \in [Everyone -> {use.rank} \cup use.asked]
    BY DEF StartInv, StartTypes
  <2>2. \A u \in Callers : u # t => tls'[u] = tls[u]
    BY <1>3, <2>1 DEF Everyone
  <2>3. t \in Callers /\ Aiming(start'[t]) => Aimed(tls'[t], pending["parent"])
    BY <1>3, <1>4, <1>5, <2>1 DEF Aiming, Aimed
  <2> QED
    BY <1>1, <1>4, <2>2, <2>3, PendingKept DEF StartInv
<1> QED
  BY <1>9, <1>10, <1>11, <1>12, <1>13 DEF StartInv

(* _initialized is set by a thread whose start_runtime() came back. *)
LEMMA LazyDoneStart ==
  ASSUME NEW t \in Everyone, StartInv, Start!LazyDone(t)
  PROVE  StartInv'
<1> DEFINE p == Start!Proc(t)
<1>1. /\ start[t].pc = "done" /\ initialized' = [initialized EXCEPT ![p] = TRUE]
      /\ lock' = [lock EXCEPT ![p] = "free"] /\ Start!Return(t, "ok")
      /\ UNCHANGED <<badFork, pending, module, once, device, tls, forked, thrown, use>>
  BY Zenon DEF Start!LazyDone, Start!At, Start!NoOne
<1>2. Went(t, "idle")
  BY <1>1, ReturnWent DEF StartInv
<1>3. OnlyAt(t) /\ start'[t].pc = "idle"
  BY <1>2 DEF Went
<1>4. p \in Start!Procs /\ Start!Procs = {"parent", "child"}
      /\ (t \notin Callers => p = "child")
  BY ProcOf
<1>5. /\ lock' \in [Start!Procs -> Everyone \cup {"free"}]
      /\ \A u \in Callers : u # t /\ lock["parent"] = u => lock'["parent"] = u
  BY <1>1, Released, Zenon
<1> HIDE DEF p
<1>6. initialized \in [Start!Procs -> BOOLEAN]
  BY DEF StartInv, StartTypes
<1>7. StartTypes'
  <2>1. initialized' \in [Start!Procs -> BOOLEAN]
    BY <1>1, <1>4, <1>6
  <2> QED
    BY <1>1, <1>5, <2>1 DEF StartInv, StartTypes
<1>8. ControlInv'
  BY <1>1, <1>2, <1>3, WentProper, ControlKept, Zenon DEF StartInv
<1>9. LockInv'
  BY <1>3, <1>5, LockKept DEF StartInv, Holding
<1>10. RunInv'
  <2>1. initialized'["parent"] => initialized["parent"] \/ t \in Callers
    BY <1>1, <1>4, <1>6
  <2>2. \A u \in Callers : start'[u].pc = "done" => start[u].pc = "done"
    BY <1>3 DEF OnlyAt, Everyone
  <2>3. initialized'["parent"] => device["parent"] # 1000
    BY <1>1, <2>1 DEF StartInv, RunInv
  <2>4. \A u \in Callers : start'[u].pc = "done" => device["parent"] # 1000
    BY <2>2 DEF StartInv, RunInv
  <2>5. once' = once /\ device' = device
    BY <1>1, Zenon
  <2> QED
    BY <2>3, <2>4, <2>5 DEF StartInv, RunInv
<1>11. PendingInv'
  BY <1>1, <1>3, PendingKept DEF StartInv, Aiming
<1> QED
  BY <1>7, <1>8, <1>9, <1>10, <1>11 DEF StartInv

(* call_once: past a start that is done, or into one that begins. *)
LEMMA OnceEnterStart ==
  ASSUME NEW t \in Everyone, StartInv, Start!OnceEnter(t)
  PROVE  StartInv'
<1> DEFINE p == Start!Proc(t)
<1>1. /\ start[t].pc = "once"
      /\ UNCHANGED <<initialized, badFork, pending, module, lock, device, forked, thrown, use>>
  BY Zenon DEF Start!OnceEnter, Start!At, Start!impl
<1>2. \/ /\ once[p] = "done" /\ UNCHANGED <<once, tls>>
         /\ \/ start[t].op = "lazy" /\ Start!Goto(t, "done")
            \/ start[t].op # "lazy" /\ Start!Return(t, "ok")
      \/ /\ once' = [once EXCEPT ![p] = "running"] /\ Start!Goto(t, "create")
         /\ tls' = [tls EXCEPT ![t] = IF @ # 0 THEN @ ELSE use.rank]
  BY Zenon DEF Start!OnceEnter, Start!Started
<1>3. PICK pc : /\ Went(t, pc)
                /\ \/ /\ once[p] = "done" /\ UNCHANGED <<once, tls>>
                      /\ \/ start[t].op = "lazy" /\ pc = "done"
                         \/ start[t].op # "lazy" /\ pc = "idle"
                   \/ /\ once' = [once EXCEPT ![p] = "running"] /\ pc = "create"
                      /\ tls' = [tls EXCEPT ![t] = IF @ # 0 THEN @ ELSE use.rank]
  BY <1>2, ReturnWent, GotoWent DEF StartInv, Where
<1>4. OnlyAt(t) /\ start'[t].op = start[t].op /\ start'[t].pc = pc
  BY <1>3 DEF Went
<1>5. p \in Start!Procs /\ Start!Procs = {"parent", "child"}
      /\ (t \in Callers => p = "parent")
  BY ProcOf
<1> HIDE DEF p
<1>6. /\ once \in [Start!Procs -> {"no", "running", "done"}]
      /\ tls \in [Everyone -> {use.rank} \cup use.asked]
  BY DEF StartInv, StartTypes
<1>7. start[t].op \in {"lazy", "native"}
  BY <1>1 DEF StartInv, ControlInv, Proper
<1>8. Proper(start'[t], t, use)
  BY <1>1, <1>3, <1>7, WentProper DEF StartInv
<1>9. StartTypes'
  <2>1. once' \in [Start!Procs -> {"no", "running", "done"}]
    BY <1>3, <1>5, <1>6
  <2>2. tls' \in [Everyone -> {use.rank} \cup use.asked]
    BY <1>3, <1>6
  <2> QED
    BY <1>1, <2>1, <2>2 DEF StartInv, StartTypes
<1>10. ControlInv'
  BY <1>1, <1>4, <1>8, ControlKept DEF StartInv
<1>11. LockInv'
  BY <1>1, <1>4, <1>7, LockKept DEF StartInv, LockInv, Holding
<1>12. RunInv'
  <2>1. once'["parent"] = "done" => once["parent"] = "done"
    BY <1>3, <1>5, <1>6
  <2>2. pc = "done" /\ t \in Callers => once["parent"] = "done"
    BY <1>3, <1>5
  <2> QED
    BY <1>1, <1>4, <2>1, <2>2 DEF StartInv, RunInv, OnlyAt, Everyone
<1>13. PendingInv'
  <2>1. \A u \in Callers : u # t => tls'[u] = tls[u]
    BY <1>3, <1>6 DEF Everyone
  <2>2. ASSUME t \in Callers, Start!Solo, Aiming(start'[t])
        PROVE  Aimed(tls'[t], pending["parent"])
    <3>1. Aimed(tls[t], pending["parent"])
      BY <1>1, <1>4, <2>2, Zenon DEF StartInv, PendingInv, Aiming
    <3>2. tls'[t] = tls[t] \/ (tls[t] = 0 /\ tls'[t] = use.rank)
      BY <1>3, <1>6
    <3> QED
      BY <3>1, <3>2 DEF Aimed
  <2> QED
    BY <1>1, <1>4, <2>1, <2>2, PendingKept DEF StartInv
<1> QED
  BY <1>9, <1>10, <1>11, <1>12, <1>13 DEF StartInv

(* The runtime runs once RuntimeContext::create returned. *)
LEMMA CreateStart ==
  ASSUME NEW t \in Everyone, StartInv, Start!Create(t)
  PROVE  StartInv'
<1> DEFINE p == Start!Proc(t)
<1>1. /\ start[t].pc = "create" /\ tls[t] < Count
      /\ device' = [device EXCEPT ![p] = tls[t]] /\ once' = [once EXCEPT ![p] = "done"]
      /\ UNCHANGED <<initialized, badFork, pending, module, lock, tls, forked, thrown, use>>
  BY Zenon DEF Start!Create, Start!At, Start!impl, Start!InRange
<1>2. \/ start[t].op = "lazy" /\ Start!Goto(t, "done")
      \/ start[t].op # "lazy" /\ Start!Return(t, "ok")
  BY Zenon DEF Start!Create, Start!Started
<1>3. PICK pc : /\ Went(t, pc)
                /\ \/ start[t].op = "lazy" /\ pc = "done"
                   \/ start[t].op # "lazy" /\ pc = "idle"
  BY <1>2, ReturnWent, GotoWent DEF StartInv, Where
<1>4. OnlyAt(t) /\ start'[t].op = start[t].op /\ start'[t].pc = pc
  BY <1>3 DEF Went
<1>5. p \in Start!Procs /\ Start!Procs = {"parent", "child"}
      /\ (t \in Callers => p = "parent")
  BY ProcOf
<1> HIDE DEF p
<1>6. /\ once \in [Start!Procs -> {"no", "running", "done"}]
      /\ device \in [Start!Procs -> (0 .. Count - 1) \cup {1000}]
  BY DEF StartInv, StartTypes
<1>7. tls[t] \in 0 .. Count - 1 /\ tls[t] # 1000
  <2>1. tls[t] \in Nat
    BY StartAssumption DEF StartInv, StartTypes
  <2> QED
    BY <1>1, <2>1, StartAssumption
<1>8. start[t].op \in {"lazy", "native"}
  BY <1>1 DEF StartInv, ControlInv, Proper
<1>9. Proper(start'[t], t, use)
  BY <1>1, <1>3, <1>8, WentProper DEF StartInv
<1>10. StartTypes'
  <2>1. once' \in [Start!Procs -> {"no", "running", "done"}]
    BY <1>1, <1>5, <1>6
  <2>2. device' \in [Start!Procs -> (0 .. Count - 1) \cup {1000}]
    BY <1>1, <1>5, <1>6, <1>7
  <2> QED
    BY <1>1, <2>1, <2>2 DEF StartInv, StartTypes
<1>11. ControlInv'
  BY <1>1, <1>4, <1>9, ControlKept DEF StartInv
<1>12. LockInv'
  BY <1>1, <1>4, <1>8, LockKept DEF StartInv, LockInv, Holding
<1>13. RunInv'
  <2>1. device'["parent"] # 1000 \/ (p # "parent" /\ device'["parent"] = device["parent"])
    BY <1>1, <1>5, <1>6, <1>7
  <2>2. p # "parent" => once'["parent"] = once["parent"] /\ t \notin Callers
    BY <1>1, <1>5, <1>6
  <2> QED
    BY <1>1, <1>4, <2>1, <2>2 DEF StartInv, RunInv, OnlyAt, Everyone
<1>14. PendingInv'
  BY <1>1, <1>3, <1>4, PendingKept DEF StartInv, Aiming
<1> QED
  BY <1>10, <1>11, <1>12, <1>13, <1>14 DEF StartInv

(* A start that throws leaves the once_flag unset and the lock free. *)
LEMMA CreateThrowsStart ==
  ASSUME NEW t \in Everyone, StartInv, Start!CreateThrows(t)
  PROVE  StartInv'
<1> DEFINE p == Start!Proc(t)
<1>1. /\ once' = [once EXCEPT ![p] = "no"] /\ Start!Return(t, "error")
      /\ lock' = [lock EXCEPT ![p] = IF @ = t THEN "free" ELSE @]
      /\ UNCHANGED <<initialized, badFork, pending, module, device, tls, forked, use>>
  BY Zenon DEF Start!CreateThrows, Start!impl, Start!NoOne
<1>2. Went(t, "idle")
  BY <1>1, ReturnWent DEF StartInv
<1>3. OnlyAt(t) /\ start'[t].pc = "idle"
  BY <1>2 DEF Went
<1>4. p \in Start!Procs /\ Start!Procs = {"parent", "child"}
  BY ProcOf
<1>5. /\ lock' \in [Start!Procs -> Everyone \cup {"free"}]
      /\ \A u \in Callers : u # t /\ lock["parent"] = u => lock'["parent"] = u
  BY <1>1, Released, Zenon
<1> HIDE DEF p
<1>6. once \in [Start!Procs -> {"no", "running", "done"}]
  BY DEF StartInv, StartTypes
<1>7. once' \in [Start!Procs -> {"no", "running", "done"}]
      /\ (once'["parent"] = "done" => once["parent"] = "done")
  BY <1>1, <1>4, <1>6
<1>8. thrown' \in 0 .. MaxThrown
  <2>1. thrown' = thrown \/ (thrown < MaxThrown /\ thrown' = thrown + 1)
    BY Zenon DEF Start!CreateThrows
  <2>2. thrown \in 0 .. MaxThrown /\ MaxThrown \in Nat
    BY StartAssumption DEF StartInv, StartTypes
  <2> QED
    BY <2>1, <2>2
<1>9. StartTypes'
  BY <1>1, <1>5, <1>7, <1>8 DEF StartInv, StartTypes
<1>10. ControlInv'
  BY <1>1, <1>2, <1>3, WentProper, ControlKept DEF StartInv
<1>11. LockInv'
  BY <1>3, <1>5, LockKept DEF StartInv, Holding
<1>12. RunInv'
  BY <1>1, <1>3, <1>7, RunKept, Zenon DEF StartInv
<1>13. PendingInv'
  BY <1>1, <1>3, PendingKept, Zenon DEF StartInv, Aiming
<1> QED
  BY <1>9, <1>10, <1>11, <1>12, <1>13 DEF StartInv

(* A thread alone is the only one with a call open. *)
LEMMA OneAtWork ==
  ASSUME ControlInv, Start!Solo, NEW t \in Callers, NEW u \in Callers,
         start[t].pc # "idle", start[u].pc # "idle"
  PROVE  t = u
<1>1. use.calls[t] # 0 /\ use.calls[u] # 0
  BY DEF ControlInv, Proper, Everyone
<1> QED
  BY <1>1, Zenon DEF Start!Solo

(* set_device: a thread alone is not starting the runtime meanwhile. *)
LEMMA SetPendingStart ==
  ASSUME NEW t \in Everyone, StartInv, Start!SetPending(t)
  PROVE  StartInv'
<1> DEFINE p == Start!Proc(t)
<1>1. /\ start[t].pc = "set" /\ pending' = [pending EXCEPT ![p] = start[t].arg]
      /\ Start!Goto(t, "pass")
      /\ UNCHANGED <<initialized, badFork, module, lock, once, device, tls, forked, thrown, use>>
  BY Zenon DEF Start!SetPending, Start!At
<1>2. Went(t, "pass")
  BY <1>1, GotoWent DEF StartInv, Where
<1>3. OnlyAt(t) /\ start'[t].op = start[t].op /\ start'[t].pc = "pass"
  BY <1>2 DEF Went
<1>4. p \in Start!Procs /\ Start!Procs = {"parent", "child"}
      /\ (t \notin Callers => p = "child")
  BY ProcOf
<1> HIDE DEF p
<1>5. /\ pending \in [Start!Procs -> use.asked \cup {1000}] /\ start[t].arg \in use.asked
      /\ start[t].op = "set"
  BY <1>1 DEF StartInv, StartTypes, ControlInv, Proper
<1>6. pending' \in [Start!Procs -> use.asked \cup {1000}]
      /\ (t \notin Callers => pending'["parent"] = pending["parent"])
  BY <1>1, <1>4, <1>5
<1>7. StartTypes'
  BY <1>1, <1>6 DEF StartInv, StartTypes
<1>8. ControlInv'
  BY <1>1, <1>2, <1>3, WentProper, ControlKept DEF StartInv
<1>9. LockInv'
  BY <1>1, <1>3, LockKept DEF StartInv, Holding
<1>10. RunInv'
  BY <1>1, <1>3, RunKept DEF StartInv
<1>11. PendingInv'
  <2>1. CASE t \notin Callers
    BY <1>1, <1>3, <1>6, <2>1, PendingKept DEF StartInv
  <2>2. CASE t \in Callers
    <3>1. ASSUME Start!Solo, NEW u \in Callers PROVE ~Aiming(start'[u])
      <4>1. CASE u = t
        BY <1>3, <4>1 DEF Aiming
      <4>2. CASE u # t
        <5>1. start'[u] = start[u]
          BY <1>3, <4>2 DEF OnlyAt, Everyone
        <5>2. start[u].pc = "idle"
          BY <1>1, <2>2, <3>1, <4>2, OneAtWork DEF StartInv
        <5> QED
          BY <5>1, <5>2 DEF Aiming
      <4> QED
        BY <4>1, <4>2
    <3> QED
      BY <1>1, <3>1 DEF PendingInv, Start!Solo
  <2> QED
    BY <2>1, <2>2
<1> QED
  BY <1>7, <1>8, <1>9, <1>10, <1>11 DEF StartInv

LEMMA SetPassStart ==
  ASSUME NEW t \in Everyone, StartInv, Start!SetPass(t)
  PROVE  StartInv'
<1>1. /\ start[t].pc = "pass" /\ (Start!Return(t, "ok") \/ Start!Return(t, "error"))
      /\ tls' = tls \/ tls' = [tls EXCEPT ![t] = start[t].arg]
      /\ UNCHANGED <<initialized, badFork, pending, module, lock, once, device, forked, thrown,
                     use>>
  BY Zenon DEF Start!SetPass, Start!At, Start!impl
<1>2. Went(t, "idle")
  BY <1>1, ReturnWent DEF StartInv
<1>3. OnlyAt(t) /\ start'[t].pc = "idle"
  BY <1>2 DEF Went
<1>4. tls \in [Everyone -> {use.rank} \cup use.asked] /\ start[t].arg \in use.asked
  BY <1>1 DEF StartInv, StartTypes, ControlInv, Proper
<1>5. /\ tls' \in [Everyone -> {use.rank} \cup use.asked]
      /\ \A u \in Everyone : u # t => tls'[u] = tls[u]
  BY <1>1, <1>4
<1>6. StartTypes'
  BY <1>1, <1>5 DEF StartInv, StartTypes
<1>7. ControlInv'
  BY <1>1, <1>2, <1>3, WentProper, ControlKept DEF StartInv
<1>8. LockInv'
  BY <1>1, <1>3, LockKept DEF StartInv, Holding
<1>9. RunInv'
  BY <1>1, <1>3, RunKept DEF StartInv
<1>10. PendingInv'
  BY <1>1, <1>3, <1>5, PendingKept, Zenon DEF StartInv, Aiming, Everyone
<1> QED
  BY <1>6, <1>7, <1>8, <1>9, <1>10 DEF StartInv

(* The fork copies the parent's fields and leaves them as they are. *)
LEMMA ForkStart ==
  ASSUME NEW t \in Everyone, StartInv, Start!Fork(t)
  PROVE  StartInv'
<1>1. /\ badFork' = [badFork EXCEPT !["child"] = TRUE]
      /\ initialized' = [initialized EXCEPT !["child"] = TRUE]
      /\ pending' = [pending EXCEPT !["child"] = pending["parent"]]
      /\ module' = [module EXCEPT !["child"] = module["parent"]]
      /\ lock' = [lock EXCEPT !["child"] = lock["parent"]]
      /\ once' = [once EXCEPT !["child"] = once["parent"]]
      /\ device' = [device EXCEPT !["child"] = device["parent"]]
      /\ tls' = [tls EXCEPT ![Child] = tls[t]]
      /\ forked' = TRUE /\ UNCHANGED <<start, thrown, use>>
  BY Zenon DEF Start!Fork, Start!MarkAfterFork
<1>2. StartTypes
  BY DEF StartInv
<1>3. /\ initialized' \in [Start!Procs -> BOOLEAN] /\ badFork' \in [Start!Procs -> BOOLEAN]
      /\ module' \in [Start!Procs -> BOOLEAN]
      /\ initialized'["parent"] = initialized["parent"]
  BY <1>1, <1>2 DEF StartTypes, Start!Procs
<1>4. /\ pending' \in [Start!Procs -> use.asked \cup {1000}]
      /\ pending'["parent"] = pending["parent"]
  BY <1>1, <1>2 DEF StartTypes, Start!Procs
<1>5. /\ lock' \in [Start!Procs -> Everyone \cup {"free"}] /\ lock'["parent"] = lock["parent"]
  BY <1>1, <1>2 DEF StartTypes, Start!Procs
<1>6. /\ once' \in [Start!Procs -> {"no", "running", "done"}] /\ once'["parent"] = once["parent"]
  BY <1>1, <1>2 DEF StartTypes, Start!Procs
<1>7. /\ device' \in [Start!Procs -> (0 .. Count - 1) \cup {1000}]
      /\ device'["parent"] = device["parent"]
  BY <1>1, <1>2 DEF StartTypes, Start!Procs
<1>8. /\ tls' \in [Everyone -> {use.rank} \cup use.asked]
      /\ \A u \in Callers : tls'[u] = tls[u]
  <2> DEFINE R == {use.rank} \cup use.asked
  <2>1. tls \in [Everyone -> R] /\ tls' = [tls EXCEPT ![Child] = tls[t]]
    <3>1. tls \in [Everyone -> R]
      BY <1>2 DEF StartTypes
    <3> QED
      BY <1>1, <3>1, Zenon
  <2>2. \A u \in Callers : u \in Everyone /\ u # Child
    BY StartAssumption DEF Everyone
  <2> HIDE DEF R
  <2>3. tls' \in [Everyone -> R] /\ \A u \in Callers : tls'[u] = tls[u]
    BY <2>1, <2>2
  <2> QED
    BY <2>3 DEF R
<1>9. StartTypes'
  <2>1. use' = use /\ forked' \in BOOLEAN /\ thrown' = thrown
    BY <1>1, Zenon
  <2>2. use \in Uses /\ thrown \in 0 .. MaxThrown
    BY <1>2 DEF StartTypes
  <2>3. /\ use' \in Uses /\ thrown' \in 0 .. MaxThrown
        /\ pending' \in [Start!Procs -> use'.asked \cup {1000}]
        /\ tls' \in [Everyone -> {use'.rank} \cup use'.asked]
    BY <1>4, <1>8, <2>1, <2>2
  <2> QED
    BY <1>3, <1>5, <1>6, <1>7, <2>1, <2>3, Zenon DEF StartTypes
<1>10. ControlInv'
  BY <1>1 DEF StartInv, ControlInv
<1>11. LockInv' /\ RunInv'
  BY <1>1, <1>3, <1>5, <1>6, <1>7 DEF StartInv, LockInv, RunInv
<1>12. PendingInv'
  BY <1>1, <1>4, <1>8 DEF StartInv, PendingInv, Aimed, Start!Solo
<1> QED
  BY <1>9, <1>10, <1>11, <1>12 DEF StartInv

LEMMA NextStart == StartInv /\ [Start!Next]_startVars => StartInv'
<1> SUFFICES ASSUME StartInv, Start!Next \/ UNCHANGED startVars PROVE StartInv'
  BY Zenon
<1>1. ASSUME NEW t \in Everyone, Start!Call(t) \/ Start!Fork(t) PROVE StartInv'
  BY <1>1, CallStart, ForkStart
<1>2. ASSUME NEW t \in Everyone, Start!Step(t) PROVE StartInv'
  BY <1>2, LazyStepsStart, LazyLockStart, ApplyStart, LazyDoneStart, OnceEnterStart,
     CreateStart, CreateThrowsStart, SetPendingStart, SetPassStart, Zenon DEF Start!Step
<1>3. CASE UNCHANGED startVars
  <2>1. UNCHANGED <<initialized, badFork, pending, module, lock, once, device, tls, start,
                    forked, thrown, use>>
    BY <1>3 DEF startVars
  <2>2. StartTypes /\ ControlInv /\ LockInv /\ RunInv /\ PendingInv
    BY DEF StartInv
  <2>3. StartTypes'
    BY <2>1, <2>2 DEF StartTypes
  <2>4. ControlInv'
    BY <2>1, <2>2 DEF ControlInv
  <2>5. LockInv' /\ RunInv'
    BY <2>1, <2>2 DEF LockInv, RunInv
  <2>6. PendingInv'
    BY <2>1, <2>2 DEF PendingInv, Aimed, Start!Solo
  <2> QED
    BY <2>3, <2>4, <2>5, <2>6 DEF StartInv
<1> QED
  BY <1>1, <1>2, <1>3, Zenon DEF Start!Next, Start!All, Everyone

(* What the invariant says is what the runs check. *)
LEMMA StartHolds == StartInv => Start!TypeOK /\ Start!InitializedMeansStarted
<1> SUFFICES ASSUME StartInv PROVE Start!TypeOK /\ Start!InitializedMeansStarted
  OBVIOUS
<1>1. \A t \in Callers :
        Start!At(t, "once") /\ start[t].op = "lazy" => lock["parent"] = t
  BY DEF StartInv, LockInv, Holding, Start!At
<1>2. Start!TypeOK
  <2>1. Start!All = Everyone /\ Start!None = 1000 /\ Start!NoOne = "free"
    BY Zenon DEF Start!All, Everyone, Start!None, Start!NoOne
  <2>2. StartTypes
    BY DEF StartInv
  <2>3. /\ pending \in [Start!Procs -> use.asked \cup {Start!None}]
        /\ lock \in [Start!Procs -> Start!All \cup {Start!NoOne}]
        /\ device \in [Start!Procs -> (0 .. Count - 1) \cup {Start!None}]
        /\ tls \in [Start!All -> {use.rank} \cup use.asked]
    BY <2>1, <2>2 DEF StartTypes
  <2>4. /\ initialized \in [Start!Procs -> BOOLEAN] /\ badFork \in [Start!Procs -> BOOLEAN]
        /\ module \in [Start!Procs -> BOOLEAN]
        /\ once \in [Start!Procs -> {"no", "running", "done"}]
        /\ forked \in BOOLEAN /\ thrown \in 0 .. MaxThrown
    BY <2>2 DEF StartTypes
  <2> QED
    BY <1>1, <2>3, <2>4, Zenon DEF Start!TypeOK
<1>3. Start!InitializedMeansStarted
  BY Zenon DEF StartInv, RunInv, Start!InitializedMeansStarted, Start!None
<1> QED
  BY <1>2, <1>3

(* The device of the process changes only where the start is created. *)
LEMMA StartAims ==
  StartInv /\ [Start!Next]_startVars => (Start!Solo => Start!OnPendingDevice)
<1> SUFFICES ASSUME StartInv, Start!Next \/ UNCHANGED startVars, Start!Solo,
                    device'["parent"] # device["parent"]
             PROVE  \/ pending["parent"] \in {1000, device'["parent"]}
                    \/ pending["parent"] = 0 /\ device'["parent"] = use.rank
  BY DEF Start!OnPendingDevice, Start!None
<1>1. device \in [Start!Procs -> (0 .. Count - 1) \cup {1000}]
  BY DEF StartInv, StartTypes
<1>2. device' # device
  OBVIOUS
<1>3. ASSUME NEW t \in Everyone, Start!Create(t)
      PROVE  \/ pending["parent"] \in {1000, device'["parent"]}
             \/ pending["parent"] = 0 /\ device'["parent"] = use.rank
  <2>1. start[t].pc = "create" /\ device' = [device EXCEPT ![Start!Proc(t)] = tls[t]]
    BY <1>3, Zenon DEF Start!Create, Start!At
  <2>2. t \in Callers /\ device'["parent"] = tls[t]
    BY <1>1, <2>1, ProcOf
  <2>3. start[t].op = "lazy"
    BY <2>1, <2>2 DEF StartInv, ControlInv, Proper, Start!Solo, Everyone
  <2>4. Aimed(tls[t], pending["parent"])
    BY <2>1, <2>2, <2>3 DEF StartInv, PendingInv, Aiming
  <2> QED
    BY <2>2, <2>4 DEF Aimed
<1>4. ASSUME NEW t \in Everyone, Start!Fork(t) PROVE FALSE
  <2>1. device' = [device EXCEPT !["child"] = device["parent"]]
    BY <1>4, Zenon DEF Start!Fork
  <2> QED
    BY <1>1, <2>1 DEF Start!Procs
<1>5. ASSUME NEW t \in Everyone, Start!Call(t) \/ (Start!Step(t) /\ ~Start!Create(t))
      PROVE  FALSE
  BY <1>2, <1>5, Zenon
     DEF Start!Call, Start!Step, Start!LazyCheck, Start!LazyLock, Start!Apply, Start!LazyStart,
         Start!LazyDone, Start!NativeEntry, Start!OnceEnter, Start!CreateThrows,
         Start!SetPending, Start!SetPass
<1>6. CASE UNCHANGED startVars
  BY <1>2, <1>6 DEF startVars
<1>7. CASE Start!Next
  <2>1. PICK t \in Everyone : Start!Call(t) \/ Start!Step(t) \/ Start!Fork(t)
    BY <1>7, Zenon DEF Start!Next, Start!All, Everyone
  <2> QED
    BY <1>3, <1>4, <1>5, <2>1
<1> QED
  BY <1>6, <1>7

-----------------------------------------------------------------------------
(* The steps of the suite are those of its components. *)
LEMMA SuiteSteps ==
  [SuiteNext]_suiteVars => [Handle!Next]_callVars /\ [Start!Next]_startVars
<1>1. UNCHANGED suiteVars => UNCHANGED callVars /\ UNCHANGED startVars
  BY DEF suiteVars
<1> QED
  BY <1>1, Zenon DEF SuiteNext

(* SpyreCCLWork, for any threads and any number of calls: nobody is told early; *)
(* a failure is kept in exception_, also when wait() returns true after a poll   *)
(* met it; and wait() that returned true leaves the future resolved.             *)
THEOREM SuiteWork == SuiteSpec => []WorkTruthful
<1>1. SuiteInit => WorkInv
  BY InitWork DEF SuiteInit
<1>2. WorkInv /\ [SuiteNext]_suiteVars => WorkInv'
  BY SuiteSteps, NextWork
<1> QED
  BY <1>1, <1>2, WorkHolds, PTL DEF SuiteSpec

(* _lazy_init, set_device and startRuntime, for any threads and any use of      *)
(* them: is_initialized() says yes only when the runtime runs, and for a thread *)
(* that is alone the runtime starts on the device set_device() asked for last.   *)
THEOREM SuiteStart == SuiteSpec => StartSound
<1>1. SuiteInit => StartInv
  BY InitStart DEF SuiteInit
<1>2. StartInv /\ [SuiteNext]_suiteVars => StartInv'
  BY SuiteSteps, NextStart
<1>3. StartInv /\ [SuiteNext]_suiteVars => [Start!Solo => Start!OnPendingDevice]_suiteVars
  BY SuiteSteps, StartAims
<1> QED
  BY <1>1, <1>2, <1>3, StartHolds, PTL DEF SuiteSpec, StartSound

=============================================================================
