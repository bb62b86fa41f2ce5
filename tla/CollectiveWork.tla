--------------------------- MODULE CollectiveWork ---------------------------
(***************************************************************************)
(* SpyreCCLWork (csrc/distributed/spyre_ccl.cpp): the handle of one        *)
(* collective, polled with isCompleted() and waited for with wait() by     *)
(* several threads.  The object takes no lock, so every read and write of  *)
(* completed_, exception_ and the future is a step of its own.  The        *)
(* schedule of spyre_comms is external: it runs until it is done or has    *)
(* failed, query() and wait() throw once it failed, and it stays so.       *)
(***************************************************************************)
EXTENDS Naturals

CONSTANTS Threads, MaxCalls   \* MaxCalls bounds the calls of one thread

VARIABLES
    schedule,    \* work_schedule_
    completed,   \* completed_
    exception,   \* exception_: "none", "device" or "timeout"
    future,      \* future_: "pending" or "resolved"
    th           \* per thread: the call, where it is, what it read, its result

vars == <<schedule, completed, exception, future, th>>
object == <<schedule, completed, exception, future>>

Ended == schedule # "running"
Idle == [op |-> "none", pc |-> "idle", done |-> FALSE, ret |-> "none", calls |-> 0]

Init ==
    /\ schedule = "running"
    /\ completed = FALSE /\ exception = "none" /\ future = "pending"
    /\ th = [t \in Threads |-> Idle]

Goto(t, pc) == th' = [th EXCEPT ![t].pc = pc]
Return(t, ret) == th' = [th EXCEPT ![t] = [@ EXCEPT !.pc = "idle", !.ret = ret]]

\* The device finishes the collective, or gives it up.
Progress ==
    /\ ~Ended /\ \E s \in {"done", "failed"} : schedule' = s
    /\ UNCHANGED <<completed, exception, future, th>>

Call(t, op) ==
    /\ th[t].pc = "idle" /\ th[t].calls < MaxCalls
    /\ th' = [th EXCEPT ![t] = [@ EXCEPT !.op = op, !.pc = "enter", !.ret = "none",
                                         !.calls = th[t].calls + 1]]
    /\ UNCHANGED object

-----------------------------------------------------------------------------
\* isCompleted() asks the schedule only while completed_ is not set.
IsCompleted(t) ==
    /\ th[t].op = "isCompleted" /\ th[t].pc = "enter"
    /\ Goto(t, IF completed THEN "return" ELSE "query")
    /\ UNCHANGED object

Query(t) ==
    /\ th[t].op = "isCompleted" /\ th[t].pc = "query"
    /\ th' = [th EXCEPT ![t] = [@ EXCEPT !.pc = IF schedule = "failed" THEN "catch"
                                                ELSE "store",
                                         !.done = schedule = "done"]]
    /\ UNCHANGED object

\* completed_ = query(): may take back what another thread has set.
Store(t) ==
    /\ th[t].op = "isCompleted" /\ th[t].pc = "store"
    /\ completed' = th[t].done
    /\ Goto(t, "resolve")
    /\ UNCHANGED <<schedule, exception, future>>

\* The catch blocks: only isCompleted() goes on to set completed_.
Catch(t) ==
    /\ th[t].pc = "catch"
    /\ exception' = "device"
    /\ IF th[t].op = "isCompleted" THEN Goto(t, "rethrow") ELSE Return(t, "throw")
    /\ UNCHANGED <<schedule, completed, future>>

Rethrow(t) ==
    /\ th[t].pc = "rethrow"
    /\ completed' = TRUE
    /\ Return(t, "throw")
    /\ UNCHANGED <<schedule, exception, future>>

-----------------------------------------------------------------------------
Wait(t) ==
    /\ th[t].op \in {"wait", "timedWait"} /\ th[t].pc = "enter"
    /\ Goto(t, IF completed THEN "resolve" ELSE "block")
    /\ UNCHANGED object

\* Mutant: the timed loop gives up as if the work were done.
BlockGivesUp(t) ==
    /\ th[t].pc = "block" /\ (Ended \/ th[t].op = "timedWait")
    /\ Goto(t, IF schedule = "failed" THEN "catch" ELSE "finish")
    /\ UNCHANGED object

\* wait() blocks in the schedule; the timed one polls it.
Block(t) ==
    /\ th[t].pc = "block" /\ Ended
    /\ Goto(t, IF schedule = "failed" THEN "catch" ELSE "finish")
    /\ UNCHANGED object

Timeout(t) ==
    /\ th[t].pc = "block" /\ th[t].op = "timedWait" /\ ~Ended
    /\ exception' = "timeout"
    /\ Return(t, "throw")
    /\ UNCHANGED <<schedule, completed, future>>

Finish(t) ==
    /\ th[t].pc = "finish"
    /\ completed' = TRUE
    /\ Goto(t, "resolve")
    /\ UNCHANGED <<schedule, exception, future>>

\* `if (!future_->completed())`; isCompleted() reads completed_ again first.
Resolve(t) ==
    /\ th[t].pc = "resolve"
    /\ Goto(t, IF future = "pending" /\ (th[t].op = "isCompleted" => completed)
               THEN "mark" ELSE "return")
    /\ UNCHANGED object

\* markCompleted: throws when another thread marked the future in between.
Mark(t) ==
    /\ th[t].pc = "mark"
    /\ future' = "resolved"
    /\ IF future = "pending" THEN Goto(t, "return") ELSE Return(t, "throw")
    /\ UNCHANGED <<schedule, completed, exception>>

Leave(t) ==
    /\ th[t].pc = "return"
    /\ Return(t, IF th[t].op = "isCompleted" /\ ~completed THEN "false" ELSE "true")
    /\ UNCHANGED object

Finished ==
    /\ Ended /\ \A t \in Threads : th[t].pc = "idle" /\ th[t].calls = MaxCalls
    /\ UNCHANGED vars

Step(t) ==
    \/ IsCompleted(t) \/ Query(t) \/ Store(t) \/ Catch(t) \/ Rethrow(t)
    \/ Wait(t) \/ Block(t) \/ Timeout(t) \/ Finish(t)
    \/ Resolve(t) \/ Mark(t) \/ Leave(t)

Next ==
    \/ Progress
    \/ \E t \in Threads :
          \/ \E op \in {"isCompleted", "wait", "timedWait"} : Call(t, op)
          \/ Step(t)
    \/ Finished

Spec == Init /\ [][Next]_vars

\* The device ends every collective and every thread keeps running.
FairSpec == Spec /\ WF_vars(Progress) /\ \A t \in Threads : WF_vars(Step(t))

-----------------------------------------------------------------------------
\* The fields and calls of SpyreCCLWork; only a wait() blocks, a poll never.
TypeOK ==
    /\ schedule \in {"running", "done", "failed"}
    /\ completed \in BOOLEAN /\ future \in {"pending", "resolved"}
    /\ exception \in {"none", "device", "timeout"}
    /\ \A t \in Threads :
          /\ th[t].op \in {"none", "isCompleted", "wait", "timedWait"}
          /\ th[t].ret \in {"none", "true", "false", "throw"}
          /\ th[t].calls \in 0..MaxCalls
          /\ th[t].pc = "block" => th[t].op # "isCompleted"

\* Nobody is told early: while the collective runs completed_ is not set,
\* the future is pending and no call has returned true, whatever the other
\* threads time out on or store back.
NeverEarly ==
    ~Ended => /\ ~completed /\ future = "pending"
              /\ \A t \in Threads : th[t].ret # "true"

\* A failure is kept: wait() returns true for a failed collective once a poll
\* has met the failure and set completed_, but exception_ is set by then and
\* stays set, so isSuccess() is false whenever a call has returned true.
FailureVisible ==
    (schedule = "failed" /\ \E t \in Threads : th[t].ret = "true")
        => exception # "none"

\* wait() that returned true leaves the future resolved.
WaitResolves ==
    \A t \in Threads :
        (th[t].op # "isCompleted" /\ th[t].ret = "true") => future = "resolved"

\* A caller that polls isCompleted() sees a resolved future once it is true.
PollResolves ==
    \A t \in Threads :
        (th[t].op = "isCompleted" /\ th[t].ret = "true") => future = "resolved"

\* Every call returns: a waiter is released by failure as by success.
CallsReturn == \A t \in Threads : th[t].pc # "idle" ~> th[t].pc = "idle"
=============================================================================
