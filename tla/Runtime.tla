------------------------------ MODULE Runtime ------------------------------
(***************************************************************************)
(* Two components around the device runtime that threads enter at once:    *)
(* the handle of a collective, and the start of the runtime.  They share   *)
(* no state: a behaviour is one of one component, `part` says of which,    *)
(* and the variables of the other keep their initial values.               *)
(***************************************************************************)
EXTENDS Naturals

CONSTANTS
    Parts,                       \* the components considered
    Callers,                     \* the threads
    MaxCalls,                    \* CollectiveWork: the calls of one thread
    Child, Count, Uses, MaxThrown   \* RuntimeInit

ASSUME WorkAssumption == MaxCalls \in Nat

\* "free" stands for a lock nobody holds, 1000 for no device index.
ASSUME StartAssumption ==
    /\ Child \notin Callers /\ "free" \notin Callers
    /\ Count \in 1 .. 1000 /\ MaxThrown \in Nat
    /\ \A u \in Uses : /\ u.rank \in Nat /\ u.asked \subseteq Nat
                       /\ u.calls \in [Callers \cup {Child} -> Nat]

VARIABLES
    part,
    \* CollectiveWork
    schedule, completed, exception, future, call,
    \* RuntimeInit
    initialized, badFork, pending, module, lock, once, device, tls, start, forked, thrown,
    use

Handle == INSTANCE CollectiveWork WITH Threads <- Callers, th <- call

Start == INSTANCE RuntimeInit
           WITH Threads <- Callers, MaxFaults <- MaxThrown, th <- start, faults <- thrown

-----------------------------------------------------------------------------
callVars == <<schedule, completed, exception, future, call>>
startVars == <<initialized, badFork, pending, module, lock, once, device, tls, start, forked,
               thrown, use>>
suiteVars == <<part, callVars, startVars>>

\* Of the inputs of a component that is not at work, one will do.
SuiteInit ==
    /\ part \in Parts
    /\ Handle!Init /\ Start!Init
    /\ part # "start" => use = CHOOSE u \in Uses : TRUE

SuiteNext ==
    /\ UNCHANGED part
    /\ \/ part = "work" /\ Handle!Next /\ UNCHANGED startVars
       \/ part = "start" /\ Start!Next /\ UNCHANGED callVars

\* The fairness of each component, for its own behaviours.
SuiteFairness ==
    /\ WF_callVars(part = "work" /\ Handle!Progress)
    /\ \A t \in Callers : WF_callVars(part = "work" /\ Handle!Step(t))
    /\ \A t \in Callers \cup {Child} : WF_startVars(part = "start" /\ Start!Step(t))

SuiteSpec == SuiteInit /\ [][SuiteNext]_suiteVars /\ SuiteFairness

-----------------------------------------------------------------------------
\* SpyreCCLWork: nobody is told early, whatever the other threads time out on or
\* store back; a failure is kept in exception_, so that isSuccess() is false by
\* the time a call returns true for a failed collective (wait() does, after a
\* poll met the failure); wait() that returned true leaves the future resolved.
WorkTruthful ==
    Handle!TypeOK /\ Handle!NeverEarly /\ Handle!FailureVisible /\ Handle!WaitResolves

\* _lazy_init and set_device: is_initialized() says yes only when the runtime
\* runs, not while another thread is still in startRuntime() and not after a
\* start that threw; for a thread that is alone and comes through Python, the
\* runtime starts on the device the last set_device() asked for.
StartSound ==
    /\ [](Start!TypeOK /\ Start!InitializedMeansStarted)
    /\ [][Start!Solo => Start!OnPendingDevice]_suiteVars
=============================================================================
