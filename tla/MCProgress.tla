------------------------------ MODULE MCProgress ------------------------------
(***************************************************************************)
(* The components in which somebody waits, one at a time: a behaviour      *)
(* belongs to one part and leaves the variables of the others alone, so    *)
(* that one run asks of all of them whether everybody is served.           *)
(***************************************************************************)
EXTENDS ProviderGenerations

CONSTANTS None, p1, p2, s1, s2

VARIABLES
    part,
    tree, published, index, slot, sent,         \* TreeQueueManager
    episode, recoveries, exec, free,            \* ProviderAdmission
    queue, entry, call, worker, shown, stopping,  \* MessagingLimiter
    memory, file, dirty, generation, timer, held, \* SessionPersistence
    writer, at, pending, promised, misses

treesVars     == <<tree, published, index, slot, sent>>
admissionVars == <<episode, recoveries, exec, free>>
limiterVars   == <<queue, entry, call, worker, shown, stopping>>
storeVars     == <<memory, file, dirty, generation, timer, held, writer, at, pending, promised, misses>>

progressVars  == <<part, vars, treesVars, admissionVars, limiterVars, storeVars>>

-----------------------------------------------------------------------------
Prompts == {p1, p2}
Claims  == 1 .. 3

Conversations == INSTANCE TreeQueueManager WITH
    Statuses <- 1 .. 3, Trees <- {1}, Scopes <- {"a"}, ScopeOf <- [r \in Prompts \cup 1 .. 3 |-> "a"]

Sessions == {s1, s2}

Admission == INSTANCE ProviderAdmission WITH
    MaxAttempts <- 3, MaxConcurrency <- 1, MidstreamRecovery <- FALSE, CloseMayRaise <- FALSE,
    generation <- recoveries

Calls == {1, 2}

Limiter == INSTANCE MessagingLimiter WITH
    Keys <- {"m1", "m2"}, MaxCalls <- 2, Kinds <- {"awaited", "detached"}, TransientFailures <- TRUE,
    closing <- stopping

Store == INSTANCE SessionPersistence WITH
    MaxGeneration <- 2, MaxFailures <- 1, failures <- misses

Parts == {"generations", "trees", "admission", "store", "limiter"}

InitProgress ==
    part \in Parts /\ Init /\ Conversations!Init /\ Admission!Init /\ Limiter!Init /\ Store!Init

NextProgress ==
    /\ UNCHANGED part
    /\ \/ /\ part = "generations" /\ Next
          /\ UNCHANGED <<treesVars, admissionVars, limiterVars, storeVars>>
       \/ /\ part = "trees" /\ Conversations!Next
          /\ UNCHANGED <<vars, admissionVars, limiterVars, storeVars>>
       \/ /\ part = "admission" /\ Admission!Next
          /\ UNCHANGED <<vars, treesVars, limiterVars, storeVars>>
       \/ /\ part = "limiter" /\ Limiter!Next
          /\ UNCHANGED <<vars, treesVars, admissionVars, storeVars>>
       \/ /\ part = "store" /\ Store!Next
          /\ UNCHANGED <<vars, treesVars, admissionVars, limiterVars>>

(* The fairness each module states and justifies, for the behaviours of its part. *)
Fairness ==
    /\ \A c \in Clients : WF_vars(part = "generations" /\ Release(c))
    /\ \A g \in Generations :
          /\ WF_vars(part = "generations" /\ (CleanupSucceeds(g) \/ CleanupFails(g)))
          /\ WF_vars(part = "generations" /\ RefreshEnter(g))
          /\ WF_vars(part = "generations" /\ RefreshEnd(g))
    /\ WF_vars(part = "generations" /\ RefreshNow) /\ WF_vars(part = "generations" /\ RefreshDone)
    /\ WF_vars(part = "generations" /\ Prepare) /\ WF_vars(part = "generations" /\ (PrepareFails \/ Publish))
    /\ WF_vars(part = "generations" /\ ReplaceDone)
    /\ WF_vars(part = "generations" /\ (CandidateKept \/ UnpublishedCleaned("replace")))
    /\ SF_vars(part = "generations" /\ CloseBegin)
    /\ WF_vars(part = "generations" /\ RetireCurrent) /\ WF_vars(part = "generations" /\ CloseAll)
    /\ WF_vars(part = "generations" /\ Joined) /\ WF_vars(part = "generations" /\ CloseDone)
    /\ \A c \in Claims :
          /\ WF_treesVars(part = "trees" /\ Conversations!TaskStep(c))
          /\ WF_treesVars(part = "trees" /\ (Conversations!RunnerCompletes(c) \/ Conversations!RunnerFails(c)))
    /\ \A s \in Sessions :
          /\ WF_admissionVars(part = "admission" /\ (Admission!Awake(s) \/ Admission!Wake(s) \/ Admission!PassRate(s)))
          /\ SF_admissionVars(part = "admission" /\ Admission!TakeSlot(s))
          /\ WF_admissionVars(part = "admission" /\ Admission!Upstream(s))
          /\ WF_admissionVars(part = "admission" /\ Admission!Closing(s))
    /\ WF_admissionVars(part = "admission" /\ Admission!DelayElapses)
    /\ WF_admissionVars(part = "admission" /\ Admission!CooldownEnds)
    /\ WF_storeVars(part = "store" /\ Store!Schedule) /\ WF_storeVars(part = "store" /\ Store!Supersede)
    /\ \A t \in Store!Timers : WF_storeVars(part = "store" /\ Store!Fire(t))
    /\ \A t \in Store!Threads : WF_storeVars(part = "store" /\ Store!Write(t))
    /\ \A c \in Calls : WF_limiterVars(part = "limiter" /\ Limiter!Enqueue(c))
    /\ WF_limiterVars(part = "limiter" /\ Limiter!Take) /\ WF_limiterVars(part = "limiter" /\ Limiter!Run)
    /\ WF_limiterVars(part = "limiter" /\ (Limiter!Deliver \/ Limiter!Fail \/ Limiter!Break))
    /\ WF_limiterVars(part = "limiter" /\ Limiter!WorkerStops)
    /\ WF_limiterVars(part = "limiter" /\ Limiter!ShutdownEnds)

FairProgress == InitProgress /\ [][NextProgress]_progressVars /\ Fairness

-----------------------------------------------------------------------------
(* Properties.  The parts are stated in the modules, with the code they are about. *)

\* provider_manager.py: a retired generation is closed without waiting for the shutdown, and
\* the shutdown never hangs.
GenerationsEnd == RetiredIsClosed /\ ShutdownReturns

\* trees/processor.py: every turn that was admitted is settled.
TurnsSettle == Conversations!TurnsSettle

\* admission.py: no execution hangs at the gate, in a backoff or for its slot.
ExecutionsEnd == Admission!ExecutionsEnd

\* limiter.py, persistence.py: every delivery is answered, the event loop gets through every
\* save, flush and clear, and a change reaches the disk unless writes fail.
EverythingIsDelivered == Limiter!EveryCallEnds /\ Store!LoopReturns /\ Store!ChangesAreSaved
=============================================================================
