------------------------ MODULE ProviderGenerations ------------------------
(***************************************************************************)
(* The provider generations of a server and their leases                   *)
(* (src/codefa/runtime/provider_manager.py).                               *)
(*                                                                         *)
(* One event loop runs requests, the background refresh each generation    *)
(* gets when it is published, the manager's cleanup tasks, and three kinds *)
(* of caller: an Admin Apply (replace), an explicit model refresh and the  *)
(* shutdown (close).  An action is what runs between two suspensions.  The *)
(* operations under the replace lock exclude each other; a caller that     *)
(* waits for the lock has not begun, except the shutdown.                  *)
(***************************************************************************)
EXTENDS Integers, FiniteSets

CONSTANTS
    Clients,         \* requests, each holds at most one lease
    MaxGeneration,   \* how many generations are published at most
    MaxUnpublished,  \* how many failed candidates may be kept at a time
    MaxFailures      \* how many cleanups of generations may fail

ASSUME GenerationsAssumption ==
    /\ MaxGeneration \in Nat \ {0} /\ MaxUnpublished \in Nat /\ MaxFailures \in Nat

Generations == 1..MaxGeneration
Operations == {"replace", "refresh", "close"}

VARIABLES
    gen,          \* the _ProviderGeneration objects
    current,      \* _current
    next,         \* _next_generation_id
    retired,      \* the keys of _retired
    unpublished,  \* how many candidate runtimes are in _unpublished
    task,         \* the background refresh of each generation
    refreshTask,  \* _refresh_task: the generation it refreshes, or 0
    lease,        \* the generation each request leases, or 0
    pc,           \* where each operation is
    arg,          \* the generation that operation waits for or refreshes, or 0
    closing, closed, failures

vars == <<gen, current, next, retired, unpublished, task, refreshTask, lease, pc, arg,
          closing, closed, failures>>

(* cleanups: the cleanup tasks of the generation that have not ended. *)
Generation == [leases : Nat, retired : BOOLEAN, closed : BOOLEAN, cleanups : Nat]

NewGeneration == [leases |-> 0, retired |-> FALSE, closed |-> FALSE, cleanups |-> 0]

(* "cancelled": cancellation is requested and the body never ran.  A refresh that
   holds its lease ends the same way whether it was cancelled or not. *)
Refresh == {"none", "scheduled", "cancelled", "leased", "done"}

(* "cancelling": in _cancel_refresh.  "preparing": retrying unpublished candidates,
   up to the commit.  "cleaning": the candidate that failed is cleaned up.
   "joining": waiting for cleanup tasks.  "draining": waiting for the leases. *)
Holding == {"cancelling", "preparing", "cleaning", "joining", "refreshing"}
Place == Holding \cup {"idle", "waiting", "draining", "retrying"}

Init ==
    /\ gen = [g \in Generations |-> NewGeneration]
    /\ current = 1 /\ next = 2
    /\ retired = {} /\ unpublished = 0
    /\ task = [g \in Generations |-> IF g = 1 THEN "scheduled" ELSE "none"]
    /\ refreshTask = 1
    /\ lease = [c \in Clients |-> 0]
    /\ pc = [o \in Operations |-> "idle"] /\ arg = [o \in Operations |-> 0]
    /\ closing = FALSE /\ closed = FALSE /\ failures = 0

-----------------------------------------------------------------------------
(* Leases and cleanup tasks *)

\* Deviation, for the mutation runs: the task that is already cleaning is not joined.
CloseGeneration_Again(gs, g) ==
    IF gs[g].closed \/ gs[g].leases # 0 THEN gs
    ELSE [gs EXCEPT ![g].cleanups = @ + 1]

\* The generations when _close_generation(g) has found or started its cleanup task.
CloseGeneration(gs, g) ==
    IF gs[g].closed \/ gs[g].leases # 0 \/ gs[g].cleanups > 0 THEN gs
    ELSE [gs EXCEPT ![g].cleanups = @ + 1]

Leased(g) == [gen EXCEPT ![g].leases = @ + 1]

\* Deviation, for the mutation runs: the last lease closes nothing.
Released_Never(g) == [gen EXCEPT ![g].leases = @ - 1]

Released(g) ==
    LET gs == [gen EXCEPT ![g].leases = @ - 1]
    IN  IF gs[g].leases = 0 /\ gs[g].retired /\ ~closing
        THEN CloseGeneration(gs, g) ELSE gs

\* Deviation, for the mutation runs: only a closed manager rejects.
Accepting_UntilClosed == ~closed
Accepting == ~closing /\ ~closed

Acquire(c) ==
    /\ Accepting /\ lease[c] = 0
    /\ lease' = [lease EXCEPT ![c] = current]
    /\ gen' = Leased(current)
    /\ UNCHANGED <<current, next, retired, unpublished, task, refreshTask, pc, arg,
                   closing, closed, failures>>

\* Deviation, for the mutation runs: a lease may be released more than once.
Release_Repeated(c) ==
    /\ lease[c] # 0
    /\ gen' = Released(lease[c])
    /\ UNCHANGED <<current, next, retired, unpublished, task, refreshTask, lease, pc, arg,
                   closing, closed, failures>>

Release(c) ==
    /\ lease[c] # 0
    /\ lease' = [lease EXCEPT ![c] = 0]
    /\ gen' = Released(lease[c])
    /\ UNCHANGED <<current, next, retired, unpublished, task, refreshTask, pc, arg,
                   closing, closed, failures>>

CleanupSucceeds(g) ==
    /\ gen[g].cleanups > 0
    /\ gen' = [gen EXCEPT ![g].cleanups = @ - 1, ![g].closed = TRUE]
    /\ retired' = retired \ {g}
    /\ UNCHANGED <<current, next, unpublished, task, refreshTask, lease, pc, arg,
                   closing, closed, failures>>

\* Deviation, for the mutation runs: a generation that failed to close is forgotten.
CleanupFails_Forgotten(g) ==
    /\ gen[g].cleanups > 0 /\ failures < MaxFailures
    /\ failures' = failures + 1
    /\ gen' = [gen EXCEPT ![g].cleanups = @ - 1]
    /\ retired' = retired \ {g}
    /\ UNCHANGED <<current, next, unpublished, task, refreshTask, lease, pc, arg,
                   closing, closed>>

CleanupFails(g) ==
    /\ gen[g].cleanups > 0 /\ failures < MaxFailures
    /\ failures' = failures + 1
    /\ gen' = [gen EXCEPT ![g].cleanups = @ - 1]
    /\ UNCHANGED <<current, next, retired, unpublished, task, refreshTask, lease, pc, arg,
                   closing, closed>>

-----------------------------------------------------------------------------
(* The background refresh *)

RefreshEnter(g) ==
    /\ task[g] \in {"scheduled", "cancelled"}
    /\ IF task[g] = "cancelled" \/ gen[g].closed
       THEN task' = [task EXCEPT ![g] = "done"] /\ UNCHANGED gen
       ELSE task' = [task EXCEPT ![g] = "leased"] /\ gen' = Leased(g)
    /\ UNCHANGED <<current, next, retired, unpublished, refreshTask, lease, pc, arg,
                   closing, closed, failures>>

\* Deviation, for the mutation runs: a refresh that was cut short keeps its lease.
RefreshEnd_Leased(g) ==
    /\ task[g] = "leased"
    /\ task' = [task EXCEPT ![g] = "done"]
    /\ UNCHANGED <<gen, current, next, retired, unpublished, refreshTask, lease, pc, arg,
                   closing, closed, failures>>

RefreshEnd(g) ==
    /\ task[g] = "leased"
    /\ task' = [task EXCEPT ![g] = "done"]
    /\ gen' = Released(g)
    /\ UNCHANGED <<current, next, retired, unpublished, refreshTask, lease, pc, arg,
                   closing, closed, failures>>

\* Deviation, for the mutation runs: the refresh is let run.
CancelRefresh_Leave(o) == refreshTask' = 0 /\ UNCHANGED task /\ arg' = [arg EXCEPT ![o] = 0]

\* _cancel_refresh up to its gather; CancelledRefresh is what ends the wait.
CancelRefresh(o) ==
    /\ refreshTask' = 0
    /\ task' = IF refreshTask # 0 /\ task[refreshTask] = "scheduled"
               THEN [task EXCEPT ![refreshTask] = "cancelled"] ELSE task
    /\ arg' = [arg EXCEPT ![o] = refreshTask]

CancelledRefresh(o) ==
    pc[o] = "cancelling" /\ (arg[o] # 0 => task[arg[o]] = "done")

-----------------------------------------------------------------------------
(* The operations under the replace lock *)

LockFree == \A o \in Operations :
    pc[o] \notin Holding \/ (o = "close" /\ pc[o] = "joining")

Goto(o, place) == pc' = [pc EXCEPT ![o] = place]

\* replace and refresh_model_list_cache get the lock and pass the closing check.
Begin(o) ==
    /\ o # "close" /\ pc[o] = "idle" /\ LockFree /\ Accepting
    /\ CancelRefresh(o) /\ Goto(o, "cancelling")
    /\ UNCHANGED <<gen, current, next, retired, unpublished, lease, closing, closed,
                   failures>>

RefreshNow ==
    /\ CancelledRefresh("refresh")
    /\ Goto("refresh", "refreshing")
    /\ arg' = [arg EXCEPT !["refresh"] = current]
    /\ gen' = Leased(current)
    /\ UNCHANGED <<current, next, retired, unpublished, task, refreshTask, lease, closing,
                   closed, failures>>

\* The explicit refresh ends, fails or is cancelled.
RefreshDone ==
    /\ pc["refresh"] = "refreshing" /\ Goto("refresh", "idle")
    /\ arg' = [arg EXCEPT !["refresh"] = 0]
    /\ gen' = Released(arg["refresh"])
    /\ UNCHANGED <<current, next, retired, unpublished, task, refreshTask, lease, closing,
                   closed, failures>>

Prepare ==
    /\ CancelledRefresh("replace") /\ Goto("replace", "preparing")
    /\ arg' = [arg EXCEPT !["replace"] = 0]
    /\ UNCHANGED <<gen, current, next, retired, unpublished, task, refreshTask, lease,
                   closing, closed, failures>>

\* _cleanup_unpublished succeeds, for the candidate of this operation or an earlier one.
UnpublishedCleaned(o) ==
    /\ unpublished > 0
    /\ \/ o = "replace" /\ pc[o] = "preparing" /\ UNCHANGED pc
       \/ o = "replace" /\ pc[o] = "cleaning" /\ Goto(o, "idle")
       \/ o = "close" /\ pc[o] = "retrying" /\ UNCHANGED pc
    /\ unpublished' = unpublished - 1
    /\ UNCHANGED <<gen, current, next, retired, task, refreshTask, lease, arg, closing,
                   closed, failures>>

\* The factory or the commit raises: the current generation stays.
PrepareFails ==
    /\ pc["replace"] = "preparing"
    /\ \/ UNCHANGED unpublished /\ Goto("replace", "idle")
       \/ /\ unpublished < MaxUnpublished
          /\ unpublished' = unpublished + 1 /\ Goto("replace", "cleaning")
    /\ UNCHANGED <<gen, current, next, retired, task, refreshTask, lease, arg, closing,
                   closed, failures>>

\* The candidate's cleanup fails; the candidate stays in _unpublished.
CandidateKept ==
    /\ pc["replace"] = "cleaning" /\ Goto("replace", "idle")
    /\ UNCHANGED <<gen, current, next, retired, unpublished, task, refreshTask, lease, arg,
                   closing, closed, failures>>

\* Publication, in one step with the commit: the previous generation is retired, and
\* closed at once if nobody leases it.
Publish ==
    /\ pc["replace"] = "preparing" /\ next <= MaxGeneration
    /\ next' = next + 1 /\ current' = next
    /\ retired' = retired \cup {current}
    /\ task' = [task EXCEPT ![next] = "scheduled"] /\ refreshTask' = next
    /\ LET gs == [gen EXCEPT ![current].retired = TRUE]
       IN  IF gs[current].leases = 0
           THEN /\ gen' = CloseGeneration(gs, current)
                /\ arg' = [arg EXCEPT !["replace"] = current] /\ Goto("replace", "joining")
           ELSE gen' = gs /\ Goto("replace", "idle") /\ UNCHANGED arg
    /\ UNCHANGED <<unpublished, lease, closing, closed, failures>>

ReplaceDone ==
    /\ pc["replace"] = "joining" /\ gen[arg["replace"]].cleanups = 0
    /\ Goto("replace", "idle") /\ arg' = [arg EXCEPT !["replace"] = 0]
    /\ UNCHANGED <<gen, current, next, retired, unpublished, task, refreshTask, lease,
                   closing, closed, failures>>

-----------------------------------------------------------------------------
(* Shutdown *)

Close ==
    /\ pc["close"] = "idle" /\ ~closed /\ Goto("close", "waiting")
    /\ UNCHANGED <<gen, current, next, retired, unpublished, task, refreshTask, lease, arg,
                   closing, closed, failures>>

CloseBegin ==
    /\ pc["close"] = "waiting" /\ LockFree
    /\ closing' = TRUE
    /\ CancelRefresh("close") /\ Goto("close", "cancelling")
    /\ UNCHANGED <<gen, current, next, retired, unpublished, lease, closed, failures>>

RetireCurrent ==
    /\ CancelledRefresh("close") /\ Goto("close", "draining")
    /\ arg' = [arg EXCEPT !["close"] = 0]
    /\ IF gen[current].retired THEN UNCHANGED <<gen, retired>>
       ELSE /\ gen' = [gen EXCEPT ![current].retired = TRUE]
            /\ retired' = retired \cup {current}
    /\ UNCHANGED <<current, next, unpublished, task, refreshTask, lease, closing, closed,
                   failures>>

\* Nothing enters _retired any more, so the snapshot close() took needs no variable.
Drained == \A g \in retired : gen[g].leases = 0

CloseAll ==
    /\ pc["close"] = "draining" /\ Drained /\ Goto("close", "joining")
    /\ gen' = [g \in Generations |->
                  IF g \in retired THEN CloseGeneration(gen, g)[g] ELSE gen[g]]
    /\ UNCHANGED <<current, next, retired, unpublished, task, refreshTask, lease, arg,
                   closing, closed, failures>>

Joined ==
    /\ pc["close"] = "joining" /\ \A g \in retired : gen[g].cleanups = 0
    /\ Goto("close", "retrying")
    /\ UNCHANGED <<gen, current, next, retired, unpublished, task, refreshTask, lease, arg,
                   closing, closed, failures>>

\* Deviation, for the mutation runs: the failed candidates do not count.
AllClosed_Published == retired = {}
AllClosed == retired = {} /\ unpublished = 0

\* close returns, or raises and may be called again.
CloseDone ==
    /\ pc["close"] = "retrying" /\ Goto("close", "idle")
    /\ closed' = AllClosed
    /\ UNCHANGED <<gen, current, next, retired, unpublished, task, refreshTask, lease, arg,
                   closing, failures>>

\* The caller of an operation is cancelled where it waits; cleanup tasks are shielded.
Interrupt(o) ==
    /\ pc[o] \notin {"idle", "refreshing"}
    /\ Goto(o, "idle") /\ arg' = [arg EXCEPT ![o] = 0]
    /\ UNCHANGED <<gen, current, next, retired, unpublished, task, refreshTask, lease,
                   closing, closed, failures>>

Replace == Begin("replace") \/ Prepare \/ PrepareFails \/ CandidateKept \/ Publish
           \/ ReplaceDone
RefreshOperation == Begin("refresh") \/ RefreshNow \/ RefreshDone
Shutdown == Close \/ CloseBegin \/ RetireCurrent \/ CloseAll \/ Joined \/ CloseDone

Next ==
    \/ \E c \in Clients : Acquire(c) \/ Release(c)
    \/ \E g \in Generations :
           CleanupSucceeds(g) \/ CleanupFails(g) \/ RefreshEnter(g) \/ RefreshEnd(g)
    \/ Replace \/ RefreshOperation \/ Shutdown
    \/ \E o \in Operations : UnpublishedCleaned(o) \/ Interrupt(o)

Spec == Init /\ [][Next]_vars

(* Requests end, discovery and cleanups are bounded by HTTP timeouts, and the loop
   runs what is ready.  asyncio.Lock is first come, first served, so the shutdown gets
   it although other operations keep arriving.  Nobody has to call an operation. *)
FairSpec ==
    /\ Spec
    /\ \A c \in Clients : WF_vars(Release(c))
    /\ \A g \in Generations :
           /\ WF_vars(CleanupSucceeds(g) \/ CleanupFails(g))
           /\ WF_vars(RefreshEnter(g)) /\ WF_vars(RefreshEnd(g))
    /\ WF_vars(RefreshNow) /\ WF_vars(RefreshDone)
    /\ WF_vars(Prepare) /\ WF_vars(PrepareFails \/ Publish) /\ WF_vars(ReplaceDone)
    /\ WF_vars(CandidateKept \/ UnpublishedCleaned("replace"))
    /\ SF_vars(CloseBegin)
    /\ WF_vars(RetireCurrent) /\ WF_vars(CloseAll) /\ WF_vars(Joined) /\ WF_vars(CloseDone)

-----------------------------------------------------------------------------
(* Invariants *)

\* Types of every variable; a replacement or shutdown that waits names what it awaits.
TypeOK ==
    /\ gen \in [Generations -> Generation]
    /\ current \in Generations /\ next \in 2..(MaxGeneration + 1)
    /\ retired \subseteq Generations /\ unpublished \in 0..MaxUnpublished
    /\ task \in [Generations -> Refresh] /\ refreshTask \in 0..MaxGeneration
    /\ lease \in [Clients -> 0..MaxGeneration]
    /\ pc \in [Operations -> Place] /\ arg \in [Operations -> 0..MaxGeneration]
    /\ closing \in BOOLEAN /\ closed \in BOOLEAN /\ failures \in 0..MaxFailures

Uses(g) == \/ \E c \in Clients : lease[c] = g
           \/ task[g] = "leased"
           \/ pc["refresh"] = "refreshing" /\ arg["refresh"] = g

\* No request, background refresh or explicit refresh ever uses a generation whose
\* clients are being closed or are closed.
InUseIsOpen ==
    \A g \in Generations : gen[g].closed \/ gen[g].cleanups > 0 => ~Uses(g)

\* "Failed generation cleanup remains owned": the manager can still reach every
\* generation that was retired and has not been closed, and nothing else.
RetiredAreOwned ==
    retired = {g \in Generations : gen[g].retired /\ ~gen[g].closed}

\* "closes it exactly once": however many releases, replacements and shutdowns ask for
\* it, a generation is never cleaned up by two tasks at a time, nor once it is closed.
ClosedOnce ==
    \A g \in Generations : gen[g].cleanups <= (IF gen[g].closed THEN 0 ELSE 1)

\* "does not become terminal until every owned runtime closes": after close() nothing
\* is left, no lease, refresh, generation or candidate.
ClosedIsEmpty ==
    closed => /\ unpublished = 0
              /\ \A g \in Generations : g < next => gen[g].closed /\ ~Uses(g)

\* What a generation promises the manager and its users, from its publication until it
\* is closed.
GenerationsAreOwned == InUseIsOpen /\ RetiredAreOwned /\ ClosedOnce /\ ClosedIsEmpty

-----------------------------------------------------------------------------
(* Action properties *)

\* "Final shutdown rejects new acquisition and replacement": from its first step on,
\* even if it is cancelled and called again, leases only go away and nothing is
\* published.
OnlyDrains ==
    [][closing => /\ current' = current
                  /\ \A g \in Generations : gen'[g].leases <= gen[g].leases]_vars

-----------------------------------------------------------------------------
(* Liveness *)

\* A retired generation is closed without waiting for the shutdown, by its last lease
\* or by the replacement that retired it, unless a cleanup fails.
RetiredIsClosed ==
    \A g \in Generations :
        g \in retired ~> gen[g].closed \/ closing \/ failures > 0

\* A shutdown returns or raises: it never hangs on the lock, the refresh, a lease or a
\* cleanup.
ShutdownReturns == pc["close"] # "idle" ~> pc["close"] = "idle"
=============================================================================
