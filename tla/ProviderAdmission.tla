------------------------- MODULE ProviderAdmission -------------------------
(***************************************************************************)
(* One provider's admission controller and the executions that use it      *)
(* (src/codefa/providers/admission.py; the attempts as they are driven by  *)
(* providers/openai_chat/provider.py and providers/anthropic/client.py).   *)
(*                                                                         *)
(* No body under the controller's Condition awaits anything but wait(), so *)
(* each is one action.  An execution suspends, and can be cancelled, where *)
(* it waits: at the gate, in the backoff, for rate capacity, for a slot,   *)
(* for the upstream, for its stream to close and for an abandonment.       *)
(***************************************************************************)
EXTENDS Integers, FiniteSets

CONSTANTS
    Sessions,           \* logical executions, one ProviderRetrySession each
    MaxAttempts,        \* the attempt budget of an execution
    MaxConcurrency,     \* slots of the bulkhead
    MidstreamRecovery,  \* whether a broken stream may be continued by a second one
    CloseMayRaise,      \* whether closing an upstream stream may fail
    None

ASSUME AdmissionAssumption ==
    /\ MaxAttempts \in Nat \ {0} /\ MaxConcurrency \in Nat \ {0}
    /\ MidstreamRecovery \in BOOLEAN /\ CloseMayRaise \in BOOLEAN
    /\ None \notin Sessions

VARIABLES
    episode,    \* _episode
    generation, \* _next_generation - 1
    exec,       \* what each execution is doing
    free        \* the value of _concurrency_sem

vars == <<episode, generation, exec, free>>

(* ready: ready_at has passed.  terminal: terminal_until is "unset", is still to
   come ("cooling") or has passed ("over"). *)
Episode == [open : BOOLEAN, gen : Nat, leader : Sessions \cup {None}, ready : BOOLEAN,
            waiters : SUBSET Sessions, probe : BOOLEAN,
            terminal : {"unset", "cooling", "over"}]

NoEpisode == [open |-> FALSE, gen |-> 0, leader |-> None, ready |-> TRUE,
              waiters |-> {}, probe |-> FALSE, terminal |-> "unset"]

NewEpisode(g, leader, ready) ==
    [NoEpisode EXCEPT !.open = TRUE, !.gen = g, !.leader = leader, !.ready = ready]

(* "waiting": in Condition.wait.  "woken": notified, has not run yet.  "sleeping":
   the leader's backoff.  "rate", "slot": in open_attempt with a permit.  "open",
   "stream": an attempt, before and after a stream was returned.  "closing": the
   stream is being closed.  "releasing": aclose waits for the abandonment. *)
Phase == {"new", "waiting", "woken", "sleeping", "rate", "slot", "open", "stream",
          "closing", "releasing", "done"}

(* permit: the generation of a probe permit, 0 for an ordinary one; for a waiting
   or sleeping execution the generation it waits for.  resolved: the outcome of
   the attempt is recorded.  again: another attempt follows the closing one.
   outer: the attempt whose broken stream this one continues is still open.
   abandoning: the task of _attempt_abandoned has not run yet.  lost: a remark of
   the model that the execution ended without reaching aclose (CloseRaises). *)
Exec == [phase : Phase, permit : Nat, attempts : 0..MaxAttempts, failed : BOOLEAN,
         accepted : BOOLEAN, resolved : BOOLEAN, again : BOOLEAN, outer : BOOLEAN,
         abandoning : BOOLEAN, lost : BOOLEAN]

NewExec == [phase |-> "new", permit |-> 0, attempts |-> 0, failed |-> FALSE,
            accepted |-> FALSE, resolved |-> FALSE, again |-> FALSE, outer |-> FALSE,
            abandoning |-> FALSE, lost |-> FALSE]

Init == /\ episode = NoEpisode /\ generation = 0
        /\ exec = [s \in Sessions |-> NewExec]
        /\ free = MaxConcurrency

\* Deviation, for the mutation runs: one attempt too many.
CanAttempt_OneMore(s) == exec[s].attempts <= MaxAttempts
CanAttempt(s) == exec[s].attempts < MaxAttempts

-----------------------------------------------------------------------------
(* Episodes *)

\* _matching_probe.
Matches(ep, s, permit) ==
    permit > 0 /\ ep.open /\ ep.gen = permit /\ ep.leader = s /\ ep.probe

\* Deviation, for the mutation runs: an ordinary permit never goes stale.
PermitIsCurrent_Ordinary(s) ==
    exec[s].permit > 0 => Matches(episode, s, exec[s].permit) /\ episode.terminal = "unset"

PermitIsCurrent(s) ==
    IF exec[s].permit = 0
    THEN ~episode.open
    ELSE Matches(episode, s, exec[s].permit) /\ episode.terminal = "unset"

\* Deviation, for the mutation runs: a probe is not given up.
Abandoned_Never(ep, s, permit) == ep

\* _abandon_probe_permit and _attempt_abandoned.
Abandoned(ep, s, permit) ==
    IF Matches(ep, s, permit)
    THEN [ep EXCEPT !.leader = None, !.probe = FALSE, !.ready = TRUE]
    ELSE ep

\* notify_all, when a step notifies.
\* Deviation, for the mutation runs: nobody is notified.
Notified_Nobody(ex, notify) == ex
Notified(ex, notify) ==
    [s \in Sessions |-> IF notify /\ ex[s].phase = "waiting"
                        THEN [ex[s] EXCEPT !.phase = "woken"] ELSE ex[s]]

\* One pass of _wait_for_gate for s: the episode it leaves, the phase and the
\* permit it gives s.  "raised" is ProviderRecoveryExhausted.
GateOutcome(ep, phase, permit) == [episode |-> ep, phase |-> phase, permit |-> permit]

\* Deviation, for the mutation runs: a follower does not join the episode.
LedGate_Unregistered(ep, s) ==
    IF ep.leader # s THEN GateOutcome(ep, "waiting", ep.gen)
    ELSE IF ep.ready THEN GateOutcome([ep EXCEPT !.probe = TRUE], "rate", ep.gen)
    ELSE GateOutcome(ep, "sleeping", ep.gen)

LedGate(ep, s) ==
    CASE ep.leader # s ->
            GateOutcome([ep EXCEPT !.waiters = @ \cup {s}], "waiting", ep.gen)
      [] ep.leader = s /\ ep.probe ->
            GateOutcome(ep, "waiting", ep.gen)
      [] ep.leader = s /\ ~ep.probe /\ ep.ready ->
            GateOutcome([ep EXCEPT !.probe = TRUE], "rate", ep.gen)
      [] ep.leader = s /\ ~ep.probe /\ ~ep.ready ->
            GateOutcome(ep, "sleeping", ep.gen)

Gate(ep, s) ==
    CASE ~ep.open -> GateOutcome(ep, "rate", 0)
      [] ep.open /\ ep.terminal = "cooling" -> GateOutcome(ep, "raised", 0)
      [] ep.open /\ ep.terminal = "over" ->
            LedGate(NewEpisode(generation + 1, s, TRUE), s)
      [] ep.open /\ ep.terminal = "unset" ->
            LedGate(IF ep.leader # None THEN ep
                    ELSE [ep EXCEPT !.leader = s, !.waiters = @ \ {s}], s)

SetEpisode(ep) ==
    /\ episode' = ep
    /\ generation' = IF ep.gen > generation THEN ep.gen ELSE generation

\* The execution ends; the attempt whose stream it was to continue is closed first.
Ended(x) ==
    IF x.outer THEN [x EXCEPT !.phase = "closing", !.outer = FALSE, !.resolved = TRUE,
                              !.accepted = TRUE, !.again = FALSE]
               ELSE [x EXCEPT !.phase = "done"]

\* Deviation, for the mutation runs: an exhausted execution is only held up by the
\* cooldown.
Barred_InCooldown(x, gate) == gate.phase = "raised"
\* ProviderRecoveryExhausted.
Barred(x, gate) == x.failed \/ gate.phase = "raised"

\* s comes to the gate of the episode ep; ex are the executions otherwise.
ToGate(s, ep, ex) ==
    LET gate == Gate(ep, s)
    IN  IF Barred(ex[s], gate)
        THEN SetEpisode(ep) /\ exec' = [ex EXCEPT ![s] = Ended(@)]
        ELSE /\ SetEpisode(gate.episode)
             /\ exec' = [ex EXCEPT ![s].phase = gate.phase, ![s].permit = gate.permit,
                                   ![s].resolved = FALSE, ![s].accepted = FALSE]

-----------------------------------------------------------------------------
(* open_attempt *)

Start(s) ==
    /\ exec[s].phase = "new"
    /\ ToGate(s, episode, exec)
    /\ UNCHANGED free

Awake(s) ==
    /\ exec[s].phase = "woken"
    /\ ToGate(s, episode, exec)
    /\ UNCHANGED free

SleepsAsLeader(s) == /\ episode.open /\ episode.gen = exec[s].permit
                     /\ episode.leader = s /\ ~episode.probe

\* The backoff is over.
Wake(s) ==
    /\ exec[s].phase = "sleeping"
    /\ IF SleepsAsLeader(s) /\ episode.terminal = "unset"
       THEN /\ episode.ready
            /\ SetEpisode([episode EXCEPT !.probe = TRUE])
            /\ exec' = [exec EXCEPT ![s].phase = "rate"]
       ELSE ToGate(s, episode, exec)
    /\ UNCHANGED free

\* A permit that went stale while s waited: give the probe up, back to the gate.
StalePermit(s) ==
    LET ep == Abandoned(episode, s, exec[s].permit)
    IN  ToGate(s, ep, Notified(exec, ep # episode))

\* acquire_if has capacity.
PassRate(s) ==
    /\ exec[s].phase = "rate"
    /\ \/ PermitIsCurrent(s) /\ exec' = [exec EXCEPT ![s].phase = "slot"]
                             /\ UNCHANGED <<episode, generation>>
       \/ ~PermitIsCurrent(s) /\ StalePermit(s)
    /\ UNCHANGED free

\* The semaphore hands a slot over; its queue is not modelled.
TakeSlot(s) ==
    /\ exec[s].phase = "slot" /\ free > 0
    /\ \/ /\ PermitIsCurrent(s)
          /\ exec' = [exec EXCEPT ![s].phase = "open", ![s].attempts = @ + 1]
          /\ free' = free - 1
          /\ UNCHANGED <<episode, generation>>
       \/ ~PermitIsCurrent(s) /\ StalePermit(s) /\ UNCHANGED free

-----------------------------------------------------------------------------
(* The attempt *)

StreamOpens(s) ==
    /\ exec[s].phase = "open"
    /\ exec' = [exec EXCEPT ![s].phase = "stream"]
    /\ UNCHANGED <<episode, generation, free>>

\* The attempt of s is resolved, leaving the episode ep and the executions ex.
\* Without a stream nothing is awaited until s is back at the gate or has ended.
Resolved(s, ep, ex, again) ==
    IF exec[s].phase = "stream"
    THEN /\ SetEpisode(ep)
         /\ exec' = [ex EXCEPT ![s].phase = "closing", ![s].resolved = TRUE, ![s].again = again]
         /\ UNCHANGED free
    ELSE /\ free' = free + 1
         /\ IF again THEN ToGate(s, ep, ex)
                     ELSE SetEpisode(ep) /\ exec' = [ex EXCEPT ![s] = Ended(@)]

InAttempt(s) == exec[s].phase \in {"open", "stream"} /\ ~exec[s].resolved

\* Deviation, for the mutation runs: any success closes the recovery.
ProbeClosed_ByAny(s) == NoEpisode
ProbeClosed(s) == IF Matches(episode, s, exec[s].permit) THEN NoEpisode ELSE episode

\* succeeded, at the first chunk.
Accept(s) ==
    /\ exec[s].phase = "stream" /\ ~exec[s].resolved
    /\ SetEpisode(ProbeClosed(s))
    /\ exec' = [Notified(exec, ProbeClosed(s) # episode)
                  EXCEPT ![s].resolved = TRUE, ![s].accepted = TRUE]
    /\ UNCHANGED free

\* retry with an error that is not retryable.
Reject(s) ==
    /\ InAttempt(s)
    /\ Resolved(s, ProbeClosed(s), Notified(exec, ProbeClosed(s) # episode), FALSE)

\* retry_immediately: the request is corrected and sent again.
Correct(s) ==
    /\ exec[s].phase = "open" /\ CanAttempt(s)
    /\ LET probing == Matches(episode, s, exec[s].permit)
       IN  Resolved(s, IF probing THEN [episode EXCEPT !.probe = FALSE, !.ready = TRUE]
                                  ELSE episode,
                    Notified(exec, probing), TRUE)

\* _attempt_failed while the budget lasts: what the failure of s leaves of the episode.
FailedEpisode(s) ==
    CASE ~episode.open -> NewEpisode(generation + 1, s, FALSE)
      [] Matches(episode, s, exec[s].permit) ->
            [episode EXCEPT !.probe = FALSE, !.ready = FALSE]
      [] episode.open /\ ~Matches(episode, s, exec[s].permit) ->
            IF episode.terminal = "unset" THEN [episode EXCEPT !.waiters = @ \cup {s}]
                                          ELSE episode

FailAndRetry(s) ==
    /\ InAttempt(s) /\ CanAttempt(s)
    /\ LET coalesced == episode.open /\ ~Matches(episode, s, exec[s].permit)
           ex == [exec EXCEPT ![s].failed =
                     @ \/ (coalesced /\ episode.terminal # "unset")]
       IN  Resolved(s, FailedEpisode(s), Notified(ex, TRUE), TRUE)

\* _fail_recovery on every waiter.
Exhausted(waiters) ==
    [s \in Sessions |-> [exec[s] EXCEPT !.failed = @ \/ s \in waiters]]

\* _attempt_failed with the budget spent: the episode of a probe, or an episode of
\* its own, becomes terminal.
FailFinally(s) ==
    /\ InAttempt(s) /\ ~CanAttempt(s)
    /\ LET ends == ~episode.open \/ Matches(episode, s, exec[s].permit)
           ep   == IF episode.open THEN episode ELSE NewEpisode(generation + 1, None, TRUE)
       IN  IF ends
           THEN Resolved(s, [ep EXCEPT !.leader = None, !.probe = FALSE, !.waiters = {},
                                       !.terminal = "cooling"],
                         Notified(Exhausted(ep.waiters), TRUE), FALSE)
           ELSE Resolved(s, episode, exec, FALSE)

\* An accepted stream ends, or breaks; in both cases another one may follow: the
\* repair of the next tool call, or an early retry.
StreamEnds(s) ==
    /\ exec[s].phase = "stream" /\ exec[s].accepted
    /\ \E again \in {FALSE, CanAttempt(s)} :
         exec' = [exec EXCEPT ![s].phase = "closing", ![s].again = again]
    /\ UNCHANGED <<episode, generation, free>>

\* _recovery_events: the continuation is opened before the broken stream is closed.
ContinueMidstream(s) ==
    /\ MidstreamRecovery
    /\ exec[s].phase = "stream" /\ exec[s].accepted /\ ~exec[s].outer /\ CanAttempt(s)
    /\ ToGate(s, episode, [exec EXCEPT ![s].outer = TRUE])
    /\ UNCHANGED free

\* close_provider_stream, then aclose.
CloseStream(s) ==
    /\ exec[s].phase = "closing"
    /\ IF exec[s].resolved
       THEN /\ free' = free + 1
            /\ IF exec[s].again THEN ToGate(s, episode, exec)
               ELSE /\ exec' = [exec EXCEPT ![s] = Ended(@)]
                    /\ UNCHANGED <<episode, generation>>
       ELSE /\ exec' = [exec EXCEPT ![s].phase = "releasing", ![s].abandoning = TRUE]
            /\ UNCHANGED <<episode, generation, free>>

\* A continuation's stream is closed without protection: when that fails, aclose is
\* not reached and the continuation is given up.
CloseRaises(s) ==
    /\ CloseMayRaise
    /\ exec[s].phase = "closing" /\ exec[s].outer
    /\ exec' = [exec EXCEPT ![s] = Ended([@ EXCEPT !.lost = TRUE])]
    /\ UNCHANGED <<episode, generation, free>>

\* The shielded task of _attempt_abandoned.
Abandon(s) ==
    /\ exec[s].abandoning
    /\ LET ep == Abandoned(episode, s, exec[s].permit)
       IN  /\ SetEpisode(ep)
           /\ exec' = [Notified(exec, ep # episode) EXCEPT ![s].abandoning = FALSE]
    /\ UNCHANGED free

\* aclose is back from the abandonment.
Release(s) ==
    /\ exec[s].phase = "releasing" /\ ~exec[s].abandoning
    /\ free' = free + 1
    /\ exec' = [exec EXCEPT ![s] = Ended(@)]
    /\ UNCHANGED <<episode, generation>>

-----------------------------------------------------------------------------
(* Cancellation: the client has disconnected.  It reaches a closing stream when
   that is closed, because the HTTP client shields its own clean-up. *)

CancelWaiting(s) ==
    /\ exec[s].phase \in {"waiting", "woken"}
    /\ SetEpisode(IF episode.gen = exec[s].permit
                  THEN [episode EXCEPT !.waiters = @ \ {s}] ELSE episode)
    /\ exec' = [exec EXCEPT ![s] = Ended(@)]
    /\ UNCHANGED free

\* Deviation, for the mutation runs: the leader is not replaced.
LeaderLeft_Stays(s) == episode
\* _abandon_waiting_leader.
LeaderLeft(s) == [episode EXCEPT !.leader = None]

CancelSleeping(s) ==
    /\ exec[s].phase = "sleeping"
    /\ IF SleepsAsLeader(s)
       THEN /\ SetEpisode(LeaderLeft(s))
            /\ exec' = [Notified(exec, TRUE) EXCEPT ![s] = Ended(@)]
       ELSE /\ exec' = [exec EXCEPT ![s] = Ended(@)]
            /\ UNCHANGED <<episode, generation>>
    /\ UNCHANGED free

\* In open_attempt with a permit.
CancelPermit(s) ==
    /\ exec[s].phase \in {"rate", "slot"}
    /\ LET ep == Abandoned(episode, s, exec[s].permit)
       IN  /\ SetEpisode(ep)
           /\ exec' = [Notified(exec, ep # episode) EXCEPT ![s] = Ended(@)]
    /\ UNCHANGED free

CancelAttempt(s) ==
    /\ exec[s].phase \in {"open", "stream"}
    /\ exec' = IF exec[s].phase = "stream"
               THEN [exec EXCEPT ![s].phase = "closing", ![s].again = FALSE]
               ELSE [exec EXCEPT ![s].phase = "releasing", ![s].abandoning = TRUE]
    /\ UNCHANGED <<episode, generation, free>>

\* Deviation, for the mutation runs: a second cancellation loses the slot.
CancelReleasing_SlotLost(s) ==
    /\ exec[s].phase = "releasing" /\ exec[s].abandoning
    /\ exec' = [exec EXCEPT ![s] = Ended(@)]
    /\ UNCHANGED <<episode, generation, free>>

CancelReleasing(s) ==
    /\ exec[s].phase = "releasing" /\ exec[s].abandoning
    /\ free' = free + 1
    /\ exec' = [exec EXCEPT ![s] = Ended(@)]
    /\ UNCHANGED <<episode, generation>>

-----------------------------------------------------------------------------
(* Time *)

DelayElapses ==
    /\ episode.open /\ ~episode.ready
    /\ episode' = [episode EXCEPT !.ready = TRUE]
    /\ UNCHANGED <<generation, exec, free>>

CooldownEnds ==
    /\ episode.open /\ episode.terminal = "cooling"
    /\ episode' = [episode EXCEPT !.terminal = "over"]
    /\ UNCHANGED <<generation, exec, free>>

-----------------------------------------------------------------------------
Admission(s) == Start(s) \/ Awake(s) \/ Wake(s) \/ PassRate(s) \/ TakeSlot(s)

\* What the upstream does with an attempt.
Upstream(s) == \/ StreamOpens(s) \/ Accept(s) \/ Reject(s) \/ Correct(s)
               \/ FailAndRetry(s) \/ FailFinally(s)
               \/ StreamEnds(s) \/ ContinueMidstream(s)

Closing(s) == CloseStream(s) \/ CloseRaises(s) \/ Abandon(s) \/ Release(s)

Cancel(s) == \/ CancelWaiting(s) \/ CancelSleeping(s) \/ CancelPermit(s)
             \/ CancelAttempt(s) \/ CancelReleasing(s)

Next == \/ \E s \in Sessions : Admission(s) \/ Upstream(s) \/ Closing(s) \/ Cancel(s)
        \/ DelayElapses \/ CooldownEnds

Spec == Init /\ [][Next]_vars

\* The event loop runs what is ready, timers fire, an upstream answers or times
\* out, the window and the semaphore let everybody through in the end.  Nobody
\* need ever be cancelled.
FairSpec ==
    /\ Spec
    /\ \A s \in Sessions : /\ WF_vars(Awake(s) \/ Wake(s) \/ PassRate(s))
                           /\ SF_vars(TakeSlot(s))
                           /\ WF_vars(Upstream(s))
                           /\ WF_vars(Closing(s))
    /\ WF_vars(DelayElapses) /\ WF_vars(CooldownEnds)

-----------------------------------------------------------------------------
(* Safety *)

\* Every variable has the shape the code's classes give it.
TypeOK == /\ episode \in Episode /\ generation \in Nat
          /\ exec \in [Sessions -> Exec] /\ free \in 0..MaxConcurrency

\* One execution can hold two slots: of its attempt, and of the one it continues.
HoldsSlot(x) == x.phase \in {"open", "stream", "closing", "releasing"}
Attempting   == {s \in Sessions : HoldsSlot(exec[s])}
Continuing   == {s \in Sessions : exec[s].outer}
Lost         == {s \in Sessions : exec[s].lost}

\* A recovery is in the hands of its leader: the probe is with an execution that will
\* resolve it, by the outcome of its attempt or by abandoning it, and before the probe
\* the leader is on its way to it ("leader cancellation transfers ownership to a
\* waiter").  The one exception are executions that ended without aclose.
RecoveryIsLed ==
    LET leader == episode.leader
    IN  /\ episode.open /\ episode.probe =>
             /\ leader # None /\ exec[leader].permit = episode.gen
             /\ \/ exec[leader].phase \in {"rate", "slot"}
                \/ HoldsSlot(exec[leader]) /\ ~exec[leader].resolved
                \/ exec[leader].abandoning
                \/ leader \in Lost
        /\ episode.open /\ ~episode.probe /\ leader # None =>
             \/ exec[leader].phase = "sleeping"
             \/ exec[leader].phase = "closing" /\ exec[leader].again
             \/ leader \in Lost

\* Who waits, waits for a living episode with a leader that is somebody else: no
\* wake-up is lost.
WaitersAreLed ==
    \A s \in Sessions : exec[s].phase = "waiting" =>
        /\ episode.open /\ episode.terminal = "unset" /\ episode.gen = exec[s].permit
        /\ episode.leader \notin {None, s} /\ s \in episode.waiters

\* admission.py _wait_for_gate, _abandon_probe_permit: a recovery is in the hands of a
\* leader that is on its way, and whoever waits for it will be woken by somebody else.
EverybodyIsLed == RecoveryIsLed /\ WaitersAreLed

\* The slots held by attempts.
Held == Cardinality(Attempting) + Cardinality(Continuing)

\* Every slot is free, held by one attempt, or lost by an execution that ended
\* without aclose: no cancellation, retry or double release loses or doubles one.
SlotsAreAccounted == free + Held + Cardinality(Lost) = MaxConcurrency

\* admission.py aclose, _release_concurrency: the same, of variables of their types.
SlotsAreCounted == TypeOK /\ SlotsAreAccounted

\* "Release attempt ownership and its concurrency slot exactly once."
SlotsAreReturned == free + Held = MaxConcurrency

\* ARCHITECTURE.md: "the bulkhead is held only while an upstream operation or stream
\* is active, never during retry backoff".
BulkheadIdleInBackoff ==
    \A s \in Sessions :
        exec[s].phase \in {"waiting", "woken", "sleeping", "rate", "slot"} =>
            s \notin Attempting \cup Continuing

-----------------------------------------------------------------------------
(* Action properties *)

\* During a recovery only the leader's probe reaches the upstream: an attempt that
\* opens was admitted under the episode as it is then, however long it waited for
\* capacity and for its slot.
OnlyProbesOpen ==
    [][\A s \in Sessions : exec'[s].attempts > exec[s].attempts =>
          \/ ~episode.open
          \/ episode.terminal = "unset" /\ episode.leader = s
             /\ episode.probe /\ exec[s].permit = episode.gen]_vars

\* "A stale in-flight success or failure cannot close or extend the episode": an
\* open episode is closed, put off or ended for good only in a step of the execution
\* that holds its probe.
StaleResultsAreVoid ==
    [][episode.open /\ episode.terminal = "unset"
       /\ \/ ~episode'.open \/ episode'.terminal # "unset"
          \/ episode.ready /\ ~episode'.ready
          \/ episode'.gen # episode.gen
       => /\ episode.probe /\ episode.leader # None
          /\ exec[episode.leader].permit = episode.gen
          /\ exec'[episode.leader] # exec[episode.leader]]_vars

\* admission.py _permit_is_current, _matching_probe: during a recovery only the leader's
\* probe reaches the upstream, and only its outcome closes, extends or ends the episode.
OnlyTheProbeDecides == OnlyProbesOpen /\ StaleResultsAreVoid

\* "that terminal outcome stays attached to every coalesced logical execution, even
\* if a later recovery generation starts": who was told the recovery is exhausted
\* sends nothing upstream any more ...
ExhaustionIsFinal ==
    [][\A s \in Sessions :
          exec[s].failed => exec'[s].attempts = exec[s].attempts /\ exec'[s].failed]_vars

\* ... and everybody is told who waits for the episode, or is on the way from it.
ExhaustionIsShared ==
    [][episode.open /\ episode.terminal = "unset" /\ episode'.terminal = "cooling" =>
          \A s \in Sessions :
             exec[s].phase \in {"waiting", "woken"} /\ exec[s].permit = episode.gen
             => exec'[s].failed]_vars

\* admission.py _fail_recovery: an exhausted recovery is the end of every execution that
\* waited for it, and stays the end.
ExhaustionHolds == ExhaustionIsFinal /\ ExhaustionIsShared

-----------------------------------------------------------------------------
(* Liveness *)

\* No execution hangs.
ExecutionsEnd == \A s \in Sessions : exec[s].phase # "new" ~> exec[s].phase = "done"
=============================================================================
