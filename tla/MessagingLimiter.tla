-------------------------- MODULE MessagingLimiter --------------------------
(***************************************************************************)
(* The compacting delivery queue of a messaging platform                   *)
(* (src/codefa/messaging/limiter.py, as platforms/outbox.py uses it).      *)
(*                                                                         *)
(* A call delivers one version of the message its key stands for; calls    *)
(* are numbered in the order they are made.  No section under _condition   *)
(* suspends but for wait(), so each is one action.  The flood pause and    *)
(* the wait for rate capacity take any time ("holding").                   *)
(***************************************************************************)
EXTENDS Integers, Sequences, FiniteSets

CONSTANTS
    Keys,              \* dedup keys
    MaxCalls,          \* how many deliveries are asked for
    Kinds,             \* how: subset of {"awaited", "detached"}
    TransientFailures  \* whether the platform's connection may break

\* What the code takes for granted of its parameters: there is a message to deliver.
LimiterAssumption == Keys # {} /\ MaxCalls \in Nat /\ Kinds \subseteq {"awaited", "detached"}

Calls == 1..MaxCalls
MaxRetries == 2

VARIABLES
    queue,   \* _queue_list
    entry,   \* _queue_map; func is 0 for a key that has no entry
    call,    \* the callers of enqueue and the tasks of fire_and_forget
    worker,  \* the worker and what it has taken
    shown,   \* external: the version each message shows
    closing  \* "no", "joining" (the worker is awaited), "failed" (not stopped in time), "over"

vars == <<queue, entry, call, worker, shown, closing>>

(* "started": a detached call whose task has not run yet.  "backoff": a detached call
   sleeps before it tries again.  The others that are not "new" wait for the future. *)
Ended == {"ok", "failed", "cancelled"}
CallState == {"new", "started", "waiting", "backoff"} \cup Ended

Call == [at : CallState, key : Keys, kind : {"awaited", "detached"}, attempts : 0..MaxRetries]

Entry == [func : 0..MaxCalls, futures : SUBSET Calls]

NoEntry == [func |-> 0, futures |-> {}]

Worker == [at : {"waiting", "holding", "running", "stopped"}, key : Keys,
           func : 0..MaxCalls, futures : SUBSET Calls]

AnyKey == CHOOSE k \in Keys : TRUE

Init ==
    /\ queue = <<>> /\ entry = [k \in Keys |-> NoEntry]
    /\ call = [c \in Calls |-> [at |-> "new", key |-> AnyKey, kind |-> "awaited", attempts |-> 0]]
    /\ worker = [at |-> "waiting", key |-> AnyKey, func |-> 0, futures |-> {}]
    /\ shown = [k \in Keys |-> 0] /\ closing = "no"

\* The calls when the futures of F that are not done get an outcome.
Resolved(calls, F, outcome) ==
    [c \in Calls |-> IF c \in F /\ calls[c].at = "waiting"
                     THEN [calls[c] EXCEPT !.at = outcome] ELSE calls[c]]

-----------------------------------------------------------------------------
(* Asking for a delivery *)

\* Deviation, for the mutation runs: who waits for the replaced function is forgotten.
Compacted_Alone(e, c) == [func |-> c, futures |-> {c} \ e.futures]

\* Deviation, for the mutation runs: the function that is queued stays.
Compacted_Older(e, c) ==
    [func |-> IF e.func = 0 THEN c ELSE e.func, futures |-> e.futures \cup {c}]

\* The entry of a key when call c comes to it: its function replaces the queued one.
Compacted(e, c) == [func |-> c, futures |-> e.futures \cup {c}]

Queued(k) == IF entry[k].func # 0 THEN queue ELSE Append(queue, k)

Running == closing = "no" /\ worker.at # "stopped"

\* _enqueue_internal_multi for key k; calls are the calls as they are without it.
Enqueued(calls, c, k) ==
    /\ entry' = [entry EXCEPT ![k] = Compacted(@, c)]
    /\ queue' = Queued(k)
    /\ call' = [calls EXCEPT ![c].at = "waiting"]

\* The next call is made: an awaited one enqueues at once, for a detached one a task is
\* created.  A limiter that does not run refuses both.
Ask(c, k, kind) ==
    /\ call[c].at = "new" /\ \A d \in 1..(c - 1) : call[d].at # "new"
    /\ LET calls == [call EXCEPT ![c].key = k, ![c].kind = kind]
       IN  \/ /\ Running /\ kind = "awaited" /\ Enqueued(calls, c, k)
           \/ /\ Running /\ kind = "detached"
              /\ call' = [calls EXCEPT ![c].at = "started"] /\ UNCHANGED <<queue, entry>>
           \/ /\ ~Running
              /\ call' = [calls EXCEPT ![c].at = "failed"] /\ UNCHANGED <<queue, entry>>
    /\ UNCHANGED <<worker, shown, closing>>

\* Tasks run first in the order they were created.
MayRun(c) == \/ call[c].at = "backoff"
             \/ call[c].at = "started" /\ \A d \in 1..(c - 1) : call[d].at # "started"

\* A detached call enqueues, for the first time or again after its sleep.
Enqueue(c) ==
    /\ MayRun(c)
    /\ IF Running THEN Enqueued(call, c, call[c].key)
       ELSE call' = [call EXCEPT ![c].at = "failed"] /\ UNCHANGED <<queue, entry>>
    /\ UNCHANGED <<worker, shown, closing>>

\* The caller of an awaited call is cancelled; what it asked for stays queued.
Cancel(c) ==
    /\ call[c].at = "waiting" /\ call[c].kind = "awaited"
    /\ call' = [call EXCEPT ![c].at = "cancelled"]
    /\ UNCHANGED <<queue, entry, worker, shown, closing>>

-----------------------------------------------------------------------------
(* The worker *)

Take ==
    /\ worker.at = "waiting" /\ queue # <<>> /\ closing = "no"
    /\ LET k == Head(queue)
       IN  /\ worker' = [at |-> "holding", key |-> k, func |-> entry[k].func,
                         futures |-> entry[k].futures]
           /\ entry' = [entry EXCEPT ![k] = NoEntry]
    /\ queue' = Tail(queue)
    /\ UNCHANGED <<call, shown, closing>>

Run ==
    /\ worker.at = "holding" /\ closing = "no"
    /\ worker' = [worker EXCEPT !.at = "running"]
    /\ UNCHANGED <<queue, entry, call, shown, closing>>

Idle == worker' = [worker EXCEPT !.at = "waiting", !.func = 0, !.futures = {}]

Shows == shown' = [shown EXCEPT ![worker.key] = worker.func]

Deliver ==
    /\ worker.at = "running" /\ closing = "no"
    /\ Shows /\ Idle
    /\ call' = Resolved(call, worker.futures, "ok")
    /\ UNCHANGED <<queue, entry, closing>>

\* The operation fails for good (flood control included), or was cancelled from inside.
Fail ==
    /\ worker.at = "running" /\ closing = "no" /\ Idle
    /\ \E outcome \in {"failed", "cancelled"} : call' = Resolved(call, worker.futures, outcome)
    /\ UNCHANGED <<queue, entry, shown, closing>>

\* Deviation, for the mutation runs: the retries are not counted right.
Broken_Endless(calls) ==
    [c \in Calls |->
        IF c \notin worker.futures \/ calls[c].at # "waiting" THEN calls[c]
        ELSE IF calls[c].kind = "detached" /\ calls[c].attempts <= MaxRetries
        THEN [calls[c] EXCEPT !.at = "backoff", !.attempts = @ + 1]
        ELSE [calls[c] EXCEPT !.at = "failed"]]

\* Deviation, for the mutation runs: only the call whose function ran is told.
Broken_Alone(calls) == Resolved(calls, {worker.func}, "failed")

\* The futures' outcome when the connection broke: a detached call goes to sleep until
\* its retries are used up, an awaited one raises.
Broken(calls) ==
    [c \in Calls |->
        IF c \notin worker.futures \/ calls[c].at # "waiting" THEN calls[c]
        ELSE IF calls[c].kind = "detached" /\ calls[c].attempts < MaxRetries
        THEN [calls[c] EXCEPT !.at = "backoff", !.attempts = @ + 1]
        ELSE [calls[c] EXCEPT !.at = "failed"]]

\* The connection breaks, before or after the platform has made the change.
Break ==
    /\ TransientFailures /\ worker.at = "running" /\ closing = "no" /\ Idle
    /\ Shows \/ UNCHANGED shown
    /\ call' = Broken(call)
    /\ UNCHANGED <<queue, entry, closing>>

-----------------------------------------------------------------------------
(* Shutdown *)

Queueing == UNION {entry[k].futures : k \in Keys}

Shutdown ==
    /\ closing \in {"no", "failed"} /\ closing' = "joining"
    /\ queue' = <<>> /\ entry' = [k \in Keys |-> NoEntry]
    /\ call' = Resolved(call, Queueing \cup worker.futures, "cancelled")
    /\ UNCHANGED <<worker, shown>>

\* The cancelled worker ends; an operation it was in may have reached the platform.
WorkerStops ==
    /\ closing \in {"joining", "failed"} /\ worker.at # "stopped"
    /\ worker' = [worker EXCEPT !.at = "stopped", !.func = 0, !.futures = {}]
    /\ \/ worker.at = "running" /\ Shows
       \/ UNCHANGED shown
    /\ UNCHANGED <<queue, entry, call, closing>>

\* Deviation, for the mutation runs: the tasks of detached calls are left alone.
ShutdownEnds_Detached ==
    /\ closing = "joining" /\ worker.at = "stopped" /\ closing' = "over"
    /\ UNCHANGED <<queue, entry, call, worker, shown>>

DetachedCancelled ==
    [c \in Calls |-> IF call[c].at \in {"started", "backoff"}
                     THEN [call[c] EXCEPT !.at = "cancelled"] ELSE call[c]]

\* The tasks of the detached calls are cancelled and have ended.
ShutdownEnds ==
    /\ closing = "joining" /\ worker.at = "stopped" /\ closing' = "over"
    /\ call' = DetachedCancelled
    /\ UNCHANGED <<queue, entry, worker, shown>>

\* The operation does not stop before the timeout: shutdown raises, and may be retried.
ShutdownTimesOut ==
    /\ closing = "joining" /\ worker.at = "running" /\ closing' = "failed"
    /\ call' = DetachedCancelled
    /\ UNCHANGED <<queue, entry, worker, shown>>

Next ==
    \/ \E c \in Calls : \/ \E k \in Keys, kind \in Kinds : Ask(c, k, kind)
                        \/ Enqueue(c) \/ Cancel(c)
    \/ Take \/ Run \/ Deliver \/ Fail \/ Break
    \/ Shutdown \/ WorkerStops \/ ShutdownEnds \/ ShutdownTimesOut

Spec == Init /\ [][Next]_vars

(* Tasks and the worker run, pauses, sleeps and operations end.  Nobody has to ask. *)
FairSpec ==
    /\ Spec
    /\ \A c \in Calls : WF_vars(Enqueue(c))
    /\ WF_vars(Take) /\ WF_vars(Run) /\ WF_vars(Deliver \/ Fail \/ Break)
    /\ WF_vars(WorkerStops) /\ WF_vars(ShutdownEnds)

-----------------------------------------------------------------------------
(* Properties *)

\* Types of every variable.
TypeOK ==
    /\ queue \in Seq(Keys) /\ entry \in [Keys -> Entry]
    /\ call \in [Calls -> Call] /\ worker \in Worker
    /\ shown \in [Keys -> 0..MaxCalls] /\ closing \in {"no", "joining", "failed", "over"}

\* Compaction, failures and the shutdown lose nobody: whoever waits is known to the
\* entry of its key or to the worker.
WaitersAreKnown ==
    \A c \in Calls : call[c].at = "waiting" =>
        c \in entry[call[c].key].futures \/ c \in worker.futures

\* After the shutdown nothing is left that could still deliver or wait.
ShutdownIsComplete ==
    closing = "over" => /\ worker.at = "stopped" /\ queue = <<>>
                        /\ \A c \in Calls : call[c].at \in Ended \cup {"new"}

\* "to ensure only the latest version of a message update is processed": what the worker
\* takes is the newest version anybody has enqueued, for messages that only detached
\* calls update and whose connection has not broken.
Asked(k) == {c \in Calls : call[c].key = k /\ call[c].at # "new"}

LatestIsProcessed ==
    [][worker.at = "waiting" /\ worker'.at = "holding" =>
          LET rivals == Asked(worker'.key)
          IN  (\A c \in rivals : call[c].kind = "detached" /\ call[c].attempts = 0)
              => \A c \in rivals : call[c].at # "started" => c <= worker'.func]_vars

\* The same for every message, seen by the user: once a version is answered as
\* delivered, the message shows it or a newer one.
AnsweredIsShown == \A c \in Calls : call[c].at = "ok" => shown[call[c].key] >= c

\* Every delivery that is asked for gets its answer, also when the worker is shut down.
EveryCallEnds == \A c \in Calls : call[c].at # "new" ~> call[c].at \in Ended
=============================================================================
