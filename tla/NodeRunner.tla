----------------------------- MODULE NodeRunner -----------------------------
(***************************************************************************)
(* The runner of a turn and the CLI sessions it drives                     *)
(* (src/codefa/messaging/node_runner.py, node_event_pipeline.py,           *)
(* src/codefa/cli/managed/{manager,session}.py).                           *)
(*                                                                         *)
(* A runner borrows a session from the manager, launches one subprocess in *)
(* it, follows its events and settles its claim; /stop cancels it in any   *)
(* await, once or again.  The manager's lock is held while a session is    *)
(* being stopped, the session's lifecycle lock while its process is being  *)
(* spawned.  TreeQueueManager shows that no two live turns resume the same *)
(* session.  A turn that has ended may still be known by its session where *)
(* a second cancellation interrupted the removal: the manager hands such a *)
(* session out again unless it is closing, and its next process waits for  *)
(* the old one's end (session.py, _cli_lock).  That reuse is left out.     *)
(***************************************************************************)
EXTENDS Naturals, FiniteSets, Functions

CONSTANTS
    Runners,    \* runners; each one's session object bears its name
    Ids,        \* session ids the CLI hands out
    Temp,       \* the pending id of each runner that resumes nothing
    MaxCancels, \* bound on the cancellations of each runner
    MaxStops,   \* bound on the stops of every session
    None

AllIds == Ids \cup Range(Temp)

\* What the code takes for granted: ids are not runners or commands, pending ids are unique
\* (uuid4, manager.py:106) and not ids of the CLI.
RunnerAssumption ==
    /\ None \notin Runners /\ "stop_all" \notin Runners /\ None # "stop_all"
    /\ None \notin AllIds
    /\ DOMAIN Temp = Runners /\ Range(Temp) \cap Ids = {}
    /\ \A r, s \in Runners : Temp[r] = Temp[s] => r = s
    /\ MaxCancels \in [Runners -> Nat] /\ MaxStops \in Nat

VARIABLES
    runner,     \* _process_node_impl of each runner
    claim,      \* the state of its turn in the tree
    session,    \* ManagedClaudeSession, its process and its PID registration
    pending,    \* _pending_sessions
    owned,      \* _sessions
    alias,      \* _temp_to_real
    closing,    \* _closing_sessions
    holder,     \* who holds the manager's _lock across an await
    sweep       \* [left: the sessions a stop_all has still to stop, count]

vars == <<runner, claim, session, pending, owned, alias, closing, holder, sweep>>
maps == <<pending, owned, alias>>

Empty   == [i \in {} |-> None]
Without(f, S) == [i \in DOMAIN f \ S |-> f[i]]
With(f, i, v) == [j \in DOMAIN f \cup {i} |-> IF j = i THEN v ELSE f[j]]

Init ==
    /\ runner = [r \in Runners |-> [pc |-> "new", key |-> None, temp |-> None, learned |-> None, captured |-> None,
                                    cancels |-> 0]]
    /\ claim = [r \in Runners |-> [state |-> "in_progress", revoked |-> FALSE,
                                   children |-> "waiting"]]
    /\ session = [r \in Runners |-> [process |-> "none", pid |-> FALSE, closed |-> FALSE]]
    /\ pending = Empty /\ owned = Empty /\ alias = Empty
    /\ closing = {} /\ holder = None /\ sweep = [left |-> {}, count |-> 0]

Known(r)    == r \in Range(pending) \cup Range(owned) \cup closing
Lookup(i)   == IF i \in DOMAIN alias THEN alias[i] ELSE i

\* Deviation, for the mutation runs: the id is not resolved through its alias.
SessionFor_Literal(i) ==
    {r \in Runners : \/ i \in DOMAIN owned /\ owned[i] = r
                     \/ i \in DOMAIN pending /\ pending[i] = r}

\* _session_for_id, as a set of at most one session.
SessionFor(i) ==
    IF Lookup(i) \in DOMAIN owned THEN {owned[Lookup(i)]}
    ELSE IF Lookup(i) \in DOMAIN pending THEN {pending[Lookup(i)]} ELSE {}

\* _forget_session.
ForgetSession(r) ==
    LET gone == {i \in DOMAIN owned : owned[i] = r}
    IN  /\ pending' = Without(pending, {i \in DOMAIN pending : pending[i] = r})
        /\ owned' = Without(owned, gone)
        /\ alias' = Without(alias, {t \in DOMAIN alias : alias[t] \in gone})
        /\ closing' = closing \ {r}

Go(r, pc) == runner' = [runner EXCEPT ![r].pc = pc]

\* What the tree does with a claim that is no longer the runner's: nothing.
Fail(r, propagate) ==
    claim' = IF claim[r].revoked THEN claim
             ELSE [claim EXCEPT ![r].state = "error",
                                ![r].children = IF propagate THEN "failed" ELSE @]
Complete(r) ==
    claim' = IF claim[r].revoked THEN claim
             ELSE [claim EXCEPT ![r].state = "completed"]

-----------------------------------------------------------------------------
(* get_or_create_session and start_task *)

Seen(r) == {runner[r].key, runner[r].learned}

\* What a turn may resume, and always forks; and the fresh ids a CLI may announce.
Resumable == Ids \cup {None}
Announced == Ids \ UNION {Seen(s) : s \in Runners}

\* A turn forks the session of its parent, which has ended, or starts a new one.
GetSession(r) ==
    /\ runner[r].pc = "new" /\ holder = None
    /\ \E parent \in Resumable :
         LET key == IF parent = None THEN Temp[r] ELSE parent
         IN  /\ \A s \in Runners : key \in Seen(s) => runner[s].pc = "done"
             /\ IF parent # None /\ SessionFor(parent) # {}
                THEN /\ SessionFor(parent) \subseteq closing
                     /\ Fail(r, FALSE)
                     /\ runner' = [runner EXCEPT ![r].pc = "done", ![r].key = key]
                     /\ UNCHANGED pending
                ELSE /\ pending' = With(pending, key, r)
                     /\ runner' = [runner EXCEPT ![r].pc = "launch", ![r].key = key, ![r].temp = key]
                     /\ UNCHANGED claim
    /\ UNCHANGED <<session, owned, alias, closing, holder, sweep>>

\* Deviation, for the mutation runs: a closed session launches again.
Spawn_Closed(r) ==
    /\ runner[r].pc = "launch"
    /\ session' = [session EXCEPT ![r].process = "spawning"]
    /\ Go(r, "spawning")
    /\ UNCHANGED <<claim, maps, closing, holder, sweep>>

Spawn(r) ==
    /\ runner[r].pc = "launch"
    /\ IF session[r].closed
       THEN UNCHANGED session /\ Go(r, "raised")
       ELSE /\ session' = [session EXCEPT ![r].process = "spawning"]
            /\ Go(r, "spawning")
    /\ UNCHANGED <<claim, maps, closing, holder, sweep>>

\* The process is published and its PID registered before the lock is released.
Spawned(r) ==
    /\ runner[r].pc = "spawning"
    /\ \/ /\ session' = [session EXCEPT ![r].process = "live", ![r].pid = TRUE]
          /\ Go(r, "reading")
       \/ /\ session' = [session EXCEPT ![r].process = "none"]
          /\ Go(r, "raised")
    /\ UNCHANGED <<claim, maps, closing, holder, sweep>>

-----------------------------------------------------------------------------
(* Events of the subprocess *)

\* register_real_session_id, in handle_session_info_event; the CLI, which forks the
\* session it resumes, hands out a fresh id.
Register(r) ==
    /\ runner[r].pc = "reading" /\ holder = None /\ runner[r].temp # None
    /\ \E id \in Announced :
         IF \/ runner[r].temp \notin DOMAIN pending
            \/ r \in closing \/ ~(SessionFor(id) \subseteq {r})
         THEN Go(r, "raised") /\ UNCHANGED maps
         ELSE /\ pending' = Without(pending, {runner[r].temp})
              /\ owned' = With(owned, id, r)
              /\ alias' = With(alias, runner[r].temp, id)
              /\ runner' = [runner EXCEPT ![r].pc = "registered", ![r].learned = id]
    /\ UNCHANGED <<claim, session, closing, holder, sweep>>

\* record_session is awaited: until it returns the runner only knows its old id.
RecordSession(r) ==
    /\ runner[r].pc = "registered"
    /\ runner' = [runner EXCEPT ![r].pc = "reading", ![r].temp = None,
                                ![r].captured = runner[r].learned]
    /\ UNCHANGED <<claim, session, maps, closing, holder, sweep>>

\* Deviation, for the mutation runs: any error fails the waiting replies at once.
ErrorEvent_Propagates(r) ==
    /\ runner[r].pc = "reading"
    /\ Fail(r, TRUE)
    /\ UNCHANGED <<runner, session, maps, closing, holder, sweep>>

\* An error event, of the API or from stderr, is shown and not yet final.
ErrorEvent(r) ==
    /\ runner[r].pc = "reading"
    /\ Fail(r, FALSE)
    /\ UNCHANGED <<runner, session, maps, closing, holder, sweep>>

\* The exit event: code 0 completes the turn whatever was reported before.
Exit(r) ==
    /\ runner[r].pc = "reading"
    /\ session' = [session EXCEPT ![r].process = "none", ![r].pid = FALSE]
    /\ \/ Complete(r)
       \/ Fail(r, TRUE)
    /\ Go(r, "leaving")
    /\ UNCHANGED <<maps, closing, holder, sweep>>

\* The stream breaks off or an event cannot be handled.
Break(r) ==
    /\ runner[r].pc \in {"reading", "registered"}
    /\ Go(r, "raised")
    /\ UNCHANGED <<claim, session, maps, closing, holder, sweep>>

\* The end of the subprocess shows as the end of its output.
ProcessDies(r) ==
    /\ session[r].process = "live"
    /\ session' = [session EXCEPT ![r].process = "dead"]
    /\ UNCHANGED <<runner, claim, maps, closing, holder, sweep>>

\* except Exception.
Raised(r) ==
    /\ runner[r].pc = "raised"
    /\ Fail(r, TRUE)
    /\ Go(r, "leaving")
    /\ UNCHANGED <<session, maps, closing, holder, sweep>>

-----------------------------------------------------------------------------
(* Cancellation and cleanup *)

\* session.stop: refused while a process is being spawned, terminal from then on;
\* TRUE only when the exit of the process is confirmed.
Stopped(r, confirmed) ==
    /\ session[r].process # "spawning"
    /\ session' = [session EXCEPT ![r].closed = TRUE,
                                  ![r].process = IF confirmed THEN "none" ELSE @,
                                  ![r].pid = IF confirmed THEN FALSE ELSE @]

\* CancelledError reaches the runner: a read stops the session under a shield, a
\* spawn closes its transport, any other await leaves the process to the cleanup;
\* the handler shows the reason and fails the claim.
Cancelled(r) ==
    /\ runner[r].pc \in {"launch", "spawning", "reading", "registered", "raised"}
    /\ runner[r].cancels > 0
    /\ \/ runner[r].pc = "reading" /\ \E confirmed \in BOOLEAN : Stopped(r, confirmed)
       \/ runner[r].pc = "spawning" /\ session' = [session EXCEPT ![r].process = "none"]
       \/ runner[r].pc # "spawning" /\ UNCHANGED session
    /\ Fail(r, FALSE)
    /\ Go(r, "leaving")
    /\ UNCHANGED <<maps, closing, holder, sweep>>

OwnId(r) == IF runner[r].captured # None THEN runner[r].captured ELSE runner[r].temp

\* remove_session, in the finally block: the session is marked before it is stopped.
BeginRemove(r) ==
    /\ runner[r].pc = "leaving" /\ holder = None
    /\ IF SessionFor(OwnId(r)) = {}
       THEN Go(r, "done") /\ UNCHANGED <<closing, holder>>
       ELSE /\ closing' = closing \cup SessionFor(OwnId(r))
            /\ holder' = r
            /\ Go(r, "removing")
    /\ UNCHANGED <<claim, session, maps, sweep>>

EndRemove(r) ==
    /\ runner[r].pc = "removing"
    /\ \E s \in SessionFor(OwnId(r)), confirmed \in BOOLEAN :
         /\ Stopped(s, confirmed)
         /\ IF confirmed THEN ForgetSession(s) ELSE UNCHANGED <<maps, closing>>
    /\ holder' = None
    /\ Go(r, "done")
    /\ UNCHANGED <<claim, sweep>>

\* Cancelled once more while it waits: the lock is released, the session stays
\* closing with its process, for stop_all to find.
RemoveInterrupted(r) ==
    /\ runner[r].pc \in {"leaving", "removing"} /\ runner[r].cancels > 1
    /\ \/ runner[r].pc = "removing" /\ holder' = None
       \/ runner[r].pc = "leaving" /\ UNCHANGED holder
    /\ Go(r, "done")
    /\ UNCHANGED <<claim, session, maps, closing, sweep>>

\* processor.cancel: the tree settles the turn before the task hears of it.
Cancel(r) ==
    /\ runner[r].pc \notin {"new", "done"} /\ runner[r].cancels < MaxCancels[r]
    /\ runner' = [runner EXCEPT ![r].cancels = @ + 1]
    /\ claim' = [claim EXCEPT ![r].revoked = TRUE,
                              ![r].state = IF @ = "in_progress" THEN "error" ELSE @]
    /\ UNCHANGED <<session, maps, closing, holder, sweep>>

\* stop_all: every session, mapped or still closing, under one hold of the lock.
BeginStopAll ==
    /\ holder = None
    /\ {r \in Runners : Known(r)} # {} /\ sweep.count < MaxStops
    /\ holder' = "stop_all"
    /\ sweep' = [left |-> {r \in Runners : Known(r)}, count |-> sweep.count + 1]
    /\ closing' = closing \cup sweep'.left
    /\ UNCHANGED <<runner, claim, session, maps>>

StopOne(r) ==
    /\ holder = "stop_all" /\ r \in sweep.left
    /\ \E confirmed \in BOOLEAN :
         /\ Stopped(r, confirmed)
         /\ IF confirmed THEN ForgetSession(r) ELSE UNCHANGED <<maps, closing>>
    /\ sweep' = [sweep EXCEPT !.left = @ \ {r}]
    /\ UNCHANGED <<runner, claim, holder>>

EndStopAll ==
    /\ holder = "stop_all" /\ sweep.left = {}
    /\ holder' = None
    /\ UNCHANGED <<runner, claim, session, maps, closing, sweep>>

-----------------------------------------------------------------------------
Run(r) == \/ GetSession(r) \/ Spawn(r) \/ Spawned(r) \/ Register(r) \/ RecordSession(r)
          \/ ErrorEvent(r) \/ Exit(r) \/ Break(r) \/ ProcessDies(r) \/ Raised(r)
          \/ Cancelled(r) \/ BeginRemove(r) \/ EndRemove(r) \/ RemoveInterrupted(r)
          \/ Cancel(r) \/ StopOne(r)

Next == \/ \E r \in Runners : Run(r)
        \/ BeginStopAll \/ EndStopAll

Spec == Init /\ [][Next]_vars

-----------------------------------------------------------------------------
\* "Aliases plus PID registration remain owned until exit is confirmed": a CLI
\* process that may be alive is registered and its session can still be found by
\* the next cleanup, whatever was cancelled or failed on the way; and a forgotten
\* session never runs a process again.
SessionsAreOwned ==
    \A r \in Runners :
        /\ session[r].process = "live" => session[r].pid
        /\ runner[r].pc # "new" /\ ~Known(r) => session[r].process = "none"

\* The id maps agree: an alias leads to a session, a session has one identity, and
\* the id a runner knows, old or new, leads to its own session; so that a runner
\* that has returned has settled its turn and removed its session, unless the
\* session is closing or the removal itself was cancelled.
IdentitiesAgree ==
    /\ \A t \in DOMAIN alias : alias[t] \in DOMAIN owned
    /\ IsInjective(alias) /\ IsInjective(owned) /\ IsInjective(pending)
    /\ Range(owned) \cap Range(pending) = {}
    /\ \A r \in Runners :
         IF runner[r].pc = "done"
         THEN /\ claim[r].state # "in_progress"
              /\ Known(r) => r \in closing \/ runner[r].cancels > 1
         ELSE OwnId(r) # None => SessionFor(OwnId(r)) \subseteq {r}

\* Replies that wait for a turn fail only when it ends in failure: not on an error
\* that a clean exit of the CLI may still overrule, and not when it is stopped.
OnlyFailuresPropagate ==
    \A r \in Runners : claim[r].children = "failed" => claim[r].state = "error"
=============================================================================
