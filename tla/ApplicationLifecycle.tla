------------------------ MODULE ApplicationLifecycle ------------------------
(***************************************************************************)
(* Startup, shutdown and supervised restart of the server                  *)
(* (src/codefa/runtime/application.py, asgi.py, bootstrap.py and the loop  *)
(* of cli/commands.py).                                                    *)
(*                                                                         *)
(* The runtime builds its resources one after the other and releases them  *)
(* behind a row of gates: ingress, workflow with its CLI sessions,         *)
(* delivery, transcriber, providers.  A gate that fails ends the attempt   *)
(* and leaves the rest for the next one; the supervisor builds another     *)
(* instance only on a complete close.                                      *)
(***************************************************************************)
EXTENDS Naturals

CONSTANTS MaxWork,      \* bound on the turns in progress
          MaxRestarts   \* bound on the instances of the server

VARIABLES
    pc,         \* where start or close stands
    caller,     \* who runs the cleanup: the start of messaging, or close
    own,        \* the resources the instance owns
    work,       \* turns in progress
    flags,      \* [closed, failed, restart]
    supervisor  \* [count: instances so far, leaked: an old one was left over]

vars == <<pc, caller, own, work, flags, supervisor>>

\* build_asgi_app: the provider manager and the transcriber exist from the start.
Built == [runtime |-> "none", workflow |-> FALSE, cli |-> FALSE,
          transcriber |-> TRUE, providers |-> TRUE]
Fresh == [closed |-> FALSE, failed |-> FALSE, restart |-> FALSE]

Init ==
    /\ pc = "starting" /\ caller = "close" /\ own = Built /\ work = 0
    /\ flags = Fresh
    /\ supervisor = [count |-> 1, leaked |-> FALSE]

-----------------------------------------------------------------------------
(* start *)

Starting == {"starting", "components", "cli", "workflow", "polling", "repairing"}

\* Validation is best effort for a configuration that is incomplete, only.
Validate ==
    /\ pc = "starting"
    /\ pc' = "components"
    /\ UNCHANGED <<caller, own, work, flags, supervisor>>

\* create_messaging_components: no platform, or a runtime that does not poll yet.
CreateComponents ==
    /\ pc = "components"
    /\ \/ pc' = "up" /\ UNCHANGED own
       \/ pc' = "cli" /\ own' = [own EXCEPT !.runtime = "idle"]
    /\ UNCHANGED <<caller, work, flags, supervisor>>

CreateCli ==
    /\ pc = "cli"
    /\ pc' = "workflow" /\ own' = [own EXCEPT !.cli = TRUE]
    /\ UNCHANGED <<caller, work, flags, supervisor>>

\* The workflow is built and restored before its handler is registered.
CreateWorkflow ==
    /\ pc = "workflow"
    /\ pc' = "polling" /\ own' = [own EXCEPT !.workflow = TRUE]
    /\ UNCHANGED <<caller, work, flags, supervisor>>

StartPolling ==
    /\ pc = "polling"
    /\ pc' = "repairing" /\ own' = [own EXCEPT !.runtime = "open"]
    /\ UNCHANGED <<caller, work, flags, supervisor>>

Repair ==
    /\ pc = "repairing"
    /\ pc' = "up"
    /\ UNCHANGED <<caller, own, work, flags, supervisor>>

\* A failure while messaging starts is cleaned up by the start itself; any other,
\* and a cancellation, closes everything.
StartFails ==
    /\ pc \in Starting \ {"starting"}
    /\ pc' = "quiesce" /\ caller' = "start"
    /\ UNCHANGED <<own, work, flags, supervisor>>
StartAborts ==
    /\ pc \in Starting \/ (caller = "start" /\ pc \in {"quiesce", "drain", "release"})
    /\ pc' = "quiesce" /\ caller' = "close"
    /\ flags' = [flags EXCEPT !.failed = TRUE]
    /\ UNCHANGED <<own, work, supervisor>>

-----------------------------------------------------------------------------
(* close *)

\* A failed gate: close gives up; a start that could not clean up closes instead,
\* from the first gate again.
GiveUp ==
    IF caller = "start"
    THEN /\ pc' = "quiesce" /\ caller' = "close"
         /\ flags' = [flags EXCEPT !.failed = TRUE]
    ELSE pc' = "down" /\ UNCHANGED <<caller, flags>>

Quiesce ==
    /\ pc = "quiesce"
    /\ \/ pc' = "drain" /\ UNCHANGED <<caller, flags>>
          /\ own' = [own EXCEPT !.runtime = IF @ = "none" THEN @ ELSE "quiesced"]
       \/ own.runtime # "none" /\ GiveUp /\ UNCHANGED own
    /\ UNCHANGED <<work, supervisor>>

\* Deviation, for the mutation runs: delivery is closed though turns go on.
Drain_Ungated ==
    /\ pc = "drain"
    /\ pc' = "release" /\ UNCHANGED <<caller, flags>>
    /\ \/ own' = [own EXCEPT !.workflow = FALSE, !.cli = FALSE] /\ work' = 0
       \/ own.workflow /\ UNCHANGED <<own, work>>
    /\ UNCHANGED supervisor

\* workflow.close, which ends the turns and the CLI sessions; sessions without a
\* workflow are stopped by their manager.
Drain ==
    /\ pc = "drain"
    /\ \/ /\ pc' = "release" /\ UNCHANGED <<caller, flags>>
          /\ own' = [own EXCEPT !.workflow = FALSE, !.cli = FALSE] /\ work' = 0
       \/ (own.workflow \/ own.cli) /\ GiveUp /\ UNCHANGED <<own, work>>
    /\ UNCHANGED supervisor

\* runtime.close ends the cleanup of messaging: a start goes on without messaging.
Release ==
    /\ pc = "release"
    /\ \/ /\ own' = [own EXCEPT !.runtime = "none"]
          /\ pc' = (IF caller = "start" THEN "up" ELSE "transcriber")
          /\ UNCHANGED <<caller, flags>>
       \/ own.runtime # "none" /\ GiveUp /\ UNCHANGED own
    /\ UNCHANGED <<work, supervisor>>

CloseTranscriber ==
    /\ pc = "transcriber"
    /\ \/ own' = [own EXCEPT !.transcriber = FALSE] /\ pc' = "providers" /\ UNCHANGED <<caller, flags>>
       \/ own.transcriber /\ GiveUp /\ UNCHANGED own
    /\ UNCHANGED <<work, supervisor>>

CloseProviders ==
    /\ pc = "providers"
    /\ \/ /\ own' = [own EXCEPT !.providers = FALSE] /\ pc' = "down"
          /\ flags' = [flags EXCEPT !.closed = TRUE] /\ UNCHANGED caller
       \/ own.providers /\ GiveUp /\ UNCHANGED own
    /\ UNCHANGED <<work, supervisor>>

-----------------------------------------------------------------------------
(* Turns, and the supervisor *)

Ingress ==
    /\ own.runtime = "open" /\ own.workflow /\ work < MaxWork
    /\ work' = work + 1
    /\ UNCHANGED <<pc, caller, own, flags, supervisor>>
TurnEnds ==
    /\ work > 0
    /\ work' = work - 1
    /\ UNCHANGED <<pc, caller, own, flags, supervisor>>

\* The end of the server, by a signal or by the restart an Admin asked for; a second
\* signal ends it without the shutdown of the lifespan.
Shutdown(restart) ==
    /\ pc = "up"
    /\ flags' = [flags EXCEPT !.restart = restart]
    /\ pc' = "quiesce" /\ caller' = "close"
    /\ UNCHANGED <<own, work, supervisor>>
ForceExit ==
    /\ pc = "up" \/ (caller = "close" /\ pc \in {"quiesce", "drain", "release", "transcriber", "providers"})
    /\ ~flags.failed
    /\ pc' = "down"
    /\ UNCHANGED <<caller, own, work, flags, supervisor>>

\* Deviation, for the mutation runs: a restart does not look at the old instance.
Supervise_Always ==
    /\ pc = "down" /\ flags.restart /\ supervisor.count < MaxRestarts
    /\ supervisor' = [count |-> supervisor.count + 1,
                      leaked |-> own # [runtime |-> "none", workflow |-> FALSE, cli |-> FALSE,
                                        transcriber |-> FALSE, providers |-> FALSE]]
    /\ pc' = "starting" /\ caller' = "close" /\ own' = Built /\ work' = 0 /\ flags' = Fresh

\* _run_supervised_server returns restart_requested and is_closed.
Supervise ==
    /\ pc = "down" /\ flags.restart /\ flags.closed /\ supervisor.count < MaxRestarts
    /\ supervisor' = [count |-> supervisor.count + 1,
                      leaked |-> own # [runtime |-> "none", workflow |-> FALSE, cli |-> FALSE,
                                        transcriber |-> FALSE, providers |-> FALSE]]
    /\ pc' = "starting" /\ caller' = "close" /\ own' = Built /\ work' = 0 /\ flags' = Fresh

Next == \/ Validate \/ CreateComponents \/ CreateCli \/ CreateWorkflow \/ StartPolling \/ Repair
        \/ StartFails \/ StartAborts
        \/ Quiesce \/ Drain \/ Release \/ CloseTranscriber \/ CloseProviders
        \/ Ingress \/ TurnEnds
        \/ (\E restart \in BOOLEAN : Shutdown(restart)) \/ ForceExit \/ Supervise

Spec == Init /\ [][Next]_vars

-----------------------------------------------------------------------------
\* "Teardown stops at a failed dependency gate rather than closing resources that
\* still-live upstream work may need": whichever step of the startup or of a cleanup
\* failed, a turn in progress has delivery, sessions, transcription and providers,
\* and a resource is gone only after everything that uses it.
WorkKeepsItsResources ==
    /\ work > 0 => own.workflow /\ own.cli /\ own.runtime # "none"
    /\ own.workflow => own.runtime # "none"
    /\ own.runtime # "none" \/ own.workflow \/ own.cli => own.transcriber
    /\ own.transcriber => own.providers

\* "An incomplete ASGI shutdown exits the supervisor instead of overlapping old and
\* replacement graphs", and a server that reports itself up has either all of
\* messaging or nothing of it.
GraphsDoNotOverlap ==
    /\ ~supervisor.leaked
    /\ pc = "up" => \/ own.workflow /\ own.cli /\ own.runtime = "open"
                    \/ ~own.workflow /\ ~own.cli /\ own.runtime = "none"
=============================================================================
