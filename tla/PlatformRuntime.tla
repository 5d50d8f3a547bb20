--------------------------- MODULE PlatformRuntime ---------------------------
(***************************************************************************)
(* The ingress and the delivery of a messaging platform: how Telegram's    *)
(* and Discord's runtimes connect, hand messages over, and are stopped by  *)
(* the application (src/codefa/messaging/platforms/telegram.py,            *)
(* discord.py, outbox.py, factory.py; the gates of                         *)
(* runtime/application.py _cleanup_messaging).                             *)
(*                                                                         *)
(* Telegram's SDK takes updates from its updater and handles them in the   *)
(* application, whose stop waits for them.  Discord's client starts a task *)
(* of its own for every event, which closing the client does not wait for: *)
(* the runtime keeps those that it let in, and drains them itself.         *)
(***************************************************************************)
EXTENDS Naturals, FiniteSets

CONSTANTS
    Messages,   \* what the platform's users send
    Attempts,   \* attempts of a connection step (3 in the code)
    Sends,      \* attempts of a Telegram call (3 in the code)
    MaxFailures \* bound on the failures of SDK calls

VARIABLES
    platform,   \* "none" until create_messaging_components has chosen one
    pc,         \* where start, quiesce or close stands; "up" once start has returned
                \*  or raised, "failed" when a shutdown has to be tried again
    sdk,        \* [polling: Telegram's updater, running: its application, or
                \*  Discord's start task, closed: Discord's client]
    accepting,  \* _accepting_messages
    connected,  \* _connected
    handlers,   \* what became of each message
    delivery,   \* [limiter, closed: the outbox is, background: its tasks]
    tries,      \* [steps, sends, failed: a step of this shutdown raised]
    failures    \* failures so far

vars == <<platform, pc, sdk, accepting, connected, handlers, delivery, tries, failures>>

Init ==
    /\ platform = "none" /\ pc = "new"
    /\ sdk = [polling |-> FALSE, running |-> FALSE, closed |-> FALSE]
    /\ accepting = FALSE /\ connected = FALSE
    /\ handlers = [m \in Messages |-> "none"]
    /\ delivery = [limiter |-> "off", closed |-> FALSE, background |-> {}]
    /\ tries = [steps |-> 0, sends |-> 0, failed |-> FALSE]
    /\ failures = 0

Fails == failures < MaxFailures /\ failures' = failures + 1
Goes(next) == pc' = next /\ tries' = [tries EXCEPT !.steps = 0]

\* create_messaging_components: without a token there is no platform.
Create ==
    /\ pc = "new" /\ platform = "none"
    /\ platform' \in {"telegram", "discord"} /\ pc' = "created"
    /\ UNCHANGED <<sdk, accepting, connected, handlers, delivery, tries, failures>>

-----------------------------------------------------------------------------
(* Telegram starts: initialize, application.start, polling *)

\* _retry_connection_step: a failed step is tried again, and given up at the last.
StepFails(here) ==
    /\ Fails
    /\ IF tries.steps + 1 < Attempts
       THEN pc' = here /\ tries' = [tries EXCEPT !.steps = @ + 1]
       ELSE Goes("up")

TelegramInitialize ==
    /\ platform = "telegram" /\ pc = "created"
    /\ \/ Goes("application") /\ UNCHANGED failures
       \/ StepFails("created")
    /\ UNCHANGED <<platform, sdk, accepting, connected, handlers, delivery>>

TelegramApplication ==
    /\ platform = "telegram" /\ pc = "application"
    /\ \/ /\ Goes("polling") /\ sdk' = [sdk EXCEPT !.running = TRUE]
          /\ delivery' = [delivery EXCEPT !.limiter = "on"]
          /\ UNCHANGED failures
       \/ Fails /\ Goes("up") /\ UNCHANGED <<sdk, delivery>>
    /\ UNCHANGED <<platform, accepting, connected, handlers>>

TelegramPolling ==
    /\ platform = "telegram" /\ pc = "polling"
    /\ \/ Goes("up") /\ connected' = TRUE /\ sdk' = [sdk EXCEPT !.polling = TRUE] /\ UNCHANGED failures
       \/ StepFails("polling") /\ UNCHANGED <<sdk, connected>>
    /\ UNCHANGED <<platform, accepting, handlers, delivery>>

-----------------------------------------------------------------------------
(* Discord starts: a task runs the client, and start waits until it is ready *)

DiscordStart ==
    /\ platform = "discord" /\ pc = "created"
    /\ pc' = "waiting" /\ accepting' = TRUE
    /\ sdk' = [sdk EXCEPT !.running = TRUE]
    /\ delivery' = [delivery EXCEPT !.limiter = "on"]
    /\ UNCHANGED <<platform, connected, handlers, tries, failures>>

\* Deviation, for the mutation runs: readiness is published whenever the event comes.
MarkConnected_Anytime ==
    /\ platform = "discord" /\ pc \notin {"new", "created"}
    /\ connected' = TRUE
    /\ UNCHANGED <<platform, pc, sdk, accepting, handlers, delivery, tries, failures>>

\* on_ready, from a task the client has started: it may run after the client ended,
\* and again after a reconnection.
MarkConnected ==
    /\ platform = "discord" /\ accepting
    /\ connected' = TRUE
    /\ UNCHANGED <<platform, pc, sdk, accepting, handlers, delivery, tries, failures>>

\* _observe_client_exit
ClientExits ==
    /\ platform = "discord" /\ sdk.running /\ Fails
    /\ sdk' = [sdk EXCEPT !.running = FALSE]
    /\ connected' = (connected /\ ~accepting)
    /\ UNCHANGED <<platform, pc, accepting, handlers, delivery, tries>>

\* start returns once the client is ready, and raises when the client's task has ended
\* or nothing happens for 30 seconds.  Either way the application owns the runtime.
DiscordStarted ==
    /\ platform = "discord" /\ pc = "waiting"
    /\ \/ connected /\ sdk.running /\ UNCHANGED failures
       \/ ~sdk.running /\ UNCHANGED failures
       \/ ~connected /\ Fails
    /\ Goes("up")
    /\ UNCHANGED <<platform, sdk, accepting, connected, handlers, delivery>>

-----------------------------------------------------------------------------
(* Messages *)

\* An update comes in through the updater; a gateway event starts a task.
Arrive(m) ==
    /\ handlers[m] = "none"
    /\ IF platform = "telegram" THEN sdk.polling ELSE platform = "discord" /\ sdk.running
    /\ handlers' = [handlers EXCEPT ![m] = "dispatched"]
    /\ UNCHANGED <<platform, pc, sdk, accepting, connected, delivery, tries, failures>>

Active(m) == handlers[m] \in {"text", "voice", "replying"}

\* The application handles one update at a time; a Discord task enters if the runtime
\* accepts messages.
MayEnter ==
    IF platform = "telegram" THEN sdk.running /\ ~\E n \in Messages : Active(n) ELSE accepting

\* Deviation, for the mutation runs: a Discord task enters whenever it runs.
MayHandle_Anytime == IF platform = "telegram" THEN MayEnter ELSE TRUE

MayHandle == MayEnter

\* What comes in: from a user and a channel that are served (never from a bot), and with
\* which content.
Events == [served : BOOLEAN, content : SUBSET {"text", "voice"}]

\* Telegram routes an update by its one content; without one no handler is called.
FromUpdate(e) ==
    IF e.served /\ Cardinality(e.content) = 1 THEN CHOOSE c \in e.content : TRUE ELSE "done"

\* Discord's audio is an attachment, and looked at only if there is no text.
FromEvent(e) ==
    IF ~e.served \/ e.content = {} THEN "done"
    ELSE IF "text" \in e.content THEN "text" ELSE "voice"

\* A text goes to the workflow, audio to the voice flow, anything else is dropped.
Handle(m) ==
    /\ handlers[m] = "dispatched" /\ MayHandle
    /\ \E e \in Events :
          handlers' = [handlers EXCEPT ![m] = IF platform = "telegram" THEN FromUpdate(e) ELSE FromEvent(e)]
    /\ UNCHANGED <<platform, pc, sdk, accepting, connected, delivery, tries, failures>>

\* _handle_client_message returns at once while the runtime does not accept.
Ignore(m) ==
    /\ platform = "discord" /\ handlers[m] = "dispatched" /\ ~accepting
    /\ handlers' = [handlers EXCEPT ![m] = "done"]
    /\ UNCHANGED <<platform, pc, sdk, accepting, connected, delivery, tries, failures>>

\* The workflow's handler is done, or raised and the user is told.
Handled(m) ==
    /\ \/ /\ handlers[m] \in {"text", "voice"}
          /\ handlers' = [handlers EXCEPT ![m] = "done"] /\ UNCHANGED failures
       \/ handlers[m] = "text" /\ handlers' = [handlers EXCEPT ![m] = "replying"] /\ Fails
    /\ UNCHANGED <<platform, pc, sdk, accepting, connected, delivery, tries>>

\* send_message: Telegram's calls are tried again after a network error; what fails for
\* good is suppressed.
Reply(m) ==
    /\ handlers[m] = "replying"
    /\ \/ /\ handlers' = [handlers EXCEPT ![m] = "done"] /\ tries' = [tries EXCEPT !.sends = 0]
          /\ UNCHANGED failures
       \/ /\ platform = "telegram" /\ tries.sends + 1 < Sends /\ Fails
          /\ tries' = [tries EXCEPT !.sends = @ + 1] /\ UNCHANGED handlers
    /\ UNCHANGED <<platform, pc, sdk, accepting, connected, delivery>>

-----------------------------------------------------------------------------
(* Work behind the messages: PlatformOutbox.fire_and_forget *)

\* Deviation, for the mutation runs: detached work is started after the close as well.
Detach_Anytime(m) ==
    /\ m \notin delivery.background /\ platform # "none"
    /\ delivery' = [delivery EXCEPT !.background = @ \union {m}]
    /\ UNCHANGED <<platform, pc, sdk, accepting, connected, handlers, tries, failures>>

\* A closed outbox cancels the work and refuses it.
Detach(m) ==
    /\ m \notin delivery.background /\ platform # "none" /\ ~delivery.closed
    /\ delivery' = [delivery EXCEPT !.background = @ \union {m}]
    /\ UNCHANGED <<platform, pc, sdk, accepting, connected, handlers, tries, failures>>

DetachedEnds(m) ==
    /\ m \in delivery.background
    /\ delivery' = [delivery EXCEPT !.background = @ \ {m}]
    /\ UNCHANGED <<platform, pc, sdk, accepting, connected, handlers, tries, failures>>

-----------------------------------------------------------------------------
(* quiesce: stop the ingress, then wait for what it let in *)

Raised == Fails /\ tries' = [tries EXCEPT !.failed = TRUE]

\* Also what a failed close is retried from.
Quiesce ==
    /\ pc = "up" \/ pc = "failed"
    /\ pc' = "ingress" /\ accepting' = FALSE
    /\ tries' = [tries EXCEPT !.failed = FALSE]
    /\ UNCHANGED <<platform, sdk, connected, handlers, delivery, failures>>

\* updater.stop and client.close; the rest follows even if they raise.
StopIngress ==
    /\ pc = "ingress"
    /\ \/ /\ UNCHANGED <<tries, failures>>
          /\ sdk' = [sdk EXCEPT !.polling = FALSE, !.closed = (platform = "discord")]
       \/ /\ sdk.polling \/ (platform = "discord" /\ ~sdk.closed)
          /\ Raised /\ UNCHANGED sdk
    /\ pc' = "handlers"
    /\ UNCHANGED <<platform, accepting, connected, handlers, delivery>>

\* Deviation, for the mutation runs: Discord's handlers are left to themselves.
HandlersDrained_Never == platform = "telegram" => \A m \in Messages : ~Active(m)

\* application.stop waits for the update that is being handled, the drain of Discord's
\* tasks for those it let in.
HandlersDrained == \A m \in Messages : ~Active(m)

\* application.stop, or _drain_start_task and _drain_inbound_tasks.
Drain ==
    /\ pc = "handlers" /\ HandlersDrained
    /\ connected' = FALSE
    /\ \/ /\ sdk' = [sdk EXCEPT !.running = FALSE]
          /\ pc' = IF tries.failed THEN "failed" ELSE "workflow"
          /\ UNCHANGED failures
       \/ platform = "telegram" /\ sdk.running /\ Fails /\ pc' = "failed" /\ UNCHANGED sdk
    /\ UNCHANGED <<platform, accepting, handlers, delivery, tries>>

-----------------------------------------------------------------------------
(* The application's gates, and close *)

\* MessagingWorkflow.close comes between the two, and may fail as well.
CloseWorkflow ==
    /\ pc = "workflow"
    /\ \/ pc' = "outbox" /\ UNCHANGED failures
       \/ pc' = "failed" /\ Fails
    /\ UNCHANGED <<platform, sdk, accepting, connected, handlers, delivery, tries>>

\* PlatformOutbox.close refuses further work before it cancels what runs ...
CloseOutbox ==
    /\ pc = "outbox" /\ pc' = "awaiting"
    /\ delivery' = [delivery EXCEPT !.closed = TRUE]
    /\ UNCHANGED <<platform, sdk, accepting, connected, handlers, tries, failures>>

\* ... and waits for it; a task that is being cancelled may still finish its work.
OutboxClosed ==
    /\ pc = "awaiting" /\ delivery.background = {}
    /\ pc' = "limiter"
    /\ UNCHANGED <<platform, sdk, accepting, connected, handlers, delivery, tries, failures>>

\* The limiter's shutdown (MessagingLimiter) and the SDK's: one that raises leaves the
\* runtime to the next close.
Close ==
    /\ pc = "limiter"
    /\ \/ pc' = "down" /\ delivery' = [delivery EXCEPT !.limiter = "shut"] /\ UNCHANGED failures
       \/ pc' = "failed" /\ Fails /\ delivery' = [delivery EXCEPT !.limiter = "shut"]
       \/ pc' = "failed" /\ Fails /\ UNCHANGED delivery
    /\ UNCHANGED <<platform, sdk, accepting, connected, handlers, tries>>

Next ==
    \/ Create \/ TelegramInitialize \/ TelegramApplication \/ TelegramPolling
    \/ DiscordStart \/ MarkConnected \/ ClientExits \/ DiscordStarted
    \/ \E m \in Messages : Arrive(m) \/ Handle(m) \/ Ignore(m) \/ Handled(m) \/ Reply(m)
                              \/ Detach(m) \/ DetachedEnds(m)
    \/ Quiesce \/ StopIngress \/ Drain
    \/ CloseWorkflow \/ CloseOutbox \/ OutboxClosed \/ Close

Spec == Init /\ [][Next]_vars

-----------------------------------------------------------------------------
(* What the runtimes promise *)

\* "Delivery must remain available until ingress is known stopped"
\* (runtime/application.py _cleanup_messaging): once the outbox is closed no handler
\* runs, and none will, whichever step of the shutdown raised and was retried.
IngressEndsFirst == delivery.closed => \A m \in Messages : ~Active(m)

\* A runtime that is closed is closed: its client has ended and does not advertise a
\* connection, the delivery worker is shut down and no detached work is left over.
NothingIsLeft ==
    pc = "down" => /\ ~sdk.polling /\ ~sdk.running /\ ~connected
                   /\ delivery.limiter = "shut" /\ delivery.background = {}
=============================================================================
