----------------------------- MODULE MessagingBridge -----------------------------
(***************************************************************************)
(* The components of the messaging bridge, one at a time: a behaviour      *)
(* belongs to one part and leaves the variables of the others alone, so    *)
(* that one run asks each of them its questions, and one theorem states    *)
(* what they promise.  The parts whose proofs have a module of their own   *)
(* are instances of that module, for its lemmas.                           *)
(***************************************************************************)
EXTENDS SessionPersistence

CONSTANTS
    DeliveryKeys, MaxCalls, CallKinds, TransientFailures,         \* MessagingLimiter
    Prompts, Parent, Chats, ChatOf, Commands, HomeChat, MaxCrashes, None, \* MessagingWorkflow
    Runners, SessionIds, Temp, MaxCancels, MaxStops,              \* NodeRunner
    Flows, Users, Voice, StatusOf, Stops, Kills,                  \* VoiceNotes
    CallIds, NoId, TaskLike, Roughly, Indexes, MaxEvents,         \* Transcript
    Limit, Marker, MinTail,
    ChatMessages, Attempts, Sends, MaxOutages                     \* PlatformRuntime

VARIABLES
    part,
    queue, entry, call, worker, shown, stopping,         \* MessagingLimiter
    stopGen, clearGen, lock, turn, node, root, running,  \* MessagingWorkflow
    log, store, saved, visible, cmd, notice, crashes, past,
    runner, claim, session, unnamed, owned, alias,       \* NodeRunner
    closing, holder, sweep,
    flow, notes, child, ops, service,                    \* VoiceNotes
    applied, segments, open, names, stack, announced,    \* Transcript
    platform, pc, sdk, accepting, connected,             \* PlatformRuntime
    handlers, delivery, tries, outages

limiterVars    == <<queue, entry, call, worker, shown, stopping>>
workflowVars   == <<stopGen, clearGen, lock, turn, node, root, running, log, store, saved,
                    visible, cmd, notice, crashes, past>>
runnerVars     == <<runner, claim, session, unnamed, owned, alias, closing, holder, sweep>>
voiceVars      == <<flow, notes, child, ops, service>>
transcriptVars == <<applied, segments, open, names, stack, announced>>
platformVars   == <<platform, pc, sdk, accepting, connected, handlers, delivery, tries, outages>>

bridgeVars == <<part, vars, limiterVars, workflowVars, runnerVars, voiceVars, transcriptVars,
                platformVars>>

-----------------------------------------------------------------------------
Limiter == INSTANCE MessagingLimiter WITH
    Keys <- DeliveryKeys, Kinds <- CallKinds, closing <- stopping

\* There is a crash, or the start-up notice is published.
Crashing == INSTANCE MessagingWorkflow_proofs WITH Notices <- FALSE, file <- saved
Noticing == INSTANCE MessagingWorkflow_proofs WITH MaxCrashes <- 0, Notices <- TRUE, file <- saved

Sessions == INSTANCE NodeRunner_proofs WITH Ids <- SessionIds, pending <- unnamed

Notes == INSTANCE VoiceNotes WITH Status <- StatusOf, pending <- notes

Progress == INSTANCE Transcript WITH Ids <- CallIds, running <- announced

Platform == INSTANCE PlatformRuntime WITH
    Messages <- ChatMessages, MaxFailures <- MaxOutages, failures <- outages

-----------------------------------------------------------------------------
\* What the theorems about the parts take for granted.
ASSUME PartsAssumption ==
    /\ Limiter!LimiterAssumption /\ Sessions!RunnerAssumption
    /\ Crashing!WorkflowAssumption /\ Noticing!WorkflowAssumption
    /\ Notes!VoiceAssumption /\ Progress!TranscriptAssumption

-----------------------------------------------------------------------------
Parts == {"store", "limiter", "crashing", "noticing", "sessions", "notes", "progress", "platform"}

InitBridge ==
    /\ part \in Parts
    /\ Init /\ Limiter!Init /\ Sessions!Init /\ Notes!Init /\ Progress!Init /\ Platform!Init
    /\ IF part = "noticing" THEN Noticing!Init ELSE Crashing!Init

NextBridge ==
    /\ UNCHANGED part
    /\ \/ /\ part = "store" /\ Next
          /\ UNCHANGED <<limiterVars, workflowVars, runnerVars, voiceVars, transcriptVars, platformVars>>
       \/ /\ part = "limiter" /\ Limiter!Next
          /\ UNCHANGED <<vars, workflowVars, runnerVars, voiceVars, transcriptVars, platformVars>>
       \/ /\ part = "crashing" /\ Crashing!Next
          /\ UNCHANGED <<vars, limiterVars, runnerVars, voiceVars, transcriptVars, platformVars>>
       \/ /\ part = "noticing" /\ Noticing!Next
          /\ UNCHANGED <<vars, limiterVars, runnerVars, voiceVars, transcriptVars, platformVars>>
       \/ /\ part = "sessions" /\ Sessions!Next
          /\ UNCHANGED <<vars, limiterVars, workflowVars, voiceVars, transcriptVars, platformVars>>
       \/ /\ part = "notes" /\ Notes!Next
          /\ UNCHANGED <<vars, limiterVars, workflowVars, runnerVars, transcriptVars, platformVars>>
       \/ /\ part = "progress" /\ Progress!Next
          /\ UNCHANGED <<vars, limiterVars, workflowVars, runnerVars, voiceVars, platformVars>>
       \/ /\ part = "platform" /\ Platform!Next
          /\ UNCHANGED <<vars, limiterVars, workflowVars, runnerVars, voiceVars, transcriptVars>>

SpecBridge == InitBridge /\ [][NextBridge]_bridgeVars

-----------------------------------------------------------------------------
(* Properties.  The parts are stated in the modules, with the code they are about. *)

\* limiter.py: whoever waits for a delivery is known to the queue or the worker, nobody is
\* left behind by the shutdown, and the worker takes the newest version of a message.
DeliveriesAreKept ==
    /\ [](part = "limiter" => Limiter!TypeOK /\ Limiter!WaitersAreKnown /\ Limiter!ShutdownIsComplete)
    /\ Limiter!LatestIsProcessed

\* workflow.py: a prompt that was stopped, or on its way when everything was, never waits
\* or runs again.
NothingOutlivesStop ==
    /\ part = "crashing" => Crashing!NothingOutlivesStop
    /\ part = "noticing" => Noticing!NothingOutlivesStop

\* workflow.py, commands.py: what was cleared comes back in no tree, snapshot or file.
ClearedStaysCleared ==
    /\ part = "crashing" => Crashing!ClearedStaysCleared
    /\ part = "noticing" => Noticing!ClearedStaysCleared

\* workflow.py, runtime.py: a turn that can run has a live task in its tree, after a restart
\* as well, and one that has finished is stored as finished.
RestartsAreHonest ==
    /\ part = "crashing" => Crashing!TypeOK /\ Crashing!RunnableHasTask /\ Crashing!StoredAsFinished
    /\ part = "noticing" => Noticing!TypeOK /\ Noticing!RunnableHasTask /\ Noticing!StoredAsFinished

\* managed_message_log.py: a message the bot manages can be found by a later /clear.
NoOrphans ==
    /\ part = "crashing" => Crashing!NoOrphans
    /\ part = "noticing" => Noticing!NoOrphans

\* cli/managed/manager.py, node_runner.py: a process that may be alive is registered and its
\* session can be found; pending ids, real ids and aliases agree on whose session is whose;
\* and replies that wait for a turn fail only if it ends in failure.
SessionsAreOwned ==
    part = "sessions" =>
        Sessions!SessionsAreOwned /\ Sessions!IdentitiesAgree /\ Sessions!OnlyFailuresPropagate

\* voice.py, voice_flow.py: the ids of a note lead to it together or not at all; its file, its
\* status message and the model's pipeline have one owner to the end; a note that was
\* cancelled never reaches the workflow, and spoken commands do not wait for each other's end.
NotesAreOwned ==
    part = "notes" => /\ Notes!AliasesAgree /\ Notes!CleanupIsExclusive
                      /\ Notes!CancellationWins /\ Notes!NoJoinCycle

\* subagents.py, renderer.py: a turn's narration is hidden only while a subagent runs, and
\* its progress fits the platform's limit.
ProgressIsShown ==
    part = "progress" => Progress!SuppressedOnlyDuringATask /\ Progress!RenderedFits

\* discord.py, telegram.py, outbox.py: no handler runs once delivery is closed, and a
\* runtime that is closed has left nothing behind.
ShutdownIsOrderly == part = "platform" => Platform!IngressEndsFirst /\ Platform!NothingIsLeft
=============================================================================
