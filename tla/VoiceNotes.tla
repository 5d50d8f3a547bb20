----------------------------- MODULE VoiceNotes -----------------------------
(***************************************************************************)
(* Voice notes (src/codefa/messaging/voice.py, platforms/voice_flow.py,    *)
(* transcription.py).                                                      *)
(*                                                                         *)
(* A flow reserves its note under the id of the message, sends a status    *)
(* message and binds its id too, has the audio transcribed by a thread and *)
(* hands the text to the workflow in a child task.  Commands cancel notes  *)
(* by either id or in bulk, from a task of their own or from the child of  *)
(* another note that said "/stop"; they take the note under the registry's *)
(* lock and join its child without it.  The lock is never held across an   *)
(* await, so that each section under it is one action.                     *)
(***************************************************************************)
EXTENDS FiniteSets, Functions

CONSTANTS
    Flows,      \* deliveries of voice notes
    Users,      \* commands cancelling notes from tasks of their own
    Voice,      \* the message id of each delivery: a note may be delivered again
    Status,     \* the status message id of each delivery
    Stops,      \* flows whose text is itself a command
    Kills       \* flows whose own task may be cancelled

VARIABLES
    flow,       \* VoiceNoteFlow.handle of each delivery
    pending,    \* PendingVoiceRegistry._pending: message or status id -> flow
    child,      \* the handoff task of each flow
    ops,        \* cancellations, by who runs them
    service     \* TranscriptionService

vars == <<flow, pending, child, ops, service>>

Cancellers == Users \cup Flows
Nobody     == "nobody"

\* A delivery has a status message of its own, that no voice message is.
VoiceAssumption ==
    /\ Nobody \notin Flows
    /\ \A f, g \in Flows : Status[f] # Voice[g] /\ (Status[f] = Status[g] => f = g)

Init ==
    /\ flow = [f \in Flows |-> [pc |-> "new", bound |-> FALSE, sent |-> FALSE, file |-> FALSE,
                                handed |-> FALSE, voided |-> FALSE, reported |-> FALSE,
                                deleted |-> FALSE]]
    /\ pending = [i \in {} |-> Nobody]
    /\ child = [f \in Flows |-> "none"]
    /\ ops = [c \in Cancellers |-> [pc |-> "idle", took |-> {}]]
    /\ service = [thread |-> Nobody, closed |-> FALSE, released |-> FALSE]

\* _entry_for_claim: a claim is the flow that drew it.
Owns(f)  == Voice[f] \in DOMAIN pending /\ pending[Voice[f]] = f
Keys(F)  == {i \in DOMAIN pending : pending[i] \in F}
Published(i, f) == [j \in DOMAIN pending \cup {i} |-> IF j = i THEN f ELSE pending[j]]
Dropped(F) == [i \in DOMAIN pending \ Keys(F) |-> pending[i]]
Active(f)  == child[f] \in {"created", "running", "cancelling"}
Goto(f, pc) == flow' = [flow EXCEPT ![f].pc = pc]

-----------------------------------------------------------------------------
(* VoiceNoteFlow.handle *)

\* Deviation, for the mutation runs: a note delivered again takes the id over.
Reserve_Again(f) ==
    /\ flow[f].pc = "new"
    /\ pending' = Published(Voice[f], f)
    /\ Goto(f, "status")
    /\ UNCHANGED <<child, ops, service>>

\* reserve: a note that is already pending is left to its flow.
Reserve(f) ==
    /\ flow[f].pc = "new"
    /\ IF Voice[f] \in DOMAIN pending
       THEN Goto(f, "done") /\ UNCHANGED pending
       ELSE Goto(f, "status") /\ pending' = Published(Voice[f], f)
    /\ UNCHANGED <<child, ops, service>>

SendStatus(f) ==
    /\ flow[f].pc = "status"
    /\ \/ flow' = [flow EXCEPT ![f].pc = "bind", ![f].sent = TRUE]
       \/ Goto(f, "cleanup")
    /\ UNCHANGED <<pending, child, ops, service>>

\* bind_status, and the temporary file of the download that follows.
BindStatus(f) ==
    /\ flow[f].pc = "bind"
    /\ IF Owns(f)
       THEN /\ pending' = Published(Status[f], f)
            /\ flow' = [flow EXCEPT ![f].pc = "download", ![f].bound = TRUE, ![f].file = TRUE]
       ELSE Goto(f, "cleanup") /\ UNCHANGED pending
    /\ UNCHANGED <<child, ops, service>>

Download(f) ==
    /\ flow[f].pc = "download"
    /\ Goto(f, "transcribe") \/ Goto(f, "cleanup")
    /\ UNCHANGED <<pending, child, ops, service>>

\* transcribe: one thread at a time, under the lock of the service.
StartThread(f) ==
    /\ flow[f].pc = "transcribe" /\ service.thread = Nobody
    /\ IF service.closed
       THEN Goto(f, "cleanup") /\ UNCHANGED service
       ELSE Goto(f, "listening") /\ service' = [service EXCEPT !.thread = f]
    /\ UNCHANGED <<pending, child, ops>>

\* The thread ends; a flow that was cancelled meanwhile has waited for it.
EndThread(f) ==
    /\ service.thread = f
    /\ service' = [service EXCEPT !.thread = Nobody]
    /\ \/ flow[f].pc = "listening" /\ Goto(f, "handoff")
       \/ flow[f].pc \in {"listening", "waiting"} /\ Goto(f, "cleanup")
    /\ UNCHANGED <<pending, child, ops>>

\* Deviation, for the mutation runs: the text is handed over whoever owns the note.
Handoff_Always(f) ==
    /\ flow[f].pc = "handoff"
    /\ child' = [child EXCEPT ![f] = "created"]
    /\ Goto(f, "joined")
    /\ UNCHANGED <<pending, ops, service>>

\* handoff: the child is published with its entry, or the handoff is rejected.
Handoff(f) ==
    /\ flow[f].pc = "handoff"
    /\ IF Owns(f)
       THEN child' = [child EXCEPT ![f] = "created"] /\ Goto(f, "joined")
       ELSE Goto(f, "cleanup") /\ UNCHANGED child
    /\ UNCHANGED <<pending, ops, service>>

\* The callback of the workflow begins.
ChildStarts(f) ==
    /\ child[f] = "created"
    /\ child' = [child EXCEPT ![f] = "running"]
    /\ flow' = [flow EXCEPT ![f].handed = TRUE]
    /\ UNCHANGED <<pending, ops, service>>

\* It ends, well, in an error or cancelled, once the cancellation it runs is over.
ChildEnds(f) ==
    /\ child[f] \in {"running", "cancelling"} /\ ops[f].pc # "draining"
    /\ child' = [child EXCEPT ![f] = IF @ = "cancelling" THEN "cancelled" ELSE "completed"]
    /\ UNCHANGED <<flow, pending, ops, service>>
ChildFails(f) ==
    /\ child[f] = "running" /\ ops[f].pc # "draining"
    /\ child' = [child EXCEPT ![f] = "failed"]
    /\ UNCHANGED <<flow, pending, ops, service>>

\* _finish_ownership once the child has ended; an error is reported only by a flow
\* that still owned its note.
Finish(f) ==
    /\ flow[f].pc \in {"joined", "draining"} /\ ~Active(f)
    /\ pending' = IF Owns(f) THEN Dropped({f}) ELSE pending
    /\ IF flow[f].pc = "draining" \/ (child[f] = "failed" /\ Owns(f))
       THEN Goto(f, "cleanup")
       ELSE flow' = [flow EXCEPT ![f].pc = "done", ![f].file = FALSE]
    /\ UNCHANGED <<child, ops, service>>

\* Deviation, for the mutation runs: the cancelled flow does not wait for the thread.
KillFlow_LeavesThread(f) ==
    /\ f \in Kills
    /\ \/ /\ flow[f].pc \in {"status", "bind", "download", "transcribe", "listening"}
          /\ Goto(f, "cleanup") /\ UNCHANGED child
       \/ /\ flow[f].pc = "joined" /\ Active(f)
          /\ Goto(f, "draining") /\ child' = [child EXCEPT ![f] = "cancelling"]
    /\ UNCHANGED <<pending, ops, service>>

\* The task of the flow is cancelled: it waits out its thread and drains its child.
KillFlow(f) ==
    /\ f \in Kills
    /\ \/ /\ flow[f].pc \in {"status", "bind", "download", "transcribe"}
          /\ Goto(f, "cleanup") /\ UNCHANGED child
       \/ /\ flow[f].pc = "listening"
          /\ Goto(f, "waiting") /\ UNCHANGED child
       \/ /\ flow[f].pc = "joined" /\ Active(f)
          /\ Goto(f, "draining") /\ child' = [child EXCEPT ![f] = "cancelling"]
    /\ UNCHANGED <<pending, ops, service>>

\* Deviation, for the mutation runs: the status message is deleted in any case.
Cleanup_Deletes(f) ==
    /\ flow[f].pc = "cleanup"
    /\ pending' = IF Owns(f) THEN Dropped({f}) ELSE pending
    /\ flow' = [flow EXCEPT ![f].pc = "done", ![f].file = FALSE, ![f].deleted = flow[f].sent]
    /\ UNCHANGED <<child, ops, service>>

\* _clear_failed_pending_voice and the unlink, which no cancellation interrupts.
Cleanup(f) ==
    /\ flow[f].pc = "cleanup"
    /\ pending' = IF Owns(f) THEN Dropped({f}) ELSE pending
    /\ flow' = [flow EXCEPT ![f].pc = "done", ![f].file = FALSE,
                            ![f].deleted = /\ flow[f].sent /\ ~flow[f].handed
                                           /\ Owns(f) \/ ~flow[f].bound]
    /\ UNCHANGED <<child, ops, service>>

-----------------------------------------------------------------------------
(* Cancellations *)

\* Deviation, for the mutation runs: only the caller's own note is spared.
Excluded_OnlyOwn(c, f) == f = c

\* _is_excluded: the note of the child that asks, and of children that are
\* themselves cancelling.
Excluded(c, f) == f = c \/ ops[f].pc = "draining"

\* Deviation, for the mutation runs: the child of a taken note is not cancelled.
Taken_Unjoined(c, F) ==
    /\ pending' = Dropped(F)
    /\ ops' = [ops EXCEPT ![c] = [pc |-> "done", took |-> F]]
    /\ UNCHANGED child
    /\ flow' = [f \in Flows |-> IF f \in F
                                THEN [flow[f] EXCEPT !.voided = ~flow[f].handed,
                                                     !.reported = flow[f].bound]
                                ELSE flow[f]]
    /\ UNCHANGED service

\* The entries leave the registry and their children are cancelled.
Taken(c, F) ==
    /\ pending' = Dropped(F)
    /\ ops' = [ops EXCEPT ![c] = [pc |-> "draining", took |-> F]]
    /\ child' = [f \in Flows |-> IF f \in F /\ Active(f) THEN "cancelling" ELSE child[f]]
    /\ flow' = [f \in Flows |-> IF f \in F
                                THEN [flow[f] EXCEPT !.voided = ~flow[f].handed,
                                                     !.reported = flow[f].bound]
                                ELSE flow[f]]
    /\ UNCHANGED service

\* A child finishes the operation it owns even when it is cancelled meanwhile.
MayCancel(c) ==
    /\ ops[c].pc = "idle"
    /\ c \in Flows => c \in Stops /\ child[c] \in {"running", "cancelling"} /\ flow[c].handed

\* cancel, by the id of the note or of its status message.
CancelOne(c) ==
    /\ MayCancel(c)
    /\ \E i \in DOMAIN pending : ~Excluded(c, pending[i]) /\ Taken(c, {pending[i]})

\* cancel_all and cancel_scope.
CancelAll(c) ==
    /\ MayCancel(c)
    /\ Taken(c, {f \in Range(pending) : ~Excluded(c, f)})

\* The joins of the children end, through repeated cancellation of the caller.
EndCancel(c) ==
    /\ ops[c].pc = "draining" /\ \A f \in ops[c].took : ~Active(f)
    /\ ops' = [ops EXCEPT ![c].pc = "done"]
    /\ UNCHANGED <<flow, pending, child, service>>

\* close: no new work at once, the pipeline is released under the lock.
Close ==
    /\ ~service.closed
    /\ service' = [service EXCEPT !.closed = TRUE]
    /\ UNCHANGED <<flow, pending, child, ops>>
Release ==
    /\ service.closed /\ service.thread = Nobody /\ ~service.released
    /\ service' = [service EXCEPT !.released = TRUE]
    /\ UNCHANGED <<flow, pending, child, ops>>

-----------------------------------------------------------------------------
FlowStep(f) == \/ Reserve(f) \/ SendStatus(f) \/ BindStatus(f) \/ Download(f) \/ StartThread(f)
               \/ EndThread(f) \/ Handoff(f) \/ Finish(f) \/ Cleanup(f)
               \/ ChildStarts(f) \/ ChildEnds(f) \/ ChildFails(f) \/ KillFlow(f)

Next == \/ \E f \in Flows : FlowStep(f)
        \/ \E c \in Cancellers : CancelOne(c) \/ CancelAll(c) \/ EndCancel(c)
        \/ Close \/ Release

Spec == Init /\ [][Next]_vars

-----------------------------------------------------------------------------
\* "A stale flow cannot bind or remove a newer generation reusing the same ID": the
\* ids of a note lead to it together or not at all, and while its child runs they
\* are published, unless somebody waits for that child to end.
AliasesAgree ==
    \A f \in Flows :
        /\ Keys({f}) \in {{}, {Voice[f]} \cup (IF flow[f].bound THEN {Status[f]} ELSE {})}
        /\ Active(f) => Owns(f) \/ \E c \in Cancellers : ops[c].pc = "draining" /\ f \in ops[c].took

\* A cancellation that wins turns late status, transcription or handoff into
\* cleanup-only work: the note never reaches the workflow, and when the command
\* returns nothing of the notes it took is still running.
CancellationWins ==
    /\ \A f \in Flows : flow[f].voided => ~flow[f].handed
    /\ \A c \in Cancellers : ops[c].pc = "done" => \A f \in ops[c].took : ~Active(f)

\* The status message of a note is either deleted by its flow or reported to the
\* command that took the note, never both; and its temporary file and the model's
\* pipeline outlive the thread that reads them.
CleanupIsExclusive ==
    /\ \A f \in Flows : ~(flow[f].deleted /\ flow[f].reported)
    /\ service.thread # Nobody => flow[service.thread].file /\ ~service.released

\* "So a voice-transcribed /stop or /clear cannot cancel itself or form a recursive
\* join cycle": no children wait for each other's end.
NoJoinCycle ==
    LET waits(f, g) == ops[f].pc = "draining" /\ g \in ops[f].took /\ Active(g)
    IN  \A S \in SUBSET Flows : S # {} => \E f \in S : \A g \in S : ~waits(f, g)
=============================================================================
