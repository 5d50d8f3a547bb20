--------------------------- MODULE OpenAIChatStream ---------------------------
(***************************************************************************)
(* One streamed execution of an OpenAI-chat provider: upstream chunks      *)
(* become Anthropic events, and a stream that is cut off is replayed,      *)
(* continued or repaired out of one budget of attempts                     *)
(* (src/codefa/providers/openai_chat/provider.py and tool_calls.py,        *)
(* providers/stream_recovery.py, core/anthropic/streaming/ledger.py and    *)
(* recovery.py).                                                           *)
(*                                                                         *)
(* The arguments of a tool call come in two fragments; with both they are  *)
(* a JSON object its schema accepts.  An event carries the generation of   *)
(* the ledger that made it: a replay starts a new ledger.                  *)
(***************************************************************************)
EXTENDS Integers, Sequences, FiniteSets, SequencesExt

CONSTANTS
    Tools,        \* the indexes of the upstream's tool calls
    Kind,         \* of each tool: "plain", "task" or "aliased"
    MaxAttempts,  \* the budget of one logical execution
    MaxChunks     \* how many chunks are read of one stream at most

ChatAssumption == IsFiniteSet(Tools)

VARIABLES
    pc,        \* where the runner is
    attempts,  \* ProviderRetrySession._attempts_started
    gen,       \* how many replays have been made
    chunks,    \* chunks read of the current stream
    finish,    \* a finish_reason was seen
    ledger,    \* AnthropicStreamLedger
    holdback,  \* RecoveryHoldbackBuffer: the events held, and committed
    out,       \* the events that were yielded
    salvage    \* the recovery: the events collected, and that it has begun

vars == <<pc, attempts, gen, chunks, finish, ledger, holdback, out, salvage>>

Whole == 2

NewTool == [named |-> FALSE, block |-> 0, pre |-> 0, buffer |-> 0, sent |-> 0, raw |-> FALSE]

NewLedger == [blocks |-> <<>>, text |-> 0, textOn |-> FALSE, thinking |-> 0, thinkingOn |-> FALSE,
              tools |-> [t \in Tools |-> NewTool], started |-> FALSE]

Init ==
    /\ pc = "start" /\ attempts = 0 /\ gen = 0 /\ chunks = 0 /\ finish = FALSE
    /\ ledger = NewLedger
    /\ holdback = [held |-> <<>>, committed |-> FALSE]
    /\ out = <<>>
    /\ salvage = [events |-> <<>>, on |-> FALSE]

-----------------------------------------------------------------------------
(* The ledger.  An emission is a ledger and the events it has produced so far. *)

Emission(l) == [l |-> l, ev |-> <<>>]
Event(type, block, kind) == [type |-> type, block |-> block, kind |-> kind, gen |-> gen]

Mark(e, type) == [e EXCEPT !.ev = Append(@, Event(type, 0, "message"))]

\* content_block_start, with the index allocate_index gives it.
StartBlock(e, kind) ==
    LET b == Len(e.l.blocks) + 1
    IN  [l  |-> [e.l EXCEPT !.blocks = Append(@, [kind |-> kind, open |-> TRUE]),
                            !.text = IF kind = "text" THEN b ELSE @,
                            !.textOn = @ \/ kind = "text",
                            !.thinking = IF kind = "thinking" THEN b ELSE @,
                            !.thinkingOn = @ \/ kind = "thinking"],
         ev |-> Append(e.ev, Event("start", b, kind))]

Delta(e, b) == [e EXCEPT !.ev = Append(@, Event("delta", b, e.l.blocks[b].kind))]

\* content_block_stop, _record_block_stop and _clear_active_content_block, of one block
\* after the other.
StopBlocks(e, order) ==
    LET stopped == {order[i] : i \in DOMAIN order}
    IN  [l  |-> [e.l EXCEPT !.blocks = [b \in DOMAIN e.l.blocks |->
                                          [kind |-> e.l.blocks[b].kind,
                                           open |-> e.l.blocks[b].open /\ b \notin stopped]],
                            !.textOn = @ /\ e.l.text \notin stopped,
                            !.thinkingOn = @ /\ e.l.thinking \notin stopped],
         ev |-> e.ev \o [i \in DOMAIN order |-> Event("stop", order[i], e.l.blocks[order[i]].kind)]]

StopBlock(e, b) == StopBlocks(e, <<b>>)

\* ensure_thinking_block and ensure_text_block: one of the two is open at a time.
EnsureThinking(e) ==
    LET a == IF e.l.textOn THEN StopBlock(e, e.l.text) ELSE e
    IN  IF a.l.thinkingOn THEN a ELSE StartBlock(a, "thinking")
EnsureText(e) ==
    LET a == IF e.l.thinkingOn THEN StopBlock(e, e.l.thinking) ELSE e
    IN  IF a.l.textOn THEN a ELSE StartBlock(a, "text")

CloseContent(e) ==
    LET a == IF e.l.thinkingOn THEN StopBlock(e, e.l.thinking) ELSE e
    IN  IF a.l.textOn THEN StopBlock(a, a.l.text) ELSE a

StartedTools(l) == {t \in Tools : l.tools[t].block # 0}

\* Deviation, for the mutation runs: the tool blocks are left open.
CloseAll_Content(e) == CloseContent(e)

\* close_all_blocks
CloseAll(e) ==
    LET a == CloseContent(e)
        order == SetToSeq(StartedTools(a.l))
    IN  StopBlocks(a, [i \in DOMAIN order |-> a.l.tools[order[i]].block])

\* Deviation, for the mutation runs: a failure leaves the blocks open.
CloseUnclosed_Not(e) == e

\* The numbers of a set, the largest first.
Falling(S) ==
    CHOOSE s \in [1 .. Cardinality(S) -> S] : \A i, j \in DOMAIN s : i < j => s[i] > s[j]

\* close_unclosed_blocks: the stack of open blocks, from its top.
CloseUnclosed(e) ==
    StopBlocks(e, Falling({b \in DOMAIN e.l.blocks : e.l.blocks[b].open}))

HasTool(l)   == \E b \in DOMAIN l.blocks : l.blocks[b].kind = "tool_use"
\* has_committed_sse_output
Generated(l) == l.blocks # <<>>
\* all_emitted_tools_complete
Complete(l)  == HasTool(l) /\ \A t \in StartedTools(l) : l.tools[t].sent = Whole

-----------------------------------------------------------------------------
(* RecoveryHoldbackBuffer *)

\* push: held until it is old or large enough, which any event may reveal.
Hold(events) ==
    IF holdback.committed
    THEN out' = out \o events /\ UNCHANGED holdback
    ELSE \/ holdback' = [holdback EXCEPT !.held = @ \o events] /\ UNCHANGED out
         \/ /\ events # <<>>
            /\ out' = out \o holdback.held \o events
            /\ holdback' = [held |-> <<>>, committed |-> TRUE]

\* flush, and then events that pass it.
Release(events) ==
    /\ out' = out \o holdback.held \o events
    /\ holdback' = [held |-> <<>>, committed |-> TRUE]

Put(e) == ledger' = e.l /\ Hold(e.ev)

-----------------------------------------------------------------------------
(* The stream *)

\* Every ledger begins with message_start.
Start ==
    /\ pc = "start"
    /\ Put(Mark(Emission([ledger EXCEPT !.started = TRUE]), "message_start"))
    /\ pc' = "open" /\ chunks' = 0 /\ finish' = FALSE
    /\ UNCHANGED <<attempts, gen, salvage>>

CanAttempt == attempts < MaxAttempts

\* _create_stream: an attempt opens the stream, is corrected or tried again while
\* the budget lasts, or raises.
Open ==
    /\ pc = "open" /\ CanAttempt
    /\ attempts' = attempts + 1
    /\ \/ pc' = "reading"
       \/ attempts + 1 < MaxAttempts /\ UNCHANGED pc
       \/ pc' = "final"
    /\ UNCHANGED <<gen, chunks, finish, ledger, holdback, out, salvage>>

Reading == pc = "reading" /\ chunks < MaxChunks /\ chunks' = chunks + 1

Reasoning ==
    /\ Reading
    /\ LET e == EnsureThinking(Emission(ledger)) IN Put(Delta(e, e.l.thinking))
    /\ UNCHANGED <<pc, attempts, gen, finish, salvage>>

Text ==
    /\ Reading
    /\ LET e == EnsureText(Emission(ledger)) IN Put(Delta(e, e.l.text))
    /\ UNCHANGED <<pc, attempts, gen, finish, salvage>>

\* iter_heuristic_tool_use_sse: a call written as text, whole.
HeuristicTool ==
    /\ Reading
    /\ LET e == StartBlock(CloseContent(Emission(ledger)), "tool_use")
           b == Len(e.l.blocks)
       IN  Put(StopBlock(Delta(e, b), b))
    /\ UNCHANGED <<pc, attempts, gen, finish, salvage>>

\* _emit_tool_arg_delta: Task and aliased arguments are sent when they are whole,
\* with the background turned off and the names restored.
Argument(e, t, n) ==
    LET tool == e.l.tools[t]
    IN  IF n = 0 \/ tool.sent + tool.buffer = Whole THEN e
        ELSE IF Kind[t] = "plain"
             THEN Delta([e EXCEPT !.l.tools[t].sent = @ + n], tool.block)
        ELSE IF tool.buffer + n = Whole
             THEN Delta([e EXCEPT !.l.tools[t] = [@ EXCEPT !.sent = Whole, !.buffer = 0]], tool.block)
        ELSE [e EXCEPT !.l.tools[t].buffer = @ + n]

\* process_tool_call: arguments that come before the name wait for it.
ToolCall(t, named, n) ==
    LET e    == CloseContent(Emission(ledger))
        tool == e.l.tools[t]
        name == tool.named \/ named
        a    == StartBlock(e, "tool_use")
        begun == IF tool.block = 0 /\ name
                 THEN Argument([a EXCEPT !.l.tools[t] = [@ EXCEPT !.named = TRUE, !.pre = 0,
                                                                  !.block = Len(a.l.blocks)]],
                               t, tool.pre)
                 ELSE e
    IN  IF name THEN Argument(begun, t, n) ELSE [e EXCEPT !.l.tools[t].pre = @ + n]

ToolChunk ==
    /\ Reading
    /\ \E t \in Tools, named \in BOOLEAN, n \in 0 .. 1 :
          /\ ledger.tools[t].sent + ledger.tools[t].buffer + ledger.tools[t].pre + n <= Whole
          /\ Put(ToolCall(t, named, n))
    /\ UNCHANGED <<pc, attempts, gen, finish, salvage>>

FinishChunk ==
    /\ Reading /\ ~finish
    /\ finish' = TRUE
    /\ UNCHANGED <<pc, attempts, gen, ledger, holdback, out, salvage>>

-----------------------------------------------------------------------------
(* A stream that fails *)

Salvageable == Generated(ledger) /\ Complete(ledger)

\* Deviation, for the mutation runs: a replay does not look at what the client has.
MayReplay_Committed ==
    /\ CanAttempt /\ ~Salvageable
    /\ ~(Generated(ledger) /\ attempts + 1 = MaxAttempts)

\* advance_failure: the last attempt is kept for the recovery of partial output.
MayReplay ==
    /\ CanAttempt /\ ~holdback.committed /\ ~Salvageable
    /\ ~(Generated(ledger) /\ attempts + 1 = MaxAttempts)

MayRecover == Generated(ledger) /\ (CanAttempt \/ Salvageable)

\* Deviation, for the mutation runs: a replay keeps what was held back.
Replay_KeepsHoldback ==
    /\ gen' = gen + 1 /\ ledger' = NewLedger /\ pc' = "start"
    /\ UNCHANGED <<holdback, salvage>>

\* EARLY_RETRY: the held events are discarded with their ledger.
Replay ==
    /\ gen' = gen + 1 /\ ledger' = NewLedger /\ pc' = "start"
    /\ holdback' = [held |-> <<>>, committed |-> FALSE]
    /\ UNCHANGED salvage

\* A stream that ends without finish_reason is truncated, which is retryable.
StreamFails ==
    /\ pc = "reading"
    /\ \E retryable \in BOOLEAN :
          IF retryable /\ MayReplay THEN Replay
          ELSE /\ pc' = IF retryable /\ MayRecover THEN "recover" ELSE "final"
               /\ UNCHANGED <<gen, ledger, holdback, salvage>>
    /\ UNCHANGED <<attempts, chunks, finish, out>>

StreamEnds ==
    /\ pc = "reading" /\ finish
    /\ pc' = "finish"
    /\ UNCHANGED <<attempts, gen, chunks, finish, ledger, holdback, out, salvage>>

\* The end of every message: its blocks closed, message_delta and message_stop.
Ending(e) == Mark(Mark(CloseAll(e), "message_delta"), "message_stop")

Incomplete(l) == {t \in StartedTools(l) : l.tools[t].sent # Whole}

\* Deviation, for the mutation runs: the recovery does not look at the tools again.
Rescue_AnyTool ==
    /\ pc = "recover" /\ HasTool(ledger)
    /\ LET e == Ending([Emission(ledger) EXCEPT !.ev = salvage.events])
       IN  ledger' = e.l /\ Release(e.ev)
    /\ pc' = "done"
    /\ UNCHANGED <<attempts, gen, chunks, finish, salvage>>

\* _recovery_events, once every tool block is complete: no attempt is needed.
Rescue ==
    /\ pc = "recover" /\ Complete(ledger)
    /\ LET e == Ending([Emission(ledger) EXCEPT !.ev = salvage.events])
       IN  ledger' = e.l /\ Release(e.ev)
    /\ pc' = "done"
    /\ UNCHANGED <<attempts, gen, chunks, finish, salvage>>

\* _repair_tool_args: an attempt asks for the rest of one tool's arguments.  What was
\* buffered is sent with it, as it came.
Repair ==
    /\ pc = "recover" /\ HasTool(ledger) /\ CanAttempt
    /\ attempts' = attempts + 1
    /\ \E t \in Incomplete(ledger) :
          \/ LET e == Delta([Emission(ledger) EXCEPT !.l.tools[t] =
                               [@ EXCEPT !.sent = Whole, !.raw = Kind[t] # "plain"]],
                        ledger.tools[t].block)
             IN  /\ ledger' = e.l
                 /\ salvage' = [on |-> TRUE, events |-> salvage.events \o e.ev]
          \/ UNCHANGED <<ledger, salvage>>
    /\ UNCHANGED <<pc, gen, chunks, finish, holdback, out>>

\* A text-only message is continued by a stream of its own, behind what was written.
Continue ==
    /\ pc = "recover" /\ ~HasTool(ledger) /\ CanAttempt
    /\ attempts' = attempts + 1
    /\ \/ UNCHANGED <<pc, ledger, holdback, out>>
       \/ \E part \in (SUBSET {"thinking", "text"}) \ {{}} :
             LET a == EnsureThinking(Emission(ledger))
                 b == IF "thinking" \in part THEN Delta(a, a.l.thinking) ELSE Emission(ledger)
                 c == EnsureText(b)
                 e == Ending(IF "text" \in part THEN Delta(c, c.l.text) ELSE b)
             IN  ledger' = e.l /\ Release(e.ev) /\ pc' = "done"
    /\ UNCHANGED <<gen, chunks, finish, salvage>>

\* The recovery raises, has nothing to add, or runs out of attempts.
GiveUp ==
    /\ pc = "recover"
    /\ pc' = "final"
    /\ UNCHANGED <<attempts, gen, chunks, finish, ledger, holdback, out, salvage>>

\* FINAL_ERROR: what was not committed is discarded unless its tools are whole; what
\* was has its blocks closed; the failure is raised.
Raise ==
    /\ pc = "final"
    /\ IF holdback.committed \/ (Salvageable /\ ~salvage.on)
       THEN LET e == CloseUnclosed(Emission(ledger)) IN ledger' = e.l /\ Release(e.ev)
       ELSE holdback' = [holdback EXCEPT !.held = <<>>] /\ UNCHANGED <<ledger, out>>
    /\ pc' = "raised"
    /\ UNCHANGED <<attempts, gen, chunks, finish, salvage>>

-----------------------------------------------------------------------------
(* The end of a stream *)

\* Text the parsers still held back (held), and a space where there is no answer.
Remaining(e, held) ==
    IF held \/ ~\E b \in DOMAIN e.l.blocks : e.l.blocks[b].kind # "thinking"
    THEN LET a == EnsureText(e) IN Delta(a, a.l.text)
    ELSE e

\* flush_tool_argument_alias_buffers and flush_task_arg_buffers: arguments that are not
\* whole are sent raw, or as an empty object.
Flushed(e) ==
    LET buffered == {t \in StartedTools(e.l) : e.l.tools[t].buffer # 0}
        order == SetToSeq(buffered)
        block(i) == e.l.tools[order[i]].block
    IN  [l  |-> [e.l EXCEPT !.tools = [t \in Tools |->
                                         IF t \in buffered THEN [@[t] EXCEPT !.buffer = 0] ELSE @[t]]],
         ev |-> e.ev \o [i \in DOMAIN order |->
                           Event("delta", block(i), e.l.blocks[block(i)].kind)]]

Finish ==
    /\ pc = "finish"
    /\ \E held \in BOOLEAN :
          LET e == Ending(Flushed(Remaining(Emission(ledger), held)))
          IN  ledger' = e.l /\ Release(e.ev)
    /\ pc' = "done"
    /\ UNCHANGED <<attempts, gen, chunks, finish, salvage>>

Next ==
    \/ Start \/ Open \/ Reasoning \/ Text \/ HeuristicTool \/ ToolChunk \/ FinishChunk
    \/ StreamFails \/ StreamEnds \/ Rescue \/ Repair \/ Continue \/ GiveUp \/ Raise \/ Finish

Spec == Init /\ [][Next]_vars

-----------------------------------------------------------------------------
Types(i) == out[i].type
At(type, b) == {i \in DOMAIN out : out[i].type = type /\ out[i].block = b}
Before(I, J) == \A i \in I, j \in J : i < j

(* The events of a stream keep Anthropic's contract (assert_anthropic_stream_contract):
   message_start comes first; a block is started once, its deltas lie between its
   start and its stop; a stream that ends well has closed every block, has at least
   one, and stops the message once; one that fails closes what it opened and does
   not stop the message. *)
ContractHolds ==
    LET Blocks == {out[i].block : i \in DOMAIN out} \ {0}
        Ended  == pc \in {"done", "raised"} /\ out # <<>>
    IN  /\ out # <<>> => out[1].type = "message_start"
        /\ \A b \in Blocks :
              /\ Cardinality(At("start", b)) = 1 /\ Cardinality(At("stop", b)) <= 1
              /\ Before(At("start", b), At("delta", b)) /\ Before(At("delta", b), At("stop", b))
              /\ Ended => Cardinality(At("stop", b)) = 1
        /\ pc = "done" => Blocks # {} /\ Last(out).type = "message_stop"
        /\ Cardinality(At("message_stop", 0)) = (IF pc = "done" THEN 1 ELSE 0)

(* A replay is invisible: everything the client was sent was made by one ledger, the
   last one (RecoveryController.advance_failure). *)
ReplayIsInvisible == \A i \in DOMAIN out : out[i].gen = gen

(* A message that ends well although its last stream gave no finish_reason has no tool
   call cut short: the client would run it (can_salvage_tool_use, _repair_tool_args). *)
SalvagedToolsAreWhole ==
    pc = "done" /\ ~finish => \A t \in StartedTools(ledger) : ledger.tools[t].sent = Whole

(* "Task tool with run_in_background=true is forced to false": the arguments of a Task
   reach the client normalized. *)
TaskIsNormalized ==
    pc = "done" => \A t \in StartedTools(ledger) : Kind[t] = "task" => ~ledger.tools[t].raw
=============================================================================
