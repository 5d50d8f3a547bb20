-------------------------- MODULE ResponsesAssembler --------------------------
(***************************************************************************)
(* An Anthropic event stream becomes the event stream of an OpenAI         *)
(* response (src/codefa/core/openai_responses/stream.py and                *)
(* streaming/): blocks become output items, each in the slot it reserved.  *)
(*                                                                         *)
(* The upstream stream is not assumed to be well formed: a delta may name  *)
(* a block that was never started or is of another kind, a block may be    *)
(* started twice or never stopped, an index may be missing.                *)
(***************************************************************************)
EXTENDS Integers, Sequences, FiniteSets

CONSTANTS
    Indexes,   \* the block indexes the upstream uses
    MaxEvents  \* events read of the upstream

VARIABLES
    pc,        \* where iter_responses_sse_from_anthropic is
    read,      \* upstream events read
    assembler, \* ResponsesStreamAssembler and ResponsesOutputLedger
    answer     \* the response events yielded

vars == <<pc, read, assembler, answer>>

NoIndex == -100   \* an event without an index
NoItem  == "none" \* an output slot that is only reserved

NewAssembler == [started |-> FALSE, terminal |-> FALSE, stop |-> "none", provisional |-> FALSE,
                 active |-> <<>>, slots |-> <<>>, fallback |-> -1]

Init == pc = "read" /\ read = 0 /\ assembler = NewAssembler /\ answer = <<>>

-----------------------------------------------------------------------------
(* Events, and emissions: an assembler with the events it has produced so far. *)

\* event_builders.py: `slot` is the output_index of an item's event; a terminal event
\* carries the items of the response.
Event(type, slot, output) == [type |-> type, slot |-> slot, output |-> output]
ItemEvent(type, slot)     == Event(type, slot, <<>>)

Emission(a)       == [asm |-> a, ev |-> <<>>]
Holding(e, a)    == [asm |-> a, ev |-> e.ev]
Emit(e, events)   == [asm |-> e.asm, ev |-> e.ev \o events]

\* ResponsesOutputLedger.output: the slots that hold an item, in their order.
Output(a) ==
    LET held == {i \in DOMAIN a.slots : a.slots[i] # NoItem}
        nth(k) == CHOOSE i \in held : Cardinality({j \in held : j < i}) = k - 1
    IN  [k \in 1 .. Cardinality(held) |-> a.slots[nth(k)]]

\* Deviation, for the mutation runs: an item takes the next place, not the one it reserved.
Commit_Next(a, slot, kind) == [a EXCEPT !.slots = Append(SubSeq(@, 1, Len(@) - 1), kind)]

\* commit_output
Commit(a, slot, kind) == [a EXCEPT !.slots[slot + 1] = kind]

-----------------------------------------------------------------------------
(* Completing blocks *)

Done(e, block, events) ==
    [asm |-> Commit(e.asm, block.slot, block.kind),
     ev |-> e.ev \o events \o <<ItemEvent("item_done", block.slot)>>]

\* complete_block.  The arguments of a function call must be a JSON object; a call
\* whose arguments are not is not emitted, and fails the response.
Complete(e, block) ==
    IF block.kind = "function" /\ block.parts = "broken"
    THEN Holding(e, [e.asm EXCEPT !.provisional = TRUE])
    ELSE LET delta == <<ItemEvent("delta", block.slot)>>
             done  == <<ItemEvent("done", block.slot)>>
         IN  Done(e, block,
                  IF block.kind \in {"reasoning", "encrypted"}
                  THEN IF block.parts = "none" THEN <<>> ELSE done
                  ELSE IF block.kind = "text" \/ (block.kind = "custom" /\ block.parts = "none")
                  THEN done
                  ELSE delta \o done)

\* Deviation, for the mutation runs: a block that is completed stays active.
Without_Not(active, i) == active

Without(active, i) == [j \in DOMAIN active \ {i} |-> active[j]]

With(active, i, block) ==
    [j \in DOMAIN active \union {i} |-> IF j = i THEN block ELSE active[j]]

\* pop_active_block and complete_block
Close(e, i) ==
    IF i \in DOMAIN e.asm.active
    THEN Complete(Holding(e, [e.asm EXCEPT !.active = Without(@, i)]), e.asm.active[i])
    ELSE e

\* Deviation, for the mutation runs: what is still open is dropped.
Flush_Drops(e) == Holding(e, [e.asm EXCEPT !.active = <<>>])

\* The active block of a slot is completed, if there is one.
CloseSlot(e, slot) ==
    IF \E i \in DOMAIN e.asm.active : e.asm.active[i].slot = slot
    THEN Close(e, CHOOSE i \in DOMAIN e.asm.active : e.asm.active[i].slot = slot)
    ELSE e

\* _flush_active_blocks, in the order of their slots
Flush(e) ==
    LET n == Len(e.asm.slots)
        flushed[slots \in 0 .. n] ==
            IF slots = 0 THEN e ELSE CloseSlot(flushed[slots - 1], slots - 1)
    IN  flushed[n]

\* _complete_existing_block, and then a block of `kind` in a slot of its own
Start(e, i, kind, parts) ==
    LET c == Close(e, i)
        slot == Len(c.asm.slots)
        block == [kind |-> kind, slot |-> slot, parts |-> parts]
        opened == Holding(c, [c.asm EXCEPT !.slots = Append(@, NoItem),
                                           !.active = With(@, i, block)])
    IN  Emit(opened, <<ItemEvent("item_added", slot)>> \o
                     IF kind = "text" THEN <<ItemEvent("part_added", slot)>> ELSE <<>>)

\* What an active block holds of its item.
Keep(e, i, parts) ==
    Holding(e, [e.asm EXCEPT !.active = With(@, i, [@[i] EXCEPT !.parts = parts])])

Text(e, i) == Emit(Keep(e, i, "some"), <<ItemEvent("delta", e.asm.active[i].slot)>>)

-----------------------------------------------------------------------------
(* The end of a response *)

Terminal(e, type) ==
    Emit(Holding(e, [e.asm EXCEPT !.terminal = TRUE]), <<Event(type, 0, Output(e.asm))>>)

\* Deviation, for the mutation runs: an unusable tool call does not fail the response.
Ending_Complete(a) == IF a.stop = "max_tokens" THEN "incomplete" ELSE "completed"

\* What ends a response whose upstream ended well.
Ending(a) ==
    IF a.provisional THEN "failed" ELSE IF a.stop = "max_tokens" THEN "incomplete" ELSE "completed"

\* finish_response
Finish(e) == LET f == Flush(e) IN Terminal(f, Ending(f.asm))

\* fail_response and fail_execution
Fail(e) == Terminal(Flush(e), "failed")

\* _ensure_started
Started(a) ==
    IF a.started THEN Emission(a)
    ELSE Emit(Emission([a EXCEPT !.started = TRUE]), <<Event("created", 0, <<>>)>>)

-----------------------------------------------------------------------------
(* Upstream events *)

\* safe_text_index: a text without an index gets one of its own.
TextIndex(a, i)    == IF i = NoIndex THEN a.fallback ELSE i
TextAssembler(a, i) == IF i = NoIndex THEN [a EXCEPT !.fallback = @ - 1] ELSE a

Kinds == {"text", "reasoning", "encrypted", "function", "custom"}

\* _handle_content_block_start.  Text in the start itself is a delta that follows it.
BlockStart(e, i, kind) ==
    IF kind = "text"
    THEN Start(Holding(e, TextAssembler(e.asm, i)), TextIndex(e.asm, i), kind, "none")
    ELSE IF i = NoIndex THEN e
    ELSE Start(e, i, kind, "none")

\* The block a delta extends: the active one if it is of that kind, else a new one.
Extended(e, i, kinds, kind) ==
    IF i \in DOMAIN e.asm.active /\ e.asm.active[i].kind \in kinds THEN e ELSE Start(e, i, kind, "none")

\* _handle_content_block_delta
TextDelta(e, i) ==
    Text(Extended(Holding(e, TextAssembler(e.asm, i)), TextIndex(e.asm, i), {"text"}, "text"),
         TextIndex(e.asm, i))
ThinkingDelta(e, i) ==
    IF i = NoIndex THEN e ELSE Text(Extended(e, i, {"reasoning", "encrypted"}, "reasoning"), i)
ArgumentsDelta(e, i, parts) ==
    IF i \in DOMAIN e.asm.active /\ e.asm.active[i].kind \in {"function", "custom"}
    THEN Keep(e, i, parts) ELSE e

\* process_anthropic_event: the emission left by one event of the upstream.
Handled(e, type, i, kind, parts) ==
    CASE type = "block_start"   -> BlockStart(e, i, kind)
      [] type = "block_delta"   -> CASE kind = "text"      -> TextDelta(e, i)
                                     [] kind = "reasoning" -> ThinkingDelta(e, i)
                                     [] OTHER              -> ArgumentsDelta(e, i, parts)
      [] type = "block_stop"    -> IF i = NoIndex THEN e ELSE Close(e, i)
      [] type = "message_delta" -> Holding(e, [e.asm EXCEPT !.stop = kind])
      [] type = "message_stop"  -> Finish(e)
      [] type = "error"         -> Fail(e)
      [] OTHER                  -> e

Put(e) == assembler' = e.asm /\ answer' = answer \o e.ev

Receive(type, i, kind, parts) ==
    /\ pc = "read" /\ read < MaxEvents /\ read' = read + 1
    /\ Put(Handled(Started(assembler), type, i, kind, parts))
    /\ pc' = IF assembler'.terminal THEN "end" ELSE "read"

BlockEvent ==
    \E i \in Indexes \union {NoIndex} :
       \/ \E kind \in Kinds : Receive("block_start", i, kind, "none")
       \/ \E kind \in {"text", "reasoning"} : Receive("block_delta", i, kind, "none")
       \/ \E parts \in {"whole", "broken"} : Receive("block_delta", i, "arguments", parts)
       \/ Receive("block_stop", i, "none", "none")
MessageEvent ==
    \/ \E type \in {"message_start", "message_stop", "error"} : Receive(type, NoIndex, "none", "none")
    \/ \E stop \in {"end_turn", "max_tokens"} : Receive("message_delta", NoIndex, stop, "none")

\* The stream ends: finish_if_needed.
UpstreamEnds ==
    /\ pc = "read" /\ pc' = "end" /\ UNCHANGED read
    /\ Put(Finish(Started(assembler)))

\* The stream raises: before the first event the caller answers, later the response fails.
UpstreamRaises ==
    /\ pc = "read" /\ UNCHANGED read
    /\ IF answer = <<>>
       THEN pc' = "raised" /\ UNCHANGED <<assembler, answer>>
       ELSE pc' = "end" /\ Put(Fail(Emission(assembler)))

Next == BlockEvent \/ MessageEvent \/ UpstreamEnds \/ UpstreamRaises

Spec == Init /\ [][Next]_vars

-----------------------------------------------------------------------------
(* What a response promises *)

TerminalEvents == {"completed", "incomplete", "failed"}
Of(type)  == {k \in DOMAIN answer : answer[k].type = type}

\* Whatever comes from upstream, the client reads one response: it is created first,
\* items are added in the order of their slots, nothing is said of an item before it
\* is added or after it is done, and one terminal event, the last, ends it
\* (assembler.py, completion.py).
ResponseIsWellFormed ==
    /\ \A k \in DOMAIN answer :
          LET before == {j \in DOMAIN answer : j < k}
              added == {answer[j].slot : j \in before \intersect Of("item_added")}
              done == {answer[j].slot : j \in before \intersect Of("item_done")}
          IN  /\ answer[k].type = "created" <=> k = 1
              /\ answer[k].type = "item_added" => answer[k].slot = Cardinality(added)
              /\ answer[k].type \in {"part_added", "delta", "done", "item_done"} =>
                   answer[k].slot \in added \ done
              /\ answer[k].type \in TerminalEvents => k = Len(answer)
    /\ pc = "end" => answer[Len(answer)].type \in TerminalEvents

\* A response is reported complete (or cut off by its token limit) only with every
\* item it announced: all of them are done, and they stand in its output at the
\* indexes the client was told (ledger.py output, _fail_invalid_function_call).
CompleteMeansWhole ==
    \A k \in Of("completed") \union Of("incomplete") :
       /\ {answer[j].slot : j \in Of("item_added")} = {answer[j].slot : j \in Of("item_done")}
       /\ Len(answer[k].output) = Cardinality(Of("item_added"))
       /\ answer[k].output = assembler.slots
=============================================================================
