----------------------------- MODULE ChatHistory -----------------------------
(***************************************************************************)
(* An Anthropic conversation becomes the history of an OpenAI chat request *)
(* (src/codefa/core/anthropic/conversion.py).                              *)
(*                                                                         *)
(* OpenAI wants the results of an assistant's tool calls directly behind   *)
(* the message that made them; Anthropic's clients may speak in between,   *)
(* answer calls in another order, or never.  The ledger holds everything   *)
(* back that comes behind a call without its result.                       *)
(*                                                                         *)
(* Blocks are numbered in the order of the conversation.  A tool call has  *)
(* the number of its block for an id: clients draw ids once and answer     *)
(* each at most once, and may send results of calls that were cut out of   *)
(* the history (external).                                                 *)
(***************************************************************************)
EXTENDS Integers, Sequences, FiniteSets, SequencesExt

CONSTANTS
    MaxMessages,  \* messages of a conversation
    MaxBlocks     \* blocks of a message

Orphan == 0   \* the id of a call that is not in the history

VARIABLES
    mode,      \* ReasoningReplayMode: "disabled", "think_tags" or "field"
    pc,        \* "feeding", "converted", or "refused" by an OpenAIConversionError
    fed,       \* the conversation: its messages, and the number of blocks in them
    ledger,    \* _OpenAIChatHistoryLedger
    history    \* the messages of the request

vars == <<mode, pc, fed, ledger, history>>

Init ==
    /\ mode \in {"disabled", "think_tags", "field"}
    /\ pc = "feeding"
    /\ fed = [messages |-> 0, blocks |-> 0, said |-> <<>>, thought |-> <<>>, called |-> {}, answered |-> {}]
    /\ ledger = [output |-> <<>>, segments |-> <<>>, results |-> {}]
    /\ history = <<>>

-----------------------------------------------------------------------------
(* Messages: `parts` are the blocks in the content, `reasoning` those in the   *)
(* reasoning field, `calls` the tool calls, `answers` the call a result is of. *)

Block(kind, number, id) == [kind |-> kind, number |-> number, id |-> id]
Message(role, parts, reasoning, calls, answers) ==
    [role |-> role, parts |-> parts, reasoning |-> reasoning, calls |-> calls, answers |-> answers]

Numbers(blocks, kinds) ==
    LET some == SelectSeq(blocks, LAMBDA b : b.kind \in kinds)
    IN  [k \in DOMAIN some |-> some[k].number]

\* _convert_assistant_message: thinking is text, a field or dropped, as the replay
\* mode says; redacted thinking is always dropped.
Assistant(blocks) ==
    Message("assistant",
            Numbers(blocks, IF mode = "think_tags" THEN {"text", "thinking"} ELSE {"text"}),
            IF mode = "field" THEN Numbers(blocks, {"thinking"}) ELSE <<>>, <<>>, Orphan)

\* _convert_user_message, of blocks that are no results
User(blocks)  == Message("user", Numbers(blocks, {"text"}), <<>>, <<>>, Orphan)
Result(block) == Message("tool", <<block.number>>, <<>>, <<>>, block.id)

\* _PlainSegment and _ToolTurnSegment
Plain(messages) == [messages |-> messages, ids |-> <<>>, deferred |-> <<>>, emitted |-> TRUE]
FirstCall(blocks) == CHOOSE i \in DOMAIN blocks :
    blocks[i].kind = "call" /\ \A j \in DOMAIN blocks : blocks[j].kind = "call" => i <= j

\* _convert_assistant_message_with_split: all calls go to the message that ends at the
\* first of them; what is said behind it is deferred behind the results.
ToolTurn(blocks) ==
    LET calls == Numbers(blocks, {"call"})
        rest  == SubSeq(blocks, FirstCall(blocks) + 1, Len(blocks))
    IN  [messages |-> <<[Assistant(SubSeq(blocks, 1, FirstCall(blocks) - 1)) EXCEPT !.calls = calls]>>,
         ids |-> calls, deferred |-> SelectSeq(rest, LAMBDA b : b.kind # "call"), emitted |-> FALSE]

-----------------------------------------------------------------------------
(* The ledger *)

ResultOf(l, id) == CHOOSE m \in l.results : m.answers = id
HasResult(l, id) == \E m \in l.results : m.answers = id
Ready(l, segment) == \A k \in DOMAIN segment.ids : HasResult(l, segment.ids[k])

\* What a segment adds to the output once it is ready.
Emitted(l, segment) ==
    (IF segment.emitted /\ segment.ids # <<>> THEN <<>> ELSE segment.messages)
        \o [k \in DOMAIN segment.ids |-> ResultOf(l, segment.ids[k])]
        \o (IF segment.deferred = <<>> THEN <<>> ELSE <<Assistant(segment.deferred)>>)

\* Deviation, for the mutation runs: plain messages do not wait for the results of the
\* calls before them.
Drained_PlainFirst(l) ==
    LET ready == SelectSeq(l.segments, LAMBDA s : Ready(l, s))
        rest  == SelectSeq(l.segments, LAMBDA s : ~Ready(l, s))
    IN  [l EXCEPT !.segments = [k \in DOMAIN rest |-> [rest[k] EXCEPT !.emitted = TRUE]],
                  !.output = @ \o FlattenSeq([k \in DOMAIN rest |-> IF rest[k].emitted THEN <<>>
                                                                    ELSE rest[k].messages])
                               \o FlattenSeq([k \in DOMAIN ready |-> Emitted(l, ready[k])])]

\* _drain_ready_segments: the segments before the first that misses a result; of that
\* one, the message that makes the calls.
Drained(l) ==
    LET blocked == {k \in DOMAIN l.segments : ~Ready(l, l.segments[k])}
        n       == IF blocked = {} THEN Len(l.segments) + 1
                   ELSE CHOOSE k \in blocked : \A j \in blocked : k <= j
        ready   == SubSeq(l.segments, 1, n - 1)
        rest    == SubSeq(l.segments, n, Len(l.segments))
    IN  [output   |-> l.output \o FlattenSeq([k \in DOMAIN ready |-> Emitted(l, ready[k])])
                        \o (IF rest = <<>> \/ rest[1].emitted THEN <<>> ELSE rest[1].messages),
         segments |-> IF rest = <<>> THEN rest ELSE [rest EXCEPT ![1].emitted = TRUE],
         results  |-> {m \in l.results : \A k \in DOMAIN ready : ~Contains(ready[k].ids, m.answers)}]

\* add_plain and add_tool_turn
Add(l, segment) == Drained([l EXCEPT !.segments = Append(@, segment)])

\* _has_pending_tool_id
IsPending(l, id) == \E k \in DOMAIN l.segments : Contains(l.segments[k].ids, id)

\* Deviation, for the mutation runs: a result is a message of its own where it comes.
Recorded_InPlace(l, block) == Add(l, Plain(<<Result(block)>>))

\* _record_tool_result: kept for the turn that waits for it; that of a call that is not
\* in the history is a message of its own.
Recorded(l, block) ==
    IF IsPending(l, block.id) THEN [l EXCEPT !.results = @ \union {Result(block)}]
    ELSE Add(l, Plain(<<Result(block)>>))

\* add_user_blocks: text is collected up to the next result.
UserBlocks(l, blocks) ==
    LET step(acc, b) ==
            IF b.kind = "result"
            THEN [text |-> <<>>,
                  l |-> Recorded(IF acc.text = <<>> THEN acc.l
                                 ELSE Add(acc.l, Plain(<<User(acc.text)>>)), b)]
            ELSE [acc EXCEPT !.text = Append(@, b)]
        end == FoldLeft(step, [text |-> <<>>, l |-> l], blocks)
    IN  Drained(IF end.text = <<>> THEN end.l ELSE Add(end.l, Plain(<<User(end.text)>>)))

\* _coalesce_openai_user_messages
Coalesced(messages) ==
    LET join(acc, m) ==
            IF acc # <<>> /\ m.role = "user" /\ Last(acc).role = "user"
            THEN Append(Front(acc), [Last(acc) EXCEPT !.parts = @ \o m.parts])
            ELSE Append(acc, m)
    IN  FoldLeft(join, <<>>, messages)

-----------------------------------------------------------------------------
(* convert_messages, one message at a time *)

\* The blocks a message of `kinds` may have; a call is answered once at most.
Blocks(kinds) ==
    LET number(s) == [k \in DOMAIN s |-> Block(s[k].kind, fed.blocks + k,
                                           IF s[k].kind = "call" THEN fed.blocks + k ELSE s[k].id)]
        options == [kind : kinds \ {"result"}, id : {Orphan}] \union
                   (IF "result" \in kinds
                    THEN [kind : {"result"}, id : {Orphan} \union (fed.called \ fed.answered)] ELSE {})
    IN  {number(s) : s \in {t \in UNION {[1..n -> options] : n \in 1..MaxBlocks} :
                              \A i, j \in DOMAIN t : i # j /\ t[i].kind = "result" /\ t[i].id # Orphan
                                                     => t[i] # t[j]}}

Feed(blocks, speaks) ==
    /\ pc = "feeding" /\ fed.messages < MaxMessages
    /\ fed' = [messages |-> fed.messages + 1,
               blocks   |-> fed.blocks + Len(blocks),
               said     |-> fed.said \o Numbers(blocks, speaks),
               thought  |-> fed.thought \o Numbers(blocks, {"thinking"}),
               called   |-> fed.called \union {b.number : b \in {x \in ToSet(blocks) : x.kind = "call"}},
               answered |-> fed.answered \union {b.id : b \in {x \in ToSet(blocks) : x.kind = "result"}}]
    /\ UNCHANGED <<mode, pc, history>>

UserMessage ==
    \E blocks \in Blocks({"text", "result"}) :
        Feed(blocks, {"text"}) /\ ledger' = UserBlocks(ledger, blocks)

\* An inline system message is a message of the user.
SystemMessage ==
    \E blocks \in {b \in Blocks({"text"}) : Len(b) = 1} :
        Feed(blocks, {"text"}) /\ ledger' = Add(ledger, Plain(<<User(blocks)>>))

AssistantMessage ==
    \E blocks \in Blocks({"text", "thinking", "call"}) :
        /\ Feed(blocks, {"text"})
        /\ ledger' = Add(ledger, IF \E k \in DOMAIN blocks : blocks[k].kind = "call"
                                 THEN ToolTurn(blocks) ELSE Plain(<<Assistant(blocks)>>))

\* finish: a call without a result cannot be replayed.
Finish ==
    /\ pc = "feeding"
    /\ LET l == Drained(ledger)
       IN  IF l.segments # <<>>
           THEN pc' = "refused" /\ UNCHANGED <<ledger, history>>
           ELSE pc' = "converted" /\ ledger' = l /\ history' = Coalesced(l.output)
    /\ UNCHANGED <<mode, fed>>

Next == UserMessage \/ SystemMessage \/ AssistantMessage \/ Finish

Spec == Init /\ [][Next]_vars

-----------------------------------------------------------------------------
(* What the request promises *)

\* Behind a message that makes calls stand its results and nothing else, one for each
\* call and in the order of the calls, however late, in whatever order and in between
\* of what else the client sent them; and two messages of the user never stand side
\* by side (_OpenAIChatHistoryLedger).
ResultsFollowTheirCalls ==
    \A i \in DOMAIN history :
        LET calls == history[i].calls
        IN  /\ \A k \in DOMAIN calls :
                  i + k \in DOMAIN history /\ history[i + k].answers = calls[k]
            /\ history[i].answers # Orphan =>
                  \E j \in 1 .. i - 1 : Contains(history[j].calls, history[i].answers)
            /\ i > 1 => ~(history[i].role = "user" /\ history[i - 1].role = "user")

\* "Without data loss": what was said is in the request once and in the order it was
\* said, every result is in it, and so is the thinking unless replay is switched off;
\* a conversation is refused only for a call that was never answered.
NothingIsLost ==
    LET parts == FlattenSeq([k \in DOMAIN history |-> IF history[k].role = "tool" THEN <<>>
                                                      ELSE history[k].parts])
        thoughts == FlattenSeq([k \in DOMAIN history |-> history[k].reasoning])
        told(numbers) == SelectSeq(parts, LAMBDA n : Contains(numbers, n))
    IN  /\ pc = "converted" =>
              /\ told(fed.said) = fed.said
              /\ mode # "disabled" => (IF mode = "field" THEN thoughts ELSE told(fed.thought)) = fed.thought
              /\ Len(parts) = Len(fed.said) + (IF mode = "think_tags" THEN Len(fed.thought) ELSE 0)
              /\ fed.called \subseteq {history[k].answers : k \in DOMAIN history}
        /\ pc = "refused" => fed.called \ fed.answered # {}
=============================================================================
