--------------------------- MODULE ResponsesHistory ---------------------------
(***************************************************************************)
(* The input items of an OpenAI Responses request become messages of an    *)
(* Anthropic conversation (src/codefa/core/openai_responses/input.py), and *)
(* these the history of a chat request (ChatHistory).                      *)
(*                                                                         *)
(* Codex sends its reasoning, its calls and their outputs as items of      *)
(* their own; the conversation has them in messages.  Reasoning waits for  *)
(* the item it belongs to.  A call whose arguments are no JSON has no      *)
(* place in a conversation and is left out, with its output.               *)
(*                                                                         *)
(* `fed` counts items here, each with one block; `messages` is the         *)
(* conversation.  A call has the number of its item for an id.             *)
(***************************************************************************)
EXTENDS ChatHistory

VARIABLES
    messages,    \* the messages of the payload
    thoughts,    \* pending_reasoning: the items combined in it, none if it is None
    quarantined, \* quarantined_function_call_ids
    system       \* system_parts

itemsVars == <<vars, messages, thoughts, quarantined, system>>

InitItems == Init /\ messages = <<>> /\ thoughts = <<>> /\ quarantined = {} /\ system = <<>>

-----------------------------------------------------------------------------
(* Messages of the conversation: the content is a "string", a "list" of text, or a list *)
(* of "calls" or of "results"; `reasoning` is the field reasoning_content.              *)

Turn(role, shape, blocks, reasoning) ==
    [role |-> role, shape |-> shape, blocks |-> blocks, reasoning |-> reasoning]

\* _append_pending_reasoning: a message that says nothing
Reasoned(m) == IF thoughts = <<>> THEN m ELSE Append(m, Turn("assistant", "string", <<>>, thoughts))

\* _last_assistant_tool_use_message, _last_user_tool_result_message
EndsWith(m, shape) == m # <<>> /\ Last(m).shape = shape

\* _append_tool_use_message, _append_tool_result_message: the last message takes it up, if it
\* is one of its kind.
Joined(m, role, shape, block, reasoning) ==
    LET message == IF EndsWith(m, shape) THEN Last(m) ELSE Turn(role, shape, <<>>, <<>>)
    IN  Append(IF EndsWith(m, shape) THEN Front(m) ELSE m,
               [message EXCEPT !.blocks = Append(@, block), !.reasoning = @ \o reasoning])

\* _append_pending_reasoning_before_tool_output: the calls just made are what it led to.
ReasonedBeforeOutput(m) ==
    IF EndsWith(m, "calls") THEN Append(Front(m), [Last(m) EXCEPT !.reasoning = @ \o thoughts])
    ELSE Reasoned(m)

-----------------------------------------------------------------------------
(* _append_input_item *)

Number == fed.blocks + 1

\* What the item adds to what the client has told so far.
Item(said, thought, called, answered) ==
    /\ pc = "feeding" /\ fed.messages < MaxMessages
    /\ fed' = [messages |-> fed.messages + 1, blocks |-> Number,
               said     |-> fed.said \o said,
               thought  |-> fed.thought \o thought,
               called   |-> fed.called \union called,
               answered |-> fed.answered \union answered]
    /\ UNCHANGED <<mode, pc, ledger, history>>

Text == <<Block("text", Number, Orphan)>>

\* A string, a message or a part of text
UserItem ==
    /\ Item(<<Number>>, <<>>, {}, {})
    /\ \E shape \in {"string", "list"} :
          messages' = Append(Reasoned(messages), Turn("user", shape, Text, <<>>))
    /\ thoughts' = <<>>
    /\ UNCHANGED <<quarantined, system>>

AssistantItem ==
    /\ Item(<<Number>>, <<>>, {}, {})
    /\ \E shape \in {"string", "list"} :
          messages' = Append(messages, Turn("assistant", shape, Text, thoughts))
    /\ thoughts' = <<>>
    /\ UNCHANGED <<quarantined, system>>

\* Of the system or the developer
SystemItem ==
    /\ Item(<<>>, <<>>, {}, {})
    /\ system' = Append(system, Number)
    /\ messages' = Reasoned(messages) /\ thoughts' = <<>>
    /\ UNCHANGED quarantined

\* Encrypted reasoning cannot be read.
ReasoningItem ==
    \E plain \in BOOLEAN :
        /\ Item(<<>>, IF plain THEN <<Number>> ELSE <<>>, {}, {})
        /\ thoughts' = IF plain THEN Append(thoughts, Number) ELSE thoughts
        /\ UNCHANGED <<messages, quarantined, system>>

CallItem ==
    /\ Item(<<>>, <<>>, {Number}, {})
    /\ messages' = Joined(messages, "assistant", "calls", Block("call", Number, Number), thoughts)
    /\ thoughts' = <<>>
    /\ UNCHANGED <<quarantined, system>>

\* A function call with arguments that are no JSON object
QuarantinedCallItem ==
    /\ Item(<<>>, <<>>, {}, {})
    /\ quarantined' = quarantined \union {Number}
    /\ UNCHANGED <<messages, thoughts, system>>

OutputItem ==
    \E id \in ({Orphan} \union fed.called \union quarantined) \ (fed.answered \ {Orphan}) :
        /\ Item(<<>>, <<>>, {}, {id})
        /\ IF id \in quarantined THEN UNCHANGED <<messages, thoughts>>
           ELSE /\ messages' = Joined(ReasonedBeforeOutput(messages), "user", "results",
                                      Block("result", Number, id), <<>>)
                /\ thoughts' = <<>>
        /\ UNCHANGED <<quarantined, system>>

\* An item of an unknown type, or without a name: ResponsesConversionError
UnsupportedItem ==
    /\ pc = "feeding" /\ fed.messages < MaxMessages
    /\ pc' = "unsupported"
    /\ UNCHANGED <<mode, fed, ledger, history, messages, thoughts, quarantined, system>>

-----------------------------------------------------------------------------
(* convert_messages, of the messages above *)

\* _set_replayed_reasoning
Replayed(message, reasoning) == IF mode = "field" THEN [message EXCEPT !.reasoning = reasoning] ELSE message

\* _convert_message_to_segments: of reasoning_content only a message whose content is a
\* string makes thinking tags.
Segment(m) ==
    CASE m.shape = "calls" -> [ToolTurn(m.blocks) EXCEPT !.messages[1] = Replayed(@, m.reasoning)]
      [] m.shape = "list"  -> Plain(<<Replayed(Assistant(m.blocks), m.reasoning)>>)
      [] OTHER -> Plain(<<Replayed(Message(m.role, (IF mode = "think_tags" THEN m.reasoning ELSE <<>>)
                                                     \o Numbers(m.blocks, {"text"}), <<>>, <<>>, Orphan),
                                   m.reasoning)>>)

Converted(l, m) ==
    IF m.role = "user" /\ m.shape # "string" THEN UserBlocks(l, m.blocks) ELSE Add(l, Segment(m))

\* convert_request_to_anthropic_payload, from its loop on, and build_base_request_body: the
\* system prompt stands first.
FinishItems ==
    /\ pc = "feeding"
    /\ LET payload == Reasoned(messages)
           l == Drained(FoldLeft(Converted, ledger, payload))
       IN  IF payload = <<>> THEN pc' = "empty" /\ UNCHANGED <<ledger, history>>
           ELSE IF l.segments # <<>> THEN pc' = "refused" /\ UNCHANGED <<ledger, history>>
           ELSE /\ pc' = "converted" /\ ledger' = l
                /\ history' = (IF system = <<>> THEN <<>>
                               ELSE <<Message("system", system, <<>>, <<>>, Orphan)>>) \o Coalesced(l.output)
    /\ UNCHANGED <<mode, fed, messages, thoughts, quarantined, system>>

NextItems ==
    \/ UserItem \/ AssistantItem \/ SystemItem \/ ReasoningItem
    \/ CallItem \/ QuarantinedCallItem \/ OutputItem \/ UnsupportedItem
    \/ FinishItems

SpecItems == InitItems /\ [][NextItems]_itemsVars

-----------------------------------------------------------------------------
(* What the conversion promises, besides ResultsFollowTheirCalls *)

\* Everything the client's items say is in the request once and in its order, the results of
\* all calls and, as a field, all reasoning; nothing of a quarantined call is; and a request
\* is refused only if a call has no output or it says nothing at all.
ItemsAreKept ==
    LET spoken   == SelectSeq(history, LAMBDA m : m.role \in {"user", "assistant"})
        parts    == FlattenSeq([k \in DOMAIN spoken |-> spoken[k].parts])
        replayed == FlattenSeq([k \in DOMAIN history |-> history[k].reasoning])
        answers  == {history[k].answers : k \in DOMAIN history}
    IN  /\ pc = "converted" =>
              /\ SelectSeq(parts, LAMBDA n : Contains(fed.said, n)) = fed.said
              /\ IsInjective(parts) /\ ToSet(parts) \subseteq ToSet(fed.said \o fed.thought)
              /\ mode = "field" => replayed = fed.thought
              /\ fed.called \subseteq answers /\ answers \intersect quarantined = {}
              /\ system # <<>> => history[1].parts = system
        /\ pc = "refused" => fed.called \ fed.answered # {}
        /\ pc = "empty" => fed.said = <<>> /\ fed.thought = <<>> /\ fed.called = {}

\* ARCHITECTURE.md: reasoning items are replayed, "lossless", and turning reasoning off for
\* the next generation "does not silently erase" them: unless a provider wants no replay,
\* its request has all reasoning that can be read.
ReasoningIsReplayed ==
    pc = "converted" /\ mode # "disabled" =>
        \A n \in ToSet(fed.thought) : \E k \in DOMAIN history :
            Contains(history[k].parts \o history[k].reasoning, n)
=============================================================================
