------------------------------ MODULE TextParsers ------------------------------
(***************************************************************************)
(* Thinking and tool calls that a model writes into its text: the parsers  *)
(* that cut them out of a stream (src/codefa/core/anthropic/thinking.py    *)
(* and tools.py) and the way the runner feeds them                         *)
(* (providers/openai_chat/provider.py).                                    *)
(*                                                                         *)
(* The stream is a sequence of symbols and comes in chunks that end        *)
(* anywhere.  A tag is two or three symbols, so that a chunk can end in    *)
(* its middle; a name or a value is one.                                   *)
(***************************************************************************)
EXTENDS Integers, Sequences, FiniteSets, SequencesExt

CONSTANTS
    Documents,   \* what the model writes: sequences of the pieces below
    HoldLimit    \* how much is held behind a bullet: 100 characters

\* The pieces.  Of the control tokens `token` is a whole one.
Text     == <<"v">>
Space    == <<" ">>
Opening  == <<"<", "think>">>
Closing  == <<"<", "/", "think>">>
Bullet   == <<"*">>
Call     == <<"*", "<fn=", "F>">>
Param    == <<"<par=", "K>", "v", "</par", "eter>">>
CutParam == SubSeq(Param, 1, 3)
Control  == <<"<|", "v", "|>">>
WebCall  == <<"WebFetch", "{}">>

VARIABLES
    document,   \* the pieces
    position,   \* how many symbols have come
    think,      \* ThinkTagParser
    tool,       \* HeuristicToolParser
    out         \* what was emitted: text, thinking and calls

vars == <<document, position, think, tool, out>>

Input == FlattenSeq(document)

Init ==
    /\ document \in Documents /\ position = 0
    /\ think = [buffer |-> <<>>, inside |-> FALSE]
    /\ tool = [state |-> "text", buffer |-> <<>>, params |-> <<>>]
    /\ out = [text |-> <<>>, thinking |-> <<>>, calls |-> <<>>]

-----------------------------------------------------------------------------
(* Where things are in a buffer; 0 if they are not *)

Least(s)       == IF s = {} THEN 0 ELSE CHOOSE i \in s : \A j \in s : i <= j
Greatest(s)    == IF s = {} THEN 0 ELSE CHOOSE i \in s : \A j \in s : j <= i
Places(b, x)   == {i \in 1 .. Len(b) : IsPrefix(x, SubSeq(b, i, Len(b)))}
Find(b, x)     == Least(Places(b, x))
Before(b, i)   == SubSeq(b, 1, i - 1)
From(b, i)     == SubSeq(b, i, Len(b))

\* str.strip
Stripped(b) ==
    LET inner == {i \in DOMAIN b : b[i] # " "}
    IN  IF inner = {} THEN <<>> ELSE SubSeq(b, Least(inner), Greatest(inner))

-----------------------------------------------------------------------------
(* thinking.py *)

Parsed(buffer, inside, type, content) ==
    [buffer |-> buffer, inside |-> inside, part |-> [type |-> type, content |-> content]]

\* Deviation, for the mutation runs: a tag that is cut off is not waited for.
Held_Not(b, tags) == 0

\* Where a tag that is cut off begins: at the last bracket.
Held(b, tags) ==
    LET last == Greatest(Places(b, <<"<">>))
    IN  IF last # 0 /\ \E tag \in tags : IsStrictPrefix(From(b, last), tag) THEN last ELSE 0

\* _parse_outside_think: a closing tag without its opening one is dropped.
Outside(b) ==
    LET open == Find(b, Opening)
        close == Find(b, Closing)
        held == Held(b, {Opening, Closing})
    IN  CASE close # 0 /\ (open = 0 \/ close < open) ->
                 Parsed(From(b, close + Len(Closing)), FALSE, "text", Before(b, close))
          [] open # 0 /\ (close = 0 \/ open < close) ->
                 Parsed(From(b, open + Len(Opening)), TRUE, "text", Before(b, open))
          [] open = 0 /\ close = 0 /\ held # 0 ->
                 Parsed(From(b, held), FALSE, "text", Before(b, held))
          [] OTHER -> Parsed(<<>>, FALSE, "text", b)

\* _parse_inside_think
Inside(b) ==
    LET close == Find(b, Closing)
        held == Held(b, {Closing})
    IN  CASE close # 0 -> Parsed(From(b, close + Len(Closing)), FALSE, "thinking", Before(b, close))
          [] close = 0 /\ held # 0 -> Parsed(From(b, held), TRUE, "thinking", Before(b, held))
          [] OTHER -> Parsed(<<>>, TRUE, "thinking", b)

\* feed: the parts, until the buffer is empty or holds a tag that is cut off.
RECURSIVE Parts(_, _, _)
Parts(buffer, inside, parts) ==
    LET p == IF inside THEN Inside(buffer) ELSE Outside(buffer)
    IN  IF buffer = <<>> \/ p.buffer = buffer
        THEN [buffer |-> buffer, inside |-> inside, parts |-> parts]
        ELSE Parts(p.buffer, p.inside,
                   IF p.part.content = <<>> THEN parts ELSE Append(parts, p.part))

-----------------------------------------------------------------------------
(* tools.py.  A feed in progress is the parser with the text and calls it returns. *)

\* _strip_control_tokens: nothing in a token ends or begins another.
RECURSIVE WithoutControl(_)
WithoutControl(b) ==
    LET whole == {<<i, j>> \in (DOMAIN b) \X (DOMAIN b) :
                    /\ i < j /\ b[i] = "<|" /\ b[j] = "|>"
                    /\ \A k \in i + 1 .. j - 1 : b[k] \in {"v", " "}}
    IN  IF whole = {} THEN b
        ELSE LET w == CHOOSE w \in whole : TRUE
             IN  WithoutControl(Before(b, w[1]) \o From(b, w[2] + 1))

\* _extract_web_tool_json_calls: with the first one all of the buffer is dropped.
WebCalls(b) == [i \in 1 .. Cardinality(Places(b, WebCall)) |-> <<"web">>]

\* _FUNC_START_PATTERN, anywhere in the buffer: where it begins and where it ends
FunctionAt(b) ==
    LET starts == {<<i, j>> \in (1 .. Len(b)) \X (1 .. Len(b)) :
                     /\ i < j /\ b[i] = "*" /\ IsPrefix(Tail(Call), From(b, j))
                     /\ \A k \in i + 1 .. j - 1 : b[k] = " "}
    IN  Least({s[2] + 2 : s \in starts})

\* _PARAM_PATTERN: the first parameter, if it has come to its end
ParamIn(b) ==
    LET start == Find(b, SubSeq(Param, 1, 2))
        end == Least({i \in Places(b, SubSeq(Param, 4, 5)) : start + 2 <= i})
    IN  [found |-> start # 0 /\ end # 0, start |-> start, end |-> end]

\* The parameters that have come, with the text before each
RECURSIVE WithParams(_)
WithParams(f) ==
    LET b == f.buffer
        p == ParamIn(b)
    IN  IF ~p.found THEN f
        ELSE WithParams([f EXCEPT !.text = @ \o Before(b, p.start),
                                  !.params = Append(@, Stripped(SubSeq(b, p.start + 2, p.end - 1))),
                                  !.buffer = From(b, p.end + 2)])

\* Deviation, for the mutation runs: a call ends with its parameters.
Ended_Early(f) == f.params # <<>> /\ f.buffer = <<>>

\* A call ends with the next bullet, or with text that is no markup.
Ended(f) ==
    \/ Find(f.buffer, <<"*">>) # 0
    \/ /\ f.buffer # <<>> /\ Find(f.buffer, <<"<par=">>) = 0
       /\ \/ Stripped(f.buffer) = <<>>
          \/ Head(Stripped(f.buffer)) \notin {"<", "<fn=", "<par=", "</par", "<|"}

Emit(f) ==
    LET bullet == Find(f.buffer, <<"*">>)
        n == IF bullet # 0 THEN bullet ELSE Len(f.buffer) + 1
    IN  [f EXCEPT !.text = @ \o Before(f.buffer, n), !.buffer = From(f.buffer, n),
                  !.calls = Append(@, f.params), !.state = "text"]

\* The states of feed, until one of them has to wait for more
RECURSIVE Scan(_)
Scan(f) ==
    LET b == f.buffer
        bullet == Find(b, <<"*">>)
        control == Greatest(Places(b, <<"<|">>))
        cut == IF control > 1 /\ {i \in Places(b, <<"|>">>) : i > control} = {} THEN control
               ELSE Len(b) + 1
        function == FunctionAt(b)
        withParams == WithParams(f)
    IN  CASE f.state = "text" /\ bullet # 0 ->
                 Scan([f EXCEPT !.text = @ \o Before(b, bullet), !.buffer = From(b, bullet),
                                !.state = "matching"])
          [] f.state = "text" /\ bullet = 0 ->
                 [f EXCEPT !.text = @ \o Before(b, cut), !.buffer = From(b, cut)]
          [] f.state = "matching" /\ function # 0 ->
                 Scan([f EXCEPT !.buffer = From(b, function), !.params = <<>>, !.state = "params"])
          [] f.state = "matching" /\ function = 0 /\ Len(b) > HoldLimit ->
                 Scan([f EXCEPT !.text = Append(@, Head(b)), !.buffer = Tail(b), !.state = "text"])
          [] f.state = "params" /\ Ended(withParams) -> Scan(Emit(withParams))
          [] f.state = "params" /\ ~Ended(withParams) -> withParams
          [] OTHER -> f

\* feed
ToolFeed(t, content) ==
    LET b == WithoutControl(t.buffer \o content)
        web == WebCalls(b)
    IN  Scan([state |-> t.state, buffer |-> IF web = <<>> THEN b ELSE <<>>, params |-> t.params,
              text |-> <<>>, calls |-> web])

\* flush: a call whose last parameter was cut off has it, and text that is held is gone.
ToolFlush(t) ==
    LET b == WithoutControl(t.buffer)
        start == Find(b, SubSeq(Param, 1, 2))
        params == IF start = 0 THEN t.params ELSE Append(t.params, Stripped(From(b, start + 2)))
    IN  IF t.state = "params" THEN <<params>> ELSE <<>>

-----------------------------------------------------------------------------
(* provider.py *)

\* A part of the content: text goes through the second parser.
Passed(s, part) ==
    IF part.type = "thinking"
    THEN [s EXCEPT !.out.thinking = @ \o part.content]
    ELSE LET f == ToolFeed(s.tool, part.content)
         IN  [s EXCEPT !.tool = [state |-> f.state, buffer |-> f.buffer, params |-> f.params],
                       !.out.text = @ \o f.text, !.out.calls = @ \o f.calls]

\* The next chunk of the stream, which ends anywhere
Feed ==
    /\ position < Len(Input)
    /\ \E end \in position + 1 .. Len(Input) :
          LET fed == Parts(think.buffer \o SubSeq(Input, position + 1, end), think.inside, <<>>)
              s == FoldLeft(Passed, [tool |-> tool, out |-> out], fed.parts)
          IN  /\ position' = end
              /\ think' = [buffer |-> fed.buffer, inside |-> fed.inside]
              /\ tool' = s.tool /\ out' = s.out
    /\ UNCHANGED document

\* The end of the stream: what the first parser still has does not pass the second.
Finish ==
    /\ position = Len(Input)
    /\ position' = Len(Input) + 1
    /\ out' = [text     |-> IF think.inside THEN out.text ELSE out.text \o think.buffer,
               thinking |-> IF think.inside THEN out.thinking \o think.buffer ELSE out.thinking,
               calls    |-> out.calls \o ToolFlush(tool)]
    /\ UNCHANGED <<document, think, tool>>

Next == Feed \/ Finish

Spec == Init /\ [][Next]_vars

-----------------------------------------------------------------------------
(* What the whole document says *)

\* What of the document is thinking, and the other pieces but the tags
RECURSIVE Split(_, _, _, _)
Split(pieces, inside, thinking, rest) ==
    IF pieces = <<>> THEN [thinking |-> thinking, rest |-> rest]
    ELSE LET p == Head(pieces)
         IN  CASE p = Closing            -> Split(Tail(pieces), FALSE, thinking, rest)
               [] p = Opening /\ ~inside -> Split(Tail(pieces), TRUE, thinking, rest)
               [] p # Closing /\ inside  -> Split(Tail(pieces), TRUE, thinking \o p, rest)
               [] OTHER                  -> Split(Tail(pieces), FALSE, thinking, Append(rest, p))

Whole == Split(document, FALSE, <<>>, <<>>)

\* Parameters follow their call at once, the last may be cut off, and bullets begin calls.
WellFormed(pieces) ==
    \A i \in DOMAIN pieces :
        /\ pieces[i] \notin {Bullet, Control, WebCall}
        /\ pieces[i] \in {Param, CutParam} => i > 1 /\ pieces[i - 1] \in {Call, Param}
        /\ pieces[i] = CutParam => i = Len(pieces)

\* The parameters of each call of a well-formed document
CallsOf(pieces) ==
    LET calls == SelectSeq([i \in DOMAIN pieces |-> i], LAMBDA i : pieces[i] = Call)
        next(n) == IF n < Len(calls) THEN calls[n + 1] ELSE Len(pieces) + 1
        params(n) == {i \in calls[n] .. next(n) - 1 : pieces[i] \in {Param, CutParam}}
    IN  [n \in DOMAIN calls |-> [k \in 1 .. Cardinality(params(n)) |-> <<"v">>]]

TextOf(pieces) == FlattenSeq(SelectSeq(pieces, LAMBDA p : p \notin {Call, Param, CutParam}))

-----------------------------------------------------------------------------
(* Properties *)

Over == position > Len(Input)

\* Types of the parsers' states.
TypeOK ==
    /\ position \in 0 .. Len(Input) + 1
    /\ think.inside \in BOOLEAN /\ tool.state \in {"text", "matching", "params"}

\* thinking.py: wherever the chunks end, what stands between the tags is thinking and
\* nothing else is, and no tag is left in either.
ThinkingIsCut == Over => out.thinking = Whole.thinking

\* What the parsers made of the document is what it says.
Found ==
    /\ out.calls = CallsOf(Whole.rest)
    /\ out.text = TextOf(Whole.rest)

\* tools.py: "converts the common form into tool_use blocks".  Wherever the chunks end, the
\* calls of a well-formed document are found, each with its parameters, and its text is
\* emitted in order.  Two calls in one chunk break it: the parameters of the second are taken
\* for the first's, and the rest of it for text.
CallsAreFound == Over /\ WellFormed(Whole.rest) => Found

\* The same of a document with one call, which holds.
ACallIsFound ==
    LET calls == {i \in DOMAIN Whole.rest : Whole.rest[i] = Call}
    IN  Over /\ WellFormed(Whole.rest) /\ Cardinality(calls) <= 1 => Found

\* Whatever the document: text is held for no longer than the limit allows, unless it is
\* behind the beginning of a call.
NothingIsHeldForLong == tool.state = "matching" => Len(tool.buffer) <= HoldLimit
=============================================================================
