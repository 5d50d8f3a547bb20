------------------------------ MODULE MCRequests ------------------------------
(***************************************************************************)
(* The components a request passes through and those that run the server,  *)
(* one at a time: a behaviour belongs to one part and leaves the variables *)
(* of the others alone, so that one run asks each of them its questions.   *)
(***************************************************************************)
EXTENDS ProxyServer, RequestStreams

VARIABLES
    mode, converterPc, fed, ledger, history,             \* ChatHistory
    messages, thoughts, quarantined, system,             \* ResponsesHistory
    document, position, think, tool, written             \* TextParsers

historyVars     == <<mode, converterPc, fed, ledger, history, messages, thoughts, quarantined, system>>
textVars        == <<document, position, think, tool, written>>

requestsVars == <<serverVars, streamsVars, historyVars, textVars>>

-----------------------------------------------------------------------------
\* Of the Responses API only what it adds: it has no optimization and no server tools.
SomeRequests(all) ==
    {r \in all : r.api = "responses" => ~r.quick /\ r.tools = "absent" /\ ~r.webTools /\ ~r.native}
RequestsOfBothApis ==
    SomeRequests([api : {"messages", "responses"}, stream : BOOLEAN, bad : BOOLEAN,
                  quick : BOOLEAN, tools : {"absent", "listed", "forced"},
                  native : BOOLEAN, webTools : BOOLEAN])

\* Two providers, one of them local, and a model whose name could be mistaken for a tier's.
Tiers(configured, model, fable, reasoning, reasoningFable) ==
    [configured |-> configured, model |-> model, fable |-> fable,
     reasoning |-> reasoning, reasoningFable |-> reasoningFable]
FirstSettings ==
    Tiers({"hosted", "local"}, <<"hosted", "m">>, <<"local", "anthropic", "fable">>, "client", "off")
SecondSettings ==
    Tiers({"hosted"}, <<"hosted", "anthropic", "fable">>, <<>>, "off", "high")
TwoSettings == {FirstSettings, SecondSettings}
TwoModels   == {<<"m">>, <<"anthropic", "fable">>}

\* A tool and the Task tool.
PlainAndTask == [t \in {0, 1} |-> IF t = 0 THEN "plain" ELSE "task"]

\* Thinking is asked for and cut out, asked for with a budget and shown, or not asked for.
Policy(control, budgeted, effort, output) ==
    [control |-> control, budgeted |-> budgeted, roomy |-> TRUE, effort |-> effort, output |-> output]
ThreePolicies == {Policy("on", FALSE, TRUE, FALSE), Policy("on", TRUE, FALSE, TRUE),
                  Policy("off", FALSE, FALSE, FALSE)}

Conversation == INSTANCE ChatHistory WITH MaxMessages <- 3, MaxBlocks <- 2, pc <- converterPc

Items == INSTANCE ResponsesHistory WITH MaxMessages <- 4, MaxBlocks <- 1, pc <- converterPc

\* Up to three pieces of any kind
Text  == << <<"v">> >>
Piece == INSTANCE TextParsers WITH Documents <- {Text}, HoldLimit <- 4, out <- written
Pieces == {Piece!Text, Piece!Space, Piece!Opening, Piece!Closing, Piece!Bullet, Piece!Call,
           Piece!Param, Piece!CutParam, Piece!Control, Piece!WebCall}

Written == INSTANCE TextParsers WITH
    Documents <- UNION {[1 .. n -> Pieces] : n \in 1 .. 3}, HoldLimit <- 4, out <- written

-----------------------------------------------------------------------------
Parts == ServerParts \union {"streams", "history", "items", "text"}

\* Where another part is asked about, a part with several initial states has one of them.
FirstError == Errors!Error("value", 0, 0, "none", "none", "none")

InitRequests ==
    /\ part \in Parts
    /\ \/ part = "errors"
       \/ provider = "plain" /\ errorPc = "opening" /\ error = FirstError
    /\ part = "catalog" \/ settings = FirstSettings
    /\ InitParts
    /\ InitStreams /\ (part # "streams" => stream = "chat")
    /\ Items!InitItems /\ (part \notin {"history", "items"} => mode = "disabled")
    /\ Written!Init /\ (part # "text" => document = Text)

NextRequests ==
    \/ NextServer /\ UNCHANGED <<streamsVars, historyVars, textVars>>
    \/ /\ part = "streams" /\ NextStreams
       /\ UNCHANGED <<serverVars, historyVars, textVars>>
    \/ /\ part = "history" /\ Conversation!Next
       /\ UNCHANGED <<serverVars, streamsVars, textVars, messages, thoughts, quarantined, system>>
    \/ /\ part = "items" /\ Items!NextItems
       /\ UNCHANGED <<serverVars, streamsVars, textVars>>
    \/ /\ part = "text" /\ Written!Next
       /\ UNCHANGED <<serverVars, streamsVars, historyVars>>

SpecRequests == InitRequests /\ [][NextRequests]_requestsVars

-----------------------------------------------------------------------------
(* Properties.  The parts are stated in the modules, with the code they are about. *)

\* thinking.py, tools.py: wherever the chunks of a stream end, thinking in tags and a call
\* written as text are found and cut out of the text, and little is held back.
TextIsParsed ==
    part = "text" => /\ Written!TypeOK /\ Written!ThinkingIsCut
                     /\ Written!ACallIsFound /\ Written!NothingIsHeldForLong

\* conversion.py, input.py: results stand behind their calls, and nothing of a conversation or
\* of the items of a Responses request is lost, but for reasoning behind tags.
HistoryIsWhole ==
    /\ part = "history" => Conversation!ResultsFollowTheirCalls /\ Conversation!NothingIsLost
    /\ part = "items" => Items!ResultsFollowTheirCalls /\ Items!ItemsAreKept
=============================================================================
