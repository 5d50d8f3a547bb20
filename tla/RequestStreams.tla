---------------------------- MODULE RequestStreams ----------------------------
(***************************************************************************)
(* The streams a client reads, one at a time: of a chat completion, of a   *)
(* relayed message, of a response.  A behaviour belongs to one of them and *)
(* leaves the variables of the others alone.                               *)
(***************************************************************************)
EXTENDS Naturals

CONSTANTS
    ChatTools, ToolKind, MaxTries, MaxReads,             \* OpenAIChatStream
    Policies, MaxAttempts, MaxBlocks, MaxFrames,         \* AnthropicRelay
    Indexes, MaxEvents                                   \* ResponsesAssembler

VARIABLES
    stream,
    runnerPc, tried, gen, chunks, finish, streamed,      \* OpenAIChatStream
    holdback, out, salvage,
    relayPc, attempts, plan, rejected, sender, relay,    \* AnthropicRelay
    accepted, relayed,
    readerPc, read, assembler, answer                    \* ResponsesAssembler

chatVars   == <<runnerPc, tried, gen, chunks, finish, streamed, holdback, out, salvage>>
relayVars  == <<relayPc, attempts, plan, rejected, sender, relay, accepted, relayed>>
readerVars == <<readerPc, read, assembler, answer>>

streamsVars == <<stream, chatVars, relayVars, readerVars>>

-----------------------------------------------------------------------------
Chat == INSTANCE OpenAIChatStream WITH
    Tools <- ChatTools, Kind <- ToolKind, MaxAttempts <- MaxTries, MaxChunks <- MaxReads,
    pc <- runnerPc, attempts <- tried, ledger <- streamed

Relay == INSTANCE AnthropicRelay WITH pc <- relayPc, answer <- relayed

Responses == INSTANCE ResponsesAssembler WITH pc <- readerPc

\* What the theorems about the streams take for granted.
ASSUME StreamsAssumption == Chat!ChatAssumption /\ Relay!RelayAssumption

-----------------------------------------------------------------------------
InitStreams ==
    /\ stream \in {"chat", "relay", "responses"}
    /\ Chat!Init /\ Relay!Init /\ Responses!Init

NextStreams ==
    /\ UNCHANGED stream
    /\ \/ stream = "chat" /\ Chat!Next /\ UNCHANGED <<relayVars, readerVars>>
       \/ stream = "relay" /\ Relay!Next /\ UNCHANGED <<chatVars, readerVars>>
       \/ stream = "responses" /\ Responses!Next /\ UNCHANGED <<chatVars, relayVars>>

SpecStreams == InitStreams /\ [][NextStreams]_streamsVars

-----------------------------------------------------------------------------
(* Properties.  The parts are stated in the modules, with the code they are about. *)

\* ledger.py, stream.py, assembler.py: what a client reads is one message or one response of
\* its protocol, whoever made it, and what was cut short is not passed off as whole.
StreamsAreWellFormed ==
    /\ stream = "chat" => Chat!ContractHolds /\ Chat!SalvagedToolsAreWhole
    /\ stream = "relay" => Relay!RelayedIsAMessage
    /\ stream = "responses" => Responses!ResponseIsWellFormed /\ Responses!CompleteMeansWhole

\* stream_recovery.py, client.py, request.py: a retry is invisible to a client that has read
\* anything, and the corrections of a rejected request do not chase each other.
RetriesAreInvisible ==
    /\ stream = "chat" => Chat!ReplayIsInvisible
    /\ stream = "relay" => Relay!OneAttemptIsSeen /\ Relay!CorrectionsAreNew
=============================================================================
