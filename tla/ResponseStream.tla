--------------------------- MODULE ResponseStream ---------------------------
(***************************************************************************)
(* One request of the public API, from the lease of its provider           *)
(* generation to the end of its response (src/codefa/api/routes.py,        *)
(* handlers/messages.py, handlers/responses.py, response_streams.py,       *)
(* application/execution.py, core/openai_responses/stream.py).             *)
(*                                                                         *)
(* The body is the chain of generators from the response's replay iterator *)
(* down to the provider's stream.  The server may cancel the request at    *)
(* any await: the client went away, or the server is shutting down.        *)
(***************************************************************************)
EXTENDS Integers, Sequences

CONSTANTS
    Requests,    \* the requests a client may send, see Request
    MaxChunks,   \* how many frames a provider yields before it ends or fails
    MaxCancels   \* how often the request may be cancelled

(* tools: the server tools are "absent", "listed", or forced by tool_choice
   ("forced").  quick: an optimization matches.  bad: the request has no message. *)
Request == [api : {"messages", "responses"}, stream : BOOLEAN, bad : BOOLEAN, quick : BOOLEAN,
            tools : {"absent", "listed", "forced"}, native : BOOLEAN, webTools : BOOLEAN]

ResponseAssumption == Requests \subseteq Request

VARIABLES
    request,  \* the request, from when it arrives
    pc,       \* where the request's task is
    lease,    \* the RequestRuntimeLease
    body,     \* the chain of generators: "none", "open" or "closed"
    source,   \* what the body has done: frames yielded, how it ended, emitted_any_chunk
    frame,    \* the frame between the body and the client
    wire,     \* what the client has received; lost: a send failed
    cleanup,  \* the finalization task of the response
    cancels   \* cancellations so far; pending: one is held back until the cleanup ends

vars == <<request, pc, lease, body, source, frame, wire, cleanup, cancels>>

Nothing == "none"

Init ==
    /\ request = Nothing
    /\ pc = "acquire" /\ lease = Nothing /\ body = Nothing /\ frame = Nothing /\ cleanup = Nothing
    /\ source = [chunks |-> 0, ended |-> FALSE, failed |-> FALSE, emitted |-> FALSE]
    /\ wire = [kind |-> Nothing, frames |-> <<>>, lost |-> FALSE]
    /\ cancels = [count |-> 0, pending |-> FALSE]

Goto(p) == pc' = p

-----------------------------------------------------------------------------
(* The handlers: what becomes of a request before anything is streamed. *)

\* unsupported_server_tool_error
Unsupported(r) ==
    /\ ~r.native
    /\ \/ r.tools = "forced" /\ ~r.webTools
       \/ r.tools = "listed"

\* _run_message_intercepts: local web tools come before the optimizations.
Intercept(r) ==
    IF r.webTools /\ ~r.native /\ r.tools = "forced" THEN "stream"
    ELSE IF r.quick THEN "complete"
    ELSE Nothing

\* create: "invalid" is an ApplicationError of the validation.
Disposition(r) ==
    IF r.bad \/ (r.api = "responses" /\ ~r.stream) THEN "invalid"
    ELSE IF r.api = "responses" THEN "stream"
    ELSE IF Unsupported(r) THEN "invalid"
    ELSE IF Intercept(r) = Nothing THEN "stream" ELSE Intercept(r)

\* create: the provider is resolved and preflighted before its stream is drawn; it
\* may refuse the request, or fail with an error of its own.
Handle ==
    /\ pc = "handle"
    /\ \/ /\ Disposition(request) = "invalid"
          /\ Goto("refuse") /\ wire' = [wire EXCEPT !.kind = "ordinary_error"]
          /\ UNCHANGED body
       \/ /\ Disposition(request) = "complete"
          /\ Goto("bind") /\ wire' = [wire EXCEPT !.kind = "json"]
          /\ UNCHANGED body
       \/ /\ Disposition(request) = "stream"
          /\ \/ body' = "open" /\ Goto("first") /\ UNCHANGED wire
             \/ Goto("refuse") /\ wire' = [wire EXCEPT !.kind = "ordinary_error"]
                /\ UNCHANGED body
             \/ Goto("bind") /\ wire' = [wire EXCEPT !.kind = "final_error"]
                /\ UNCHANGED body
    /\ UNCHANGED <<request, lease, source, frame, cleanup, cancels>>

-----------------------------------------------------------------------------
(* routes: the lease is held until the response's end. *)

Acquire ==
    /\ pc = "acquire"
    /\ request' \in Requests
    /\ \/ lease' = "held" /\ Goto("handle") /\ UNCHANGED wire
       \/ Goto("done") /\ wire' = [wire EXCEPT !.kind = "ordinary_error"] /\ UNCHANGED lease
    /\ UNCHANGED <<body, source, frame, cleanup, cancels>>

\* The except clauses of _create_messages_response: the lease ends with the request.
Refuse ==
    /\ pc = "refuse"
    /\ lease' = "released" /\ Goto("done")
    /\ UNCHANGED <<request, body, source, frame, wire, cleanup, cancels>>

\* Deviation, for the mutation runs: a stream's lease ends when the route returns.
BindLifetime_Early ==
    /\ pc = "bind"
    /\ lease' = "released"
    /\ Goto(IF wire.kind = Nothing THEN "head" ELSE "done")
    /\ UNCHANGED <<request, body, source, frame, wire, cleanup, cancels>>

\* bind_response_lifetime: a response without a stream releases the lease at once.
BindLifetime ==
    /\ pc = "bind"
    /\ IF wire.kind = Nothing
       THEN Goto("head") /\ UNCHANGED lease
       ELSE Goto("done") /\ lease' = "released"
    /\ UNCHANGED <<request, body, source, frame, wire, cleanup, cancels>>

-----------------------------------------------------------------------------
(* The body.  A provider that has started a message ends it with message_stop, or *)
(* fails; it may also end without a frame.  A provider of the Messages API is read  *)
(* to the end of its stream: behind message_stop it may send more, and break.       *)

\* What the provider's stream does next: a chunk, the last one of a message, its end,
\* or a failure.  The Responses adapter stops reading once its response is terminal.
Answers ==
    IF request.api = "responses" /\ source.ended THEN {"end"}
    ELSE (IF source.chunks < MaxChunks THEN {"chunk"} ELSE {})
             \cup (IF source.chunks < MaxChunks /\ ~source.ended THEN {"stop"} ELSE {})
             \cup (IF source.chunks = 0 \/ source.ended THEN {"end"} ELSE {})
             \cup {"failure"}

\* Deviation, for the mutation runs: a failure is raised whether or not a chunk was yielded.
Adapted_Raises(answer) ==
    IF request.api = "messages" THEN {answer}
    ELSE CASE answer = "stop"                       -> {"stop", "error"}
           [] answer = "end" /\ ~source.ended       -> {"stop"}
           [] OTHER                                 -> {answer}

\* iter_responses_sse_from_anthropic: the Responses adapter finishes a response its
\* input did not, fails one whose calls cannot be used, and answers a failure with
\* response.failed once a chunk went out.  A Messages stream is passed on as it is.
Adapted(answer) ==
    IF request.api = "messages" THEN {answer}
    ELSE CASE answer = "stop"                       -> {"stop", "error"}
           [] answer = "end" /\ ~source.ended       -> {"stop"}
           [] answer = "failure" /\ source.emitted  -> {"error"}
           [] OTHER                                 -> {answer}

Frames   == {"chunk", "stop", "error"}
Outcomes == Frames \cup {"end", "failure"}

\* Drawing from the body once; a generator that ends or raises has run its finalizers.
Draw(outcome) ==
    \E answer \in Answers :
        /\ outcome \in Adapted(answer)
        /\ source' = [chunks  |-> source.chunks + (IF outcome \in Frames THEN 1 ELSE 0),
                      ended   |-> source.ended \/ outcome \in {"stop", "error"},
                      failed  |-> source.failed \/ answer = "failure",
                      emitted |-> source.emitted \/ outcome \in Frames]
        /\ body' = IF outcome \in Frames THEN body ELSE "closed"

\* _first_chunk_streaming_response, and the aggregation of a Message that is not streamed.
First ==
    /\ pc = "first"
    /\ \E outcome \in Outcomes :
        /\ Draw(outcome)
        /\ IF outcome \notin Frames
           THEN /\ IF request.stream \/ outcome = "failure"
                   THEN wire' = [wire EXCEPT !.kind = "final_error"]
                   ELSE wire' = [wire EXCEPT !.kind = "json"]
                /\ Goto("bind") /\ UNCHANGED frame
           ELSE /\ UNCHANGED wire
                /\ IF request.stream THEN Goto("bind") /\ frame' = outcome
                   ELSE UNCHANGED <<pc, frame>>
    /\ UNCHANGED <<request, lease, cleanup, cancels>>

\* StreamingResponse.__call__ sends the headers.
SendHead ==
    /\ pc = "head"
    /\ \/ wire' = [wire EXCEPT !.kind = "stream"] /\ Goto("send")
       \/ wire' = [wire EXCEPT !.lost = TRUE] /\ Goto("close")
    /\ UNCHANGED <<request, lease, body, source, frame, cleanup, cancels>>

\* _PrefetchedStream.__anext__: the prefetched frame is replayed first; a Messages
\* failure becomes the terminal error frame, one of the Responses adapter is raised.
NextFrame ==
    /\ pc = "next"
    /\ \E outcome \in Outcomes :
        /\ Draw(outcome)
        /\ CASE outcome \in Frames -> Goto("send") /\ frame' = outcome
             [] outcome = "failure" /\ request.api = "messages" -> Goto("send") /\ frame' = "error"
             [] OTHER -> Goto("close") /\ UNCHANGED frame
    /\ UNCHANGED <<request, lease, wire, cleanup, cancels>>

\* The frame reaches the client, or sending it fails.
Send ==
    /\ pc = "send"
    /\ \/ /\ wire' = [wire EXCEPT !.frames = Append(@, frame)]
          /\ Goto(IF body = "closed" THEN "close" ELSE "next")
       \/ wire' = [wire EXCEPT !.lost = TRUE] /\ Goto("close")
    /\ frame' = Nothing
    /\ UNCHANGED <<request, lease, body, source, cleanup, cancels>>

-----------------------------------------------------------------------------
(* ManagedStreamingResponse: one finalization task, waited for to its end. *)

StartCleanup ==
    /\ pc = "close" /\ cleanup = Nothing
    /\ cleanup' = "body"
    /\ UNCHANGED <<request, pc, lease, body, source, frame, wire, cancels>>

\* Deviation, for the mutation runs: the lease is released before the body is closed.
Cleanup_LeaseFirst ==
    \/ /\ cleanup = "body"
       /\ lease' = "released" /\ cleanup' = "release"
       /\ UNCHANGED <<request, pc, body, source, frame, wire, cancels>>
    \/ /\ cleanup = "release"
       /\ body' = "closed" /\ cleanup' = "done"
       /\ UNCHANGED <<request, pc, lease, source, frame, wire, cancels>>

\* _cleanup: the body first, whose failure to close is only traced; then the lease.
Cleanup ==
    \/ /\ cleanup = "body"
       /\ body' = "closed" /\ cleanup' = "release"
       /\ UNCHANGED <<request, pc, lease, source, frame, wire, cancels>>
    \/ /\ cleanup = "release"
       /\ lease' = "released" /\ cleanup' = "done"
       /\ UNCHANGED <<request, pc, body, source, frame, wire, cancels>>

\* _wait_for_cleanup: a cancellation is raised again once the task has ended.
Closed ==
    /\ pc = "close" /\ cleanup = "done"
    /\ Goto("done") /\ cancels' = [cancels EXCEPT !.pending = FALSE]
    /\ UNCHANGED <<request, lease, body, source, frame, wire, cleanup>>

\* Deviation, for the mutation runs: a cancellation ends the wait for the cleanup.
Cancel_Abandons ==
    /\ cancels.count < MaxCancels
    /\ cancels' = [cancels EXCEPT !.count = @ + 1]
    /\ \/ pc = "acquire" /\ Goto("done") /\ UNCHANGED body
       \/ pc = "first" /\ Goto("refuse") /\ body' = "closed"
       \/ pc \in {"head", "next", "send"} /\ Goto("close")
          /\ body' = IF pc = "next" THEN "closed" ELSE body
       \/ pc = "close" /\ cleanup # Nothing /\ Goto("done") /\ UNCHANGED body
    /\ UNCHANGED <<request, lease, source, frame, wire, cleanup>>

\* A cancellation is raised in the innermost await: where the body is being drawn
\* from it passes through the body, whose finalizers close it.
Cancel ==
    /\ cancels.count < MaxCancels
    /\ \/ /\ pc = "acquire" /\ Goto("done") /\ UNCHANGED body
          /\ cancels' = [cancels EXCEPT !.count = @ + 1]
       \/ /\ pc = "first" /\ Goto("refuse") /\ body' = "closed"
          /\ cancels' = [cancels EXCEPT !.count = @ + 1]
       \/ /\ pc \in {"head", "next", "send"} /\ Goto("close")
          /\ body' = IF pc = "next" THEN "closed" ELSE body
          /\ cancels' = [cancels EXCEPT !.count = @ + 1]
       \/ /\ pc = "close" /\ cleanup # Nothing /\ UNCHANGED <<pc, body>>
          /\ cancels' = [count |-> cancels.count + 1, pending |-> TRUE]
    /\ UNCHANGED <<request, lease, source, frame, wire, cleanup>>

Next ==
    \/ Acquire \/ Handle \/ Refuse \/ BindLifetime \/ First
    \/ SendHead \/ NextFrame \/ Send
    \/ StartCleanup \/ Cleanup \/ Closed \/ Cancel

Spec == Init /\ [][Next]_vars

-----------------------------------------------------------------------------
(* The provider generation of a request outlives the body that uses it, however the
   request ends, and is released by the time the request is over
   (bind_response_lifetime, ManagedStreamingResponse). *)
LeaseOutlivesBody ==
    /\ lease = "released" => body # "open"
    /\ pc = "done" => lease # "held" /\ body # "open"

(* The client learns how its stream ended: a failure before the first frame is an HTTP
   error and nothing else, one after it an error frame behind which nothing comes; a
   client of the Messages API is told of no error unless the provider failed; and what
   was read to its end, by a client that was there and not cut off, holds the end of a
   message or of a response, or that error.  Both only if a provider of the Messages API
   broke off behind its message_stop (AnthropicProvider._stream reads on); behind the
   terminal event of a Responses stream there is nothing. *)
EndIsTold ==
    LET frames == wire.frames
    IN  /\ wire.kind \notin {Nothing, "stream"} => frames = <<>>
        /\ source.failed => wire.kind \in {"final_error", "stream"}
        /\ \A i \in 1 .. Len(frames) :
              /\ i < Len(frames) => \/ frames[i] = "chunk"
                                    \/ frames[i] = "stop" /\ request.api = "messages"
              /\ frames[i] = "error" => source.failed \/ request.api = "responses"
        /\ pc = "done" /\ wire.kind = "stream" /\ ~wire.lost /\ cancels.count = 0 =>
              /\ \E i \in 1 .. Len(frames) : frames[i] \in {"stop", "error"}
              /\ source.failed => frames[Len(frames)] = "error"
=============================================================================
