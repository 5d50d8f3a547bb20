---------------------------- MODULE AnthropicRelay ----------------------------
(***************************************************************************)
(* One streamed execution of the native Anthropic provider: the request    *)
(* plan and the corrections a rejection asks of it, the relay that holds   *)
(* the upstream's events back until there is content, and the attempts     *)
(* they share (src/codefa/providers/anthropic/client.py, request.py,       *)
(* stream.py).                                                             *)
(*                                                                         *)
(* The upstream is external: it sends a prefix of a well-formed message,   *)
(* and may fail, end or send an error event after any of its events.       *)
(***************************************************************************)
EXTENDS Integers, Sequences, FiniteSets, SequencesExt

CONSTANTS
    Policies,     \* the reasoning policies of requests, with whether reasoning is output
    MaxAttempts,  \* the budget of one execution
    MaxBlocks,    \* content blocks of an upstream message
    MaxFrames     \* frames relayed or held back of one message: deltas and pings repeat

RelayAssumption ==
    Policies \subseteq [control : {"on", "off", "default"}, budgeted : BOOLEAN, roomy : BOOLEAN,
                        effort : BOOLEAN, output : BOOLEAN]

VARIABLES
    pc,        \* where _stream is
    attempts,  \* attempts started
    plan,      \* the AnthropicRequestPlan of the next attempt
    rejected,  \* the requests that were answered with a 400
    sender,    \* how far the upstream's message has come
    relay,     \* the AnthropicEventRelay of the attempt
    accepted,  \* the attempt has succeeded
    answer     \* the frames that were yielded

vars == <<pc, attempts, plan, rejected, sender, relay, accepted, answer>>

NewRelay == [pending |-> <<>>, map |-> <<>>, skipped |-> {}, next |-> 0,
             committed |-> FALSE, stopped |-> FALSE]
Silent == [phase |-> "silent", blocks |-> <<>>]
NoPlan == [betas |-> FALSE, history |-> FALSE, effort |-> FALSE, thinking |-> "absent",
           budget |-> FALSE, suppress |-> FALSE, applied |-> {}]

Init ==
    /\ pc = "new" /\ attempts = 0 /\ plan = NoPlan /\ rejected = {}
    /\ sender = Silent /\ relay = NewRelay /\ accepted = FALSE /\ answer = <<>>

-----------------------------------------------------------------------------
(* The request plan.  A policy turns reasoning on, off or leaves it alone; its *)
(* budget is usable only when max_tokens leaves room for it.                   *)

\* _enabled_budget and _apply_reasoning
Shape(p) ==
    CASE p.control = "off"     -> "disabled"
      [] p.control = "default" -> "absent"
      [] OTHER                 -> IF p.budgeted /\ p.roomy THEN "enabled" ELSE "adaptive"

\* build_anthropic_request_plan.  Thinking blocks of the history are kept only if
\* they are signed, and beta flags only if they are not of an OAuth login.
Build(p, signed, betas) ==
    [betas |-> betas, history |-> signed, effort |-> p.effort, thinking |-> Shape(p),
     budget |-> p.control = "on" /\ p.roomy, suppress |-> ~p.output, applied |-> {}]

\* What is sent of a plan.
Request(q) == [q EXCEPT !.applied = {}]

Markers == {"anthropic-beta", "signature", "effort", "thinking"}

Reshaped(q) == IF q.thinking = "adaptive" THEN "enabled" ELSE "adaptive"

\* The corrections a plan admits for a rejection that names `text`, in their order.
Corrections(q, text) ==
    (IF "betas" \notin q.applied /\ q.betas /\ "anthropic-beta" \in text
        THEN <<[q EXCEPT !.betas = FALSE, !.applied = @ \union {"betas"}]>> ELSE <<>>) \o
    (IF "history" \notin q.applied /\ q.history /\ "signature" \in text
        THEN <<[q EXCEPT !.history = FALSE, !.applied = @ \union {"history"}]>> ELSE <<>>) \o
    (IF "effort" \notin q.applied /\ q.effort /\ "effort" \in text
        THEN <<[q EXCEPT !.effort = FALSE, !.applied = @ \union {"effort"}]>> ELSE <<>>) \o
    (IF /\ "shape" \notin q.applied /\ "thinking" \in text
        /\ \/ q.thinking = "adaptive" /\ q.budget
           \/ q.thinking = "enabled"
        THEN <<[q EXCEPT !.thinking = Reshaped(q), !.applied = @ \union {"shape"}]>> ELSE <<>>)

\* Deviation, for the mutation runs: the corrections made are not remembered.
NextFallback_Forgets(q, text) ==
    LET some == Corrections([q EXCEPT !.applied = {}], text)
    IN  IF some = <<>> THEN {} ELSE {[Head(some) EXCEPT !.applied = {}]}

\* next_fallback_plan: no plan, or the first correction.
NextFallback(q, text) ==
    IF Corrections(q, text) = <<>> THEN {} ELSE {Head(Corrections(q, text))}

-----------------------------------------------------------------------------
(* The relay *)

Frame(type, index, kind) == [type |-> type, index |-> index, kind |-> kind, attempt |-> attempts]

IsBlock(f) == f.type \in {"start", "delta", "stop"}
Suppressed(f) == f.type = "start" /\ plan.suppress /\ f.kind = "thinking"

\* Deviation, for the mutation runs: indexes are passed on as they came.
Renumbered_Not(r, f) == f

\* _translate: the index map follows the blocks that are forwarded.
Renumbered(r, f) ==
    IF IsBlock(f) /\ f.index \in DOMAIN r.map THEN [f EXCEPT !.index = r.map[f.index]] ELSE f

\* The relay that has seen `f`, before any frame is released.
Seen(r, f) ==
    [r EXCEPT
        !.skipped = IF Suppressed(f) THEN @ \union {f.index} ELSE @,
        !.map = IF f.type = "start" /\ ~Suppressed(f)
                THEN [i \in DOMAIN @ \union {f.index} |-> IF i = f.index THEN r.next ELSE @[i]]
                ELSE @,
        !.next = IF f.type = "start" /\ ~Suppressed(f) THEN @ + 1 ELSE @,
        !.stopped = @ \/ f.type = "message_stop"]

Commits(f) == f.type \in {"start", "message_stop"}

\* Deviation, for the mutation runs: frames before the content are passed on.
Relay_Unheld(r, f) ==
    LET s == Seen(r, f)
    IN  IF IsBlock(f) /\ f.index \in s.skipped THEN [r |-> s, frames |-> <<>>]
        ELSE [r |-> [s EXCEPT !.committed = @ \/ Commits(f)], frames |-> <<Renumbered(s, f)>>]

\* relay: the relay left, and the frames to yield now.
Relay(r, f) ==
    LET s == Seen(r, f)
        held == Append(s.pending, Renumbered(s, f))
    IN  IF IsBlock(f) /\ f.index \in s.skipped THEN [r |-> s, frames |-> <<>>]
        ELSE IF r.committed THEN [r |-> s, frames |-> <<Renumbered(s, f)>>]
        ELSE IF Commits(f)
        THEN [r |-> [s EXCEPT !.committed = TRUE, !.pending = <<>>], frames |-> held]
        ELSE [r |-> [s EXCEPT !.pending = held], frames |-> <<>>]

-----------------------------------------------------------------------------
(* The stream *)

Begin ==
    /\ pc = "new" /\ pc' = "open"
    /\ \E p \in Policies, signed \in BOOLEAN, betas \in BOOLEAN :
          plan' = Build(p, signed, betas)
    /\ UNCHANGED <<attempts, rejected, sender, relay, accepted, answer>>

\* open_attempt and _open_stream, answered with a 2xx.
Open ==
    /\ pc = "open" /\ pc' = "stream" /\ attempts < MaxAttempts
    /\ attempts' = attempts + 1 /\ sender' = Silent /\ relay' = NewRelay /\ accepted' = FALSE
    /\ UNCHANGED <<plan, rejected, answer>>

\* attempt.retry: another attempt after a backoff, while the budget allows it.
Retried(retryable, started) ==
    IF retryable /\ started < MaxAttempts THEN "open" ELSE "failed"

\* _open_stream, answered with a 400 that names some of the request's features.
Reject ==
    /\ pc = "open" /\ attempts < MaxAttempts /\ attempts' = attempts + 1
    /\ rejected' = rejected \union {Request(plan)}
    /\ relay' = NewRelay /\ sender' = Silent /\ accepted' = FALSE
    /\ \E text \in SUBSET Markers :
          LET next == NextFallback(plan, text)
          IN  IF next # {} /\ attempts + 1 < MaxAttempts
              THEN pc' = "open" /\ plan' \in next
              ELSE pc' = "failed" /\ UNCHANGED plan
    /\ UNCHANGED answer

\* Another status, or no connection: retryable or not by its classification.
Refuse ==
    /\ pc = "open" /\ attempts < MaxAttempts /\ attempts' = attempts + 1
    /\ relay' = NewRelay /\ sender' = Silent /\ accepted' = FALSE
    /\ \E retryable \in BOOLEAN : pc' = Retried(retryable, attempts + 1)
    /\ UNCHANGED <<plan, rejected, answer>>

\* One event: relayed, and the attempt succeeds with the first frames it commits.
Take(frame, message) ==
    LET next == Relay(relay, frame)
    IN  /\ sender' = message /\ relay' = next.r /\ answer' = answer \o next.frames
        /\ accepted' = next.r.committed
        /\ Len(answer') + Len(next.r.pending) <= MaxFrames

\* What the upstream may send next, and how far its message is then (external).
OpenBlocks == {i \in DOMAIN sender.blocks : sender.blocks[i].open}
Upstream ==
    \/ /\ sender.phase = "silent"
       /\ Take(Frame("message_start", 0, "none"), [sender EXCEPT !.phase = "content"])
    \/ /\ sender.phase # "silent"
       /\ Take(Frame("ping", 0, "none"), sender)
    \/ /\ sender.phase = "content" /\ OpenBlocks = {}
       /\ Take(Frame("message_delta", 0, "none"), [sender EXCEPT !.phase = "delta"])
    \/ /\ sender.phase = "content" /\ OpenBlocks = {} /\ Len(sender.blocks) < MaxBlocks
       /\ \E k \in {"thinking", "text"} :
             Take(Frame("start", Len(sender.blocks), k),
                  [sender EXCEPT !.blocks = Append(@, [open |-> TRUE, kind |-> k])])
    \/ \E i \in OpenBlocks : Take(Frame("delta", i - 1, sender.blocks[i].kind), sender)
    \/ \E i \in OpenBlocks :
          Take(Frame("stop", i - 1, sender.blocks[i].kind), [sender EXCEPT !.blocks[i].open = FALSE])
    \/ /\ sender.phase = "delta"
       /\ Take(Frame("message_stop", 0, "none"), [sender EXCEPT !.phase = "end"])

Receive ==
    /\ pc = "stream" /\ Upstream
    /\ UNCHANGED <<pc, attempts, plan, rejected>>

\* Deviation, for the mutation runs: a stream that was cut off is a stream that ended.
Finish_Truncated ==
    /\ pc = "stream" /\ pc' = "done"
    /\ answer' = answer \o relay.pending
    /\ UNCHANGED <<attempts, plan, rejected, sender, relay, accepted>>

\* The stream ends after message_stop: finish() releases what is still held.
Finish ==
    /\ pc = "stream" /\ relay.stopped /\ pc' = "done"
    /\ answer' = answer \o relay.pending
    /\ UNCHANGED <<attempts, plan, rejected, sender, relay, accepted>>

\* The stream ends without message_stop, breaks, is malformed or sends an error
\* event: retried unless content was relayed.
Break ==
    /\ pc = "stream"
    /\ \E retryable \in BOOLEAN : pc' = Retried(retryable /\ ~relay.committed, attempts)
    /\ relay' = NewRelay /\ sender' = Silent
    /\ UNCHANGED <<attempts, plan, rejected, accepted, answer>>

Next == Begin \/ Open \/ Reject \/ Refuse \/ Receive \/ Finish \/ Break

Spec == Init /\ [][Next]_vars

-----------------------------------------------------------------------------
(* What the relay promises *)

\* The blocks of an answer that are open after its frames.
Opened(s) == {s[i].index : i \in {k \in DOMAIN s : s[k].type = "start"}}
             \ {s[i].index : i \in {k \in DOMAIN s : s[k].type = "stop"}}

\* Whatever the upstream sends and however its reasoning is cut out, the client
\* reads one message: it starts once, its blocks are numbered from 0 without a gap,
\* every delta and stop is of the block that is open, no reasoning is in it when it
\* is switched off, and an answer that ended well ended with message_stop
\* (stream.py AnthropicEventRelay).
RelayedIsAMessage ==
    /\ \A i \in DOMAIN answer :
          LET f == answer[i]
              before == SubSeq(answer, 1, i - 1)
          IN  /\ f.type = "message_start" <=> i = 1
              /\ f.type = "start" =>
                   /\ Opened(before) = {}
                   /\ f.index = Cardinality({k \in DOMAIN before : before[k].type = "start"})
              /\ f.type \in {"delta", "stop"} => Opened(before) = {f.index}
              /\ f.type = "message_stop" => Opened(before) = {}
              /\ f.kind = "thinking" => ~plan.suppress
    /\ pc = "done" => \E i \in DOMAIN answer : answer[i].type = "message_stop"

\* A retry is invisible: what the client read is of one attempt, and no attempt is
\* started once it has read anything (client.py _stream).
OneAttemptIsSeen ==
    /\ \A i \in DOMAIN answer : answer[i].attempt = attempts
    /\ answer # <<>> => accepted

\* Every correction of a rejected request is a request that was not rejected
\* before: the corrections cannot chase each other, as the two shapes of
\* thinking would (request.py next_fallback_plan).
CorrectionsAreNew == pc = "open" => Request(plan) \notin rejected
=============================================================================
