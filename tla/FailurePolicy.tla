---------------------------- MODULE FailurePolicy ----------------------------
(***************************************************************************)
(* What becomes of an error of an upstream provider                        *)
(* (src/codefa/providers/failure_policy.py, stream_recovery.py,            *)
(* providers/anthropic/errors.py, core/anthropic/errors.py).               *)
(*                                                                         *)
(* One error is judged up to three times, by different functions: whether  *)
(* the attempt to open a stream is repeated, whether a stream that broke   *)
(* is, and what the client is told once nobody repeats anything.  The      *)
(* client may be another instance of this program, which reads the error   *)
(* off the wire and judges it again.                                       *)
(***************************************************************************)
EXTENDS Naturals

VARIABLES
    provider,  \* "openai", "nim", "anthropic", or "plain": no override of its own
    pc,        \* "opening", "reading", "retrying", "exhausted" or "surfaced"
    error,     \* the error that was raised
    decided,   \* what the retry policy said of it: "none", "retry" or "final"
    failure,   \* the ExecutionFailure the client is told
    origin     \* the failure of the instance upstream, behind a hop

vars == <<provider, pc, error, decided, failure, origin>>

NoFailure == [kind |-> "none", status |-> 0, retryable |-> FALSE]
Failure(kind, status, retryable) == [kind |-> kind, status |-> status, retryable |-> retryable]

-----------------------------------------------------------------------------
(* Errors *)

\* The classes of the openai and httpx packages the policies tell apart (external),
\* and the program's own: "protocol" is RetryableProviderProtocolError, "truncated" its
\* subclass, "frame" an error event in an Anthropic stream, "value" anything else.
Sdk    == {"rate_limit", "authentication", "bad_request", "api_timeout", "api_connection",
           "internal_server", "api_error"}
Client == {"read_timeout", "other_timeout", "network", "remote_protocol", "timeout", "value"}

\* The status attribute an exception of a class has; 0 is none.
StatusesOf(type) ==
    CASE type = "rate_limit"      -> {429}
      [] type = "authentication"  -> {401}
      [] type = "bad_request"     -> {400}
      [] type = "internal_server" -> {500, 503, 529}
      [] type = "api_error"       -> {0, 403, 404, 409}
      [] type = "http_status"     -> {400, 401, 403, 404, 413, 429, 500, 503, 529}
      [] OTHER                    -> {0}

\* The documented names of Anthropic's errors with their status.
\* _ANTHROPIC_ERROR_STATUS_CODES and _ERROR_TYPE_FAILURE_KINDS
Named == [invalid_request_error |-> <<"invalid_request", 400>>,
          authentication_error  |-> <<"authentication", 401>>,
          billing_error         |-> <<"permission", 402>>,
          permission_error      |-> <<"permission", 403>>,
          not_found_error       |-> <<"invalid_request", 404>>,
          request_too_large     |-> <<"invalid_request", 413>>,
          rate_limit_error      |-> <<"rate_limit", 429>>,
          api_error             |-> <<"upstream", 500>>,
          timeout_error         |-> <<"timeout", 504>>,
          overloaded_error      |-> <<"overloaded", 529>>]

\* status: the attribute; body: a status in the body; marker: what the text reminds of;
\* named: Anthropic's name; says: a phrase the providers' own rules look for.
Error(type, status, body, marker, named, says) ==
    [type |-> type, status |-> status, body |-> body, marker |-> marker, named |-> named, says |-> says]

Markers == {"none", "rate", "overload", "internal"}

OpenAIErrors ==
    {Error(t, s, b, m, "none", w) :
        t \in Sdk \cup Client \cup {"truncated"}, s \in UNION {StatusesOf(u) : u \in Sdk},
        b \in {0, 404, 429, 500}, m \in Markers, w \in {"none", "quota", "context", "degraded"}}

AnthropicErrors ==
    {Error(t, s, b, m, n, w) :
        t \in Client \cup {"http_status", "frame", "truncated", "protocol"},
        s \in StatusesOf("http_status") \cup {0}, b \in {0, 429, 503}, m \in Markers,
        n \in DOMAIN Named \cup {"none"}, w \in {"none", "context", "credit"}}

\* An exception without a body has no name, no phrase and no status in it; Anthropic's
\* names of overload and rate limits remind of them.
Sensible(e) ==
    /\ e.status \in StatusesOf(e.type)
    /\ e.type \in Client \cup {"truncated", "protocol"} =>
          e.body = 0 /\ e.named = "none" /\ e.says = "none"
    /\ e.type \in {"api_timeout", "api_connection"} => e.body = 0 /\ e.says = "none"
    /\ e.named = "rate_limit_error" => e.body = 429 /\ e.marker = "rate"
    /\ e.named = "overloaded_error" => e.body = 503 /\ e.marker = "overload"

Init ==
    /\ provider \in {"plain", "openai", "nim", "anthropic"}
    /\ error \in {e \in IF provider = "anthropic" THEN AnthropicErrors ELSE OpenAIErrors : Sensible(e)}
    /\ pc \in IF provider = "anthropic" THEN {"opening"} ELSE {"opening", "reading"}
    /\ decided = "none" /\ failure = NoFailure /\ origin = NoFailure

-----------------------------------------------------------------------------
(* Classification *)

IsRetryableStatus(status) == status = 429 \/ status \in 500 .. 599

\* retryable_transient_status: the attribute first, then the body, then the words; of an
\* httpx.HTTPStatusError the status only.
TransientStatus(e) ==
    IF e.type = "rate_limit" THEN 429
    ELSE IF e.type = "http_status" THEN IF IsRetryableStatus(e.status) THEN e.status ELSE 0
    ELSE IF IsRetryableStatus(e.status) THEN e.status
    ELSE IF IsRetryableStatus(e.body) THEN e.body
    ELSE IF e.marker = "rate" THEN 429
    ELSE IF e.marker = "overload" THEN 503
    ELSE IF e.marker = "internal" THEN 500 ELSE 0

\* Deviation, for the mutation runs: the words of a rejection count as well.
IsRetryable_ByText(e) ==
    TransientStatus(e) # 0 \/ e.type \in (Client \ {"value"}) \cup {"api_timeout", "api_connection",
                                                                     "protocol", "truncated"}

\* is_retryable_provider_error
IsRetryable(e) ==
    /\ e.type \notin {"authentication", "bad_request"}
    /\ \/ TransientStatus(e) # 0
       \/ e.type \in (Client \ {"value"}) \cup {"api_timeout", "api_connection", "protocol", "truncated"}

\* Deviation, for the mutation runs: a stream that ended early is an error like others.
IsRetryableStream_NotTruncated(e) ==
    /\ e.type \notin {"authentication", "bad_request", "truncated"}
    /\ \/ TransientStatus(e) # 0
       \/ e.type \in (Client \ {"value", "other_timeout"}) \cup {"api_timeout", "api_connection"}

\* is_retryable_stream_error
IsRetryableStream(e) ==
    \/ e.type = "truncated"
    \/ /\ e.type \notin {"authentication", "bad_request"}
       /\ \/ TransientStatus(e) # 0
          \/ e.type \in (Client \ {"value", "other_timeout"}) \cup {"api_timeout", "api_connection"}

Overloaded       == Failure("overloaded", 529, TRUE)
ContextExceeded  == Failure("context_window", 400, FALSE)
BillingFailure   == Failure("permission", 402, FALSE)

\* anthropic_failure_override
AnthropicOverride(e) ==
    LET kind == Named[e.named][1]  status == Named[e.named][2]
    IN  IF e.named = "none" THEN NoFailure
        ELSE IF status = 402 THEN BillingFailure
        ELSE IF kind = "overloaded" THEN Overloaded
        ELSE IF kind \in {"rate_limit", "timeout", "upstream"} THEN Failure(kind, status, TRUE)
        ELSE IF status = 400 /\ e.says = "context" THEN ContextExceeded
        ELSE IF status = 400 /\ e.says = "credit" THEN BillingFailure
        ELSE Failure(kind, status, FALSE)

\* NvidiaNimProvider._provider_failure_override, of responses with status 400
NimOverride(e) ==
    IF e.type = "bad_request" /\ e.says = "context" THEN ContextExceeded
    ELSE IF e.type = "bad_request" /\ e.says = "degraded" THEN Overloaded ELSE NoFailure

\* OpenAIProvider._provider_failure_override
OpenAIOverride(e) == IF e.says = "quota" THEN BillingFailure ELSE NoFailure

Override(e) ==
    CASE provider = "anthropic" -> AnthropicOverride(e)
      [] provider = "nim"       -> NimOverride(e)
      [] provider = "openai"    -> OpenAIOverride(e)
      [] OTHER                  -> NoFailure

\* The classes _classify_provider_failure knows of the openai package
ClassifiedSdk(e) ==
    CASE e.type = "authentication" -> Failure("authentication", 401, FALSE)
      [] e.type = "rate_limit"     -> Failure("rate_limit", 429, TRUE)
      [] e.type = "bad_request"    -> Failure("invalid_request", 400, FALSE)
      [] e.type = "api_timeout"    -> Failure("timeout", 500, TRUE)
      [] e.type = "api_connection" -> Failure("unavailable", 500, TRUE)
      [] e.type = "internal_server" ->
            IF e.marker = "overload" THEN Overloaded ELSE Failure("upstream", TransientStatus(e), TRUE)
      [] e.type = "api_error" ->
            IF TransientStatus(e) = 429 THEN Failure("rate_limit", 429, TRUE)
            ELSE IF e.marker = "overload" THEN Overloaded
            ELSE Failure("upstream",
                         IF TransientStatus(e) # 0 THEN TransientStatus(e)
                         ELSE IF e.status # 0 THEN e.status ELSE 500, IsRetryable(e))

\* ... and of a plain HTTP response
ClassifiedHttp(e) ==
    CASE e.status \in {401, 403}      -> Failure("authentication", 401, FALSE)
      [] e.status = 429               -> Failure("rate_limit", 429, TRUE)
      [] e.status = 400               -> Failure("invalid_request", 400, FALSE)
      [] e.status \in {502, 503, 504} -> Overloaded
      [] OTHER                        -> Failure("upstream", e.status, IsRetryableStatus(e.status))

\* classify_provider_failure
Classified(e) ==
    IF Override(e) # NoFailure THEN Override(e)
    ELSE IF e.type \in Sdk THEN ClassifiedSdk(e)
    ELSE IF e.type = "http_status" THEN ClassifiedHttp(e)
    ELSE Failure(CASE e.type \in {"timeout", "read_timeout", "other_timeout"} -> "timeout"
                   [] e.type = "network" -> "unavailable"
                   [] OTHER              -> "upstream", 502, IsRetryable(e))

-----------------------------------------------------------------------------
(* The ways of an error *)

Judged(retryable) ==
    /\ decided' = IF retryable THEN "retry" ELSE "final"
    /\ pc' \in IF retryable THEN {"retrying", "exhausted"} ELSE {"exhausted"}
    /\ UNCHANGED <<provider, error, failure, origin>>

\* ProviderAttempt.retry, of an attempt that was not accepted: the override first.
Opening ==
    /\ pc = "opening"
    /\ Judged(IF Override(error) # NoFailure THEN Override(error).retryable ELSE IsRetryable(error))

\* RecoveryController.advance_failure, of a stream that was accepted: only the openai_chat
\* runner has one, and it reads no override, so that an error with one is left out here
\* (see the README).  Connections and pools time out before.
Reading ==
    /\ pc = "reading" /\ Override(error) = NoFailure
    /\ error.type # "other_timeout"
    /\ Judged(IsRetryableStream(error))

\* The shared recovery gave up meanwhile (ProviderRecoveryExhausted): the session's last
\* error is what the client is told.
Exhaust ==
    /\ pc = "retrying"
    /\ pc' = "exhausted"
    /\ UNCHANGED <<provider, error, decided, failure, origin>>

Surface ==
    /\ pc = "exhausted"
    /\ pc' = "surfaced" /\ failure' = Classified(error)
    /\ UNCHANGED <<provider, error, decided, origin>>

\* Deviation, for the mutation runs: billing problems have no name of their own.
WireName_NoBilling(f) ==
    CASE f.kind = "context_window"                       -> "invalid_request_error"
      [] f.kind = "invalid_request"                      -> "invalid_request_error"
      [] f.kind = "authentication"                       -> "authentication_error"
      [] f.kind = "permission"                           -> "permission_error"
      [] f.kind = "rate_limit"                           -> "rate_limit_error"
      [] f.kind = "overloaded"                           -> "overloaded_error"
      [] OTHER                                           -> "api_error"

\* anthropic_error_type_for_failure
WireName(f) ==
    CASE f.kind = "permission"      -> IF f.status = 402 THEN "billing_error" ELSE "permission_error"
      [] f.kind = "invalid_request" -> IF f.status = 404 THEN "not_found_error"
                                       ELSE IF f.status = 413 THEN "request_too_large"
                                       ELSE "invalid_request_error"
      [] f.kind = "timeout" /\ f.status = 504            -> "timeout_error"
      [] f.kind = "context_window"                       -> "invalid_request_error"
      [] f.kind = "authentication"                       -> "authentication_error"
      [] f.kind = "rate_limit"                           -> "rate_limit_error"
      [] f.kind = "overloaded"                           -> "overloaded_error"
      [] OTHER                                           -> "api_error"

\* The client is another instance, with this one for its Anthropic provider: the error is
\* a response or, in a stream, an event; "prompt is too long" stands before the message
\* of an exceeded context (_anthropic_failure_message).
Relay ==
    /\ pc = "surfaced" /\ origin = NoFailure
    /\ origin' = failure /\ provider' = "anthropic" /\ pc' = "opening"
    /\ \E type \in {"http_status", "frame"} :
          error' = Error(type, IF type = "frame" THEN 0 ELSE failure.status,
                         CASE WireName(failure) = "rate_limit_error" -> 429
                           [] WireName(failure) = "overloaded_error" -> 503
                           [] OTHER -> 0,
                         "none", WireName(failure),
                         IF failure.kind = "context_window" THEN "context" ELSE "none")
    /\ decided' = "none" /\ failure' = NoFailure

Next == Opening \/ Reading \/ Exhaust \/ Surface \/ Relay

Spec == Init /\ [][Next]_vars

-----------------------------------------------------------------------------
(* What the policies promise one another *)

\* The client is told that a failure may be retried exactly if the program would have
\* retried it itself, wherever it was raised and through whichever words, body or
\* status it was recognised; and a failure that may be retried has a status that says so.
ToldAsDecided ==
    pc = "surfaced" =>
        /\ failure.retryable <=> decided = "retry"
        /\ failure.retryable => IsRetryableStatus(failure.status)

\* "This is the inverse of anthropic_error_type_for_failure" (core/anthropic/errors.py):
\* behind a hop a failure is what it was.  One without a name of its own, an upstream's,
\* is an api_error, and stays retryable if it was.
SurvivesTheHop ==
    pc = "surfaced" /\ origin # NoFailure =>
        \/ failure = origin
        \/ /\ origin.kind \in {"upstream", "timeout", "unavailable"}
           /\ origin.retryable => failure.retryable
=============================================================================
