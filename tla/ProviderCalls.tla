---------------------------- MODULE ProviderCalls ----------------------------
(***************************************************************************)
(* Which stream a reply listens to: the bounded retries of one provider    *)
(* (semikb_provider_resilience) within the order of the configured ones    *)
(* (agent_runtime/llm_gateway.py).  A call is the provider and the attempt *)
(* it is at, and whether content has come from that attempt.               *)
(***************************************************************************)
EXTENDS Naturals

CONSTANTS
    NumProviders,   \* the primary, and the fallback where there is one
    MaxAttempts     \* provider_max_attempts

ASSUME CallsAssumption == NumProviders \in 1 .. 2 /\ MaxAttempts \in Nat \ {0}

NoCall == [provider |-> 0, attempt |-> 0, content |-> FALSE]

Open(provider) == [provider |-> provider, attempt |-> 1, content |-> FALSE]

Retryable == {"timeout", "rate_limited", "upstream_5xx", "transport"}

\* What may go wrong with a stream, and the error of a callback that is given its content.
Troubles == Retryable \cup {"rejected", "invalid_response", "cut_off"}

\* A provider whose configuration lacks something is not called.
ConfigurationTrouble(call) == call.attempt = 1 /\ ~call.content

\* Mutant of FailureKind: it is not looked at whether content has come.
FailureKindOfAny(call, trouble) ==
    IF trouble = "callback_error" THEN "transport"
    ELSE IF trouble = "cut_off" THEN "stream_interrupted"
    ELSE trouble

\* Only the errors of the stream itself are told apart once content has come; a stream
\* without a terminal signal is interrupted also when it brought nothing.
FailureKind(call, trouble) ==
    IF trouble = "callback_error" THEN "transport"
    ELSE IF call.content \/ trouble = "cut_off" THEN "stream_interrupted"
    ELSE trouble

\* Mutant of AfterFailure: providers take turns.
AfterFailureAround(call, kind) ==
    IF kind \in Retryable /\ call.attempt < MaxAttempts
    THEN [call EXCEPT !.attempt = @ + 1, !.content = FALSE]
    ELSE IF kind # "stream_interrupted" THEN Open((call.provider % NumProviders) + 1)
    ELSE NoCall

\* The stream that follows a failure, NoCall when the reply gets none any more.
AfterFailure(call, kind) ==
    IF kind \in Retryable /\ call.attempt < MaxAttempts
    THEN [call EXCEPT !.attempt = @ + 1, !.content = FALSE]
    ELSE IF kind # "stream_interrupted" /\ call.provider < NumProviders THEN Open(call.provider + 1)
    ELSE NoCall

=============================================================================
