---------------------------- MODULE ModelGateway ----------------------------
(***************************************************************************)
(* The model gateway (model_gateway/): every caller drives one operation   *)
(* at a time through the routed providers, with retries and fallback, and  *)
(* every attempt is recorded in model_gateway_calls.                       *)
(*                                                                         *)
(* A candidate is a provider: the registry holds one model of each.  The   *)
(* token budget and the cost budget are checked alike, so one budget       *)
(* stands for both.                                                        *)
(***************************************************************************)
EXTENDS Naturals, Sequences, SequencesExt

CONSTANTS
    Callers,        \* workers executing agent runs, and the owner's console
    Providers,
    Primary,        \* model_primary_provider
    Fallbacks,      \* model_fallback_providers, in order
    TaskRoute,      \* the provider that the task route names
    Configured,     \* providers that have a key
    Adapter,        \* the kind of API each provider has
    MaxRetries,     \* model_max_retries
    TokenBudget,    \* of one operation
    WorstCase,      \* conservative estimate of one attempt
    Usages          \* what an answered attempt may really have used

ASSUME GatewayAssumption ==
    /\ Primary \in Providers /\ TaskRoute \in Providers
    /\ Fallbacks \in Seq(Providers)
    /\ Configured \subseteq Providers
    /\ Adapter \in [Providers -> {"openai", "gemini", "anthropic"}]
    /\ MaxRetries \in Nat /\ TokenBudget \in Nat /\ WorstCase \in Nat
    /\ Usages \subseteq Nat

VARIABLES
    op,             \* per caller: the operation under way
    recorded,       \* tokens in the operation's model_gateway_calls
    asked,          \* providers that were sent the operation's prompt
    voices          \* providers whose text the caller was given

gatewayVars == <<op, recorded, asked, voices>>

Operations ==
    [stage : {"none", "ready", "calling", "text", "error"}, route : Seq(Providers),
     stream : BOOLEAN, sensitive : BOOLEAN, index : Nat, retry : Nat, spent : Nat,
     emitted : BOOLEAN, last : Nat]

NoOperation == [stage |-> "none", route |-> <<>>, stream |-> FALSE, sensitive |-> FALSE,
                index |-> 1, retry |-> 0, spent |-> 0, emitted |-> FALSE, last |-> 0]

GatewayTypeOK ==
    /\ op \in [Callers -> Operations]
    /\ recorded \in [Callers -> Nat]
    /\ asked \in [Callers -> SUBSET Providers]
    /\ voices \in [Callers -> SUBSET Providers]

GatewayInit ==
    /\ op = [c \in Callers |-> NoOperation]
    /\ recorded = [c \in Callers |-> 0]
    /\ asked = [c \in Callers |-> {}]
    /\ voices = [c \in Callers |-> {}]

-----------------------------------------------------------------------------
(* ModelRouter.candidates, and what generate and stream keep of them. *)

Candidates(routed, fallback) ==
    <<IF routed THEN TaskRoute ELSE Primary>>
    \o (IF fallback THEN <<Primary>> \o Fallbacks ELSE <<>>)

\* Each configured candidate once, at its first place.
Kept(route, p) ==
    IF p \in Configured /\ ~Contains(route, p) THEN Append(route, p) ELSE route
Route(routed, fallback) == FoldLeft(Kept, <<>>, Candidates(routed, fallback))

\* Seeded fault: the policy is left to the caller.
AlwaysPermitted(sensitive, fallback) == TRUE
Permitted(sensitive, fallback) == ~(sensitive /\ fallback)

-----------------------------------------------------------------------------
Put(c, o) == op' = [op EXCEPT ![c] = o]
Provider(c) == op[c].route[op[c].index]

\* The operation starts, or fails at once: forbidden fallback, or no provider.
Open(c, stream, routed, sensitive, fallback) ==
    /\ op[c].stage = "none"
    /\ LET route == Route(routed, fallback)
           open == Permitted(sensitive, fallback) /\ route # <<>>
       IN Put(c, [NoOperation EXCEPT !.stage = IF open THEN "ready" ELSE "error",
                                     !.route = route,
                                     !.stream = stream, !.sensitive = sensitive])
    /\ UNCHANGED <<recorded, asked, voices>>

\* _preflight of the next attempt, with what the operation spent so far.
Attempt(c) ==
    /\ op[c].stage = "ready"
    /\ IF op[c].spent + WorstCase > TokenBudget
       THEN Put(c, [op[c] EXCEPT !.stage = "error"]) /\ UNCHANGED asked
       ELSE /\ Put(c, [op[c] EXCEPT !.stage = "calling"])
            /\ asked' = [asked EXCEPT ![c] = @ \cup {Provider(c)}]
    /\ UNCHANGED <<recorded, voices>>

\* A delta of a stream goes to the caller as it comes.
Delta(c) ==
    /\ op[c].stage = "calling" /\ op[c].stream
    /\ Put(c, [op[c] EXCEPT !.emitted = TRUE])
    /\ voices' = [voices EXCEPT ![c] = @ \cup {Provider(c)}]
    /\ UNCHANGED <<recorded, asked>>

\* _record_call, with the usage of the response, or zero without one.
RecordCall(c, used) == recorded' = [recorded EXCEPT ![c] = @ + used]

\* Seeded fault: an attempt that failed is free.
Free(c, used) == op[c].spent
SpentWith(c, used) == op[c].spent + used

\* What an adapter takes for the end of a stream: the event that carries the whole
\* text, or any end of the response once there was some text.
OpenAICompletes(c) == Adapter[Provider(c)] = "openai"
GeminiCompletes(c) == Adapter[Provider(c)] = "gemini" /\ op[c].emitted
AnthropicCompletes(c) == Adapter[Provider(c)] = "anthropic" /\ op[c].emitted
Responds(c) ==
    \/ ~op[c].stream
    \/ OpenAICompletes(c) \/ GeminiCompletes(c) \/ AnthropicCompletes(c)

\* A valid answer; it may have used more than the operation has left.
Answer(c, used) ==
    /\ op[c].stage = "calling" /\ Responds(c)
    /\ RecordCall(c, used)
    /\ IF op[c].spent + used > TokenBudget
       THEN /\ Put(c, [op[c] EXCEPT !.stage = "error", !.last = used, !.spent = @ + used])
            /\ UNCHANGED voices
       ELSE /\ Put(c, [op[c] EXCEPT !.stage = "text", !.last = used])
            /\ voices' = [voices EXCEPT ![c] = @ \cup {Provider(c)}]
    /\ UNCHANGED asked

\* After a failed attempt: a retry, the next candidate, the end.
Proceed(o, retryable) ==
    CASE retryable /\ o.retry < MaxRetries -> [o EXCEPT !.stage = "ready", !.retry = @ + 1]
      [] ~(retryable /\ o.retry < MaxRetries) /\ o.index < Len(o.route)
           -> [o EXCEPT !.stage = "ready", !.retry = 0, !.index = @ + 1]
      [] OTHER -> [o EXCEPT !.stage = "error"]

\* A stream whose output has begun goes no further.
NextAttempt(o, retryable) ==
    IF o.emitted THEN [o EXCEPT !.stage = "error"] ELSE Proceed(o, retryable)

FailedAttempt(c, used, retryable) ==
    /\ op[c].stage = "calling"
    /\ RecordCall(c, used)
    /\ Put(c, NextAttempt([op[c] EXCEPT !.spent = SpentWith(c, used), !.last = used], retryable))
    /\ UNCHANGED <<asked, voices>>

\* A failure without an answer: transport, provider error, protocol.
CallFails(c) == \E retryable \in BOOLEAN : FailedAttempt(c, 0, retryable)

\* The answer does not match the schema: generate tries again, a stream does not.
AnswerIsInvalid(c, used) ==
    /\ op[c].stage = "calling" /\ Responds(c)
    /\ FailedAttempt(c, used, ~op[c].stream)

\* The client of a stream disconnects; a call under way is recorded as failed.
Disconnect(c) ==
    /\ op[c].stream /\ op[c].stage \in {"ready", "calling"}
    /\ \E used \in IF op[c].stage = "calling" THEN {0} \cup Usages ELSE {0} :
          /\ RecordCall(c, used)
          /\ Put(c, [op[c] EXCEPT !.stage = "error",
                                  !.last = IF op[c].stage = "calling" THEN used ELSE @])
    /\ UNCHANGED <<asked, voices>>

\* The caller has its text or its error; its next operation has records of its own.
Close(c) ==
    /\ Put(c, NoOperation)
    /\ recorded' = [recorded EXCEPT ![c] = 0]
    /\ asked' = [asked EXCEPT ![c] = {}]
    /\ voices' = [voices EXCEPT ![c] = {}]

\* The steps of the operation that are not the caller's.
GatewayStep(c) ==
    \/ Attempt(c) \/ Delta(c) \/ CallFails(c)
    \/ \E used \in Usages : Answer(c, used) \/ AnswerIsInvalid(c, used)

-----------------------------------------------------------------------------
(* Retries and fallback consume one budget: the calls recorded for an operation exceed *)
(* it only when its last attempt used more than the conservative estimate.             *)
OperationWithinBudget ==
    \A c \in Callers :
        \/ recorded[c] <= TokenBudget
        \/ op[c].last > WorstCase

(* Nothing a caller was given is mixed from two providers, and a sensitive prompt goes *)
(* to one provider only, whatever fails.                                               *)
AudienceIsBounded ==
    \A c \in Callers :
        /\ \A p, q \in voices[c] : p = q
        /\ op[c].sensitive => \A p, q \in asked[c] : p = q
=============================================================================
