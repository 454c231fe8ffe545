---------------------------- MODULE ProviderGate ----------------------------
(***************************************************************************)
(* One enrichment provider as EnrichmentService uses it: the cache lookup, *)
(* the cooldown gate, the pacing and the health of BaseProvider.enrich,    *)
(* and the attempts of AsyncHTTPClient.fetch under it.                     *)
(*                                                                         *)
(* A service sends its requests one after the other; between the moment a  *)
(* request is stamped (requested_at) and the moment it reaches this        *)
(* provider, the providers before it take their time. Cache and cooldown   *)
(* are judged by the stamp, pacing and retries by the clock.               *)
(***************************************************************************)
EXTENDS Naturals

CONSTANTS
    Cve,
    RetryAfter,        \* delays a Retry-After header gives in seconds
    RetryDate,         \* delays a Retry-After header gives as a date
    MaxRetries,        \* bound: the setting provider_max_retries
    Backoff,           \* policy.backoff_seconds * 2**attempt, by attempt
    MaxDelay,          \* policy.max_delay_seconds
    DefaultCooldown,   \* cooldown after a 429 without Retry-After
    MinInterval,       \* config.min_interval_seconds
    Ttl, StaleFor,     \* cache: fresh for Ttl, served on errors for StaleFor more
    MaxLag,            \* bound: time with other providers, and for a reply
    MaxFailures,       \* bound: failures in a row after which no request is made
    MaxClock           \* bound: the horizon of the model

ASSUME GateAssumption ==
    /\ RetryAfter \subseteq Nat /\ RetryDate \subseteq Nat /\ MaxRetries \in Nat
    /\ Backoff \in [0..MaxRetries -> Nat]
    /\ \A n \in 1..MaxRetries : Backoff[n] = 2 * Backoff[n - 1]
    /\ MaxDelay \in Nat /\ DefaultCooldown \in Nat /\ MinInterval \in Nat
    /\ Ttl \in Nat /\ StaleFor \in Nat /\ MaxLag \in Nat
    /\ MaxFailures \in Nat /\ MaxClock \in Nat

VARIABLES
    clock,
    pc,            \* "idle", "queued", "pacing", "sent", "retrying"
    cve, stamp,    \* the request under way and its requested_at
    attempt, wake,
    enabled, retries,  \* by configuration, for good
    lastRequest,   \* _last_request; nothing sent yet is the start of the clock
    cooldown,      \* _rate_limited_until, 0 for None
    failures, lastError,
    cache,         \* per query key: when the cached success was retrieved, or Never
    answer,        \* the last response of the service for this provider
    sends,         \* history: the times of the last two HTTP requests
    refusal        \* history: until when the server has refused requests

gateVars == <<enabled, retries, lastRequest, cooldown, failures, lastError>>
history == <<sends, refusal>>
providerVars == <<clock, pc, cve, stamp, attempt, wake, gateVars, cache, answer, history>>

Never == MaxClock + 1
NoAnswer == [status |-> "none", cve |-> "none", at |-> 0, data |-> Never]
Answers == [status: {"success", "stale", "unavailable", "disabled"}, cve: Cve,
            at: 0..MaxClock, data: 0..Never]
Errors == {"rate_limit", "retryable", "permanent"}

GateTypeOK ==
    /\ clock \in 0..MaxClock
    /\ pc \in {"idle", "queued", "pacing", "sent", "retrying"}
    /\ cve \in Cve /\ stamp \in 0..clock
    /\ attempt \in 0..retries /\ wake \in Nat
    /\ enabled \in BOOLEAN /\ retries \in 0..MaxRetries
    /\ lastRequest \in Nat /\ cooldown \in Nat /\ failures \in Nat
    /\ lastError \in Errors \cup {"none"}
    /\ cache \in [Cve -> 0..Never]
    /\ answer \in Answers \cup {NoAnswer}
    /\ sends \in (0..Never) \X (0..Never) /\ refusal \in Nat

ProviderInit ==
    /\ clock = 0 /\ pc = "idle"
    /\ cve \in Cve /\ stamp = 0 /\ attempt = 0 /\ wake = 0
    /\ enabled \in BOOLEAN /\ retries \in 0..MaxRetries
    /\ lastRequest = 0 /\ cooldown = 0 /\ failures = 0 /\ lastError = "none"
    /\ cache = [c \in Cve |-> Never]
    /\ answer = NoAnswer
    /\ sends = <<Never, Never>> /\ refusal = 0

-----------------------------------------------------------------------------
(* EnrichmentCache.get, by the request's stamp.                            *)

Fresh(c) == cache[c] # Never /\ stamp < cache[c] + Ttl

\* Mutant: the stale window has no end.
Stale_Forever(c) == cache[c] # Never /\ ~Fresh(c)

Stale(c) == cache[c] # Never /\ ~Fresh(c) /\ stamp <= cache[c] + Ttl + StaleFor

-----------------------------------------------------------------------------
\* enrich_cve stamps the request.
Request ==
    /\ pc = "idle" /\ failures < MaxFailures
    /\ cve' \in Cve
    /\ stamp' = clock
    /\ pc' = "queued"
    /\ UNCHANGED <<clock, attempt, wake, gateVars, cache, answer, history>>

Answer(status, data) ==
    /\ answer' = [status |-> status, cve |-> cve, at |-> stamp, data |-> data]
    /\ pc' = "idle"

\* An unsuccessful response is replaced by stale data where there is some.
Degrade(status) ==
    IF Stale(cve) THEN Answer("stale", cache[cve]) ELSE Answer(status, Never)

FromCache ==
    /\ pc = "queued" /\ Fresh(cve)
    /\ Answer("success", cache[cve])
    /\ UNCHANGED <<clock, cve, stamp, attempt, wake, gateVars, cache, history>>

ProviderDisabled ==
    /\ pc = "queued" /\ ~Fresh(cve) /\ ~enabled
    /\ Degrade("disabled")
    /\ UNCHANGED <<clock, cve, stamp, attempt, wake, gateVars, cache, history>>

\* Mutant: the cooldown is recorded and never consulted.
InCooldown_Ignored == FALSE

InCooldown == cooldown # 0 /\ stamp < cooldown

RejectedByCooldown ==
    /\ pc = "queued" /\ ~Fresh(cve) /\ enabled /\ InCooldown
    /\ Degrade("unavailable")
    /\ UNCHANGED <<clock, cve, stamp, attempt, wake, gateVars, cache, history>>

\* _wait_rate_limit.
PauseUntil ==
    IF clock < lastRequest + MinInterval THEN lastRequest + MinInterval ELSE clock

Admit ==
    /\ pc = "queued" /\ ~Fresh(cve) /\ enabled /\ ~InCooldown
    /\ wake' = PauseUntil
    /\ pc' = "pacing"
    /\ UNCHANGED <<clock, cve, stamp, attempt, gateVars, cache, answer, history>>

Sent == sends' = <<clock, sends[1]>>

Dispatch ==
    /\ pc = "pacing" /\ clock >= wake
    /\ lastRequest' = clock
    /\ attempt' = 0
    /\ Sent
    /\ pc' = "sent"
    /\ UNCHANGED <<clock, cve, stamp, wake, enabled, retries, cooldown, failures, lastError,
                   cache, answer, refusal>>

-----------------------------------------------------------------------------
(* The replies.                                                            *)

Succeed ==
    /\ pc = "sent"
    /\ failures' = 0 /\ lastError' = "none"
    /\ cache' = [cache EXCEPT ![cve] = stamp]
    /\ Answer("success", stamp)
    /\ UNCHANGED <<clock, cve, stamp, attempt, wake, enabled, retries, lastRequest, cooldown, history>>

\* _failure.
Fail(error) ==
    /\ failures' = failures + 1 /\ lastError' = error
    /\ Degrade("unavailable")
    /\ UNCHANGED <<clock, cve, stamp, attempt, wake, enabled, retries, lastRequest, cache, sends>>

\* The Retry-After of a reply; "none" where it is absent or cannot be parsed.
Headers == ({"seconds"} \X RetryAfter) \cup ({"date"} \X RetryDate) \cup {<<"none", 0>>}

\* _retry_delay, the jitter left out.
Delay(header) ==
    LET asked == IF header[1] = "none" THEN Backoff[attempt] ELSE header[2]
    IN IF asked < MaxDelay THEN asked ELSE MaxDelay

\* The cooldown of _failure: only a number of seconds other than 0 counts.
CooldownOf(header) ==
    IF header[1] = "seconds" /\ header[2] # 0 THEN header[2] ELSE DefaultCooldown

\* A retryable reply, or none, and an attempt is left.
Retry(header) ==
    /\ pc = "sent" /\ attempt < retries
    /\ wake' = clock + Delay(header)
    /\ pc' = "retrying"
    /\ UNCHANGED <<clock, cve, stamp, attempt, gateVars, cache, answer, sends>>

RateLimited ==
    \E header \in Headers :
        /\ pc = "sent"
        /\ refusal' = clock + CooldownOf(header)
        /\ \/ Retry(header)
           \/ /\ attempt = retries
              /\ cooldown' = stamp + CooldownOf(header)
              /\ Fail("rate_limit")

\* A timeout, a lost connection or another retryable status.
Transient ==
    /\ \/ \E header \in Headers : Retry(header)
       \/ /\ pc = "sent" /\ attempt = retries
          /\ Fail("retryable")
          /\ UNCHANGED cooldown
    /\ UNCHANGED refusal

\* Any other status, an unexpected schema or invalid JSON.
Permanent ==
    /\ pc = "sent"
    /\ Fail("permanent")
    /\ UNCHANGED <<cooldown, refusal>>

Resend ==
    /\ pc = "retrying" /\ clock >= wake
    /\ attempt' = attempt + 1
    /\ Sent
    /\ pc' = "sent"
    /\ UNCHANGED <<clock, cve, stamp, wake, gateVars, cache, answer, refusal>>

\* Time passes: a sleep ends when it is due, a reply or the turn of a queued
\* request takes at most MaxLag.
Tick ==
    /\ clock < MaxClock
    /\ pc = "queued" => clock < stamp + MaxLag
    /\ pc = "sent" => clock < sends[1] + MaxLag
    /\ pc \in {"pacing", "retrying"} => clock < wake
    /\ clock' = clock + 1
    /\ UNCHANGED <<pc, cve, stamp, attempt, wake, gateVars, cache, answer, history>>

ProviderNext ==
    \/ Request \/ FromCache \/ ProviderDisabled \/ RejectedByCooldown \/ Admit
    \/ Dispatch \/ Succeed \/ RateLimited \/ Transient \/ Permanent \/ Resend \/ Tick

ProviderSpec == ProviderInit /\ [][ProviderNext]_providerVars

-----------------------------------------------------------------------------
(* Properties.                                                             *)

\* A response with data is never older than it claims: a success was retrieved
\* within the time to live before the request, stale data within the stale
\* window, and a failure carries none, so no expired entry passes for current.
AnswerAgeBounded ==
    /\ answer.status = "success" => answer.at < answer.data + Ttl \/ answer.at = answer.data
    /\ answer.status = "stale" => answer.at <= answer.data + Ttl + StaleFor
    /\ answer.status \in {"unavailable", "disabled"} => answer.data = Never

\* The gate of BaseProvider never outlives the refusal it stands for, however
\* many requests it turns away: a provider that is refused can recover.
GateEndsWithRefusal == cooldown <= refusal

\* After a 429 BaseProvider.enrich sends no HTTP request until the cooldown of
\* that reply has passed, without HTTP retries (which ignore it) and up to the
\* time the refused request took: the cooldown of BaseProvider._failure starts
\* at that request's stamp, not at the reply, so the gate opens early by its way
\* through queue, pause and reply.
CooldownNearlyRespected ==
    [][retries = 0 /\ pc # "sent" /\ pc' = "sent"
          => clock + 2 * MaxLag + MinInterval >= refusal]_providerVars

\* _wait_rate_limit: without HTTP retries two requests to the provider are at
\* least the minimum interval apart, however late a request arrives.
MinIntervalKept ==
    retries = 0 /\ sends[2] # Never => sends[1] >= sends[2] + MinInterval

\* What the limits rest on: a request is on its way for a bounded time, it was
\* admitted after the cooldown in force, and no refusal outlasts the cooldown by
\* more than the way of the request it answered.
GateTiming ==
    /\ lastRequest <= clock
    /\ pc = "queued" => clock <= stamp + MaxLag
    /\ pc \in {"pacing", "sent", "retrying"} => cooldown <= stamp
    /\ pc = "pacing" =>
         clock <= wake /\ lastRequest + MinInterval <= wake /\ wake <= stamp + MaxLag + MinInterval
    /\ pc = "sent" => sends[1] <= clock /\ clock <= sends[1] + MaxLag
    /\ pc = "retrying" => attempt < retries
    /\ retries = 0 =>
         /\ pc = "sent" => sends[1] <= stamp + MaxLag + MinInterval
         /\ sends[1] # Never => sends[1] = lastRequest
         /\ refusal <= cooldown + 2 * MaxLag + MinInterval

\* What BaseProvider.enrich answers, how long it refuses and how fast it asks
\* stay within their limits together, whatever the provider replies.
GateInv == GateTypeOK /\ AnswerAgeBounded /\ GateEndsWithRefusal /\ MinIntervalKept /\ GateTiming
=============================================================================
