------------------------------ MODULE LLMService ------------------------------
(***************************************************************************)
(* One structured completion of app/llm/service.py: complete_json with its *)
(* retries and its single try of the fallback provider, over the provider  *)
(* clients of app/llm/clients.                                             *)
(*                                                                         *)
(* What a provider answers is a member of Replies, chosen freely at every  *)
(* attempt.  A text is represented by what the readers of it tell apart:   *)
(* whether it is JSON, fenced JSON, an object, of the stage's schema.      *)
(*                                                                         *)
(* "tried" is a history variable: the attempts of the completion under     *)
(* way, with what the service saw and whether the provider had produced a  *)
(* completion all the same.                                                *)
(***************************************************************************)
EXTENDS Naturals, Sequences, FiniteSets

CONSTANT LLMConfigurations   \* the LLM settings the process may start with

LLMProviders   == {"fake", "groq", "openrouter", "ollama", "gemini"}
KeyedProviders == {"groq", "openrouter", "gemini"}
OpenAICompatibleProviders == {"groq", "openrouter"}

ErrorCategories ==
    {"configuration", "authentication", "rate_limit", "timeout",
     "unavailable", "invalid_request", "invalid_response", "safety",
     "cancellation", "unknown"}

\* keys and models are the providers with an API key and with a model.
LLMSettings ==
    [runtime_enabled : BOOLEAN, provider : LLMProviders,
     max_retries : 0..10, fallback_enabled : BOOLEAN,
     fallback_provider : LLMProviders, keys : SUBSET KeyedProviders,
     models : SUBSET LLMProviders, ollama_url : BOOLEAN]

ASSUME ConfigurationAssumption == LLMConfigurations \subseteq LLMSettings

VARIABLES
    settings,   \* the LLM settings, fixed when the process starts
    call,       \* the completion under way
    tried       \* its attempts, oldest first

llmVars == <<settings, call, tried>>

-----------------------------------------------------------------------------
\* Mutant of IsRetryable: a refused response is worth another try.
RetriesInvalidResponses(category) ==
    category \in {"timeout", "unavailable", "rate_limit", "invalid_response"}

\* is_retryable_llm_error and is_fallback_eligible_llm_error.
IsRetryable(category) == category \in {"timeout", "unavailable", "rate_limit"}
IsFallbackEligible(category) ==
    category \in {"timeout", "unavailable", "rate_limit"}

\* What comes back from the network: nothing in time (although the provider
\* may have worked on), no connection, a connection that breaks while the
\* answer is read, an HTTP error, or a body.
Silence  == {"no_answer", "late_answer"}
Unreach  == {"connect_timeout", "refused"}
Statuses4xx5xx == {"400", "401", "403", "404", "408", "409", "422", "429",
                   "500", "502", "503", "504"}
Bodies   == {"not_a_chat", "not_text", "empty", "usage_conflict", "prose",
             "fenced", "not_an_object", "wrong_schema", "valid"}
Replies  == Silence \cup Unreach \cup {"broken"} \cup Statuses4xx5xx
              \cup Bodies

\* _category_for_status, the same in the three HTTP clients.
CategoryForStatus(status) ==
    CASE status \in {"401", "403"}               -> "authentication"
      [] status = "408"                          -> "timeout"
      [] status = "429"                          -> "rate_limit"
      [] status \in {"400", "409", "422"}        -> "invalid_response"
      [] status \in {"500", "502", "503", "504"} -> "unavailable"
      [] OTHER                                   -> "unknown"

\* What an attempt gives its caller: a text, an LLMProviderError of some
\* category, or an exception of another class.
Text(content)   == [kind |-> "text", what |-> content]
Error(category) == [kind |-> "error", what |-> category]
Surprise        == [kind |-> "exception", what |-> "unknown"]

\* build_chat_response with structured_json: the text has to parse as JSON as
\* it stands, and to be an object.  A fence is not taken off here.
BuildChatResponse(body) ==
    IF body \in {"empty", "prose", "fenced", "not_an_object"}
    THEN Error("invalid_response") ELSE Text(body)

\* _normalize_response of the OpenAI-compatible clients.  A total below the
\* sum of its parts fails the validation of LLMUsage, outside any handler.
OpenAICompatibleResponse(body) ==
    CASE body \in {"not_a_chat", "not_text"} -> Error("invalid_response")
      [] body = "usage_conflict"             -> Surprise
      [] OTHER                               -> BuildChatResponse(body)

\* _normalize_response of the Gemini client, which refuses an empty text
\* itself.
GeminiResponse(body) ==
    CASE body \in {"not_a_chat", "not_text", "empty"} ->
             Error("invalid_response")
      [] body = "usage_conflict"             -> Surprise
      [] OTHER                               -> BuildChatResponse(body)

\* _normalize_response of the Ollama client.  It computes the total itself,
\* so a conflicting one is not read.
OllamaResponse(body) ==
    CASE body \in {"not_a_chat", "not_text"} -> Error("invalid_response")
      [] body = "usage_conflict"             -> Text("valid")
      [] OTHER                               -> BuildChatResponse(body)

\* Mutant of FakeResponse: the canned payload fits the stage's schema.
FakeFitsSchema == Text("valid")

\* FakeLLMClient: a JSON object that says which provider made it.
FakeResponse == Text("wrong_schema")

\* validate_ready of the clients.
ValidateReady(provider) ==
    CASE provider \in KeyedProviders -> provider \in settings.keys
      [] provider = "ollama"         -> settings.ollama_url
      [] OTHER                       -> TRUE

\* resolve_model; create_llm_client gives the fake client a default model.
ResolvesModel(provider) == provider = "fake" \/ provider \in settings.models

Ready(provider) == ValidateReady(provider) /\ ResolvesModel(provider)

\* post_json and the clients' exception handlers.  A connect timeout reaches
\* them as a URLError, hence as an unavailable provider.
HTTPCompletion(provider, reply) ==
    CASE reply \in Silence        -> Error("timeout")
      [] reply \in Unreach        -> Error("unavailable")
      [] reply = "broken"         -> Surprise
      [] reply \in Statuses4xx5xx -> Error(CategoryForStatus(reply))
      [] OTHER ->
           CASE provider \in OpenAICompatibleProviders ->
                    OpenAICompatibleResponse(reply)
             [] provider = "gemini" -> GeminiResponse(reply)
             [] OTHER               -> OllamaResponse(reply)

\* complete of the client create_llm_client makes for the provider.
ClientComplete(provider, reply) ==
    IF ~Ready(provider) THEN Error("configuration")
    ELSE IF provider = "fake" THEN FakeResponse
    ELSE HTTPCompletion(provider, reply)

\* The provider has worked out a completion, whatever the client makes of it.
Produces(provider, reply) ==
    /\ provider # "fake" /\ Ready(provider)
    /\ reply \in Bodies \cup {"late_answer", "broken"}

\* The schemas of the stages' outputs, which forbid any field they do not name.
MatchesSchema(content) == content \in {"valid", "fenced"}

\* parse_structured_output: a fence is taken off, what is in it has to be an
\* object that matches the schema.
StructuredOutput(content) ==
    /\ content \notin {"empty", "prose", "not_an_object"}
    /\ MatchesSchema(content)

-----------------------------------------------------------------------------
Phases == {"idle", "primary", "fallback", "returned", "raised"}
NoCall == [phase |-> "idle", provider |-> "fake", left |-> 0,
           result |-> Text("valid"), fallback_used |-> FALSE]

Results  == [kind : {"text"}, what : Bodies]
              \cup [kind : {"error"}, what : ErrorCategories]
              \cup {Surprise}
Calls    == [phase : Phases, provider : LLMProviders, left : 0..11,
             result : Results, fallback_used : BOOLEAN]
Attempts == [provider : LLMProviders, result : Results, produced : BOOLEAN]

LLMInit ==
    /\ settings \in LLMConfigurations
    /\ call  = NoCall
    /\ tried = <<>>

\* Mutant of ShouldUseFallback: the fallback answers for any failure.
FallsBackAlways(category, provider) ==
    settings.fallback_enabled /\ settings.fallback_provider # provider

\* _should_use_fallback.
ShouldUseFallback(category, provider) ==
    /\ settings.fallback_enabled
    /\ settings.fallback_provider # provider
    /\ IsFallbackEligible(category)

\* complete up to its first attempt.
BeginCompletion ==
    /\ call.phase \in {"idle", "returned"}
    /\ call'  = [NoCall EXCEPT !.phase = "primary",
                               !.provider = settings.provider,
                               !.left = settings.max_retries + 1]
    /\ tried' = <<>>
    /\ UNCHANGED settings

\* What the history keeps of an attempt.
Record(provider, reply, result) ==
    [provider |-> provider, result |-> result,
     produced |-> Produces(provider, reply)]

\* The call after an attempt gave result with left to go: done, try again, hand
\* over to the fallback, or raise.
Continue(result, left) ==
    LET failed   == result.kind = "error"
        again    == failed /\ left > 0 /\ IsRetryable(result.what)
        handover == /\ failed /\ ~again
                    /\ ShouldUseFallback(result.what, call.provider)
    IN
    CASE result.kind = "text" ->
             [call EXCEPT !.phase = "returned", !.result = result]
      [] result.kind = "exception" ->
             [call EXCEPT !.phase = "raised", !.result = Error("unknown")]
      [] again    -> [call EXCEPT !.left = left]
      [] handover -> [call EXCEPT !.phase = "fallback", !.left = left,
                                  !.provider = settings.fallback_provider]
      [] failed /\ ~again /\ ~handover ->
             [call EXCEPT !.phase = "raised", !.left = left,
                          !.result = result]

\* Mutant of AfterPrimary: the budget is not charged for a rate limit.
RateLimitsAreFree(result) ==
    Continue(result, IF result = Error("rate_limit") THEN call.left
                     ELSE call.left - 1)

\* An attempt of _complete_with_retries uses one of those that are left.
AfterPrimary(result) == Continue(result, call.left - 1)

\* One pass of the loop of _complete_with_retries.
AttemptPrimary ==
    /\ call.phase = "primary"
    /\ \E reply \in Replies :
          LET result == ClientComplete(call.provider, reply) IN
          /\ tried' = Append(tried, Record(call.provider, reply, result))
          /\ call'  = AfterPrimary(result)
    /\ UNCHANGED settings

\* _complete_with_fallback: one try, outside the handlers of complete, so
\* that whatever it raises is what the caller gets.
AttemptFallback ==
    /\ call.phase = "fallback"
    /\ \E reply \in Replies :
          LET result == ClientComplete(call.provider, reply) IN
          /\ tried' = Append(tried, Record(call.provider, reply, result))
          /\ call'  = [call EXCEPT
                          !.phase = IF result.kind = "text" THEN "returned"
                                    ELSE "raised",
                          !.result = result,
                          !.fallback_used = result.kind = "text"]
    /\ UNCHANGED settings

LLMStep == AttemptPrimary \/ AttemptFallback

-----------------------------------------------------------------------------
LLMTypeOK ==
    /\ settings \in LLMConfigurations
    /\ call \in Calls
    /\ tried \in Seq(Attempts)

\* LLMService.complete is bounded by max_retries: one completion makes at
\* most max_retries + 1 attempts at its provider and one at the fallback, in
\* this order, and asks nobody else.
AttemptsAreBounded ==
    \E n \in 0..Len(tried) :
        /\ n <= settings.max_retries + 1
        /\ Len(tried) <= n + 1
        /\ \A i \in DOMAIN tried :
              IF i <= n THEN tried[i].provider = settings.provider
              ELSE /\ settings.fallback_enabled
                   /\ tried[i].provider = settings.fallback_provider
                   /\ tried[i].provider # settings.provider

\* _complete_with_retries and _should_use_fallback: whatever an attempt is
\* followed by, a retry or the fallback, it met a transient failure: nothing
\* is asked again after a missing key, a refused key or a refused text, and no
\* fallback hides one.  A provider may have produced a completion all the
\* same, which is then paid for and lost; that happens only when the service
\* gave up waiting, so that no completion it received is asked for again.
OnlyTransientFailuresAreFollowed ==
    \A i \in 1..(Len(tried) - 1) :
        /\ tried[i].result \in {Error("timeout"), Error("unavailable"),
                                Error("rate_limit")}
        /\ tried[i].produced => tried[i].result = Error("timeout")
=============================================================================
