------------------------ MODULE RuntimePipelineProofs ------------------------
(***************************************************************************)
(* What holds of RuntimePipeline, and of the completions of LLMService     *)
(* inside it, for every set of LLM configurations the settings allow: any  *)
(* provider and fallback, any keys and models, up to ten retries, with and *)
(* without retrieval.                                                      *)
(*                                                                         *)
(* The completion under way has an invariant of its own (CallInv): the     *)
(* attempts made and the attempts left add up, and whatever was followed   *)
(* by another attempt was a transient failure.  The pipeline's invariant   *)
(* says where it is by the number of stages it has completed (Where) and   *)
(* what the payload, the stream, the row and the log hold there.           *)
(***************************************************************************)
EXTENDS RuntimePipeline, SequenceTheorems, TLAPS

-----------------------------------------------------------------------------
(***************************************************************************)
(* A completion.                                                           *)
(***************************************************************************)

Transient == {Error("timeout"), Error("unavailable"), Error("rate_limit")}

\* An attempt that may be followed by another one.
Followable(a) ==
    /\ a.result \in Transient
    /\ a.produced => a.result = Error("timeout")

CallInv ==
    /\ call.phase = "primary" =>
          /\ call.provider = settings.provider
          /\ call.left > 0
          /\ Len(tried) + call.left = settings.max_retries + 1
    /\ call.phase = "fallback" =>
          /\ settings.fallback_enabled
          /\ call.provider = settings.fallback_provider
          /\ settings.fallback_provider # settings.provider
          /\ Len(tried) <= settings.max_retries + 1
    /\ call.phase \in {"primary", "fallback"} =>
          \A i \in DOMAIN tried :
             tried[i].provider = settings.provider /\ Followable(tried[i])
    /\ call.phase \in {"returned", "raised"} =>
          call.provider \in {settings.provider, settings.fallback_provider}
    /\ call.phase = "returned" =>
          /\ call.result.kind = "text"
          /\ call.provider = "fake" => call.result = FakeResponse

LLMInv == /\ LLMTypeOK
          /\ CallInv
          /\ AttemptsAreBounded
          /\ OnlyTransientFailuresAreFollowed

\* What the settings of a process are.
LEMMA SettingsTyped ==
    ASSUME LLMTypeOK
    PROVE  /\ settings.max_retries \in 0..10
           /\ settings.provider \in LLMProviders
           /\ settings.fallback_provider \in LLMProviders
           /\ settings.fallback_enabled \in BOOLEAN
           /\ settings.runtime_enabled \in BOOLEAN
<1>1. settings \in LLMSettings
  BY ConfigurationAssumption DEF LLMTypeOK
<1> QED
  BY <1>1 DEF LLMSettings

\* The three kinds of result.
LEMMA ResultsTyped ==
    /\ \A content \in Bodies : Text(content) \in Results
    /\ \A category \in ErrorCategories : Error(category) \in Results
    /\ Surprise \in Results
    /\ \A result \in Results :
          /\ result.kind \in {"text", "error", "exception"}
          /\ result.kind = "text" =>
                result.what \in Bodies /\ result = Text(result.what)
          /\ result.kind = "error" =>
                result.what \in ErrorCategories /\ result = Error(result.what)
BY DEF Results, Text, Error, Surprise

\* What the readers of a body make of it: a text, a refused response, or an
\* exception; never a failure that would be worth another attempt.
LEMMA BodiesTyped ==
    ASSUME NEW body \in Bodies
    PROVE  /\ OpenAICompatibleResponse(body) \in
                 {Text(content) : content \in Bodies}
                    \cup {Error("invalid_response"), Surprise}
           /\ GeminiResponse(body) \in
                 {Text(content) : content \in Bodies}
                    \cup {Error("invalid_response"), Surprise}
           /\ OllamaResponse(body) \in
                 {Text(content) : content \in Bodies}
                    \cup {Error("invalid_response"), Surprise}
<1>1. BuildChatResponse(body) \in {Text(content) : content \in Bodies}
                                     \cup {Error("invalid_response")}
  BY DEF BuildChatResponse
<1>2. "valid" \in Bodies
  BY DEF Bodies
<1> HIDE DEF Bodies
<1>3. OpenAICompatibleResponse(body) \in
         {Error("invalid_response"), Surprise, BuildChatResponse(body)}
  BY DEF OpenAICompatibleResponse
<1>4. GeminiResponse(body) \in
         {Error("invalid_response"), Surprise, BuildChatResponse(body)}
  BY DEF GeminiResponse
<1>5. OllamaResponse(body) \in
         {Error("invalid_response"), Text("valid"), BuildChatResponse(body)}
  BY DEF OllamaResponse
<1> QED
  BY <1>1, <1>2, <1>3, <1>4, <1>5

\* What an HTTP exchange gives.
LEMMA ExchangesTyped ==
    ASSUME NEW provider \in LLMProviders, NEW reply \in Replies
    PROVE  /\ HTTPCompletion(provider, reply) \in Results
           /\ reply \in Bodies =>
                 HTTPCompletion(provider, reply) \in
                    {Text(content) : content \in Bodies}
                       \cup {Error("invalid_response"), Surprise}
           /\ reply = "broken" => HTTPCompletion(provider, reply) = Surprise
           /\ reply = "late_answer" =>
                 HTTPCompletion(provider, reply) = Error("timeout")
<1>1. CASE reply \in Bodies
  <2>1. reply \notin Silence \cup Unreach \cup {"broken"} \cup Statuses4xx5xx
    BY <1>1 DEF Bodies, Silence, Unreach, Statuses4xx5xx
  <2>2. HTTPCompletion(provider, reply) \in
           {OpenAICompatibleResponse(reply), GeminiResponse(reply),
            OllamaResponse(reply)}
    BY <2>1 DEF HTTPCompletion
  <2>3. reply # "broken" /\ reply # "late_answer"
    BY <1>1 DEF Bodies
  <2>4. Error("invalid_response") \in Results
    BY ResultsTyped DEF ErrorCategories
  <2> QED
    BY <1>1, <2>2, <2>3, <2>4, BodiesTyped, ResultsTyped
<1>2. CASE reply \notin Bodies
  <2>1. \A status \in Statuses4xx5xx :
           CategoryForStatus(status) \in ErrorCategories
    BY DEF CategoryForStatus, Statuses4xx5xx, ErrorCategories
  <2>2. {"timeout", "unavailable"} \subseteq ErrorCategories
    BY DEF ErrorCategories
  <2>3. HTTPCompletion(provider, reply) =
           IF reply \in Silence THEN Error("timeout")
           ELSE IF reply \in Unreach THEN Error("unavailable")
           ELSE IF reply = "broken" THEN Surprise
           ELSE Error(CategoryForStatus(reply))
    BY <1>2 DEF HTTPCompletion, Replies, Silence, Unreach, Statuses4xx5xx
  <2>4. reply = "broken" => reply \notin Silence \cup Unreach
    BY DEF Silence, Unreach
  <2>5. reply = "late_answer" => reply \in Silence
    BY DEF Silence
  <2> QED
    BY <1>2, <2>1, <2>2, <2>3, <2>4, <2>5, ResultsTyped DEF Replies
<1> QED
  BY <1>1, <1>2

\* An attempt has one of the results.
LEMMA AttemptsTyped ==
    ASSUME NEW provider \in LLMProviders, NEW reply \in Replies
    PROVE  /\ ClientComplete(provider, reply) \in Results
           /\ Record(provider, reply, ClientComplete(provider, reply))
                 \in Attempts
<1>1. Error("configuration") \in Results /\ FakeResponse \in Results
  BY ResultsTyped DEF ErrorCategories, FakeResponse, Bodies
<1>2. ClientComplete(provider, reply) \in Results
  BY <1>1, ExchangesTyped DEF ClientComplete
<1>3. Produces(provider, reply) \in BOOLEAN
  BY DEF Produces
<1> QED
  BY <1>2, <1>3 DEF Record, Attempts

\* A transient failure hides a completion only when the service had stopped
\* waiting for it.
LEMMA OnlyTimeoutsHide ==
    ASSUME NEW provider \in LLMProviders, NEW reply \in Replies,
           NEW result, result = ClientComplete(provider, reply),
           result.kind = "error",
           IsRetryable(result.what) \/ IsFallbackEligible(result.what)
    PROVE  Followable(Record(provider, reply, result))
<1>1. result \in Transient
  <2>1. result = Error(result.what)
    BY AttemptsTyped, ResultsTyped
  <2> QED
    BY <2>1 DEF IsRetryable, IsFallbackEligible, Transient
<1>2. ASSUME Produces(provider, reply) PROVE result = Error("timeout")
  <2>1. /\ Ready(provider) /\ provider # "fake"
        /\ reply \in Bodies \cup {"late_answer", "broken"}
    BY <1>2 DEF Produces
  <2>2. result = HTTPCompletion(provider, reply)
    BY <2>1 DEF ClientComplete
  <2>3. result \notin {Text(content) : content \in Bodies}
                         \cup {Error("invalid_response"), Surprise}
    BY <1>1 DEF Transient, Text, Error, Surprise
  <2> QED
    BY <2>1, <2>2, <2>3, ExchangesTyped
<1> QED
  BY <1>1, <1>2 DEF Followable, Record

\* One more attempt is the last of the history.
LEMMA TriedGrows ==
    ASSUME LLMTypeOK, NEW a \in Attempts, tried' = Append(tried, a)
    PROVE  /\ tried' \in Seq(Attempts)
           /\ Len(tried') = Len(tried) + 1
           /\ DOMAIN tried' = 1..(Len(tried) + 1)
           /\ tried'[Len(tried) + 1] = a
           /\ \A i \in 1..Len(tried) : tried'[i] = tried[i]
           /\ DOMAIN tried = 1..Len(tried)
           /\ Len(tried) \in Nat
BY DEF LLMTypeOK

\* A completion starts with all its attempts left.
LEMMA BeginKeeps ==
    ASSUME LLMInv, BeginCompletion
    PROVE  LLMInv' /\ call'.phase = "primary"
<1>1. /\ settings.max_retries \in 0..10 /\ settings.provider \in LLMProviders
      /\ settings' = settings /\ tried' = <<>>
  BY SettingsTyped DEF LLMInv, BeginCompletion
<1> DEFINE l == settings.max_retries + 1
<1>2. l \in 1..11
  BY <1>1
<1> HIDE DEF l
<1>3. call' = [phase |-> "primary", provider |-> settings.provider, left |-> l,
               result |-> Text("valid"), fallback_used |-> FALSE]
  BY DEF BeginCompletion, NoCall, l
<1>4. Text("valid") \in Results
  BY ResultsTyped DEF Bodies
<1>5. call' \in Calls
  BY <1>1, <1>2, <1>3, <1>4 DEF Calls, Phases
<1>6. <<>> \in Seq(Attempts) /\ Len(<<>>) = 0 /\ DOMAIN <<>> = 1..0
  OBVIOUS
<1>7. LLMTypeOK'
  BY <1>1, <1>5, <1>6 DEF LLMInv, LLMTypeOK
<1>8. CallInv'
  BY <1>1, <1>2, <1>3, <1>6 DEF CallInv, l
<1>9. AttemptsAreBounded'
  <2>1. 0 \in 0..Len(tried') /\ 0 <= settings'.max_retries + 1
    BY <1>1, <1>6
  <2>2. \A i \in DOMAIN tried' : FALSE
    BY <1>1, <1>6
  <2> QED
    BY <1>1, <1>6, <2>1, <2>2 DEF AttemptsAreBounded
<1>10. OnlyTransientFailuresAreFollowed'
  BY <1>1, <1>6 DEF OnlyTransientFailuresAreFollowed
<1> QED
  BY <1>3, <1>7, <1>8, <1>9, <1>10 DEF LLMInv

\* Where a call goes after an attempt at its provider.
LEMMA Continues ==
    ASSUME call \in Calls, NEW result \in Results, NEW left \in 0..10
    PROVE  LET again == /\ result.kind = "error" /\ left > 0
                        /\ IsRetryable(result.what)
               next  == Continue(result, left)
           IN  /\ next \in [phase : Phases,
                            provider : {call.provider,
                                        settings.fallback_provider},
                            left : 0..11, result : Results,
                            fallback_used : BOOLEAN]
               /\ result.kind = "text" =>
                     /\ next.phase = "returned" /\ next.result = result
                     /\ next.provider = call.provider
               /\ result.kind # "text" /\ call.phase = "primary" =>
                     \/ /\ again /\ next.phase = "primary" /\ next.left = left
                        /\ next.provider = call.provider
                     \/ /\ result.kind = "error"
                        /\ ShouldUseFallback(result.what, call.provider)
                        /\ next.phase = "fallback"
                        /\ next.provider = settings.fallback_provider
                     \/ /\ next.phase = "raised"
                        /\ next.provider = call.provider
<1>1. /\ call.phase \in Phases /\ call.provider \in LLMProviders
      /\ call.left \in 0..11 /\ call.result \in Results
      /\ call.fallback_used \in BOOLEAN
      /\ call = [phase |-> call.phase, provider |-> call.provider,
                 left |-> call.left, result |-> call.result,
                 fallback_used |-> call.fallback_used]
  BY DEF Calls
<1>2. left \in 0..11 /\ Error("unknown") \in Results
  BY ResultsTyped DEF ErrorCategories
<1>3. {"primary", "fallback", "returned", "raised"} \subseteq Phases
  BY DEF Phases
<1> DEFINE again    == /\ result.kind = "error" /\ left > 0
                       /\ IsRetryable(result.what)
           handover == /\ result.kind = "error" /\ ~again
                       /\ ShouldUseFallback(result.what, call.provider)
           next     == Continue(result, left)
<1>4. result.kind \in {"text", "error", "exception"}
  BY ResultsTyped
<1>5. CASE result.kind = "text"
  <2>1. next = [call EXCEPT !.phase = "returned", !.result = result]
    BY <1>5 DEF Continue
  <2> HIDE DEF next
  <2> QED
    BY <1>1, <1>3, <1>5, <2>1 DEF next
<1>6. CASE result.kind = "exception"
  <2>1. next = [call EXCEPT !.phase = "raised", !.result = Error("unknown")]
    BY <1>6 DEF Continue
  <2> QED
    BY <1>1, <1>2, <1>3, <1>6, <2>1
<1>7. CASE result.kind = "error" /\ again
  <2>1. next = [call EXCEPT !.left = left]
    BY <1>7 DEF Continue
  <2> QED
    BY <1>1, <1>2, <1>7, <2>1
<1>8. CASE result.kind = "error" /\ handover
  <2>1. next = [call EXCEPT !.phase = "fallback", !.left = left,
                            !.provider = settings.fallback_provider]
    BY <1>8 DEF Continue
  <2> QED
    BY <1>1, <1>2, <1>3, <1>8, <2>1
<1>9. CASE result.kind = "error" /\ ~again /\ ~handover
  <2>1. next = [call EXCEPT !.phase = "raised", !.left = left,
                            !.result = result]
    BY <1>9 DEF Continue
  <2> QED
    BY <1>1, <1>2, <1>3, <1>9, <2>1
<1> QED
  BY <1>4, <1>5, <1>6, <1>7, <1>8, <1>9

LEMMA PrimaryKeeps ==
    ASSUME LLMInv, AttemptPrimary
    PROVE  LLMInv' /\ call'.phase # "idle"
<1>1. /\ LLMTypeOK /\ CallInv /\ call.phase = "primary"
      /\ call \in Calls /\ call.provider \in LLMProviders
      /\ call.left \in 1..11 /\ settings' = settings
      /\ settings.max_retries \in 0..10
      /\ settings.fallback_provider \in LLMProviders
  BY SettingsTyped DEF LLMInv, LLMTypeOK, CallInv, Calls, AttemptPrimary
<1>2. PICK reply \in Replies :
         LET result == ClientComplete(call.provider, reply) IN
         /\ tried' = Append(tried, Record(call.provider, reply, result))
         /\ call'  = AfterPrimary(result)
  BY DEF AttemptPrimary
<1> DEFINE result == ClientComplete(call.provider, reply)
           a      == Record(call.provider, reply, result)
           left   == call.left - 1
<1>3. result \in Results /\ a \in Attempts /\ a.provider = call.provider
  BY <1>1, AttemptsTyped DEF Record
<1>4. left \in 0..10 /\ call' = Continue(result, left)
  BY <1>1, <1>2 DEF AfterPrimary
<1>5. ASSUME result.kind = "error",
             IsRetryable(result.what) \/ IsFallbackEligible(result.what)
      PROVE  Followable(a)
  BY <1>1, <1>5, OnlyTimeoutsHide
<1>6. result.kind = "text" /\ call.provider = "fake" => result = FakeResponse
  BY DEF ClientComplete, Error
<1>7. tried' = Append(tried, a)
  BY <1>2
<1> HIDE DEF a, left, result
<1>8. /\ tried' \in Seq(Attempts)
      /\ Len(tried') = Len(tried) + 1
      /\ DOMAIN tried' = 1..(Len(tried) + 1)
      /\ tried'[Len(tried) + 1] = a
      /\ \A i \in 1..Len(tried) : tried'[i] = tried[i]
      /\ DOMAIN tried = 1..Len(tried)
      /\ Len(tried) \in Nat
  BY <1>1, <1>3, <1>7, TriedGrows
<1> DEFINE again == /\ result.kind = "error" /\ left > 0
                    /\ IsRetryable(result.what)
<1>9. /\ call' \in [phase : Phases,
                    provider : {call.provider, settings.fallback_provider},
                    left : 0..11, result : Results, fallback_used : BOOLEAN]
      /\ result.kind = "text" =>
            /\ call'.phase = "returned" /\ call'.result = result
            /\ call'.provider = call.provider
      /\ result.kind # "text" =>
            \/ /\ again /\ call'.phase = "primary" /\ call'.left = left
               /\ call'.provider = call.provider
            \/ /\ result.kind = "error"
               /\ ShouldUseFallback(result.what, call.provider)
               /\ call'.phase = "fallback"
               /\ call'.provider = settings.fallback_provider
            \/ /\ call'.phase = "raised"
               /\ call'.provider = call.provider
  BY <1>1, <1>3, <1>4, Continues
<1>10. LLMTypeOK'
  <2>1. call' \in Calls
    BY <1>1, <1>9 DEF Calls
  <2> QED
    BY <1>1, <1>8, <2>1 DEF LLMTypeOK
<1>11. call.provider = settings.provider
       /\ Len(tried) + call.left = settings.max_retries + 1
       /\ \A i \in 1..Len(tried) :
             tried[i].provider = settings.provider /\ Followable(tried[i])
  BY <1>1, <1>8 DEF CallInv
<1>12. /\ Len(tried') + left = settings.max_retries + 1
       /\ Len(tried') <= settings.max_retries + 1
       /\ \A i \in DOMAIN tried' : tried'[i].provider = settings.provider
  <2>1. /\ Len(tried') + left = settings.max_retries + 1
        /\ Len(tried') <= settings.max_retries + 1
    BY <1>1, <1>8, <1>11, SMTT(20) DEF left
  <2>2. ASSUME NEW i \in DOMAIN tried'
        PROVE  tried'[i].provider = settings.provider
    <3>1. i \in 1..Len(tried) \/ i = Len(tried) + 1
      BY <1>8
    <3> QED
      BY <1>3, <1>8, <1>11, <3>1
  <2> QED
    BY <2>1, <2>2
<1>13. \A i \in 1..Len(tried) : Followable(tried'[i])
  BY <1>8, <1>11
<1>14. call'.phase \in {"primary", "fallback"} => Followable(a)
  BY <1>5, <1>9 DEF ShouldUseFallback
<1>15. CallInv'
  <2>1. CASE result.kind = "text"
    <3>1. result.kind # "error"
      BY <2>1
    <3> QED
      BY <1>1, <1>6, <1>9, <1>11, <2>1 DEF CallInv
  <2>2. CASE again /\ call'.phase = "primary" /\ call'.left = left
             /\ call'.provider = call.provider
    BY <1>1, <1>8, <1>11, <1>12, <1>13, <1>14, <2>2 DEF CallInv
  <2>3. CASE /\ ShouldUseFallback(result.what, call.provider)
             /\ call'.phase = "fallback"
             /\ call'.provider = settings.fallback_provider
    BY <1>1, <1>8, <1>11, <1>12, <1>13, <1>14, <2>3
       DEF CallInv, ShouldUseFallback
  <2>4. CASE call'.phase = "raised" /\ call'.provider = call.provider
    BY <1>1, <1>11, <2>4 DEF CallInv
  <2> QED
    BY <1>9, <2>1, <2>2, <2>3, <2>4
<1>16. AttemptsAreBounded'
  <2>1. Len(tried') \in 0..Len(tried') /\ Len(tried') <= Len(tried') + 1
    BY <1>8
  <2>2. \A i \in DOMAIN tried' : i <= Len(tried')
    BY <1>8
  <2> QED
    BY <1>1, <1>12, <2>1, <2>2 DEF AttemptsAreBounded
<1>17. OnlyTransientFailuresAreFollowed'
  BY <1>8, <1>13 DEF OnlyTransientFailuresAreFollowed, Followable, Transient
<1> QED
  BY <1>9, <1>10, <1>15, <1>16, <1>17 DEF LLMInv

LEMMA FallbackKeeps ==
    ASSUME LLMInv, AttemptFallback
    PROVE  LLMInv' /\ call'.phase # "idle"
<1>1. /\ LLMTypeOK /\ CallInv /\ call.phase = "fallback"
      /\ call \in Calls /\ call.provider \in LLMProviders
      /\ settings' = settings /\ settings.max_retries \in 0..10
  BY SettingsTyped DEF LLMInv, LLMTypeOK, CallInv, Calls, AttemptFallback
<1>2. PICK reply \in Replies :
         LET result == ClientComplete(call.provider, reply) IN
         /\ tried' = Append(tried, Record(call.provider, reply, result))
         /\ call'  = [call EXCEPT
                         !.phase = IF result.kind = "text" THEN "returned"
                                   ELSE "raised",
                         !.result = result,
                         !.fallback_used = result.kind = "text"]
  BY DEF AttemptFallback
<1> DEFINE result == ClientComplete(call.provider, reply)
           a      == Record(call.provider, reply, result)
<1>3. result \in Results /\ a \in Attempts /\ a.provider = call.provider
  BY <1>1, AttemptsTyped DEF Record
<1>4. tried' = Append(tried, a)
  BY <1>2
<1>5. result.kind = "text" /\ call.provider = "fake" => result = FakeResponse
  BY DEF ClientComplete, Error
<1> DEFINE place == IF result.kind = "text" THEN "returned" ELSE "raised"
           used  == result.kind = "text"
<1>6. call' = [call EXCEPT !.phase = place, !.result = result,
                           !.fallback_used = used]
  BY <1>2
<1>7. place \in Phases /\ used \in BOOLEAN
  BY DEF Phases
<1>8. place \in {"returned", "raised"}
      /\ (place = "returned" => result.kind = "text")
  OBVIOUS
<1> HIDE DEF a, result, place, used
<1>9. /\ call' \in Calls
      /\ call'.phase = place /\ call'.result = result
      /\ call'.provider = call.provider
  BY <1>1, <1>3, <1>6, <1>7 DEF Calls
<1>10. /\ tried' \in Seq(Attempts)
       /\ Len(tried') = Len(tried) + 1
       /\ DOMAIN tried' = 1..(Len(tried) + 1)
       /\ tried'[Len(tried) + 1] = a
       /\ \A i \in 1..Len(tried) : tried'[i] = tried[i]
       /\ DOMAIN tried = 1..Len(tried)
       /\ Len(tried) \in Nat
  BY <1>1, <1>3, <1>4, TriedGrows
<1>11. LLMTypeOK'
  BY <1>1, <1>9, <1>10 DEF LLMTypeOK
<1>12. /\ settings.fallback_enabled
       /\ call.provider = settings.fallback_provider
       /\ settings.fallback_provider # settings.provider
       /\ Len(tried) <= settings.max_retries + 1
       /\ \A i \in 1..Len(tried) :
             tried[i].provider = settings.provider /\ Followable(tried[i])
  BY <1>1, <1>10 DEF CallInv
<1>13. CallInv'
  BY <1>1, <1>5, <1>8, <1>9, <1>12 DEF CallInv
<1>14. AttemptsAreBounded'
  <2>1. /\ Len(tried) \in 0..Len(tried')
        /\ Len(tried) <= settings'.max_retries + 1
        /\ Len(tried') <= Len(tried) + 1
    BY <1>1, <1>10, <1>12
  <2>2. \A i \in DOMAIN tried' :
           IF i <= Len(tried) THEN tried'[i].provider = settings'.provider
           ELSE /\ settings'.fallback_enabled
                /\ tried'[i].provider = settings'.fallback_provider
                /\ tried'[i].provider # settings'.provider
    BY <1>1, <1>3, <1>10, <1>12
  <2> QED
    BY <2>1, <2>2 DEF AttemptsAreBounded
<1>15. OnlyTransientFailuresAreFollowed'
  BY <1>10, <1>12 DEF OnlyTransientFailuresAreFollowed, Followable, Transient
<1> QED
  BY <1>8, <1>9, <1>11, <1>13, <1>14, <1>15 DEF LLMInv

LEMMA LLMStepKeeps ==
    ASSUME LLMInv, LLMStep
    PROVE  LLMInv' /\ call'.phase # "idle"
BY PrimaryKeeps, FallbackKeeps DEF LLMStep

LEMMA LLMStutterKeeps ==
    ASSUME LLMInv, UNCHANGED llmVars
    PROVE  LLMInv'
BY DEF LLMInv, llmVars, LLMTypeOK, CallInv, AttemptsAreBounded,
       OnlyTransientFailuresAreFollowed

LEMMA LLMInitInv == LLMInit => LLMInv
<1> SUFFICES ASSUME LLMInit PROVE LLMInv
  OBVIOUS
<1>1. settings \in LLMSettings /\ tried = <<>> /\ call = NoCall
  BY ConfigurationAssumption DEF LLMInit
<1>2. Text("valid") \in Results
  BY ResultsTyped DEF Bodies
<1>3. NoCall \in Calls /\ NoCall.phase = "idle"
  BY <1>2 DEF NoCall, Calls, Phases, LLMProviders
<1>4. LLMTypeOK
  BY <1>1, <1>3 DEF LLMInit, LLMTypeOK
<1>5. CallInv
  BY <1>1, <1>3 DEF CallInv
<1>6. settings.max_retries \in 0..10
  BY <1>1 DEF LLMSettings
<1>7. Len(tried) = 0 /\ DOMAIN tried = 1..0
  BY <1>1
<1>8. AttemptsAreBounded
  <2>1. 0 \in 0..Len(tried) /\ 0 <= settings.max_retries + 1
    BY <1>6, <1>7
  <2> QED
    BY <1>7, <2>1 DEF AttemptsAreBounded
<1>9. OnlyTransientFailuresAreFollowed
  BY <1>7 DEF OnlyTransientFailuresAreFollowed
<1> QED
  BY <1>4, <1>5, <1>8, <1>9 DEF LLMInv

-----------------------------------------------------------------------------
(***************************************************************************)
(* The stages and their order.                                             *)
(***************************************************************************)

First(k) == SubSeq(AllStages, 1, k)
Rest(k)  == SubSeq(PreApprovalStages, k + 1, 6)

\* Two tuples, put together.
LEMMA Tuples ==
    ASSUME NEW a, NEW b, NEW c, NEW d, NEW e, NEW f, NEW g
    PROVE  <<a, b, c, d, e, f>> \o <<g>> = <<a, b, c, d, e, f, g>>
<1> DEFINE S == {a, b, c, d, e, f, g}
<1> DEFINE x == <<a, b, c, d, e, f>>
<1> DEFINE z == <<a, b, c, d, e, f, g>>
<1>1. x \in Seq(S) /\ <<g>> \in Seq(S) /\ z \in Seq(S)
  OBVIOUS
<1>2. Len(x) = 6 /\ Len(<<g>>) = 1 /\ Len(z) = 7
  OBVIOUS
<1>3. /\ x \o <<g>> \in Seq(S) /\ Len(x \o <<g>>) = 7
      /\ \A i \in 1..7 : (x \o <<g>>)[i] = IF i <= 6 THEN x[i] ELSE <<g>>[i - 6]
  BY <1>1, <1>2, ConcatProperties
<1>4. \A i \in 1..7 : (x \o <<g>>)[i] = z[i]
  <2>1. \A i \in 1..6 : x[i] = z[i]
    <3>1. /\ x[1] = z[1] /\ x[2] = z[2] /\ x[3] = z[3]
          /\ x[4] = z[4] /\ x[5] = z[5] /\ x[6] = z[6]
      OBVIOUS
    <3>2. 1..6 = {1, 2, 3, 4, 5, 6}
      OBVIOUS
    <3> HIDE DEF x, z
    <3> QED
      BY <3>1, <3>2
  <2>2. <<g>>[1] = z[7]
    OBVIOUS
  <2>3. \A i \in 1..7 : (i \in 1..6 /\ i <= 6)
                            \/ (i = 7 /\ ~(i <= 6) /\ i - 6 = 1)
    OBVIOUS
  <2> HIDE DEF x, z
  <2> QED
    BY <1>3, <2>1, <2>2, <2>3
<1> HIDE DEF x, z, S
<1>5. x \o <<g>> = z
  BY <1>1, <1>2, <1>3, <1>4, SeqEqual
<1> QED
  BY <1>5 DEF x, z

LEMMA StagesListed ==
    /\ AllStages = <<"planner", "retrieval", "quotation", "compliance",
                     "validation", "approval", "email_preparation">>
    /\ Stages = {"planner", "retrieval", "quotation", "compliance",
                 "validation", "approval", "email_preparation"}
    /\ AllStages \in Seq(Stages) /\ Len(AllStages) = 7
    /\ PreApprovalStages \in Seq(Stages) /\ Len(PreApprovalStages) = 6
    /\ \A i \in 1..6 : PreApprovalStages[i] = AllStages[i]
    /\ \A i \in 1..7 : AllStages[i] \in Stages
<1>1. AllStages = <<"planner", "retrieval", "quotation", "compliance",
                    "validation", "approval", "email_preparation">>
  BY Tuples DEF AllStages, PreApprovalStages, PostApprovalStages
<1> DEFINE T == <<"planner", "retrieval", "quotation", "compliance",
                  "validation", "approval", "email_preparation">>
<1>2. DOMAIN T = 1..7
  OBVIOUS
<1>3. Range(T) = {"planner", "retrieval", "quotation", "compliance",
                  "validation", "approval", "email_preparation"}
  <2>1. 1..7 = {1, 2, 3, 4, 5, 6, 7}
    OBVIOUS
  <2> QED
    BY <1>2, <2>1 DEF Range
<1>4. Stages = {"planner", "retrieval", "quotation", "compliance",
                "validation", "approval", "email_preparation"}
  BY <1>1, <1>3 DEF Stages
<1>5. T \in Seq(Stages) /\ Len(T) = 7
  BY <1>4
<1>6. PreApprovalStages \in Seq(Stages) /\ Len(PreApprovalStages) = 6
  BY <1>4 DEF PreApprovalStages
<1>7. \A i \in 1..6 : PreApprovalStages[i] = T[i]
  BY DEF PreApprovalStages
<1> QED
  BY <1>1, <1>2, <1>4, <1>5, <1>6, <1>7

\* No stage is listed twice.
LEMMA StagesDiffer ==
    \A i, j \in 1..7 : AllStages[i] = AllStages[j] => i = j
<1>1. AllStages = <<"planner", "retrieval", "quotation", "compliance",
                    "validation", "approval", "email_preparation">>
  BY StagesListed
<1>2. /\ AllStages[1] = "planner" /\ AllStages[2] = "retrieval"
      /\ AllStages[3] = "quotation" /\ AllStages[4] = "compliance"
      /\ AllStages[5] = "validation" /\ AllStages[6] = "approval"
      /\ AllStages[7] = "email_preparation"
  BY <1>1
<1>3. 1..7 = {1, 2, 3, 4, 5, 6, 7}
  OBVIOUS
<1> QED
  BY <1>2, <1>3

\* The stages up to the k-th.
LEMMA FirstStages ==
    ASSUME NEW k \in 0..7
    PROVE  /\ First(k) \in Seq(Stages) /\ Len(First(k)) = k
           /\ Range(First(k)) = {AllStages[i] : i \in 1..k}
           /\ IsPrefix(First(k), AllStages)
           /\ k < 7 =>
                 /\ AllStages[k + 1] \in Stages \ Range(First(k))
                 /\ Append(First(k), AllStages[k + 1]) = First(k + 1)
<1>1. /\ First(k) \in Seq(Stages)
      /\ Len(First(k)) = k
      /\ \A i \in 1..k : First(k)[i] = AllStages[i]
  <2>1. \A i \in 1..k : AllStages[i] \in Stages
    BY StagesListed
  <2> QED
    BY <2>1, SubSeqProperties DEF First
<1>2. Range(First(k)) = {AllStages[i] : i \in 1..k}
  <2>1. Range(First(k)) = {First(k)[i] : i \in 1..Len(First(k))}
    BY <1>1, RangeEquality
  <2> QED
    BY <1>1, <2>1
<1>3. IsPrefix(First(k), AllStages)
  <2>1. SubSeq(First(k), 1, Len(First(k))) = First(k)
    BY <1>1, SubSeqFull
  <2> QED
    BY <1>1, <2>1, StagesListed DEF IsPrefix, First
<1>4. ASSUME k < 7
      PROVE  /\ AllStages[k + 1] \in Stages \ Range(First(k))
             /\ Append(First(k), AllStages[k + 1]) = First(k + 1)
  <2>1. k + 1 \in 1..7 /\ k + 1 \notin 1..k
    BY <1>4
  <2>2. AllStages[k + 1] \in Stages \ Range(First(k))
    BY <1>2, <2>1, StagesListed, StagesDiffer
  <2>3. First(k + 1) = First(k) \o <<AllStages[k + 1]>>
    <3>1. /\ 1 \in 1..Len(AllStages) /\ k + 1 \in 1..Len(AllStages)
          /\ k + 1 - 1 = k
      BY <1>4, StagesListed
    <3>2. AllStages \in Seq(Stages)
      BY StagesListed
    <3> QED
      BY <3>1, <3>2, SubSeqRecursiveSecond DEF First
  <2>4. Append(First(k), AllStages[k + 1]) = First(k) \o <<AllStages[k + 1]>>
    BY <1>1, <2>2, AppendIsConcat
  <2> QED
    BY <2>2, <2>3, <2>4
<1> QED
  BY <1>1, <1>2, <1>3, <1>4

\* The stages a run still has to enter.
LEMMA RestStages ==
    /\ \A k \in 0..7 : Rest(k) \in Seq(Stages)
    /\ \A k \in 0..5 : /\ Rest(k) # <<>>
                       /\ Head(Rest(k)) = AllStages[k + 1]
                       /\ Tail(Rest(k)) = Rest(k + 1)
    /\ Rest(6) = <<>> /\ Rest(7) = <<>>
    /\ Rest(0) = PreApprovalStages
<1>1. PreApprovalStages \in Seq(Stages) /\ Len(PreApprovalStages) = 6
      /\ \A i \in 1..6 : PreApprovalStages[i] = AllStages[i]
  BY StagesListed
<1>2. Rest(6) = <<>> /\ Rest(7) = <<>>
  BY SubSeqEmpty DEF Rest
<1>3. Rest(0) = PreApprovalStages
  BY <1>1, SubSeqFull DEF Rest
<1>4. ASSUME NEW k \in 0..7 PROVE Rest(k) \in Seq(Stages)
  <2>1. \A i \in (k + 1)..6 : PreApprovalStages[i] \in Stages
    <3>1. \A i \in 1..6 : AllStages[i] \in Stages
      BY StagesListed
    <3> QED
      BY <1>1, <3>1
  <2> QED
    BY <2>1, SubSeqProperties DEF Rest
<1>5. ASSUME NEW k \in 0..5
      PROVE  /\ Rest(k) # <<>>
             /\ Head(Rest(k)) = AllStages[k + 1]
             /\ Tail(Rest(k)) = Rest(k + 1)
  <2>1. /\ k + 1 \in 1..Len(PreApprovalStages)
        /\ 6 \in (k + 1)..Len(PreApprovalStages)
    BY <1>1
  <2>2. /\ Head(Rest(k)) = PreApprovalStages[k + 1]
        /\ Tail(Rest(k)) = Rest(k + 1)
    BY <1>1, <2>1, HeadTailOfSubSeq DEF Rest
  <2>3. Len(Rest(k)) # 0
    <3>1. \A i \in 1..6 : AllStages[i] \in Stages
      BY StagesListed
    <3>2. \A i \in (k + 1)..6 : PreApprovalStages[i] \in Stages
      BY <1>1, <3>1
    <3> QED
      BY <3>2, SubSeqProperties DEF Rest
  <2> QED
    BY <1>1, <2>1, <2>2, <2>3
<1> QED
  BY <1>2, <1>3, <1>4, <1>5

\* A stage is grounded from the compliance check on.
LEMMA GroundedLate ==
    ASSUME NEW i \in 1..7, NEW j \in 1..6, i <= j, Grounded(AllStages[i])
    PROVE  Grounded(AllStages[j])
<1>1. /\ AllStages[1] = "planner" /\ AllStages[2] = "retrieval"
      /\ AllStages[3] = "quotation" /\ AllStages[4] = "compliance"
      /\ AllStages[5] = "validation" /\ AllStages[6] = "approval"
      /\ AllStages[7] = "email_preparation"
  <2>1. AllStages = <<"planner", "retrieval", "quotation", "compliance",
                      "validation", "approval", "email_preparation">>
    BY StagesListed
  <2> QED
    BY <2>1
<1>2. 1..7 = {1, 2, 3, 4, 5, 6, 7}
  OBVIOUS
<1>3. i \in {4, 5, 6, 7}
  BY <1>1, <1>2 DEF Grounded
<1>4. j \in {4, 5, 6}
  BY <1>3
<1> QED
  BY <1>1, <1>4 DEF Grounded

-----------------------------------------------------------------------------
(***************************************************************************)
(* What the operators of the pipeline make of a payload.                   *)
(***************************************************************************)

\* Two payloads that say the same about the stages.
Agree(p, q) ==
    /\ p.completed = q.completed
    /\ p.failed = q.failed /\ p.error = q.error
    /\ p.rag = q.rag /\ p.outputs = q.outputs

Rows == [doc : Payloads, sections : [Stages -> Outputs]]

\* What an attached finding is worth as evidence.
EvidenceOf(finding) == IF finding \in Findings THEN finding ELSE "none"

LEMMA StatusesTyped ==
    \A s \in Stages : StageStatus[s] \in Lifecycle!Statuses
<1> SUFFICES ASSUME NEW s \in Stages
             PROVE  StageStatus[s] \in Lifecycle!Statuses
  OBVIOUS
<1>1. StageStatus[s] = CASE s = "planner"    -> "PLANNING"
                         [] s = "retrieval"  -> "RETRIEVING"
                         [] s = "quotation"  -> "CALCULATING"
                         [] s = "compliance" -> "CHECKING_COMPLIANCE"
                         [] s = "validation" -> "VALIDATING"
                         [] s = "approval"   -> "WAITING_APPROVAL"
                         [] OTHER            -> "GENERATING_EMAIL"
  BY DEF StageStatus
<1>2. StageStatus[s] \in {"PLANNING", "RETRIEVING", "CALCULATING",
                          "CHECKING_COMPLIANCE", "VALIDATING",
                          "WAITING_APPROVAL", "GENERATING_EMAIL"}
  BY <1>1
<1> QED
  BY <1>2 DEF Lifecycle!Statuses

LEMMA NothingTyped ==
    /\ NoOutput \in Outputs /\ NewPayload \in Payloads /\ NewRow \in Rows
    /\ NoOutput.kind = "none"
    /\ NewPayload.status = "CREATED" /\ NewPayload.completed = <<>>
    /\ NewPayload.failed = "none" /\ NewPayload.error = "none"
    /\ \A s \in Stages : /\ NewPayload.rag[s] = "none"
                         /\ NewPayload.outputs[s] = NoOutput
                         /\ NewRow.sections[s] = NoOutput
    /\ NewRow.doc = NewPayload
<1>1. NoOutput \in Outputs /\ NoOutput.kind = "none"
  BY DEF NoOutput, Output, Outputs
<1>2. NewPayload \in Payloads
  BY <1>1 DEF NewPayload, Payloads, Lifecycle!Statuses
<1> HIDE DEF NoOutput
<1>3. NewRow \in Rows
  BY <1>1, <1>2 DEF NewRow, Rows
<1> QED
  BY <1>1, <1>2, <1>3 DEF NewPayload, NewRow

\* The payload CompleteStage leaves.
Completed(p, s, o) ==
    [WithGrounding(WithOutput(p, s, o), s) EXCEPT !.status = StageStatus[s]]

\* q is p with the stage s completed by the output o.
Completes(q, p, s, o) ==
    /\ q \in Payloads
    /\ q.completed = Append(p.completed, s)
    /\ q.failed = p.failed /\ q.error = p.error
    /\ q.rag = p.rag
    /\ \A t \in Stages \ {s} : q.outputs[t] = p.outputs[t]
    /\ q.outputs[s] \in Outputs
    /\ q.outputs[s].kind = o.kind /\ q.outputs[s].by = o.by
    /\ q.outputs[s].evidence = EvidenceOf(p.rag[s])

\* _complete_stage, the grounding of its output and the status of the loop's
\* tail: the stage is noted, its output is what the stage made and carries
\* its evidence, and nothing else is touched.
LEMMA StageCompleted ==
    ASSUME NEW p \in Payloads, NEW s \in Stages,
           s \notin Range(p.completed),
           NEW o \in Outputs, o.evidence = "none", o.decided = FALSE,
           Grounded(s) <=> p.rag[s] # "none",
           NEW q, q = Completed(p, s, o)
    PROVE  Completes(q, p, s, o)
<1> DEFINE w == WithOutput(p, s, o)
<1> DEFINE g == WithGrounding(w, s)
<1>0. q = [g EXCEPT !.status = StageStatus[s]]
  BY DEF Completed
<1>1. /\ p.completed \in Seq(Stages) /\ p.rag \in [Stages ->
            Findings \cup {"none", "failed"}]
      /\ p.outputs \in [Stages -> Outputs]
  BY DEF Payloads
<1>2. Append(p.completed, s) \in Seq(Stages)
  BY <1>1, AppendProperties
<1>3. /\ w \in Payloads
      /\ w.completed = Append(p.completed, s)
      /\ w.failed = p.failed /\ w.error = p.error
      /\ w.rag = p.rag
      /\ w.outputs = [p.outputs EXCEPT ![s] = o]
  BY <1>1, <1>2 DEF WithOutput, Payloads
<1> HIDE DEF w
<1>4. w.outputs[s] = o /\ \A t \in Stages \ {s} : w.outputs[t] = p.outputs[t]
  BY <1>1, <1>3
<1>5. CASE p.rag[s] \in Findings
  <2>1. Grounded(s)
    BY <1>5 DEF Findings
  <2>2. g = [w EXCEPT !.rag[s] = p.rag[s],
                      !.outputs[s].evidence = p.rag[s]]
    BY <1>3, <1>5, <2>1 DEF WithGrounding, ApplyGrounding
  <2>3. [o EXCEPT !.evidence = p.rag[s]] \in Outputs
    BY <1>5 DEF Outputs
  <2>4. /\ g.completed = w.completed /\ g.failed = w.failed
        /\ g.error = w.error
        /\ g.rag = [w.rag EXCEPT ![s] = p.rag[s]]
        /\ g.outputs = [w.outputs EXCEPT ![s].evidence = p.rag[s]]
    BY <1>3, <2>2 DEF Payloads
  <2>5. g.rag = p.rag
    BY <1>1, <1>3, <2>4
  <2>6. /\ g.outputs[s] = [o EXCEPT !.evidence = p.rag[s]]
        /\ \A t \in Stages \ {s} : g.outputs[t] = p.outputs[t]
        /\ g.outputs \in [Stages -> Outputs]
    BY <1>1, <1>3, <1>4, <2>3, <2>4
  <2>7. g \in Payloads
    BY <1>3, <2>2, <2>3, <2>4, <2>5, <2>6 DEF Payloads
  <2> HIDE DEF g
  <2>8. /\ q \in Payloads /\ q.completed = g.completed
        /\ q.failed = g.failed /\ q.error = g.error
        /\ q.rag = g.rag /\ q.outputs = g.outputs
    BY <1>0, <2>7, StatusesTyped DEF Payloads
  <2>9. /\ g.outputs[s].kind = o.kind /\ g.outputs[s].by = o.by
        /\ g.outputs[s].evidence = p.rag[s]
    BY <2>6 DEF Outputs
  <2> QED
    BY <1>3, <1>5, <2>3, <2>4, <2>5, <2>6, <2>8, <2>9
       DEF Completes, EvidenceOf, g, w
<1>6. CASE p.rag[s] \notin Findings
  <2>1. g = w
    BY <1>3, <1>6 DEF WithGrounding
  <2> HIDE DEF g
  <2>2. /\ q \in Payloads /\ q.completed = w.completed
        /\ q.failed = w.failed /\ q.error = w.error
        /\ q.rag = w.rag /\ q.outputs = w.outputs
    BY <1>0, <1>3, <2>1, StatusesTyped DEF Payloads
  <2> QED
    BY <1>3, <1>4, <1>6, <2>2 DEF Completes, EvidenceOf, g, w
<1> QED
  BY <1>5, <1>6

-----------------------------------------------------------------------------
(***************************************************************************)
(* The log.                                                                *)
(***************************************************************************)

Events == EventTypes \X (Stages \cup {"none"})

\* The stages of which a log has an event of the type.
StagesIn(events, type) ==
    {events[i][2] : i \in {j \in DOMAIN events : events[j][1] = type}}

LEMMA StagesOfTwo ==
    ASSUME NEW type, NEW l \in Seq(Events), NEW m \in Seq(Events)
    PROVE  /\ l \o m \in Seq(Events)
           /\ StagesIn(l \o m, type) = StagesIn(l, type) \cup StagesIn(m, type)
<1>1. /\ l \o m \in Seq(Events)
      /\ Len(l \o m) = Len(l) + Len(m)
      /\ \A i \in 1..(Len(l) + Len(m)) :
            (l \o m)[i] = IF i <= Len(l) THEN l[i] ELSE m[i - Len(l)]
  BY ConcatProperties
<1>2. /\ DOMAIN l = 1..Len(l) /\ DOMAIN m = 1..Len(m)
      /\ DOMAIN (l \o m) = 1..(Len(l) + Len(m))
      /\ Len(l) \in Nat /\ Len(m) \in Nat
  BY <1>1
<1> DEFINE both == l \o m
<1> HIDE DEF both
<1>3. ASSUME NEW x \in StagesIn(both, type)
      PROVE  x \in StagesIn(l, type) \cup StagesIn(m, type)
  <2>1. PICK i \in DOMAIN both : both[i][1] = type /\ both[i][2] = x
    BY <1>3 DEF StagesIn
  <2>2. i \in 1..(Len(l) + Len(m))
    BY <1>2, <2>1 DEF both
  <2>3. CASE i <= Len(l)
    <3>1. i \in DOMAIN l /\ l[i] = both[i]
      BY <1>1, <1>2, <2>2, <2>3 DEF both
    <3> QED
      BY <2>1, <3>1 DEF StagesIn
  <2>4. CASE ~(i <= Len(l))
    <3>1. i - Len(l) \in DOMAIN m /\ m[i - Len(l)] = both[i]
      BY <1>1, <1>2, <2>2, <2>4 DEF both
    <3> QED
      BY <2>1, <3>1 DEF StagesIn
  <2> QED
    BY <2>3, <2>4
<1>4. ASSUME NEW x \in StagesIn(l, type) PROVE x \in StagesIn(both, type)
  <2>1. PICK i \in DOMAIN l : l[i][1] = type /\ l[i][2] = x
    BY <1>4 DEF StagesIn
  <2>2. i \in DOMAIN both /\ both[i] = l[i]
    BY <1>1, <1>2, <2>1 DEF both
  <2> QED
    BY <2>1, <2>2 DEF StagesIn
<1>5. ASSUME NEW x \in StagesIn(m, type) PROVE x \in StagesIn(both, type)
  <2>1. PICK i \in DOMAIN m : m[i][1] = type /\ m[i][2] = x
    BY <1>5 DEF StagesIn
  <2>2. /\ i + Len(l) \in 1..(Len(l) + Len(m))
        /\ ~(i + Len(l) <= Len(l)) /\ (i + Len(l)) - Len(l) = i
    BY <1>2, <2>1
  <2>3. i + Len(l) \in DOMAIN both /\ both[i + Len(l)] = m[i]
    BY <1>1, <1>2, <2>2 DEF both
  <2> QED
    BY <2>1, <2>3 DEF StagesIn
<1>6. StagesIn(both, type) = StagesIn(l, type) \cup StagesIn(m, type)
  BY <1>3, <1>4, <1>5
<1> QED
  BY <1>1, <1>6 DEF both

LEMMA StagesOfOne ==
    ASSUME NEW type, NEW e \in Events
    PROVE  /\ <<e>> \in Seq(Events)
           /\ StagesIn(<<e>>, type) = IF e[1] = type THEN {e[2]} ELSE {}
           /\ <<>> \in Seq(Events) /\ StagesIn(<<>>, type) = {}
<1>1. <<e>> \in Seq(Events) /\ DOMAIN <<e>> = {1} /\ <<e>>[1] = e
  OBVIOUS
<1>2. StagesIn(<<e>>, type) = IF e[1] = type THEN {e[2]} ELSE {}
  BY <1>1 DEF StagesIn
<1>3. <<>> \in Seq(Events) /\ StagesIn(<<>>, type) = {}
  BY DEF StagesIn
<1> QED
  BY <1>1, <1>2, <1>3

LEMMA LogGrows ==
    ASSUME NEW l \in Seq(Events), NEW e \in Events, NEW of
    PROVE  /\ Append(l, e) = l \o <<e>> /\ l \o <<e>> \in Seq(Events)
           /\ StagesIn(l \o <<e>>, of) =
                 StagesIn(l, of) \cup StagesIn(<<e>>, of)
BY AppendIsConcat, StagesOfOne, StagesOfTwo

\* An event of the type adds its stage to the account; one of another type
\* leaves the account alone.
LEMMA LogGains ==
    ASSUME NEW l \in Seq(Events), NEW type \in EventTypes,
           NEW s \in Stages \cup {"none"}
    PROVE  /\ Append(l, Event(type, s)) \in Seq(Events)
           /\ StagesIn(Append(l, Event(type, s)), type) =
                 StagesIn(l, type) \cup {s}
<1> DEFINE e == Event(type, s)
<1>1. e \in Events /\ e[1] = type /\ e[2] = s
  BY DEF Event, Events
<1> HIDE DEF e
<1>2. StagesIn(<<e>>, type) = {s}
  BY <1>1, StagesOfOne
<1>3. /\ Append(l, e) \in Seq(Events)
      /\ StagesIn(Append(l, e), type) = StagesIn(l, type) \cup {s}
  <2>1. /\ Append(l, e) = l \o <<e>> /\ l \o <<e>> \in Seq(Events)
        /\ StagesIn(l \o <<e>>, type) =
              StagesIn(l, type) \cup StagesIn(<<e>>, type)
    BY <1>1, LogGrows
  <2> QED
    BY <1>2, <2>1
<1> QED
  BY <1>3 DEF e

LEMMA LogPasses ==
    ASSUME NEW l \in Seq(Events), NEW of, NEW type \in EventTypes \ {of},
           NEW s \in Stages \cup {"none"}
    PROVE  /\ Append(l, Event(type, s)) \in Seq(Events)
           /\ StagesIn(Append(l, Event(type, s)), of) = StagesIn(l, of)
           /\ l \o <<Event(type, s)>> \in Seq(Events)
           /\ StagesIn(l \o <<Event(type, s)>>, of) = StagesIn(l, of)
<1> DEFINE e == Event(type, s)
<1>1. e \in Events /\ e[1] = type /\ e[2] = s /\ type # of
  BY DEF Event, Events
<1> HIDE DEF e
<1>2. StagesIn(<<e>>, of) = {}
  BY <1>1, StagesOfOne
<1>3. /\ Append(l, e) \in Seq(Events) /\ l \o <<e>> \in Seq(Events)
      /\ StagesIn(Append(l, e), of) = StagesIn(l, of)
      /\ StagesIn(l \o <<e>>, of) = StagesIn(l, of)
  <2>1. /\ Append(l, e) = l \o <<e>> /\ l \o <<e>> \in Seq(Events)
        /\ StagesIn(l \o <<e>>, of) =
              StagesIn(l, of) \cup StagesIn(<<e>>, of)
    BY <1>1, LogGrows
  <2> QED
    BY <1>2, <2>1
<1> QED
  BY <1>3 DEF e

LEMMA LogGrowsByTwo ==
    ASSUME NEW l \in Seq(Events), NEW of,
           NEW a \in EventTypes \ {of}, NEW s \in Stages \cup {"none"},
           NEW b \in EventTypes \ {of}, NEW t \in Stages \cup {"none"}
    PROVE  /\ l \o <<Event(a, s), Event(b, t)>> \in Seq(Events)
           /\ StagesIn(l \o <<Event(a, s), Event(b, t)>>, of) =
                 StagesIn(l, of)
<1> DEFINE m == <<Event(a, s), Event(b, t)>>
<1>1. /\ m \in Seq(Events) /\ DOMAIN m = {1, 2}
      /\ m[1][1] = a /\ m[2][1] = b
  BY DEF Event, Events
<1> HIDE DEF m
<1>2. StagesIn(m, of) = {}
  BY <1>1 DEF StagesIn
<1>3. /\ l \o m \in Seq(Events)
      /\ StagesIn(l \o m, of) = StagesIn(l, of) \cup StagesIn(m, of)
  BY <1>1, StagesOfTwo
<1> QED
  BY <1>2, <1>3 DEF m

-----------------------------------------------------------------------------
(***************************************************************************)
(* The invariant.  Count stages are completed; the parts below say what    *)
(* that means at every place the service may be.                           *)
(***************************************************************************)

Count == Len(payload.completed)
Done  == Range(payload.completed)

InStage   == {"search", "execute", "completing", "failed"}
AfterLoop == {"persist", "waiting", "approved", "completed"}

\* The pipeline's own part of the types; row is the record WorkflowService
\* keeps, which TypeOK says field by field.
Typed ==
    /\ rag_enabled \in BOOLEAN
    /\ pc \in Places
    /\ queue \in Seq(Stages)
    /\ stage \in Stages \cup {"none"}
    /\ payload \in Payloads /\ stream \in Payloads
    /\ row \in Rows
    /\ log \in Seq(Events)

\* The completed stages are the first ones, and the place and the queue go with
\* their number.
Where ==
    /\ Count \in 0..7 /\ payload.completed = First(Count)
    /\ pc = "idle" => payload = NewPayload /\ row = NewRow
    /\ pc = "enter" => Count <= 5 /\ queue = Rest(Count)
    /\ pc \in InStage => Count <= 6 /\ stage = AllStages[Count + 1]
    /\ pc \in InStage /\ Count <= 5 => queue = Rest(Count + 1)
    /\ pc \in InStage /\ Count = 6 => queue = <<>>
    /\ pc \in {"search", "completing", "failed"} => Count <= 5
    /\ pc \in AfterLoop => Count \in {6, 7} /\ stage = AllStages[Count]
                               /\ queue = <<>>
    /\ pc \in {"waiting", "approved"} => Count = 6
    /\ pc = "completed" => Count = 7

\* The row is in the status of the stage under way.
StatusOf ==
    pc \in {"search", "execute", "completing"} =>
        row.doc.status = StageStatus[stage]

\* Outputs, events and the completed stages say the same.
Accounts ==
    /\ \A s \in Stages : IF s \in Done THEN payload.outputs[s].kind # "none"
                         ELSE payload.outputs[s] = NoOutput
    /\ StagesIn(log, "node.completed") = Done
    /\ pc = "failed" => /\ payload.failed = stage
                        /\ payload.error = "RUNTIME_NODE_FAILED"
    /\ pc # "failed" => payload.failed = "none" /\ payload.error = "none"

\* The search has run for the grounded stages that are completed or under way
\* past it, and for no other; a completed stage has its evidence.
Searched(s) == s \in Done \/ (pc \in InStage \ {"search"} /\ s = stage)

Evidence ==
    /\ pc = "search" => Grounded(stage)
    /\ \A s \in Stages : payload.rag[s] # "none" <=> Searched(s) /\ Grounded(s)
    /\ \A s \in Done :
          payload.outputs[s].evidence = EvidenceOf(payload.rag[s])

\* A model was asked for the prompted stages alone.
Asked == pc = "completing" => Prompted(stage)

\* The row during a run, and after it.
Saved ==
    /\ \/ pc = "enter"
       \/ pc \in {"search", "execute", "completing", "persist"}
             /\ stage # "email_preparation"
       => \A s \in Stages : row.sections[s] = NoOutput
    /\ pc \in {"waiting", "failed", "approved", "completed"} =>
          Agree(row.doc, payload)
    /\ pc \in {"waiting", "failed", "completed"} =>
          row.sections = payload.outputs
    /\ pc = "approved" =>
          row.sections = [payload.outputs EXCEPT !["approval"].decided = TRUE]

\* The stream knows what the payload knows whenever it is going to replace it.
StreamOf ==
    \/ /\ pc = "enter" /\ ~settings.runtime_enabled
       /\ \A s \in Done : ~Grounded(s)
    \/ pc = "execute" /\ ~UsesLLM(stage) /\ ~RunsHandler(stage)
    => Agree(stream, payload)

PipelineInv ==
    /\ LLMInv /\ Typed
    /\ Where /\ StatusOf /\ Accounts /\ Evidence /\ Asked /\ Saved /\ StreamOf
    /\ OnlyValidatedCompletions /\ FailureIsRecorded

\* The stage a completed one is followed by is not completed itself.
LEMMA StageUnderWay ==
    ASSUME Typed, Where, pc \in InStage
    PROVE  /\ stage \in Stages \ Done
           /\ Append(payload.completed, stage) = First(Count + 1)
           /\ Count \in 0..6 /\ Count + 1 \in 1..7
           /\ Len(First(Count + 1)) = Count + 1
           /\ Range(First(Count + 1)) = Done \cup {stage}
<1>1. Count \in 0..7 /\ payload.completed = First(Count) /\ Count <= 6
      /\ stage = AllStages[Count + 1]
  BY DEF Where
<1>2. Count \in 0..6 /\ Count + 1 \in 0..7 /\ Count + 1 \in 1..7 /\ Count < 7
  BY <1>1
<1>3. /\ stage \in Stages \ Done
      /\ Append(payload.completed, stage) = First(Count + 1)
  BY <1>1, <1>2, FirstStages DEF Done
<1>4. /\ Len(First(Count + 1)) = Count + 1
      /\ Range(First(Count + 1)) = Done \cup {stage}
  <2> DEFINE c == payload.completed
  <2>1. c \in Seq(Stages)
    BY DEF Typed, Payloads
  <2>2. /\ Len(Append(c, stage)) = Len(c) + 1
        /\ Append(c, stage) = c \o <<stage>>
    BY <1>3, <2>1, AppendProperties, AppendIsConcat
  <2>3. Range(c \o <<stage>>) = Range(c) \cup Range(<<stage>>)
    <3>1. <<stage>> \in Seq(Stages)
      BY <1>3
    <3> QED
      BY <2>1, <3>1, RangeConcatenation
  <2>4. Range(<<stage>>) = {stage}
    BY DEF Range
  <2> QED
    BY <1>3, <2>2, <2>3, <2>4 DEF Count, Done
<1> QED
  BY <1>2, <1>3, <1>4

LEMMA DoneStages == Typed => Done \subseteq Stages
<1> SUFFICES ASSUME Typed PROVE Done \subseteq Stages
  OBVIOUS
<1>1. payload.completed \in Seq(Stages)
  BY DEF Typed, Payloads
<1>2. Done = {payload.completed[i] : i \in 1..Len(payload.completed)}
  BY <1>1, RangeEquality DEF Done
<1> QED
  BY <1>1, <1>2, ElementOfSeq

\* The email is the one stage after the approval.
LEMMA EmailIsLast ==
    \A i \in 1..7 : AllStages[i] = "email_preparation" <=> i = 7
<1>1. AllStages[7] = "email_preparation"
  <2>1. AllStages = <<"planner", "retrieval", "quotation", "compliance",
                      "validation", "approval", "email_preparation">>
    BY StagesListed
  <2> QED
    BY <2>1
<1>2. 7 \in 1..7
  OBVIOUS
<1> QED
  BY <1>1, <1>2, StagesDiffer

\* What a step may not do to the completed stages.
StagesStay ==
    \A s \in Done :
        /\ s \in Done'
        /\ \/ payload'.outputs[s] = payload.outputs[s]
           \/ /\ s = "approval"
              /\ payload'.outputs[s] =
                    [payload.outputs[s] EXCEPT !.decided = TRUE]

\* The tail of the loop, whatever made the output: a handler on the payload,
\* the stream, the skip of the quotation or a model's text.
LEMMA CompletionKeeps ==
    ASSUME PipelineInv, pc \in {"execute", "completing"},
           NEW p \in Payloads, Agree(p, payload),
           NEW o \in Outputs, o.kind # "none", o.evidence = "none",
           o.decided = FALSE,
           o.kind = "llm" =>
              /\ settings.runtime_enabled
              /\ stage \in Stages \ {"quotation", "email_preparation"}
              /\ o.by \in {settings.provider, settings.fallback_provider}
                             \ {"fake"},
           CompleteStage(WithOutput(p, stage, o)),
           UNCHANGED <<llmVars, rag_enabled, queue, stage, row>>,
           stream' \in Payloads
    PROVE  /\ Completes(payload', p, stage, o) /\ stage \in Done'
           /\ pc' \in {"persist", "enter"}
           /\ StreamOf' => PipelineInv'
           /\ StagesStay
<1>1. /\ LLMInv /\ Typed /\ Where /\ StatusOf /\ Accounts /\ Evidence
      /\ Asked /\ Saved /\ OnlyValidatedCompletions
  BY DEF PipelineInv
<1>2. UNCHANGED <<settings, call, tried, rag_enabled, queue, stage, row>>
  BY DEF llmVars
<1>3. /\ stage \in Stages \ Done
      /\ Append(payload.completed, stage) = First(Count + 1)
      /\ Count \in 0..6 /\ Count + 1 \in 1..7
      /\ Len(First(Count + 1)) = Count + 1
      /\ Range(First(Count + 1)) = Done \cup {stage}
  BY <1>1, StageUnderWay DEF InStage
<1>4. /\ p.completed = payload.completed /\ p.rag = payload.rag
      /\ p.outputs = payload.outputs
      /\ p.failed = payload.failed /\ p.error = payload.error
  BY DEF Agree
<1>5. Grounded(stage) <=> p.rag[stage] # "none"
  BY <1>1, <1>3, <1>4 DEF Evidence, Searched, InStage
<1>6. stage \notin Range(p.completed)
  BY <1>3, <1>4 DEF Done
<1>7. /\ payload' = Completed(p, stage, o)
      /\ log' = Append(log, Event("node.completed", stage))
      /\ pc'  = IF queue = <<>> THEN "persist" ELSE "enter"
  BY DEF CompleteStage, Completed
<1>8. Completes(payload', p, stage, o)
  <2>1. stage \in Stages
    BY <1>3
  <2>2. payload' = Completed(p, stage, o)
    BY <1>7
  <2> QED
    BY <1>5, <1>6, <2>1, <2>2, StageCompleted
<1>9. /\ payload' \in Payloads
      /\ payload'.completed = First(Count + 1)
      /\ payload'.failed = payload.failed /\ payload'.error = payload.error
      /\ payload'.rag = payload.rag
      /\ \A t \in Stages \ {stage} : payload'.outputs[t] = payload.outputs[t]
      /\ payload'.outputs[stage] \in Outputs
      /\ payload'.outputs[stage].kind = o.kind
      /\ payload'.outputs[stage].by = o.by
      /\ payload'.outputs[stage].evidence = EvidenceOf(payload.rag[stage])
  BY <1>3, <1>4, <1>8 DEF Completes
<1> HIDE DEF CompleteStage
<1>10. Count' = Count + 1 /\ Done' = Done \cup {stage}
  BY <1>3, <1>9 DEF Count, Done
<1>11. LLMInv'
  BY <1>1, <1>2, LLMStutterKeeps DEF llmVars
<1>12. /\ log' \in Seq(Events)
       /\ StagesIn(log', "node.completed") =
             StagesIn(log, "node.completed") \cup {stage}
  <2>1. "node.completed" \in EventTypes /\ stage \in Stages \cup {"none"}
    BY <1>3 DEF EventTypes
  <2>2. log \in Seq(Events)
    BY <1>1 DEF Typed
  <2> QED
    BY <1>7, <2>1, <2>2, LogGains
<1>13. pc' \in {"persist", "enter"}
  BY <1>7
<1>14. Typed'
  BY <1>1, <1>2, <1>9, <1>12, <1>13 DEF Typed, Places
<1>15. Where'
  <2>1. CASE Count <= 4
    <3>1. queue = Rest(Count + 1) /\ Count + 1 \in 0..5
      BY <1>1, <1>3, <2>1 DEF Where, InStage
    <3>2. pc' = "enter"
      BY <1>7, <3>1, RestStages
    <3> QED
      BY <1>2, <1>3, <1>9, <1>10, <3>1, <3>2 DEF Where, InStage, AfterLoop
  <2>2. CASE Count = 5
    <3>1. queue = <<>> /\ stage = AllStages[6]
      <4>1. queue = Rest(Count + 1) /\ stage = AllStages[Count + 1]
        BY <1>1, <2>2 DEF Where, InStage
      <4>2. Count + 1 = 6
        BY <2>2
      <4> QED
        BY <4>1, <4>2, RestStages
    <3>2. pc' = "persist"
      BY <1>7, <3>1
    <3> QED
      BY <1>2, <1>3, <1>9, <1>10, <2>2, <3>1, <3>2
         DEF Where, InStage, AfterLoop
  <2>3. CASE Count = 6
    <3>1. queue = <<>> /\ stage = AllStages[7]
      BY <1>1, <2>3 DEF Where, InStage
    <3>2. pc' = "persist"
      BY <1>7, <3>1
    <3> QED
      BY <1>2, <1>3, <1>9, <1>10, <2>3, <3>1, <3>2
         DEF Where, InStage, AfterLoop
  <2> QED
    BY <1>3, <2>1, <2>2, <2>3
<1>16. StatusOf' /\ Asked' /\ FailureIsRecorded'
  BY <1>13 DEF StatusOf, Asked, FailureIsRecorded
<1>17. Accounts'
  BY <1>1, <1>3, <1>9, <1>10, <1>12, <1>13 DEF Accounts
<1>18. Evidence'
  <2>1. \A s \in Stages : Grounded(s)' <=> Grounded(s)
    BY <1>2 DEF Grounded
  <2>2. \A s \in Stages : Searched(s)' <=> Searched(s)
    BY <1>2, <1>10, <1>13 DEF Searched, InStage
  <2>3. \A s \in Done' :
           payload'.outputs[s].evidence = EvidenceOf(payload'.rag[s])
    <3>1. \A s \in Done : s \in Stages
      BY <1>1, DoneStages
    <3> QED
      BY <1>1, <1>3, <1>9, <1>10, <3>1 DEF Evidence
  <2> QED
    BY <1>1, <1>9, <1>13, <2>1, <2>2, <2>3 DEF Evidence
<1>19. Saved'
  <2>1. pc' = "enter" => stage # "email_preparation"
    BY <1>3, <1>7, <1>10, <1>15, <1>1, EmailIsLast DEF Where, InStage
  <2> QED
    BY <1>1, <1>2, <1>13, <2>1 DEF Saved
<1>20. OnlyValidatedCompletions'
  BY <1>1, <1>2, <1>3, <1>9 DEF OnlyValidatedCompletions
<1>21. StagesStay
  BY <1>1, <1>3, <1>9, <1>10, DoneStages DEF StagesStay
<1> QED
  BY <1>10, <1>11, <1>13, <1>14, <1>15, <1>16, <1>17, <1>18, <1>19, <1>20,
     <1>21, <1>8 DEF PipelineInv

LEMMA OutputsTyped ==
    /\ Placeholder \in Outputs /\ Placeholder.kind = "placeholder"
    /\ Placeholder.evidence = "none" /\ Placeholder.decided = FALSE
    /\ Skipped \in Outputs /\ Skipped.kind = "llm_skipped"
    /\ Skipped.evidence = "none" /\ Skipped.decided = FALSE
    /\ \A by \in LLMProviders :
          /\ Output("llm", by) \in Outputs /\ Output("llm", by).by = by
          /\ Output("llm", by).kind = "llm"
          /\ Output("llm", by).evidence = "none"
          /\ Output("llm", by).decided = FALSE
BY DEF Placeholder, Skipped, Output, Outputs

\* A handler on the payload: the stage it completes is a grounded one, so
\* that the stream is behind from there on.
LEMMA RunHandlerKeeps ==
    ASSUME PipelineInv, RunHandler
    PROVE  PipelineInv' /\ StagesStay
<1>1. /\ pc \in {"execute", "completing"} /\ RunsHandler(stage)
      /\ CompleteStage(WithOutput(payload, stage, Placeholder))
      /\ UNCHANGED <<llmVars, rag_enabled, queue, stage, row>>
      /\ stream' = stream
  BY DEF RunHandler
<1>2. payload \in Payloads /\ stream' \in Payloads
  BY <1>1 DEF PipelineInv, Typed
<1>3. Agree(payload, payload)
  BY DEF Agree
<1>4. /\ stage \in Done' /\ pc' \in {"persist", "enter"}
      /\ StreamOf' => PipelineInv'
      /\ StagesStay
  BY <1>1, <1>2, <1>3, OutputsTyped, CompletionKeeps
<1>5. StreamOf'
  <2>1. Grounded(stage)' /\ stage' = stage
    BY <1>1 DEF RunsHandler, Grounded
  <2> QED
    BY <1>4, <2>1 DEF StreamOf
<1> QED
  BY <1>4, <1>5

\* The stream replaces the payload: nothing was grounded yet, and it has seen
\* every stage before this one.
LEMMA ReadStreamKeeps ==
    ASSUME PipelineInv, ReadStream
    PROVE  PipelineInv' /\ StagesStay
<1>1. /\ pc = "execute" /\ ~UsesLLM(stage) /\ ~RunsHandler(stage)
      /\ stream' = WithOutput(stream, stage, Placeholder)
      /\ CompleteStage(WithOutput(stream, stage, Placeholder))
      /\ UNCHANGED <<llmVars, rag_enabled, queue, stage, row>>
  BY DEF ReadStream
<1>2. /\ Typed /\ Where /\ stream \in Payloads
      /\ Agree(stream, payload)
  BY <1>1 DEF PipelineInv, Typed, StreamOf
<1>3. stage \in Stages \ Done
  BY <1>1, <1>2, StageUnderWay DEF InStage
<1>4. /\ stream' \in Payloads
      /\ stream'.completed = Append(stream.completed, stage)
      /\ stream'.failed = stream.failed /\ stream'.error = stream.error
      /\ stream'.rag = stream.rag
      /\ stream'.outputs = [stream.outputs EXCEPT ![stage] = Placeholder]
  <2>1. stream.completed \in Seq(Stages) /\ stage \in Stages
    BY <1>2, <1>3 DEF Payloads
  <2>2. Append(stream.completed, stage) \in Seq(Stages)
    BY <2>1, AppendProperties
  <2>3. stage \notin Range(stream.completed)
    BY <1>2, <1>3 DEF Agree, Done
  <2> QED
    BY <1>1, <1>2, <2>1, <2>2, <2>3, OutputsTyped DEF WithOutput, Payloads
<1>5. /\ Completes(payload', stream, stage, Placeholder)
      /\ stage \in Done' /\ pc' \in {"persist", "enter"}
      /\ StreamOf' => PipelineInv'
      /\ StagesStay
  <2>1. /\ pc \in {"execute", "completing"} /\ Placeholder.kind # "none"
        /\ Placeholder.kind # "llm" /\ Placeholder \in Outputs
        /\ Placeholder.evidence = "none" /\ Placeholder.decided = FALSE
    BY <1>1, OutputsTyped
  <2> QED
    BY <1>1, <1>2, <1>4, <2>1, CompletionKeeps
<1>6. ASSUME ~Grounded(stage) PROVE Agree(stream', payload')
  <2>1. payload' = [WithOutput(stream, stage, Placeholder)
                       EXCEPT !.status = StageStatus[stage]]
    BY <1>1, <1>6 DEF CompleteStage, WithGrounding
  <2>2. payload' = [stream' EXCEPT !.status = StageStatus[stage]]
    BY <1>1, <2>1
  <2> QED
    BY <1>4, <2>2 DEF Agree, Payloads
<1>7. StreamOf'
  <2>1. stage' = stage /\ (Grounded(stage)' <=> Grounded(stage))
    BY <1>1 DEF Grounded
  <2> QED
    BY <1>5, <1>6, <2>1 DEF StreamOf
<1> QED
  BY <1>5, <1>7

LEMMA SkipQuotationKeeps ==
    ASSUME PipelineInv, SkipQuotation
    PROVE  PipelineInv' /\ StagesStay
<1>1. /\ pc = "execute" /\ UsesLLM(stage)
      /\ CompleteStage(WithOutput(payload, stage, Skipped))
      /\ UNCHANGED <<llmVars, rag_enabled, queue, stage, row>>
      /\ stream' = stream
  BY DEF SkipQuotation
<1>2. payload \in Payloads /\ stream' \in Payloads /\ Agree(payload, payload)
  BY <1>1 DEF PipelineInv, Typed, Agree
<1>3. /\ pc' \in {"persist", "enter"}
      /\ StreamOf' => PipelineInv'
      /\ StagesStay
  <2>1. /\ pc \in {"execute", "completing"} /\ Skipped.kind # "none"
        /\ Skipped.kind # "llm" /\ Skipped \in Outputs
        /\ Skipped.evidence = "none" /\ Skipped.decided = FALSE
    BY <1>1, OutputsTyped
  <2> QED
    BY <1>1, <1>2, <2>1, CompletionKeeps
<1>4. StreamOf'
  BY <1>1, <1>3 DEF StreamOf, UsesLLM, llmVars
<1> QED
  BY <1>3, <1>4

\* The text of a completion: its provider is not the fake one, whose canned
\* object no stage's schema accepts.
LEMMA UseCompletionKeeps ==
    ASSUME PipelineInv, UseCompletion
    PROVE  PipelineInv' /\ StagesStay
<1> DEFINE o == Output("llm", call.provider)
<1>1. /\ pc = "completing"
      /\ call.phase = "returned" /\ StructuredOutput(call.result.what)
      /\ CompleteStage(WithOutput(payload, stage, o))
      /\ UNCHANGED <<llmVars, rag_enabled, queue, stage, row>>
      /\ stream' = stream
  BY DEF UseCompletion
<1>2. payload \in Payloads /\ stream' \in Payloads /\ Agree(payload, payload)
  BY <1>1 DEF PipelineInv, Typed, Agree
<1>3. /\ call.provider \in {settings.provider, settings.fallback_provider}
      /\ call.provider = "fake" => call.result = FakeResponse
      /\ call.provider \in LLMProviders
  BY <1>1 DEF PipelineInv, LLMInv, CallInv, LLMTypeOK, Calls
<1>4. call.provider # "fake"
  BY <1>1, <1>3 DEF FakeResponse, Text, StructuredOutput, MatchesSchema
<1>5. /\ settings.runtime_enabled
      /\ stage \in PromptStages
  BY <1>1 DEF PipelineInv, Asked, Prompted, UsesLLM
<1>6. stage \in Stages \ {"quotation", "email_preparation"}
  BY <1>5, StagesListed DEF PromptStages
<1>7. /\ pc' \in {"persist", "enter"}
      /\ StreamOf' => PipelineInv'
      /\ StagesStay
  <2>1. /\ o \in Outputs /\ o.kind = "llm" /\ o.by = call.provider
        /\ o.evidence = "none" /\ o.decided = FALSE
    BY <1>3, OutputsTyped
  <2> HIDE DEF o
  <2>2. /\ pc \in {"execute", "completing"} /\ o.kind # "none"
        /\ o.by \in {settings.provider, settings.fallback_provider}
                       \ {"fake"}
    BY <1>1, <1>3, <1>4, <2>1
  <2> QED
    BY <1>1, <1>2, <1>5, <1>6, <2>1, <2>2, CompletionKeeps
<1>8. StreamOf'
  BY <1>1, <1>5, <1>7 DEF StreamOf, llmVars
<1> QED
  BY <1>7, <1>8

\* A step that leaves everything but the completion and the place alone.
LEMMA AskModelKeeps ==
    ASSUME PipelineInv, AskModel
    PROVE  PipelineInv' /\ StagesStay
<1>1. /\ pc = "execute" /\ Prompted(stage) /\ BeginCompletion
      /\ pc' = "completing"
      /\ UNCHANGED <<rag_enabled, queue, stage, payload, stream, row, log>>
      /\ settings' = settings
  BY DEF AskModel, BeginCompletion
<1>2. /\ LLMInv /\ Typed /\ Where /\ StatusOf /\ Accounts /\ Evidence
      /\ Saved /\ OnlyValidatedCompletions
  BY DEF PipelineInv
<1>3. LLMInv'
  BY <1>1, <1>2, BeginKeeps
<1>4. Count' = Count /\ Done' = Done
  BY <1>1 DEF Count, Done
<1>5. Typed'
  BY <1>1, <1>2 DEF Typed, Places
<1>6. Where'
  <2>1. stage # "email_preparation"
    BY <1>1 DEF Prompted, PromptStages
  <2>2. Count <= 5
    <3>1. Count \in 0..6 /\ stage = AllStages[Count + 1]
      BY <1>1, <1>2, StageUnderWay DEF Where, InStage
    <3>2. Count + 1 \in 1..7 /\ Count + 1 # 7
      BY <2>1, <3>1, EmailIsLast
    <3> QED
      BY <3>1, <3>2
  <2> QED
    BY <1>1, <1>2, <1>4, <2>2 DEF Where, InStage, AfterLoop
<1>7. StatusOf' /\ Accounts' /\ Asked' /\ Saved' /\ FailureIsRecorded'
  <2>1. stage # "email_preparation"
    BY <1>1 DEF Prompted, PromptStages
  <2>2. Prompted(stage)'
    BY <1>1 DEF Prompted, UsesLLM
  <2> QED
    BY <1>1, <1>2, <1>4, <2>1, <2>2
       DEF StatusOf, Accounts, Asked, Saved, FailureIsRecorded
<1>8. Evidence'
  <2>1. \A s \in Stages : /\ Grounded(s)' <=> Grounded(s)
                          /\ Searched(s)' <=> Searched(s)
    BY <1>1, <1>4 DEF Grounded, Searched, InStage
  <2> QED
    BY <1>1, <1>2, <1>4, <2>1 DEF Evidence
<1>9. StreamOf' /\ OnlyValidatedCompletions'
  BY <1>1, <1>2 DEF StreamOf, OnlyValidatedCompletions
<1>10. StagesStay
  BY <1>1, <1>4 DEF StagesStay
<1> QED
  BY <1>3, <1>5, <1>6, <1>7, <1>8, <1>9, <1>10 DEF PipelineInv

LEMMA AwaitModelKeeps ==
    ASSUME PipelineInv, AwaitModel
    PROVE  PipelineInv' /\ StagesStay
<1>1. /\ pc = "completing" /\ LLMStep
      /\ UNCHANGED <<rag_enabled, pc, queue, stage, payload, stream, row,
                     log>>
      /\ settings' = settings
  BY DEF AwaitModel, LLMStep, AttemptPrimary, AttemptFallback
<1>2. /\ LLMInv /\ Typed /\ Where /\ StatusOf /\ Accounts /\ Evidence
      /\ Asked /\ Saved /\ StreamOf /\ OnlyValidatedCompletions
      /\ FailureIsRecorded
  BY DEF PipelineInv
<1>3. LLMInv'
  BY <1>1, <1>2, LLMStepKeeps
<1>4. Count' = Count /\ Done' = Done
  BY <1>1 DEF Count, Done
<1>5. Typed' /\ StatusOf' /\ Accounts' /\ Saved' /\ FailureIsRecorded'
  BY <1>1, <1>2, <1>4 DEF Typed, StatusOf, Accounts, Saved, FailureIsRecorded
<1>6. Where'
  BY <1>1, <1>2, <1>4 DEF Where
<1>7. Asked' /\ StreamOf' /\ OnlyValidatedCompletions'
  BY <1>1, <1>2
     DEF Asked, Prompted, UsesLLM, StreamOf, OnlyValidatedCompletions
<1>8. Evidence'
  <2>1. \A s \in Stages : /\ Grounded(s)' <=> Grounded(s)
                          /\ Searched(s)' <=> Searched(s)
    BY <1>1, <1>4 DEF Grounded, Searched
  <2> QED
    BY <1>1, <1>2, <1>4, <2>1 DEF Evidence
<1>9. StagesStay
  BY <1>1, <1>4 DEF StagesStay
<1> QED
  BY <1>3, <1>5, <1>6, <1>7, <1>8, <1>9 DEF PipelineInv

\* run_workflow starts from a row nobody has written to.
LEMMA StartRunKeeps ==
    ASSUME PipelineInv, StartRun
    PROVE  PipelineInv' /\ StagesStay
<1>1. /\ pc = "idle" /\ pc' = "enter"
      /\ payload' = ToRuntime(row) /\ stream' = ToRuntime(row)
      /\ queue' = PreApprovalStages
      /\ log' = Append(log, Event("runtime.started", "none"))
      /\ UNCHANGED <<settings, call, tried, rag_enabled, stage, row>>
  BY DEF StartRun, llmVars
<1>2. /\ LLMInv /\ Typed /\ Where /\ StatusOf /\ Accounts /\ Evidence
      /\ Saved /\ OnlyValidatedCompletions
  BY DEF PipelineInv
<1>3. payload = NewPayload /\ row = NewRow
  BY <1>1, <1>2 DEF Where
<1>4. ToRuntime(row) = payload
  <2>1. \A s \in Stages : row.sections[s] = NoOutput
    BY <1>3, NothingTyped
  <2>2. payload.outputs = [s \in Stages |-> payload.outputs[s]]
    BY <1>2 DEF Typed, Payloads
  <2>3. row.doc = payload
    BY <1>3, NothingTyped
  <2>4. [row.doc EXCEPT !.outputs =
            [s \in Stages |-> IF row.sections[s] # NoOutput
                              THEN row.sections[s] ELSE @[s]]] =
        [payload EXCEPT !.outputs = payload.outputs]
    BY <2>1, <2>2, <2>3
  <2>5. [payload EXCEPT !.outputs = payload.outputs] = payload
    BY <1>2 DEF Typed, Payloads
  <2> QED
    BY <2>4, <2>5 DEF ToRuntime
<1>5. payload' = payload /\ stream' = payload
  BY <1>1, <1>4
<1>6. LLMInv'
  BY <1>1, <1>2, LLMStutterKeeps DEF llmVars
<1>7. Count' = Count /\ Done' = Done /\ Count = 0
  BY <1>3, <1>5, NothingTyped DEF Count, Done
<1>8. /\ log' \in Seq(Events)
      /\ StagesIn(log', "node.completed") = StagesIn(log, "node.completed")
  <2>1. /\ "runtime.started" \in EventTypes \ {"node.completed"}
        /\ "none" \in Stages \cup {"none"} /\ log \in Seq(Events)
    BY <1>2 DEF EventTypes, Typed
  <2> QED
    BY <1>1, <2>1, LogPasses
<1>9. Typed'
  BY <1>1, <1>2, <1>5, <1>8, StagesListed DEF Typed, Places
<1>10. Where'
  <2>1. queue' = Rest(0)
    BY <1>1, RestStages
  <2> QED
    BY <1>1, <1>2, <1>5, <1>7, <2>1 DEF Where, InStage, AfterLoop
<1>11. /\ StatusOf' /\ Accounts' /\ Asked' /\ FailureIsRecorded'
       /\ OnlyValidatedCompletions'
  BY <1>1, <1>2, <1>5, <1>7, <1>8
     DEF StatusOf, Accounts, Asked, FailureIsRecorded,
         OnlyValidatedCompletions
<1>12. Saved'
  BY <1>1, <1>3, NothingTyped DEF Saved
<1>13. Evidence'
  <2>1. \A s \in Stages : /\ Grounded(s)' <=> Grounded(s)
                          /\ Searched(s)' <=> Searched(s)
    BY <1>1, <1>7 DEF Grounded, Searched, InStage
  <2> QED
    BY <1>1, <1>2, <1>5, <1>7, <2>1 DEF Evidence
<1>14. StreamOf'
  BY <1>1, <1>5 DEF StreamOf, Agree
<1>15. StagesStay
  BY <1>5, <1>7 DEF StagesStay
<1> QED
  BY <1>6, <1>9, <1>10, <1>11, <1>12, <1>13, <1>14, <1>15 DEF PipelineInv

\* The head of the loop.
LEMMA EnterStageKeeps ==
    ASSUME PipelineInv, EnterStage
    PROVE  PipelineInv' /\ StagesStay
<1> DEFINE s == Head(queue)
<1> DEFINE started == log \o <<Event("node.started", s)>>
<1> DEFINE announced == IF Grounded(s)
                        THEN <<Event("grounding.started", s)>> ELSE <<>>
<1>1. /\ pc = "enter"
      /\ row' = [row EXCEPT !.doc.status = StageStatus[s]]
      /\ payload' = [payload EXCEPT !.status = StageStatus[s]]
      /\ stage' = s /\ queue' = Tail(queue)
      /\ log' = started \o announced
      /\ pc' = IF Grounded(s) THEN "search" ELSE "execute"
      /\ UNCHANGED <<settings, call, tried, rag_enabled, stream>>
  BY DEF EnterStage, Transition, llmVars
<1> HIDE DEF started, announced, s
<1>2. /\ LLMInv /\ Typed /\ Where /\ Accounts /\ Evidence
      /\ Saved /\ StreamOf /\ OnlyValidatedCompletions
  BY DEF PipelineInv
<1>3. Count \in 0..5 /\ queue = Rest(Count)
  BY <1>1, <1>2 DEF Where
<1>4. s = AllStages[Count + 1] /\ queue' = Rest(Count + 1)
  BY <1>1, <1>3, RestStages DEF s
<1>5. s \in Stages /\ s \notin Done /\ s # "email_preparation"
  <2>1. Count \in 0..7 /\ Count < 7 /\ Count + 1 \in 1..7 /\ Count + 1 # 7
    BY <1>3
  <2>2. payload.completed = First(Count)
    BY <1>2 DEF Where
  <2> QED
    BY <1>4, <2>1, <2>2, FirstStages, EmailIsLast DEF Done
<1>6. /\ payload' \in Payloads /\ Agree(payload', payload)
      /\ row' \in Rows /\ row'.doc.status = StageStatus[s]
      /\ row'.sections = row.sections
  <2>1. StageStatus[s] \in Lifecycle!Statuses
    BY <1>5, StatusesTyped
  <2>2. payload \in Payloads /\ row \in Rows
    BY <1>2 DEF Typed
  <2>3. payload' \in Payloads /\ Agree(payload', payload)
    BY <1>1, <2>1, <2>2 DEF Payloads, Agree
  <2>4. /\ row.doc \in Payloads
        /\ row' = [row EXCEPT !.doc = [row.doc EXCEPT !.status =
                                          StageStatus[s]]]
    BY <1>1, <2>2 DEF Rows
  <2>5. /\ [row.doc EXCEPT !.status = StageStatus[s]] \in Payloads
        /\ [row.doc EXCEPT !.status = StageStatus[s]].status = StageStatus[s]
    BY <2>1, <2>4 DEF Payloads
  <2> QED
    BY <2>2, <2>3, <2>4, <2>5 DEF Rows
<1>7. LLMInv'
  BY <1>1, <1>2, LLMStutterKeeps DEF llmVars
<1>8. Count' = Count /\ Done' = Done
  BY <1>6 DEF Agree, Count, Done
<1>9. /\ log' \in Seq(Events)
      /\ StagesIn(log', "node.completed") = StagesIn(log, "node.completed")
  <2>1. /\ "node.started" \in EventTypes \ {"node.completed"}
        /\ "grounding.started" \in EventTypes \ {"node.completed"}
        /\ s \in Stages \cup {"none"} /\ log \in Seq(Events)
    BY <1>2, <1>5 DEF EventTypes, Typed
  <2>2. /\ started \in Seq(Events)
        /\ StagesIn(started, "node.completed") =
              StagesIn(log, "node.completed")
    BY <2>1, LogPasses DEF started
  <2>3. CASE Grounded(s)
    <3>1. log' = started \o <<Event("grounding.started", s)>>
      BY <1>1, <2>3 DEF announced
    <3> QED
      BY <2>1, <2>2, <3>1, LogPasses
  <2>4. CASE ~Grounded(s)
    <3>1. log' = started \o <<>>
      BY <1>1, <2>4 DEF announced
    <3>2. log' = started
      BY <2>2, <3>1, ConcatEmptySeq
    <3> QED
      BY <2>2, <3>2
  <2> QED
    BY <2>3, <2>4
<1>10. Typed'
  <2>1. queue' \in Seq(Stages)
    <3>1. Count + 1 \in 0..7
      BY <1>3
    <3> QED
      BY <1>4, <3>1, RestStages
  <2> QED
    BY <1>1, <1>2, <1>5, <1>6, <1>9, <2>1 DEF Typed, Places
<1>11. Where'
  <2>1. payload'.completed = First(Count)
    BY <1>2, <1>6 DEF Where, Agree
  <2>2. pc' \in {"search", "execute"}
    BY <1>1
  <2> QED
    BY <1>1, <1>3, <1>4, <1>8, <2>1, <2>2 DEF Where, InStage, AfterLoop
<1>12. pc' \in {"search", "execute"} /\ pc' # "enter"
  BY <1>1
<1>13. StatusOf' /\ Asked' /\ FailureIsRecorded'
  BY <1>1, <1>6, <1>12 DEF StatusOf, Asked, FailureIsRecorded
<1>14. Accounts' /\ OnlyValidatedCompletions'
  BY <1>1, <1>2, <1>6, <1>8, <1>9, <1>12
     DEF Accounts, OnlyValidatedCompletions, Agree
<1>15. Saved'
  BY <1>1, <1>2, <1>5, <1>6, <1>12 DEF Saved
<1>16. Evidence'
  <2>1. \A t \in Stages : Grounded(t)' <=> Grounded(t)
    BY <1>1 DEF Grounded
  <2>2. pc' = "search" => Grounded(stage)'
    BY <1>1, <1>5, <2>1
  <2>3. \A t \in Stages : Searched(t)' /\ Grounded(t)
                             <=> Searched(t) /\ Grounded(t)
    BY <1>1, <1>8 DEF Searched, InStage
  <2> QED
    BY <1>2, <1>6, <1>8, <2>1, <2>2, <2>3 DEF Evidence, Agree
<1>17. StreamOf'
  <2>1. SUFFICES ASSUME pc' = "execute", ~UsesLLM(stage)', ~RunsHandler(stage)'
                 PROVE  Agree(stream', payload')
    BY <1>12 DEF StreamOf
  <2>2. ~settings.runtime_enabled /\ ~Grounded(s)
    BY <1>1, <1>5, <2>1 DEF UsesLLM
  <2>3. ASSUME NEW t \in Done PROVE ~Grounded(t)
    <3>1. t \in {AllStages[i] : i \in 1..Count}
      BY <1>2, <1>3, FirstStages DEF Done, Where
    <3>2. PICK i \in 1..Count : t = AllStages[i]
      BY <3>1
    <3>3. i \in 1..7 /\ Count + 1 \in 1..6 /\ i <= Count + 1
      BY <1>3, <3>2
    <3> QED
      BY <1>4, <2>2, <3>2, <3>3, GroundedLate
  <2>4. Agree(stream, payload)
    BY <1>1, <1>2, <2>2, <2>3 DEF StreamOf
  <2> QED
    BY <1>1, <1>6, <2>4 DEF Agree
<1>18. StagesStay
  BY <1>6, <1>8 DEF StagesStay, Agree
<1> QED
  BY <1>7, <1>10, <1>11, <1>13, <1>14, <1>15, <1>16, <1>17, <1>18
     DEF PipelineInv

\* The end of a search, answered or not: the stage has a finding and the run
\* goes on.
LEMMA SearchKeeps ==
    ASSUME PipelineInv, SearchSucceeds \/ SearchFails
    PROVE  PipelineInv' /\ StagesStay
<1>1. /\ pc = "search" /\ pc' = "execute"
      /\ UNCHANGED <<settings, call, tried, rag_enabled, queue, stage, stream,
                     row>>
  BY DEF SearchSucceeds, SearchFails, llmVars
<1>2. /\ LLMInv /\ Typed /\ Where /\ StatusOf /\ Accounts /\ Evidence
      /\ Saved /\ OnlyValidatedCompletions
  BY DEF PipelineInv
<1>3. /\ stage \in Stages \ Done /\ Grounded(stage)
      /\ stage # "email_preparation"
  BY <1>1, <1>2, StageUnderWay DEF InStage, Evidence, Grounded
<1>4. /\ payload.rag \in [Stages -> Findings \cup {"none", "failed"}]
      /\ payload.outputs \in [Stages -> Outputs] /\ payload \in Payloads
  BY <1>2 DEF Typed, Payloads
<1>5. PICK found \in Findings \cup {"failed"} :
         /\ payload' \in Payloads
         /\ payload'.completed = payload.completed
         /\ payload'.failed = payload.failed
         /\ payload'.error = payload.error
         /\ payload'.outputs = payload.outputs
         /\ payload'.rag = [payload.rag EXCEPT ![stage] = found]
  <2>1. CASE SearchSucceeds
    <3>1. PICK found \in Findings :
             payload' = ApplyGrounding(payload, stage, found, FALSE)
      BY <2>1 DEF SearchSucceeds
    <3>2. payload' = [payload EXCEPT !.rag[stage] = found,
                                     !.outputs[stage].evidence = @]
      BY <3>1 DEF ApplyGrounding
    <3>3. [payload.outputs EXCEPT ![stage].evidence = @] = payload.outputs
      BY <1>3, <1>4 DEF Outputs
    <3>4. /\ payload'.completed = payload.completed
          /\ payload'.failed = payload.failed
          /\ payload'.error = payload.error
          /\ payload'.rag = [payload.rag EXCEPT ![stage] = found]
          /\ payload'.outputs = [payload.outputs EXCEPT ![stage].evidence = @]
      BY <1>4, <3>2 DEF Payloads
    <3>5. payload' \in Payloads
      BY <1>3, <1>4, <3>2, <3>3, <3>4 DEF Payloads
    <3> QED
      BY <3>3, <3>4, <3>5
  <2>2. CASE SearchFails
    <3>1. payload' = [payload EXCEPT !.rag[stage] = "failed"]
      BY <2>2 DEF SearchFails
    <3> QED
      BY <1>3, <1>4, <3>1 DEF Payloads
  <2> QED
    BY <2>1, <2>2
<1>6. /\ log' \in Seq(Events)
      /\ StagesIn(log', "node.completed") = StagesIn(log, "node.completed")
  <2>1. /\ "grounding.completed" \in EventTypes \ {"node.completed"}
        /\ "grounding.failed" \in EventTypes \ {"node.completed"}
        /\ stage \in Stages \cup {"none"} /\ log \in Seq(Events)
    BY <1>2 DEF EventTypes, Typed
  <2>2. \/ log' = Append(log, Event("grounding.completed", stage))
        \/ log' = Append(log, Event("grounding.failed", stage))
    BY DEF SearchSucceeds, SearchFails
  <2>3. CASE log' = Append(log, Event("grounding.completed", stage))
    BY <2>1, <2>3, LogPasses
  <2>4. CASE log' = Append(log, Event("grounding.failed", stage))
    BY <2>1, <2>4, LogPasses
  <2> QED
    BY <2>2, <2>3, <2>4
<1>7. LLMInv'
  BY <1>1, <1>2, LLMStutterKeeps DEF llmVars
<1>8. Count' = Count /\ Done' = Done
  BY <1>5 DEF Count, Done
<1>9. Typed'
  BY <1>1, <1>2, <1>5, <1>6 DEF Typed, Places
<1>10. Where'
  BY <1>1, <1>2, <1>5, <1>8 DEF Where, InStage, AfterLoop
<1>11. /\ StatusOf' /\ Asked' /\ FailureIsRecorded' /\ Saved'
       /\ OnlyValidatedCompletions'
  BY <1>1, <1>2, <1>3, <1>5
     DEF StatusOf, Asked, FailureIsRecorded, Saved, OnlyValidatedCompletions
<1>12. Accounts'
  BY <1>1, <1>2, <1>5, <1>6, <1>8 DEF Accounts
<1>13. Evidence'
  <2>1. \A s \in Stages : Grounded(s)' <=> Grounded(s)
    BY <1>1 DEF Grounded
  <2>2. \A s \in Stages : Searched(s)' <=> Searched(s) \/ s = stage
    BY <1>1, <1>8 DEF Searched, InStage
  <2>3. found # "none"
    BY DEF Findings
  <2>4. /\ payload'.rag[stage] = found
        /\ \A s \in Stages \ {stage} : payload'.rag[s] = payload.rag[s]
    BY <1>3, <1>4, <1>5
  <2>5. \A s \in Stages : payload'.rag[s] # "none"
                             <=> Searched(s)' /\ Grounded(s)'
    BY <1>2, <1>3, <2>1, <2>2, <2>3, <2>4 DEF Evidence
  <2>6. \A s \in Done' :
           payload'.outputs[s].evidence = EvidenceOf(payload'.rag[s])
    BY <1>2, <1>3, <1>5, <1>8, <2>4, DoneStages DEF Evidence
  <2> QED
    BY <1>1, <2>5, <2>6 DEF Evidence
<1>14. StreamOf'
  BY <1>1, <1>3 DEF StreamOf, RunsHandler, Grounded, UsesLLM
<1>15. StagesStay
  BY <1>5, <1>8 DEF StagesStay
<1> QED
  BY <1>7, <1>9, <1>10, <1>11, <1>12, <1>13, <1>14, <1>15 DEF PipelineInv

\* runtime_state_to_workflow_state: a section is the stage's output, as long
\* as no earlier section is left standing for a stage without one.
LEMMA RowSaved ==
    ASSUME NEW p \in Payloads, NEW r \in Rows,
           \A s \in Stages : p.outputs[s] = NoOutput
                                => r.sections[s] = NoOutput
    PROVE  /\ ToWorkflow(p, r) \in Rows
           /\ ToWorkflow(p, r).doc = p
           /\ ToWorkflow(p, r).sections = p.outputs
<1> DEFINE f == [s \in Stages |-> IF p.outputs[s] # NoOutput THEN p.outputs[s]
                                  ELSE r.sections[s]]
<1>1. p.outputs \in [Stages -> Outputs]
  BY DEF Payloads
<1>2. \A s \in Stages : f[s] = p.outputs[s]
  OBVIOUS
<1>3. f = p.outputs
  BY <1>1, <1>2
<1>4. ToWorkflow(p, r) = [doc |-> p, sections |-> f]
  BY DEF ToWorkflow
<1> HIDE DEF f
<1> QED
  BY <1>1, <1>3, <1>4 DEF Rows

\* _transition_to_failed_if_allowed, for the stages a model is asked about.
LEMMA FailedStages ==
    \A s \in PromptStages :
        FailedStatus(StageStatus[s]) =
            IF s = "approval" THEN "WAITING_APPROVAL" ELSE "FAILED"
<1> SUFFICES ASSUME NEW s \in PromptStages
             PROVE  FailedStatus(StageStatus[s]) =
                       IF s = "approval" THEN "WAITING_APPROVAL" ELSE "FAILED"
  OBVIOUS
<1>1. s \in {"planner", "retrieval", "compliance", "validation", "approval"}
      /\ s \in Stages
  BY StagesListed DEF PromptStages
<1>2. StageStatus[s] = CASE s = "planner"    -> "PLANNING"
                         [] s = "retrieval"  -> "RETRIEVING"
                         [] s = "quotation"  -> "CALCULATING"
                         [] s = "compliance" -> "CHECKING_COMPLIANCE"
                         [] s = "validation" -> "VALIDATING"
                         [] s = "approval"   -> "WAITING_APPROVAL"
                         [] OTHER            -> "GENERATING_EMAIL"
  BY <1>1 DEF StageStatus
<1>3. ASSUME NEW t \in {"PLANNING", "RETRIEVING", "CHECKING_COMPLIANCE",
                        "VALIDATING"}
      PROVE  FailedStatus(t) = "FAILED"
  <2>1. t \in Lifecycle!Statuses
    BY DEF Lifecycle!Statuses
  <2>2. "FAILED" \in Lifecycle!AllowedTransitions[t]
    BY <2>1 DEF Lifecycle!AllowedTransitions
  <2> QED
    BY <2>2 DEF FailedStatus, Lifecycle!CanTransition
<1>4. FailedStatus("WAITING_APPROVAL") = "WAITING_APPROVAL"
  <2>1. "WAITING_APPROVAL" \in Lifecycle!Statuses
    BY DEF Lifecycle!Statuses
  <2>2. Lifecycle!AllowedTransitions["WAITING_APPROVAL"] =
           {"APPROVED", "REJECTED", "CANCELLED"}
    BY <2>1 DEF Lifecycle!AllowedTransitions
  <2> QED
    BY <2>2 DEF FailedStatus, Lifecycle!CanTransition
<1> QED
  BY <1>1, <1>2, <1>3, <1>4

\* _handle_runtime_failure.
LEMMA FailStageKeeps ==
    ASSUME PipelineInv, FailStage
    PROVE  PipelineInv' /\ StagesStay
<1>1. /\ pc = "completing" /\ pc' = "failed"
      /\ payload' = [payload EXCEPT
                        !.status = FailedStatus(row.doc.status),
                        !.failed = stage, !.error = "RUNTIME_NODE_FAILED"]
      /\ row' = ToWorkflow(payload', row)
      /\ log' = log \o <<Event("node.failed", stage),
                         Event("runtime.failed", stage)>>
      /\ UNCHANGED <<settings, call, tried, rag_enabled, queue, stage, stream>>
  BY DEF FailStage, llmVars
<1>2. /\ LLMInv /\ Typed /\ Where /\ StatusOf /\ Accounts /\ Evidence
      /\ Asked /\ Saved /\ OnlyValidatedCompletions
  BY DEF PipelineInv
<1>3. /\ stage \in Stages \ Done /\ stage \in PromptStages
      /\ stage # "email_preparation"
  BY <1>1, <1>2, StageUnderWay DEF InStage, Asked, Prompted, PromptStages
<1>4. FailedStatus(row.doc.status) =
         IF stage = "approval" THEN "WAITING_APPROVAL" ELSE "FAILED"
  BY <1>1, <1>2, <1>3, FailedStages DEF StatusOf
<1>5. /\ payload' \in Payloads
      /\ payload'.completed = payload.completed
      /\ payload'.failed = stage
      /\ payload'.error = "RUNTIME_NODE_FAILED"
      /\ payload'.rag = payload.rag
      /\ payload'.outputs = payload.outputs
      /\ payload'.status = FailedStatus(row.doc.status)
  <2>1. payload \in Payloads
    BY <1>2 DEF Typed
  <2>2. FailedStatus(row.doc.status) \in Lifecycle!Statuses
    BY <1>4 DEF Lifecycle!Statuses
  <2> QED
    BY <1>1, <1>3, <2>1, <2>2 DEF Payloads
<1>6. /\ row' \in Rows /\ row'.doc = payload'
      /\ row'.sections = payload'.outputs
  <2>1. \A s \in Stages : row.sections[s] = NoOutput
    BY <1>1, <1>2, <1>3 DEF Saved
  <2>2. row \in Rows
    BY <1>2 DEF Typed
  <2> QED
    BY <1>1, <1>5, <2>1, <2>2, RowSaved
<1>7. /\ log' \in Seq(Events)
      /\ StagesIn(log', "node.completed") = StagesIn(log, "node.completed")
  <2>1. /\ "node.failed" \in EventTypes \ {"node.completed"}
        /\ "runtime.failed" \in EventTypes \ {"node.completed"}
        /\ stage \in Stages \cup {"none"} /\ log \in Seq(Events)
    BY <1>2 DEF EventTypes, Typed
  <2> QED
    BY <1>1, <2>1, LogGrowsByTwo, SMTT(20)
<1>8. LLMInv'
  BY <1>1, <1>2, LLMStutterKeeps DEF llmVars
<1>9. Count' = Count /\ Done' = Done
  BY <1>5 DEF Count, Done
<1>10. Typed'
  BY <1>1, <1>2, <1>5, <1>6, <1>7 DEF Typed, Places
<1>11. Where'
  BY <1>1, <1>2, <1>5, <1>9 DEF Where, InStage, AfterLoop
<1>12. Accounts'
  BY <1>1, <1>2, <1>5, <1>7, <1>9 DEF Accounts
<1>13. Evidence'
  <2>1. \A s \in Stages : /\ Grounded(s)' <=> Grounded(s)
                          /\ Searched(s)' <=> Searched(s)
    BY <1>1, <1>9 DEF Grounded, Searched, InStage
  <2> QED
    BY <1>1, <1>2, <1>5, <1>9, <2>1 DEF Evidence
<1>14. StatusOf' /\ Asked' /\ StreamOf' /\ OnlyValidatedCompletions'
  BY <1>1, <1>2, <1>5 DEF StatusOf, Asked, StreamOf, OnlyValidatedCompletions
<1>15. Saved'
  BY <1>1, <1>6 DEF Saved, Agree
<1>16. FailureIsRecorded'
  BY <1>1, <1>4, <1>5, <1>6 DEF FailureIsRecorded
<1>17. StagesStay
  BY <1>5, <1>9 DEF StagesStay
<1> QED
  BY <1>8, <1>10, <1>11, <1>12, <1>13, <1>14, <1>15, <1>16, <1>17
     DEF PipelineInv

\* The two saves of a run that came through: the row takes the payload over.
LEMMA PersistKeeps ==
    ASSUME PipelineInv, PersistRun \/ PersistResume
    PROVE  PipelineInv' /\ StagesStay
<1>1. /\ pc = "persist"
      /\ UNCHANGED <<settings, call, tried, rag_enabled, queue, stage, payload,
                     stream>>
  BY DEF PersistRun, PersistResume, llmVars
<1>2. /\ LLMInv /\ Typed /\ Where /\ StatusOf /\ Accounts /\ Evidence
      /\ Asked /\ Saved /\ OnlyValidatedCompletions
  BY DEF PipelineInv
<1>3. Count \in {6, 7} /\ stage = AllStages[Count] /\ queue = <<>>
  BY <1>1, <1>2 DEF Where, AfterLoop
<1>4. payload \in Payloads /\ row \in Rows /\ log \in Seq(Events)
  BY <1>2 DEF Typed
<1>5. /\ \/ pc' = "waiting" /\ Count = 6
         \/ pc' = "completed" /\ Count = 7
      /\ row' \in Rows /\ Agree(row'.doc, payload)
      /\ row'.sections = payload.outputs
      /\ log' \in Seq(Events)
      /\ StagesIn(log', "node.completed") = StagesIn(log, "node.completed")
  <2>1. CASE PersistRun
    <3> DEFINE p == [payload EXCEPT !.status = row.doc.status]
    <3>1. /\ stage = Last(PreApprovalStages) /\ pc' = "waiting"
          /\ row' = ToWorkflow(p, row)
          /\ log' = Append(log, Event("runtime.waiting", "none"))
      BY <2>1 DEF PersistRun
    <3>2. stage = "approval"
      BY <3>1, StagesListed DEF Last, PreApprovalStages
    <3>3. Count = 6
      <4>1. 7 \in 1..7
        OBVIOUS
      <4> QED
        BY <1>3, <3>2, <4>1, EmailIsLast
    <3>4. p \in Payloads /\ Agree(p, payload)
      BY <1>4 DEF Payloads, Rows, Agree
    <3>5. \A s \in Stages : row.sections[s] = NoOutput
      BY <1>1, <1>2, <3>2 DEF Saved
    <3> HIDE DEF p
    <3>6. /\ row' \in Rows /\ row'.doc = p /\ row'.sections = p.outputs
      BY <1>4, <3>1, <3>4, <3>5, RowSaved
    <3>7. /\ "runtime.waiting" \in EventTypes \ {"node.completed"}
          /\ "none" \in Stages \cup {"none"}
      BY DEF EventTypes
    <3>8. /\ log' \in Seq(Events)
          /\ StagesIn(log', "node.completed") =
                StagesIn(log, "node.completed")
      BY <1>4, <3>1, <3>7, LogPasses
    <3> QED
      BY <3>1, <3>3, <3>4, <3>6, <3>8 DEF Agree
  <2>2. CASE PersistResume
    <3> DEFINE p == [payload EXCEPT !.status = "COMPLETED"]
    <3>1. /\ stage = Last(PostApprovalStages) /\ pc' = "completed"
          /\ row' = ToWorkflow(p, row)
          /\ log' = Append(log, Event("resumed", "none"))
      BY <2>2 DEF PersistResume
    <3>2. stage = "email_preparation"
      BY <3>1 DEF Last, PostApprovalStages
    <3>3. Count = 7
      <4>1. 6 \in 1..7
        OBVIOUS
      <4>2. AllStages[6] # "email_preparation"
        BY <4>1, EmailIsLast
      <4> QED
        BY <1>3, <3>2, <4>2
    <3>4. p \in Payloads /\ Agree(p, payload)
      BY <1>4 DEF Payloads, Agree, Lifecycle!Statuses
    <3>5. \A s \in Stages : payload.outputs[s] # NoOutput
      <4>1. 7 \in 0..7 /\ payload.completed = First(7)
        BY <1>2, <3>3 DEF Where
      <4>2. Done = {AllStages[i] : i \in 1..7}
        BY <4>1, FirstStages DEF Done
      <4>3. Stages = {AllStages[i] : i \in 1..7}
        <5>1. AllStages \in Seq(Stages) /\ Len(AllStages) = 7
          BY StagesListed
        <5> QED
          BY <5>1, RangeEquality DEF Stages
      <4> QED
        BY <1>2, <4>2, <4>3, NothingTyped DEF Accounts
    <3> HIDE DEF p
    <3>6. \A s \in Stages : p.outputs[s] # NoOutput
      BY <3>4, <3>5 DEF Agree
    <3>7. /\ row' \in Rows /\ row'.doc = p /\ row'.sections = p.outputs
      BY <1>4, <3>1, <3>4, <3>6, RowSaved
    <3>8. /\ "resumed" \in EventTypes \ {"node.completed"}
          /\ "none" \in Stages \cup {"none"}
      BY DEF EventTypes
    <3>9. /\ log' \in Seq(Events)
          /\ StagesIn(log', "node.completed") =
                StagesIn(log, "node.completed")
      BY <1>4, <3>1, <3>8, LogPasses
    <3> QED
      BY <3>1, <3>3, <3>4, <3>7, <3>9 DEF Agree
  <2> QED
    BY <2>1, <2>2
<1>6. LLMInv'
  BY <1>1, <1>2, LLMStutterKeeps DEF llmVars
<1>7. Count' = Count /\ Done' = Done /\ pc' \in {"waiting", "completed"}
  BY <1>1, <1>5 DEF Count, Done
<1>8. Typed'
  BY <1>1, <1>2, <1>5 DEF Typed, Places
<1>9. Where'
  BY <1>1, <1>2, <1>3, <1>5, <1>7 DEF Where, InStage, AfterLoop
<1>10. /\ StatusOf' /\ Asked' /\ StreamOf' /\ OnlyValidatedCompletions'
       /\ FailureIsRecorded'
  BY <1>1, <1>2, <1>7
     DEF StatusOf, Asked, StreamOf, OnlyValidatedCompletions,
         FailureIsRecorded
<1>11. Accounts'
  BY <1>1, <1>2, <1>5, <1>7 DEF Accounts
<1>12. Evidence'
  <2>1. \A s \in Stages : /\ Grounded(s)' <=> Grounded(s)
                          /\ Searched(s)' <=> Searched(s)
    BY <1>1, <1>7 DEF Grounded, Searched, InStage
  <2> QED
    BY <1>1, <1>2, <1>7, <2>1 DEF Evidence
<1>13. Saved'
  BY <1>1, <1>5, <1>7 DEF Saved
<1>14. StagesStay
  BY <1>1, <1>7 DEF StagesStay
<1> QED
  BY <1>6, <1>8, <1>9, <1>10, <1>11, <1>12, <1>13, <1>14 DEF PipelineInv

\* A decision touches the section of the approval stage and the status.
LEMMA ApproveKeeps ==
    ASSUME PipelineInv, Approve
    PROVE  PipelineInv' /\ StagesStay
<1>1. /\ pc = "waiting" /\ pc' = "approved"
      /\ row' = [row EXCEPT !.doc.status = "APPROVED",
                            !.sections["approval"].decided = TRUE]
      /\ UNCHANGED <<settings, call, tried, rag_enabled, queue, stage, payload,
                     stream, log>>
  BY DEF Approve, llmVars
<1>2. /\ LLMInv /\ Typed /\ Where /\ StatusOf /\ Accounts /\ Evidence
      /\ Asked /\ Saved /\ OnlyValidatedCompletions
  BY DEF PipelineInv
<1>3. /\ row' \in Rows /\ Agree(row'.doc, payload)
      /\ row'.sections = [payload.outputs EXCEPT !["approval"].decided = TRUE]
  <2>1. /\ row \in Rows /\ row.doc \in Payloads
        /\ row.sections \in [Stages -> Outputs] /\ "approval" \in Stages
    BY <1>2, StagesListed DEF Typed, Rows
  <2>2. Agree(row.doc, payload) /\ row.sections = payload.outputs
    BY <1>1, <1>2 DEF Saved
  <2>3. /\ row'.doc = [row.doc EXCEPT !.status = "APPROVED"]
        /\ row'.sections = [row.sections EXCEPT !["approval"].decided = TRUE]
        /\ row' = [doc |-> row'.doc, sections |-> row'.sections]
    BY <1>1, <2>1 DEF Rows
  <2>4. row'.doc \in Payloads /\ Agree(row'.doc, payload)
    BY <2>1, <2>2, <2>3 DEF Payloads, Agree, Lifecycle!Statuses
  <2>5. [row.sections["approval"] EXCEPT !.decided = TRUE] \in Outputs
    BY <2>1 DEF Outputs
  <2>6. row'.sections \in [Stages -> Outputs]
    BY <2>1, <2>3, <2>5
  <2> QED
    BY <2>2, <2>3, <2>4, <2>6 DEF Rows
<1>4. LLMInv'
  BY <1>1, <1>2, LLMStutterKeeps DEF llmVars
<1>5. Count' = Count /\ Done' = Done
  BY <1>1 DEF Count, Done
<1>6. Typed'
  BY <1>1, <1>2, <1>3 DEF Typed, Places
<1>7. Where'
  BY <1>1, <1>2, <1>5 DEF Where, InStage, AfterLoop
<1>8. /\ StatusOf' /\ Asked' /\ StreamOf' /\ OnlyValidatedCompletions'
      /\ FailureIsRecorded' /\ Accounts'
  BY <1>1, <1>2, <1>5
     DEF StatusOf, Asked, StreamOf, OnlyValidatedCompletions,
         FailureIsRecorded, Accounts
<1>9. Evidence'
  <2>1. \A s \in Stages : /\ Grounded(s)' <=> Grounded(s)
                          /\ Searched(s)' <=> Searched(s)
    BY <1>1, <1>5 DEF Grounded, Searched, InStage
  <2> QED
    BY <1>1, <1>2, <1>5, <2>1 DEF Evidence
<1>10. Saved'
  BY <1>1, <1>3 DEF Saved
<1>11. StagesStay
  BY <1>1, <1>5 DEF StagesStay
<1> QED
  BY <1>4, <1>6, <1>7, <1>8, <1>9, <1>10, <1>11 DEF PipelineInv

\* resume_workflow_after_approval: what comes back from the row is what went
\* into it, with the decision in the approval's output.
LEMMA StartResumeKeeps ==
    ASSUME PipelineInv, StartResume
    PROVE  PipelineInv' /\ StagesStay
<1> DEFINE X == [payload.outputs EXCEPT !["approval"].decided = TRUE]
<1>1. /\ pc = "approved" /\ pc' = "execute"
      /\ row' = [row EXCEPT !.doc.status = StageStatus["email_preparation"]]
      /\ payload' = [ToRuntime(row) EXCEPT
                        !.status = StageStatus["email_preparation"]]
      /\ stream' = payload' /\ stage' = "email_preparation"
      /\ log' = log \o <<Event("resume.requested", "none"),
                         Event("node.started", "email_preparation")>>
      /\ UNCHANGED <<settings, call, tried, rag_enabled, queue>>
  <2>1. Head(PostApprovalStages) = "email_preparation"
    BY DEF PostApprovalStages
  <2> QED
    BY <2>1 DEF StartResume, Transition, llmVars
<1>2. /\ LLMInv /\ Typed /\ Where /\ StatusOf /\ Accounts /\ Evidence
      /\ Asked /\ Saved /\ OnlyValidatedCompletions
  BY DEF PipelineInv
<1>3. /\ Count = 6 /\ queue = <<>> /\ payload.completed = First(6)
      /\ stage' = AllStages[7]
  <2>1. 7 \in 1..7
    OBVIOUS
  <2> QED
    BY <1>1, <1>2, <2>1, EmailIsLast DEF Where, AfterLoop
<1>4. /\ "email_preparation" \in Stages \ Done
      /\ "approval" \in Done /\ "approval" \in Stages
  <2>1. /\ 6 \in 0..7 /\ 6 < 7 /\ 6 + 1 = 7 /\ 6 \in 1..6 /\ 7 \in 1..7
    OBVIOUS
  <2>2. /\ AllStages[7] \in Stages \ Done /\ AllStages[6] \in Done
    <3>1. Range(First(6)) = {AllStages[i] : i \in 1..6}
      BY <2>1, FirstStages
    <3>2. AllStages[6 + 1] \in Stages \ Range(First(6))
      BY <2>1, FirstStages
    <3> QED
      BY <1>3, <2>1, <3>1, <3>2 DEF Done
  <2>3. AllStages[6] = "approval"
    <3>1. AllStages = <<"planner", "retrieval", "quotation", "compliance",
                        "validation", "approval", "email_preparation">>
      BY StagesListed
    <3> QED
      BY <3>1
  <2> QED
    BY <2>1, <2>2, <2>3, EmailIsLast, StagesListed
<1>5. /\ payload \in Payloads /\ row \in Rows /\ row.doc \in Payloads
      /\ payload.outputs \in [Stages -> Outputs]
      /\ Agree(row.doc, payload) /\ row.sections = X
  BY <1>1, <1>2 DEF Typed, Payloads, Rows, Saved
<1>6. /\ X \in [Stages -> Outputs]
      /\ \A s \in Stages \ {"approval"} : X[s] = payload.outputs[s]
      /\ X["approval"] = [payload.outputs["approval"] EXCEPT !.decided = TRUE]
      /\ \A s \in Stages : /\ X[s].kind = payload.outputs[s].kind
                           /\ X[s].by = payload.outputs[s].by
                           /\ X[s].evidence = payload.outputs[s].evidence
  <2>1. payload.outputs["approval"] \in Outputs
    BY <1>4, <1>5
  <2>2. /\ [payload.outputs["approval"] EXCEPT !.decided = TRUE] \in Outputs
        /\ [payload.outputs["approval"] EXCEPT !.decided = TRUE].kind
              = payload.outputs["approval"].kind
        /\ [payload.outputs["approval"] EXCEPT !.decided = TRUE].by
              = payload.outputs["approval"].by
        /\ [payload.outputs["approval"] EXCEPT !.decided = TRUE].evidence
              = payload.outputs["approval"].evidence
    BY <2>1 DEF Outputs
  <2>3. /\ \A s \in Stages \ {"approval"} : X[s] = payload.outputs[s]
        /\ X["approval"] =
              [payload.outputs["approval"] EXCEPT !.decided = TRUE]
        /\ X \in [Stages -> Outputs]
    BY <1>4, <1>5, <2>2
  <2> HIDE DEF X
  <2> QED
    BY <2>2, <2>3
<1> HIDE DEF X
<1>7. [s \in Stages |-> IF row.sections[s] # NoOutput THEN row.sections[s]
                        ELSE row.doc.outputs[s]] = X
  <2>1. X["approval"] # NoOutput
    <3>1. payload.outputs["approval"].kind # "none"
      BY <1>2, <1>4 DEF Accounts
    <3>2. X["approval"].kind # "none"
      BY <1>4, <1>6, <3>1
    <3> QED
      BY <3>2, NothingTyped
  <2>2. row.doc.outputs = payload.outputs
    BY <1>5 DEF Agree
  <2>3. \A s \in Stages : (IF row.sections[s] # NoOutput THEN row.sections[s]
                           ELSE row.doc.outputs[s]) = X[s]
    BY <1>5, <1>6, <2>1, <2>2
  <2> QED
    BY <1>6, <2>3
<1>8. ToRuntime(row) = [row.doc EXCEPT !.outputs = X]
  BY <1>7 DEF ToRuntime
<1>9. /\ payload' \in Payloads
      /\ payload'.completed = payload.completed
      /\ payload'.failed = payload.failed /\ payload'.error = payload.error
      /\ payload'.rag = payload.rag
      /\ payload'.outputs = X
  <2>1. StageStatus["email_preparation"] \in Lifecycle!Statuses
    BY <1>4, StatusesTyped
  <2> QED
    BY <1>1, <1>5, <1>6, <1>8, <2>1 DEF Payloads, Agree
<1>10. /\ row' \in Rows
       /\ row'.doc.status = StageStatus["email_preparation"]
  <2>1. StageStatus["email_preparation"] \in Lifecycle!Statuses
    BY <1>4, StatusesTyped
  <2> DEFINE d == [row.doc EXCEPT !.status =
                                     StageStatus["email_preparation"]]
  <2>2. d \in Payloads /\ d.status = StageStatus["email_preparation"]
    BY <1>5, <2>1 DEF Payloads
  <2>3. row' = [row EXCEPT !.doc = d]
    BY <1>1, <1>5 DEF Rows
  <2> HIDE DEF d
  <2> QED
    BY <1>5, <2>2, <2>3 DEF Rows
<1>11. /\ log' \in Seq(Events)
       /\ StagesIn(log', "node.completed") = StagesIn(log, "node.completed")
  <2>1. /\ "resume.requested" \in EventTypes \ {"node.completed"}
        /\ "node.started" \in EventTypes \ {"node.completed"}
        /\ "none" \in Stages \cup {"none"} /\ log \in Seq(Events)
        /\ "email_preparation" \in Stages \cup {"none"}
    BY <1>2, <1>4 DEF EventTypes, Typed
  <2> DEFINE m == <<Event("resume.requested", "none"),
                    Event("node.started", "email_preparation")>>
  <2>2. /\ log \o m \in Seq(Events)
        /\ StagesIn(log \o m, "node.completed") =
              StagesIn(log, "node.completed")
    BY <2>1, LogGrowsByTwo
  <2> QED
    BY <1>1, <2>2
<1>12. LLMInv'
  BY <1>1, <1>2, LLMStutterKeeps DEF llmVars
<1>13. Count' = Count /\ Done' = Done
  BY <1>9 DEF Count, Done
<1>14. Typed'
  BY <1>1, <1>2, <1>4, <1>9, <1>10, <1>11 DEF Typed, Places
<1>15. Where'
  BY <1>1, <1>2, <1>3, <1>9, <1>13 DEF Where, InStage, AfterLoop
<1>16. StatusOf' /\ Asked' /\ FailureIsRecorded' /\ StreamOf' /\ Saved'
  BY <1>1, <1>10
     DEF StatusOf, Asked, FailureIsRecorded, StreamOf, Agree, Saved
<1>17. Accounts'
  BY <1>1, <1>2, <1>4, <1>6, <1>9, <1>11, <1>13 DEF Accounts
<1>18. OnlyValidatedCompletions'
  BY <1>1, <1>2, <1>6, <1>9 DEF OnlyValidatedCompletions
<1>19. Evidence'
  <2>1. \A s \in Stages : Grounded(s)' <=> Grounded(s)
    BY <1>1 DEF Grounded
  <2>2. \A s \in Stages : Searched(s)' /\ Grounded(s)
                             <=> Searched(s) /\ Grounded(s)
    BY <1>1, <1>13 DEF Searched, InStage, Grounded
  <2>3. \A s \in Done :
           payload'.outputs[s].evidence = EvidenceOf(payload'.rag[s])
    BY <1>2, <1>6, <1>9, DoneStages DEF Evidence
  <2> QED
    BY <1>1, <1>2, <1>9, <1>13, <2>1, <2>2, <2>3 DEF Evidence
<1>20. StagesStay
  BY <1>2, <1>6, <1>9, <1>13, DoneStages DEF StagesStay
<1> QED
  BY <1>12, <1>14, <1>15, <1>16, <1>17, <1>18, <1>19, <1>20 DEF PipelineInv

-----------------------------------------------------------------------------
(***************************************************************************)
(* The invariant holds, and what follows from it.                          *)
(***************************************************************************)

LEMMA PipelineInit == Init => PipelineInv
<1> SUFFICES ASSUME Init PROVE PipelineInv
  OBVIOUS
<1>1. /\ LLMInit /\ rag_enabled \in BOOLEAN /\ pc = "idle" /\ queue = <<>>
      /\ stage = "none" /\ payload = NewPayload /\ stream = NewPayload
      /\ row = NewRow /\ log = <<>>
  BY DEF Init
<1>2. LLMInv
  BY <1>1, LLMInitInv
<1>3. Count = 0 /\ Done = {}
  BY <1>1, NothingTyped DEF Count, Done, Range
<1>4. log \in Seq(Events) /\ StagesIn(log, "node.completed") = {}
  BY <1>1 DEF StagesIn
<1>5. Typed
  BY <1>1, <1>4, NothingTyped DEF Typed, Places
<1>6. Where
  <2>1. First(0) = <<>>
    BY SubSeqEmpty DEF First
  <2> QED
    BY <1>1, <1>3, <2>1, NothingTyped DEF Where, InStage, AfterLoop
<1>7. StatusOf /\ Asked /\ Saved /\ StreamOf /\ FailureIsRecorded
  BY <1>1 DEF StatusOf, Asked, Saved, StreamOf, FailureIsRecorded
<1>8. Accounts
  BY <1>1, <1>3, <1>4, NothingTyped DEF Accounts
<1>9. Evidence
  BY <1>1, <1>3, NothingTyped DEF Evidence, Searched, InStage
<1>10. OnlyValidatedCompletions
  BY <1>1, NothingTyped DEF OnlyValidatedCompletions
<1> QED
  BY <1>2, <1>5, <1>6, <1>7, <1>8, <1>9, <1>10 DEF PipelineInv

LEMMA PipelineStep ==
    ASSUME PipelineInv, Next
    PROVE  PipelineInv' /\ StagesStay
<1>1. CASE StartRun
  BY <1>1, StartRunKeeps
<1>2. CASE EnterStage
  BY <1>2, EnterStageKeeps
<1>3. CASE SearchSucceeds \/ SearchFails
  BY <1>3, SearchKeeps
<1>4. CASE RunHandler
  BY <1>4, RunHandlerKeeps
<1>5. CASE ReadStream
  BY <1>5, ReadStreamKeeps
<1>6. CASE SkipQuotation
  BY <1>6, SkipQuotationKeeps
<1>7. CASE AskModel
  BY <1>7, AskModelKeeps
<1>8. CASE AwaitModel
  BY <1>8, AwaitModelKeeps
<1>9. CASE UseCompletion
  BY <1>9, UseCompletionKeeps
<1>10. CASE FailStage
  BY <1>10, FailStageKeeps
<1>11. CASE PersistRun \/ PersistResume
  BY <1>11, PersistKeeps
<1>12. CASE Approve
  BY <1>12, ApproveKeeps
<1>13. CASE StartResume
  BY <1>13, StartResumeKeeps
<1> QED
  BY <1>1, <1>2, <1>3, <1>4, <1>5, <1>6, <1>7, <1>8, <1>9, <1>10, <1>11,
     <1>12, <1>13 DEF Next, Progress

LEMMA PipelineStutter ==
    ASSUME PipelineInv, UNCHANGED vars
    PROVE  PipelineInv'
<1>1. UNCHANGED <<settings, call, tried, rag_enabled, pc, queue, stage,
                  payload, stream, row, log>>
  BY DEF vars
<1>2. Count' = Count /\ Done' = Done
  BY <1>1 DEF Count, Done
<1>3. LLMInv'
  BY <1>1, LLMStutterKeeps DEF PipelineInv, llmVars
<1>4. /\ Typed' /\ Where' /\ StatusOf' /\ Accounts' /\ Saved'
      /\ FailureIsRecorded'
  BY <1>1, <1>2 DEF PipelineInv, Typed, Where, StatusOf, Accounts, Saved,
                    FailureIsRecorded
<1>5. Asked' /\ StreamOf' /\ OnlyValidatedCompletions' /\ Evidence'
  <2>1. \A s \in Stages : /\ Grounded(s)' <=> Grounded(s)
                          /\ Searched(s)' <=> Searched(s)
    BY <1>1, <1>2 DEF Grounded, Searched
  <2>2. Asked' /\ StreamOf'
    BY <1>1, <1>2 DEF PipelineInv, Asked, Prompted, StreamOf, UsesLLM,
                      RunsHandler, Grounded
  <2>3. OnlyValidatedCompletions'
    BY <1>1 DEF PipelineInv, OnlyValidatedCompletions
  <2>4. Evidence'
    <3>1. Evidence
      BY DEF PipelineInv
    <3>2. Grounded(stage)' <=> Grounded(stage)
      BY <1>1 DEF Grounded
    <3> QED
      BY <1>1, <1>2, <2>1, <3>1, <3>2 DEF Evidence
  <2> QED
    BY <2>2, <2>3, <2>4
<1> QED
  BY <1>3, <1>4, <1>5 DEF PipelineInv

LEMMA PipelineInvariant == Spec => []PipelineInv
<1>1. PipelineInv /\ [Next]_vars => PipelineInv'
  BY PipelineStep, PipelineStutter
<1> QED
  BY <1>1, PipelineInit, PTL DEF Spec

\* The types of app/runtime/service.py's payload, of the stream, of the row
\* and of the events, and of app/llm/service.py's completion.
THEOREM PipelineTyped == Spec => []TypeOK
<1>1. PipelineInv => TypeOK
  BY DEF PipelineInv, LLMInv, Typed, TypeOK, Rows, Events
<1> QED
  BY <1>1, PipelineInvariant, PTL

\* complete of app/llm/service.py: at most max_retries + 1 attempts at the
\* provider and one at the fallback, in this order, whatever the settings and
\* whatever the providers answer.
THEOREM CompletionsAreBounded == Spec => []AttemptsAreBounded
<1>1. PipelineInv => AttemptsAreBounded
  BY DEF PipelineInv, LLMInv
<1> QED
  BY <1>1, PipelineInvariant, PTL

\* _complete_with_retries and _should_use_fallback: only a transient failure
\* is followed by another attempt, and a completion the service received is
\* never asked for again.
THEOREM RetriesAreTransient == Spec => []OnlyTransientFailuresAreFollowed
<1>1. PipelineInv => OnlyTransientFailuresAreFollowed
  BY DEF PipelineInv, LLMInv
<1> QED
  BY <1>1, PipelineInvariant, PTL

\* _complete_stage, _replace_stage_output and the node events: the accounts
\* of a run's progress agree, through the loop, a failure, the save and the
\* resume.
THEOREM ProgressAccountsAgree == Spec => []AccountsAgree
<1>1. PipelineInv => AccountsAgree
  <2> SUFFICES ASSUME PipelineInv PROVE AccountsAgree
    OBVIOUS
  <2>1. Typed /\ Where /\ Accounts /\ Saved
    BY DEF PipelineInv
  <2>2. IsPrefix(payload.completed, AllStages)
    BY <2>1, FirstStages DEF Where
  <2>3. Done = EventsOf("node.completed")
    BY <2>1 DEF Accounts, StagesIn, EventsOf
  <2>4. Done = {s \in Stages : payload.outputs[s].kind # "none"}
    BY <2>1, DoneStages, NothingTyped DEF Accounts
  <2>5. payload.failed \notin Done
    <3>1. CASE pc = "failed"
      BY <2>1, <3>1, StageUnderWay DEF Accounts, InStage
    <3>2. CASE pc # "failed"
      <4>1. "none" \notin Stages
        BY StagesListed
      <4> QED
        BY <2>1, <3>2, <4>1, DoneStages DEF Accounts
    <3> QED
      BY <3>1, <3>2
  <2>6. ASSUME pc \in {"waiting", "failed", "approved", "completed"}
        PROVE  /\ row.doc.completed = payload.completed
               /\ \A s \in Done :
                     row.sections[s].kind = payload.outputs[s].kind
    <3>1. row.doc.completed = payload.completed
      BY <2>1, <2>6 DEF Saved, Agree
    <3>2. CASE pc # "approved"
      BY <2>1, <2>6, <3>1, <3>2 DEF Saved
    <3>3. CASE pc = "approved"
      <4>1. /\ payload.outputs \in [Stages -> Outputs]
            /\ row.sections =
                  [payload.outputs EXCEPT !["approval"].decided = TRUE]
        BY <2>1, <3>3 DEF Saved, Typed, Payloads
      <4>2. \A s \in Stages :
               row.sections[s].kind = payload.outputs[s].kind
        BY <4>1 DEF Outputs
      <4> QED
        BY <2>1, <3>1, <4>2, DoneStages
    <3> QED
      BY <3>2, <3>3
  <2> QED
    BY <2>2, <2>3, <2>4, <2>5, <2>6 DEF AccountsAgree, Done
<1> QED
  BY <1>1, PipelineInvariant, PTL

\* apply_grounding and _apply_existing_grounding_to_stage_output: a stage's
\* finding is in its output and in the persisted section, and nothing else is.
THEOREM GroundingIsKept == Spec => []EvidenceIsKept
<1>1. PipelineInv => EvidenceIsKept
  <2> SUFFICES ASSUME PipelineInv, NEW s \in Done
               PROVE  /\ Grounded(s) <=> payload.rag[s] # "none"
                      /\ payload.outputs[s].evidence =
                            EvidenceOf(payload.rag[s])
                      /\ pc \in {"waiting", "approved", "completed"} =>
                            row.sections[s].evidence =
                               payload.outputs[s].evidence
    BY DEF EvidenceIsKept, EvidenceOf, Done
  <2>1. Typed /\ Evidence /\ Saved /\ s \in Stages
    BY DoneStages DEF PipelineInv
  <2>2. /\ Grounded(s) <=> payload.rag[s] # "none"
        /\ payload.outputs[s].evidence = EvidenceOf(payload.rag[s])
    BY <2>1 DEF Evidence, Searched
  <2>3. CASE pc \in {"waiting", "completed"}
    BY <2>1, <2>2, <2>3 DEF Saved
  <2>4. CASE pc = "approved"
    <3>1. /\ payload.outputs \in [Stages -> Outputs]
          /\ row.sections =
                [payload.outputs EXCEPT !["approval"].decided = TRUE]
      BY <2>1, <2>4 DEF Saved, Typed, Payloads
    <3>2. row.sections[s].evidence = payload.outputs[s].evidence
      BY <2>1, <3>1 DEF Outputs
    <3> QED
      BY <2>2, <3>2
  <2> QED
    BY <2>2, <2>3, <2>4
<1> QED
  BY <1>1, PipelineInvariant, PTL

\* run_stage of the LLM node executor: a model's output was written by the
\* provider or the fallback of the settings, never by the fake one, for a
\* stage that has a prompt.
THEOREM CompletionsAreValidated == Spec => []OnlyValidatedCompletions
<1>1. PipelineInv => OnlyValidatedCompletions
  BY DEF PipelineInv
<1> QED
  BY <1>1, PipelineInvariant, PTL

\* _handle_runtime_failure: the row of a failed run names the stage and is
\* FAILED, unless it is the approval stage's.
THEOREM FailuresAreRecorded == Spec => []FailureIsRecorded
<1>1. PipelineInv => FailureIsRecorded
  BY DEF PipelineInv
<1> QED
  BY <1>1, PipelineInvariant, PTL

\* No step of run_workflow or of resume_workflow_after_approval changes the
\* output of a stage that is completed, but for the decision.
THEOREM CompletedStagesStay == Spec => CompletedStagesAreFinal
<1>1. PipelineInv /\ [Next]_vars => [StagesStay]_vars
  BY PipelineStep
<1>2. [StagesStay]_vars =>
         [\A s \in Range(payload.completed) :
             /\ s \in Range(payload'.completed)
             /\ \/ payload'.outputs[s] = payload.outputs[s]
                \/ /\ s = "approval"
                   /\ payload'.outputs[s] =
                         [payload.outputs[s] EXCEPT !.decided = TRUE]]_vars
  BY DEF StagesStay, Done
<1> QED
  BY <1>1, <1>2, PipelineInvariant, PTL DEF Spec, CompletedStagesAreFinal
=============================================================================
