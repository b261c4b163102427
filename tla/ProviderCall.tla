---------------------------- MODULE ProviderCall ----------------------------
(***************************************************************************)
(* One call of a provider, from the caller's arguments to what the caller  *)
(* gets: the adapters the registry calls (src/providers/*_provider.py and  *)
(* sarvam_stt, sarvam_translate and sarvam_tts of src/sarvam_server.py) and*)
(* the services of the SimulMT stack, which call Bhashini directly and have*)
(* a fallback of their own (src/services).                                 *)
(***************************************************************************)
EXTENDS Integers, Sequences, SequencesExt

CONSTANTS
  MaxRetries,  \* MAX_RETRIES of the Bhashini client
  Transport,   \* ways a request fails without an answer (timeouts, connections)
  Retryable,   \* RETRYABLE_STATUS_CODES
  Refusals,    \* other statuses that are not a success
  BadRequest,  \* the one of them that a wrong language code or model gets
  None

\* LANGUAGE_CODE_MAP, by one language of each kind: Odia's code is not its own,
\* Assamese has a model of its own.
LanguageCodeMap == [hi |-> "hi-IN", or |-> "od-IN", as |-> "as-IN"]
Langs == DOMAIN LanguageCodeMap
Codes == {LanguageCodeMap[l] : l \in Langs}

\* REVERSE_LANGUAGE_CODE_MAP.get
DetectedLanguage(code) ==
  IF code \in Codes THEN CHOOSE l \in Langs : LanguageCodeMap[l] = code ELSE None

\* What Sarvam accepts: its codes, "unknown", and Assamese in one model only.
SarvamAccepts(request) ==
  /\ request.codes \subseteq Codes \cup {"unknown"}
  /\ "as-IN" \in request.codes => request.model # "mayura"

\* A success holds what was asked for ("result"), an object without it ("bare"),
\* JSON of another shape ("shape"), or what json() or b64decode cannot read.
Successes == {"result", "bare", "shape", "garbled"}
Answers == Transport \cup Retryable \cup Refusals \cup Successes
MayPass == Transport \cup Retryable

ASSUME CallAssumption ==
  /\ MaxRetries \in Nat \ {0}
  /\ Transport \cap Retryable = {} /\ (Transport \cup Retryable) \cap Refusals = {}
  /\ BadRequest \in Refusals
  /\ (Transport \cup Retryable \cup Refusals) \cap Successes = {}

Tasks == {"transcribe", "translate", "synthesize"}
Calls ==
  {c \in [caller : {"adapter", "service"}, provider : {"sarvam", "azure", "bhashini"},
          task : Tasks, lang : Langs \cup {None}, target : Langs] :
     /\ c.caller = "service" => c.provider = "bhashini"
     /\ c.lang = None => c.caller = "adapter" /\ c.task = "transcribe"
     /\ c.task # "translate" => c.target = "hi"}

VARIABLES
  call,        \* who asks whom for what; lang is the hint of a transcription
  spoken,      \* the language that is really spoken, if it is one of ours
  configured,  \* whether the credentials are set: the provider's for an adapter,
               \* the fallback's for a service
  pc,
  attempt,
  request,     \* the codes and the model of the last request
  answers,     \* what the provider answered, in order
  fellBack,    \* whether the fallback was called
  detected,    \* the language a transcription reports
  outcome      \* "pending", "answered" or "raised"

vars == <<call, spoken, configured, pc, attempt, request, answers, fellBack,
          detected, outcome>>
given == <<call, spoken, configured>>

NoRequest == [codes |-> {}, model |-> "none"]
Finished == {"answered", "refused", "escaped"}

\* The caller sees a ProviderError (of the client: a BhashiniAPIError, "refused")
\* or another exception ("escaped") as one that is raised.
End(how) ==
  /\ pc' = how
  /\ outcome' = IF how = "answered" THEN "answered" ELSE "raised"

Init ==
  /\ call \in Calls
  /\ spoken \in IF call.task = "transcribe" THEN Langs \cup {None} ELSE {None}
  /\ configured \in BOOLEAN
  /\ pc = "begin" /\ attempt = 1
  /\ request = NoRequest /\ answers = << >>
  /\ fellBack = FALSE /\ detected = None /\ outcome = "pending"

-----------------------------------------------------------------------------
\* Mutant of Sent: no model of its own for Assamese.
OneModel(c) ==
  [codes |-> {IF l = None THEN "unknown" ELSE LanguageCodeMap[l] :
                l \in IF c.task = "translate" THEN {c.lang, c.target} ELSE {c.lang}},
   model |-> "mayura"]

\* The codes of a Sarvam request; the others take the languages as they are.
Sent(c) ==
  LET codes == {IF l = None THEN "unknown" ELSE LanguageCodeMap[l] :
                  l \in IF c.task = "translate" THEN {c.lang, c.target} ELSE {c.lang}}
  IN  [codes |-> codes,
       model |-> IF c.task # "translate" \/ "as-IN" \in codes THEN "sarvam-translate" ELSE "mayura"]

\* Azure and Bhashini need credentials and, to transcribe, a language: without
\* them the adapter refuses before any request.  Blank text never leaves a
\* service, and the call of a service starts where it leaves.
Begin ==
  LET hopeless == ~configured \/ (call.task = "transcribe" /\ call.lang = None)
  IN  /\ pc = "begin"
      /\ IF call.caller = "adapter" /\ call.provider # "sarvam" /\ hopeless
         THEN End("refused") /\ UNCHANGED request
         ELSE pc' = "post" /\ request' = Sent(call) /\ UNCHANGED outcome
      /\ UNCHANGED <<given, attempt, answers, fellBack, detected>>

\* Only the Bhashini client asks again.
Attempts(c) == IF c.provider = "bhashini" THEN MaxRetries ELSE 1

\* What becomes of a success: Azure's voice is whatever the body holds; what is
\* no JSON or no base64 raises a ValueError that nobody translates; .get of what
\* is no object an AttributeError; Sarvam's texts default to "".
Reading(c, body) ==
  CASE c.provider = "azure" /\ c.task = "synthesize" -> "answered"
    [] body = "result" -> "answered"
    [] body = "garbled" -> "escaped"
    [] body = "shape" /\ c.provider = "sarvam" -> "escaped"
    [] body = "shape" /\ c.provider = "azure" /\ c.task = "transcribe" -> "escaped"
    [] body = "bare" /\ c.provider = "sarvam" /\ c.task # "synthesize" -> "answered"
    [] OTHER -> "failed"

\* Mutants of WhereTo: every error is retried; only the statuses are caught.
RetryEverything(c, a) ==
  IF a \in Successes THEN Reading(c, a)
  ELSE IF attempt < Attempts(c) THEN "backoff" ELSE "failed"
CatchStatusesOnly(c, a) ==
  IF a \in Successes THEN Reading(c, a)
  ELSE IF a \in MayPass /\ attempt < Attempts(c) THEN "backoff"
  ELSE IF a \in Transport THEN "escaped" ELSE "failed"

\* An answer that may pass is worth another attempt while there is one; a refusal,
\* and the last attempt, fail.
WhereTo(c, a) ==
  IF a \in Successes THEN Reading(c, a)
  ELSE IF a \in MayPass /\ attempt < Attempts(c) THEN "backoff" ELSE "failed"

\* The language a transcription reports: Sarvam's is the one it names, if it
\* names one; the others repeat the hint.
Reports(c, body) ==
  IF c.task # "transcribe" \/ c.caller = "service" THEN {None}
  ELSE IF c.provider # "sarvam" THEN {c.lang}
  ELSE IF body = "bare" THEN {None}
  ELSE {None, DetectedLanguage(IF spoken = None THEN "ur-IN" ELSE LanguageCodeMap[spoken])}

Post ==
  /\ pc = "post"
  /\ \E a \in Answers :
       /\ call.provider = "sarvam" => (a = BadRequest <=> ~SarvamAccepts(request))
       /\ answers' = Append(answers, a)
       /\ LET next == WhereTo(call, a)
          IN  IF next \in Finished THEN End(next) ELSE pc' = next /\ UNCHANGED outcome
       /\ IF WhereTo(call, a) = "answered" THEN detected' \in Reports(call, a)
          ELSE UNCHANGED detected
  /\ UNCHANGED <<given, attempt, request, fellBack>>

\* A sleep, whose length (0.5 s, then doubled) nothing depends on.
Backoff ==
  /\ pc = "backoff"
  /\ pc' = "post"
  /\ attempt' = attempt + 1
  /\ UNCHANGED <<given, request, answers, fellBack, detected, outcome>>

\* Mutant of GiveUp: the error is raised even where the fallback goes on.
RaiseAnyway ==
  /\ pc = "failed"
  /\ fellBack' = (call.caller = "service" /\ configured)
  /\ pc' = (IF fellBack' THEN "fallback" ELSE "refused") /\ outcome' = "raised"
  /\ UNCHANGED <<given, attempt, request, answers, detected>>

\* An adapter raises ProviderError; a service calls its fallback if that has a
\* key, and else raises what the client raised.
GiveUp ==
  /\ pc = "failed"
  /\ IF call.caller = "service" /\ configured
     THEN pc' = "fallback" /\ fellBack' = TRUE /\ UNCHANGED outcome
     ELSE End("refused") /\ UNCHANGED fellBack
  /\ UNCHANGED <<given, attempt, request, answers, detected>>

\* The fallback answers or raises, once.
Fallback ==
  /\ pc = "fallback"
  /\ End("answered") \/ End("escaped")
  /\ UNCHANGED <<given, attempt, request, answers, fellBack, detected>>

Next == Begin \/ Post \/ Backoff \/ GiveUp \/ Fallback

Spec == Init /\ [][Next]_vars

\* Requests time out after 20 or 30 s and sleeps end.
FairSpec == Spec /\ WF_vars(Next)

-----------------------------------------------------------------------------
TypeOK ==
  /\ call \in Calls /\ spoken \in Langs \cup {None}
  /\ {configured, fellBack} \subseteq BOOLEAN
  /\ pc \in {"begin", "post", "backoff", "failed", "fallback"} \cup Finished
  /\ attempt \in 1 .. Attempts(call)
  /\ answers \in Seq(Answers) /\ Len(answers) \in {attempt - 1, attempt}
  /\ detected \in Langs \cup {None}
  /\ outcome \in {"pending", "answered", "raised"}

\* A request is repeated only after an answer that may pass, and is given up only
\* when the answer cannot pass or the attempts are spent (_post_with_retry).
RetriedExactlyWhenUseful ==
  /\ \A i \in 1 .. Len(answers) - 1 : answers[i] \in MayPass
  /\ answers # << >> /\ (outcome = "raised" \/ fellBack) =>
       (Last(answers) \in MayPass => Len(answers) = Attempts(call))

\* Whatever goes wrong on the wire, a timeout, a lost connection or a status, is
\* the ProviderError that the registry fails over on, or reaches the fallback:
\* another exception needs a success that cannot be read.
FailuresAreProviderErrors ==
  pc = "escaped" /\ ~fellBack => Last(answers) \in {"shape", "garbled"}

\* The language map works both ways: no supported language is refused for its code
\* or the model it is sent to (Odia's code is not "or-IN", and mayura refuses
\* Assamese), and who transcribes without a hint reports the language that is
\* spoken, or none; never another one of the twelve.
LanguagesKeepTheirCodes ==
  /\ call.provider = "sarvam" => \A i \in DOMAIN answers : answers[i] # BadRequest
  /\ outcome = "answered" /\ call.task = "transcribe" /\ call.lang = None => detected \in {None, spoken}

\* Each call is one call to its caller: it ends, answered or raised, and never
\* both (Call is the view of SimulMtSession, where a service returns or raises).
Call == INSTANCE ServiceCall
IsOneCall == Call!FairSpec

-----------------------------------------------------------------------------
\* "Bhashini primary, Azure Speech optional fallback" (stt_service.py): a call
\* that raises although the fallback is configured has tried the fallback.
FallbackCoversFailures ==
  call.caller = "service" /\ outcome = "raised" /\ configured => fellBack

\* "Raised by any provider adapter on a failed call -- the registry catches this
\* specifically to decide whether to fail over" (base.py).
AdaptersRaiseProviderErrors == call.caller = "adapter" => pc # "escaped"
=============================================================================
