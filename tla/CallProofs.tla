----------------------------- MODULE CallProofs -----------------------------
(***************************************************************************)
(* Proofs about one call of a provider (ProviderCall), for any number of   *)
(* attempts and any sets of statuses: its type, what is retried, which     *)
(* errors leave it and what becomes of the languages.                      *)
(***************************************************************************)
EXTENDS ProviderCall, TLAPS

-----------------------------------------------------------------------------
(* The language map.                                                       *)

\* A code that stands for a language is read back as that language.
LEMMA DetectedIsSpoken ==
  ASSUME NEW l \in Langs
  PROVE  DetectedLanguage(LanguageCodeMap[l]) = l
<1>1. Langs = {"hi", "or", "as"}
  BY DEF Langs, LanguageCodeMap
<1>2. \A m \in Langs : LanguageCodeMap[m] = LanguageCodeMap[l] => m = l
  BY <1>1 DEF LanguageCodeMap
<1>3. LanguageCodeMap[l] \in Codes
  BY DEF Codes
<1>4. (CHOOSE m \in Langs : LanguageCodeMap[m] = LanguageCodeMap[l]) = l
  BY <1>2
<1> QED BY <1>3, <1>4 DEF DetectedLanguage

\* What is none of our languages is reported as none.
LEMMA UnknownIsNone == DetectedLanguage("ur-IN") = None
<1>1. Codes = {"hi-IN", "od-IN", "as-IN"}
  BY DEF Codes, Langs, LanguageCodeMap
<1> QED BY <1>1 DEF DetectedLanguage

\* Every request is one that Sarvam accepts.
LEMMA SentIsAccepted ==
  ASSUME NEW c \in Calls
  PROVE  SarvamAccepts(Sent(c))
<1> DEFINE asked == IF c.task = "translate" THEN {c.lang, c.target} ELSE {c.lang}
           codes == {IF l = None THEN "unknown" ELSE LanguageCodeMap[l] : l \in asked}
<1>1. Sent(c).codes = codes
  BY DEF Sent
<1>2. "as-IN" \in codes => Sent(c).model = "sarvam-translate"
  BY DEF Sent
<1>3. asked \subseteq Langs \cup {None}
  BY DEF Calls
<1>4. codes \subseteq Codes \cup {"unknown"}
  BY <1>3 DEF Codes
<1> QED BY <1>1, <1>2, <1>4 DEF SarvamAccepts

-----------------------------------------------------------------------------
(* The inductive invariant.                                                *)

\* Where the call is, and what that says of the answers so far: whatever is
\* asked again may pass, and what is given up was of no use or the last attempt.
Spent == answers # << >> /\ (Last(answers) \in MayPass => Len(answers) = Attempts(call))
Progress ==
  /\ \A i \in 1 .. Len(answers) - 1 : answers[i] \in MayPass
  /\ pc = "begin" => answers = << >> /\ attempt = 1
  /\ pc = "post" => Len(answers) = attempt - 1 /\ \A i \in 1 .. Len(answers) : answers[i] \in MayPass
  /\ pc = "backoff" => Len(answers) = attempt /\ Last(answers) \in MayPass /\ attempt < Attempts(call)
  /\ pc \in {"failed", "fallback", "answered"} => Len(answers) = attempt
  /\ pc \in {"failed", "fallback"} => Spent
  /\ pc \in {"refused", "escaped"} => (answers = << >> /\ attempt = 1) \/ (Len(answers) = attempt /\ Spent)
  /\ fellBack => Spent
  /\ pc \in {"begin", "post", "backoff", "failed"} => ~fellBack
  /\ pc = "fallback" => fellBack /\ call.caller = "service"
  /\ pc \in {"answered", "refused", "escaped"} <=> outcome # "pending"
  /\ pc = "answered" <=> outcome = "answered"

\* What has been asked of Sarvam and what has been heard.
Languages ==
  /\ pc \in {"post", "backoff"} => request = Sent(call)
  /\ LanguagesKeepTheirCodes

CallInv == TypeOK /\ Progress /\ Languages /\ FailuresAreProviderErrors

LEMMA CallInit == Init => CallInv
<1> SUFFICES ASSUME Init PROVE CallInv
  OBVIOUS
<1> USE DEF Init
<1>1. 1 \in 1 .. Attempts(call)
  BY CallAssumption DEF CallAssumption, Attempts
<1>2. TypeOK
  <2>1. answers \in Seq(Answers) /\ Len(answers) = 0
    OBVIOUS
  <2>2. spoken \in Langs \cup {None} /\ {configured, fellBack} \subseteq BOOLEAN
    OBVIOUS
  <2> QED BY <1>1, <2>1, <2>2 DEF TypeOK
<1>3. Progress /\ Languages /\ FailuresAreProviderErrors
  BY DEF Progress, Languages, LanguagesKeepTheirCodes, FailuresAreProviderErrors
<1> QED BY <1>2, <1>3 DEF CallInv

LEMMA WhereToType ==
  ASSUME NEW a \in Answers, NEW c
  PROVE  /\ WhereTo(c, a) \in {"backoff", "failed"} \cup Finished
         /\ WhereTo(c, a) # "refused"
         /\ WhereTo(c, a) = "backoff" => a \in MayPass /\ attempt < Attempts(c)
         /\ WhereTo(c, a) # "backoff" /\ a \in MayPass => ~ (attempt < Attempts(c)) \/ a \in Successes
         /\ WhereTo(c, a) = "escaped" => a \in {"shape", "garbled"}
<1>1. Reading(c, a) \in {"answered", "escaped", "failed"}
  BY DEF Reading
<1>2. Reading(c, a) = "escaped" => a \in {"shape", "garbled"}
  BY DEF Reading
<1> QED BY <1>1, <1>2 DEF WhereTo, Finished

LEMMA PostIsSound ==
  ASSUME CallInv, Post
  PROVE  CallInv'
<1> USE DEF CallInv
<1>1. PICK a \in Answers :
        /\ call.provider = "sarvam" => (a = BadRequest <=> ~SarvamAccepts(request))
        /\ answers' = Append(answers, a)
        /\ IF WhereTo(call, a) \in Finished THEN End(WhereTo(call, a))
           ELSE pc' = WhereTo(call, a) /\ UNCHANGED outcome
        /\ IF WhereTo(call, a) = "answered" THEN detected' \in Reports(call, a)
           ELSE UNCHANGED detected
  BY DEF Post
<1>2. pc = "post" /\ UNCHANGED <<given, attempt, request, fellBack>>
  BY DEF Post
<1>3. /\ answers \in Seq(Answers) /\ attempt \in 1 .. Attempts(call) /\ Len(answers) = attempt - 1
      /\ attempt \in Nat /\ Attempts(call) \in Nat
  BY <1>2, CallAssumption DEF TypeOK, Progress, Attempts, CallAssumption
<1>4. /\ answers' \in Seq(Answers) /\ Len(answers') = attempt /\ Last(answers') = a
      /\ \A i \in 1 .. Len(answers) : answers'[i] = answers[i]
      /\ answers' # << >> /\ answers'[attempt] = a
  BY <1>1, <1>3 DEF Last
<1>5. /\ pc' = WhereTo(call, a)
      /\ pc' \in {"backoff", "failed", "answered", "escaped"}
  BY <1>1, WhereToType DEF End, Finished
<1>6. /\ outcome = "pending" /\ ~fellBack
      /\ pc' \in {"backoff", "failed"} => outcome' = "pending"
      /\ pc' = "answered" => outcome' = "answered"
      /\ pc' = "escaped" => outcome' = "raised"
  BY <1>1, <1>2, <1>5 DEF Progress, End, Finished
<1>7. a \notin Successes \/ a \notin MayPass
  BY CallAssumption DEF CallAssumption, MayPass
<1>8. UNCHANGED Attempts(call)
  BY <1>2 DEF given
<1>9. detected' \in Langs \cup {None} /\ (pc' = "answered" /\ call.task = "transcribe" /\ call.lang = None => detected' \in {None, spoken})
  <2>1. CASE pc' # "answered"
    BY <2>1, <1>1, <1>5 DEF TypeOK
  <2>2. CASE pc' = "answered"
    <3>1. detected' \in Reports(call, a)
      BY <2>2, <1>1, <1>5
    <3>2. spoken # None => DetectedLanguage(LanguageCodeMap[spoken]) = spoken
      BY DetectedIsSpoken DEF TypeOK
    <3>3. call.lang \in Langs \cup {None} /\ spoken \in Langs \cup {None}
      BY DEF TypeOK, Calls
    <3> QED BY <3>1, <3>2, <3>3, UnknownIsNone DEF Reports
  <2> QED BY <2>1, <2>2
<1>10. TypeOK'
  BY <1>2, <1>3, <1>4, <1>5, <1>6, <1>8, <1>9 DEF TypeOK, given, Finished
<1>11. Progress'
  <2>1. \A i \in 1 .. Len(answers') - 1 : answers'[i] \in MayPass
    BY <1>2, <1>3, <1>4 DEF Progress
  <2>2. pc' = "backoff" => a \in MayPass /\ attempt < Attempts(call)
    BY <1>5, WhereToType
  <2>3. pc' # "backoff" => Spent'
    <3>1. ASSUME pc' # "backoff", a \in MayPass PROVE attempt = Attempts(call)
      BY <3>1, <1>3, <1>5, <1>7, WhereToType
    <3> QED BY <3>1, <1>4, <1>8 DEF Spent
  <2> QED BY <2>1, <2>2, <2>3, <1>2, <1>3, <1>4, <1>5, <1>6, <1>8 DEF Progress, given
<1>12. Languages'
  <2>1. call.provider = "sarvam" => a # BadRequest
    BY <1>1, <1>2, SentIsAccepted DEF Languages, TypeOK
  <2>2. call.provider = "sarvam" => \A i \in 1 .. Len(answers) : answers[i] # BadRequest
    BY <1>3 DEF Languages, LanguagesKeepTheirCodes
  <2>3. call.provider = "sarvam" => \A i \in DOMAIN answers' : answers'[i] # BadRequest
    <3>1. DOMAIN answers' = 1 .. attempt
      BY <1>4
    <3> QED BY <2>1, <2>2, <3>1, <1>3, <1>4
  <2> QED BY <2>3, <1>2, <1>5, <1>6, <1>9 DEF Languages, LanguagesKeepTheirCodes, given
<1>13. FailuresAreProviderErrors'
  BY <1>1, <1>4, <1>5, WhereToType DEF FailuresAreProviderErrors
<1> QED BY <1>10, <1>11, <1>12, <1>13

LEMMA CallStep == CallInv /\ [Next]_vars => CallInv'
<1> SUFFICES ASSUME CallInv, [Next]_vars PROVE CallInv'
  OBVIOUS
<1> USE DEF CallInv
<1>0. Attempts(call) \in Nat \ {0}
  BY CallAssumption DEF CallAssumption, Attempts
<1>1. CASE Begin
  <2>1. /\ pc = "begin" /\ UNCHANGED <<given, attempt, answers, fellBack, detected>>
        /\ \/ pc' = "refused" /\ outcome' = "raised" /\ UNCHANGED request
           \/ pc' = "post" /\ request' = Sent(call) /\ UNCHANGED outcome
    BY <1>1 DEF Begin, End
  <2>2. answers = << >> /\ attempt = 1 /\ ~fellBack /\ outcome = "pending"
    BY <2>1 DEF Progress
  <2>3. TypeOK'
    BY <2>1, <2>2 DEF TypeOK, given, Attempts, Finished
  <2>3a. Len(answers') = 0 /\ attempt' = 1 /\ answers' = << >> /\ ~fellBack'
    BY <2>1, <2>2
  <2>4. Progress'
    <3>1. CASE pc' = "refused" /\ outcome' = "raised"
      BY <2>3a, <3>1 DEF Progress
    <3>2. CASE pc' = "post" /\ UNCHANGED outcome
      BY <2>2, <2>3a, <3>2 DEF Progress
    <3> QED BY <2>1, <3>1, <3>2
  <2>5. Languages' /\ FailuresAreProviderErrors'
    BY <2>1, <2>2 DEF Languages, LanguagesKeepTheirCodes, FailuresAreProviderErrors, given
  <2> QED BY <2>3, <2>4, <2>5
<1>2. CASE Post
  BY <1>2, PostIsSound
<1>3. CASE Backoff
  <2>1. /\ pc = "backoff" /\ pc' = "post" /\ attempt' = attempt + 1
        /\ UNCHANGED <<given, request, answers, fellBack, detected, outcome>>
    BY <1>3 DEF Backoff
  <2>2. /\ Len(answers) = attempt /\ Last(answers) \in MayPass /\ attempt < Attempts(call)
        /\ answers \in Seq(Answers) /\ attempt \in Nat \ {0}
    BY <2>1, <1>0 DEF Progress, TypeOK
  <2>3. \A i \in 1 .. Len(answers) : answers[i] \in MayPass
    <3>1. answers[Len(answers)] \in MayPass
      BY <2>2 DEF Last
    <3> QED BY <2>2, <3>1 DEF Progress
  <2>4. TypeOK'
    BY <2>1, <2>2, <1>0 DEF TypeOK, given, Attempts, Finished
  <2>5. Progress'
    BY <2>1, <2>2, <2>3 DEF Progress, given, Spent, Attempts
  <2>6. request = Sent(call)
    BY <2>1 DEF Languages
  <2>7. Languages' /\ FailuresAreProviderErrors'
    BY <2>1, <2>6 DEF Languages, LanguagesKeepTheirCodes, FailuresAreProviderErrors, given
  <2> QED BY <2>4, <2>5, <2>7
<1>4. CASE GiveUp
  <2>1. /\ pc = "failed" /\ UNCHANGED <<given, attempt, request, answers, detected>>
        /\ \/ pc' = "fallback" /\ fellBack' = TRUE /\ UNCHANGED outcome
              /\ call.caller = "service"
           \/ pc' = "refused" /\ outcome' = "raised" /\ UNCHANGED fellBack
    BY <1>4 DEF GiveUp, End
  <2>2. TypeOK'
    BY <2>1 DEF TypeOK, given, Attempts, Finished
  <2>3. Progress'
    BY <2>1 DEF Progress, given, Spent, Attempts
  <2>4. Languages' /\ FailuresAreProviderErrors'
    BY <2>1 DEF Progress, Languages, LanguagesKeepTheirCodes, FailuresAreProviderErrors, given
  <2> QED BY <2>2, <2>3, <2>4
<1>5. CASE Fallback
  <2>1. /\ pc = "fallback" /\ UNCHANGED <<given, attempt, request, answers, fellBack, detected>>
        /\ \/ pc' = "answered" /\ outcome' = "answered"
           \/ pc' = "escaped" /\ outcome' = "raised"
    BY <1>5 DEF Fallback, End
  <2>2. TypeOK'
    BY <2>1 DEF TypeOK, given, Attempts, Finished
  <2>3. Progress'
    BY <2>1 DEF Progress, given, Spent, Attempts
  <2>4. call.task = "transcribe" => call.lang # None
    BY <2>1 DEF Progress, TypeOK, Calls
  <2>5. Languages' /\ FailuresAreProviderErrors'
    BY <2>1, <2>4 DEF Progress, Languages, LanguagesKeepTheirCodes, FailuresAreProviderErrors, given
  <2> QED BY <2>2, <2>3, <2>5
<1>6. CASE UNCHANGED vars
  BY <1>6 DEF vars, given, TypeOK, Progress, Languages, LanguagesKeepTheirCodes, FailuresAreProviderErrors, Spent, Attempts
<1> QED BY <1>1, <1>2, <1>3, <1>4, <1>5, <1>6 DEF Next

-----------------------------------------------------------------------------
LEMMA CallInvariant == Spec => []CallInv
<1> QED BY CallInit, CallStep, PTL DEF Spec

\* Every reachable state of a call is well-typed; in particular no call ever
\* makes more requests than its attempts (_post_with_retry).
THEOREM CallTypeCorrect == Spec => []TypeOK
<1>1. CallInv => TypeOK
  BY DEF CallInv
<1> QED BY <1>1, CallInvariant, PTL

\* A request is repeated only after an answer that may pass, and is given up
\* only when the answer cannot pass or the attempts are spent.
THEOREM RetriesAreExact == Spec => []RetriedExactlyWhenUseful
<1>1. CallInv => RetriedExactlyWhenUseful
  <2> SUFFICES ASSUME CallInv PROVE RetriedExactlyWhenUseful
    OBVIOUS
  <2>1. answers # << >> /\ outcome = "raised" => Spent
    <3> SUFFICES ASSUME answers # << >>, outcome = "raised" PROVE Spent
      OBVIOUS
    <3>1. pc \in {"refused", "escaped"}
      BY DEF CallInv, Progress
    <3> QED BY <3>1 DEF CallInv, Progress
  <2>2. fellBack => Spent
    BY DEF CallInv, Progress
  <2> QED BY <2>1, <2>2 DEF CallInv, Progress, RetriedExactlyWhenUseful, Spent
<1> QED BY <1>1, CallInvariant, PTL

\* Timeouts, lost connections and statuses all become the error that the
\* registry fails over on, or reach the fallback.
THEOREM ErrorsStayProviderErrors == Spec => []FailuresAreProviderErrors
<1>1. CallInv => FailuresAreProviderErrors
  BY DEF CallInv
<1> QED BY <1>1, CallInvariant, PTL

\* No language is refused for its code or its model, and none is reported as
\* another one.
THEOREM LanguagesAreKept == Spec => []LanguagesKeepTheirCodes
<1>1. CallInv => LanguagesKeepTheirCodes
  BY DEF CallInv, Languages
<1> QED BY <1>1, CallInvariant, PTL
-----------------------------------------------------------------------------
(* The view of a caller.                                                   *)

\* The safety part of IsOneCall: to its caller every call is one that is
\* pending and then returns or raises, once and for good.
THEOREM EveryCallIsOne == Spec => Call!Init /\ [][Call!Next]_outcome
<1>1. Init => Call!Init
  BY DEF Init, Call!Init
<1>2. CallInv /\ [Next]_vars => [Call!Next]_outcome
  <2> SUFFICES ASSUME CallInv, Next PROVE outcome' = outcome \/ Call!Next
    BY DEF vars
  <2> USE DEF Call!Next, Call!Return, Call!Throw
  <2>1. /\ pc \in {"begin", "post", "backoff", "failed", "fallback"} => outcome = "pending"
        /\ outcome \in {"pending", "answered", "raised"}
    BY DEF CallInv, Progress, TypeOK
  <2>2. \A how : End(how) => outcome' \in {"answered", "raised"}
    BY DEF End
  <2>3. CASE Begin
    BY <2>3, <2>1, <2>2 DEF Begin
  <2>4. CASE Post
    BY <2>4, <2>1, <2>2 DEF Post
  <2>5. CASE Backoff
    BY <2>5 DEF Backoff
  <2>6. CASE GiveUp
    BY <2>6, <2>1, <2>2 DEF GiveUp
  <2>7. CASE Fallback
    BY <2>7, <2>1, <2>2 DEF Fallback
  <2> QED BY <2>3, <2>4, <2>5, <2>6, <2>7 DEF Next
<1> QED BY <1>1, <1>2, CallInvariant, PTL DEF Spec
=============================================================================
