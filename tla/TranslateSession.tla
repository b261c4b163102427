-------------------------- MODULE TranslateSession --------------------------
(***************************************************************************)
(* One WebSocket connection of src/sarvam_server.py: websocket_translate   *)
(* (484-602) and the pipeline it runs per utterance, run_sarvam_pipeline   *)
(* (605-886), with the synthesis tasks the pipeline starts and the kill-   *)
(* switch of RuntimeState.                                                 *)
(*                                                                         *)
(* pc names the await the handler is at; an action is the await's result   *)
(* and everything up to the next await.  The provider registry and the FAQ *)
(* store are seen through their results (ProviderRegistry and FaqStore     *)
(* model them); audio is the number of the utterance it belongs to.        *)
(***************************************************************************)
EXTENDS RuntimeState, SequencesExt

CONSTANTS
  Langs,              \* SUPPORTED_LANGUAGES
  Operator,           \* src_lang, the help desk's language
  FirstVisitors,      \* the languages tgt_lang may name
  NoLang,             \* no detected language, or an unsupported one
  DbMayFail,          \* whether database calls may raise
  AdaptersMayRaise,   \* whether adapters raise other errors than ProviderError
  MaxMessages,        \* bound: messages of the client
  MaxSentences        \* bound: sentences of a reply

ASSUME SessionAssumption ==
  /\ Operator \in Langs
  /\ FirstVisitors \subseteq Langs
  /\ NoLang \notin Langs
  /\ {DbMayFail, AdaptersMayRaise} \subseteq BOOLEAN
  /\ {MaxMessages, MaxSentences} \subseteq Nat

VARIABLES
  gone,          \* the client has left
  spoken,        \* utterances the client has ended
  messages,      \* messages it has sent
  inbox,         \* what the server has not received yet
  buffer,        \* audio_buffer, as the set of utterances its audio is from
  pcm,           \* final_pcm
  pc,
  visitorLang,   \* visitor_lang of the connection
  turnLang,      \* visitor_lang of the pipeline
  src, tgt,      \* actual_src, actual_tgt
  heardLast,     \* the last language a visitor was heard speaking
  frames,        \* the frames sent for the current utterance
  sentences, at, \* how many sentences the reply has, and the current one
  task,          \* the synthesis of each sentence
  cost, billed,  \* calls the row will account for; calls providers answered
  rows,          \* rows logged for the current utterance
  endedAt        \* where an exception ended the handler

clientVars == <<gone, spoken, messages>>
turnVars   == <<turnLang, src, tgt, heardLast>>
replyVars  == <<sentences, at, task>>
logVars    == <<cost, billed, rows>>
vars == <<switchVars, clientVars, inbox, buffer, pcm, pc, visitorLang, turnVars,
          frames, replyVars, logVars, endedAt>>

Parts == 1 .. MaxSentences
NoTasks == [i \in Parts |-> "none"]

Frame(type) == [type |-> type, part |-> 0]
Audio(i) == [type |-> "audio", part |-> i]

Init ==
  /\ SwitchInit
  /\ gone = FALSE /\ spoken = 0 /\ messages = 0
  /\ inbox = << >>
  /\ buffer = {} /\ pcm = {}
  /\ pc = "connect"
  /\ visitorLang \in FirstVisitors
  /\ turnLang = visitorLang /\ heardLast = visitorLang
  /\ src = Operator /\ tgt = visitorLang
  /\ frames = << >>
  /\ sentences = 0 /\ at = 0
  /\ task = NoTasks
  /\ cost = 0 /\ billed = 0 /\ rows = 0
  /\ endedAt = "none"

-----------------------------------------------------------------------------
(* The client.                                                             *)

\* A message carries audio or none; "ignored" stands for text, empty messages
\* and unknown flags.
ClientSends(flag, withAudio) ==
  /\ ~gone /\ pc \notin {"connect", "accept", "closed"} /\ messages < MaxMessages
  /\ messages' = messages + 1
  /\ inbox' = Append(inbox, [flag |-> flag, audio |-> IF withAudio THEN {spoken + 1} ELSE {}])
  /\ spoken' = IF flag = "end" THEN spoken + 1 ELSE spoken
  /\ UNCHANGED <<switchVars, gone, buffer, pcm, pc, visitorLang, turnVars, frames,
                 replyVars, logVars, endedAt>>

ClientLeaves ==
  /\ ~gone /\ pc # "closed"
  /\ gone' = TRUE
  /\ inbox' = Append(inbox, [flag |-> "disconnect", audio |-> {}])
  /\ UNCHANGED <<switchVars, spoken, messages, buffer, pcm, pc, visitorLang, turnVars,
                 frames, replyVars, logVars, endedAt>>

-----------------------------------------------------------------------------
(* websocket_translate.                                                    *)

\* An unsupported language or a paused service closes the connection.
Connect ==
  /\ pc = "connect"
  /\ \/ pc' = "closed"
     \/ ~paused /\ pc' = "accept"
  /\ UNCHANGED <<switchVars, clientVars, inbox, buffer, pcm, visitorLang, turnVars, frames,
                 replyVars, logVars, endedAt>>

\* Devices that name themselves are recorded.
Accept ==
  /\ pc = "accept"
  /\ pc' \in {"device", "greet"}
  /\ UNCHANGED <<switchVars, clientVars, inbox, buffer, pcm, visitorLang, turnVars, frames,
                 replyVars, logVars, endedAt>>

RecordDevice ==
  /\ pc = "device"
  /\ pc' = "greet"
  /\ UNCHANGED <<switchVars, clientVars, inbox, buffer, pcm, visitorLang, turnVars, frames,
                 replyVars, logVars, endedAt>>

Message == Head(inbox)
Received(flag) == pc = "receive" /\ inbox # << >> /\ Message.flag = flag

ReceiveOther ==
  /\ \/ Received("disconnect") /\ pc' = "closed"
     \/ Received("heartbeat") /\ pc' = "pong"
     \/ Received("ignored") /\ UNCHANGED pc
  /\ inbox' = Tail(inbox)
  /\ UNCHANGED <<switchVars, clientVars, buffer, pcm, visitorLang, turnVars, frames,
                 replyVars, logVars, endedAt>>

ReceiveChunk ==
  /\ Received("chunk")
  /\ inbox' = Tail(inbox)
  /\ buffer' = buffer \cup Message.audio
  /\ UNCHANGED <<switchVars, clientVars, pcm, pc, visitorLang, turnVars, frames,
                 replyVars, logVars, endedAt>>

\* Mutant of Begin: the audio of a refused utterance stays in the buffer.
BeginKeepsRefused(audio) ==
  IF audio = {} THEN UNCHANGED pc /\ buffer' = {}
  ELSE IF paused THEN pc' = "refuse" /\ buffer' = audio
  ELSE pc' = "stt" /\ buffer' = {}

\* Nothing was said, the service is paused, or the pipeline starts.
Begin(audio) ==
  /\ pc' = IF audio = {} THEN pc ELSE IF paused THEN "refuse" ELSE "stt"
  /\ buffer' = {}

ReceiveEnd ==
  /\ Received("end")
  /\ inbox' = Tail(inbox)
  /\ Begin(buffer \cup Message.audio)
  /\ IF pc' = "stt"
     THEN /\ pcm' = buffer \cup Message.audio
          /\ turnLang' = visitorLang
          /\ frames' = << >> /\ cost' = 0 /\ billed' = 0 /\ rows' = 0
          /\ sentences' = 0 /\ at' = 0 /\ task' = NoTasks
     ELSE UNCHANGED <<pcm, turnLang, frames, replyVars, logVars>>
  /\ UNCHANGED <<switchVars, clientVars, visitorLang, src, tgt, heardLast, endedAt>>

-----------------------------------------------------------------------------
(* run_sarvam_pipeline: what is awaited before the reply.                  *)

\* The calls that were answered are billed, and accounted for.
Pays(n) == cost' = cost + n /\ billed' = billed + n /\ UNCHANGED rows

SttFails ==
  /\ pc = "stt"
  /\ pc' = "error"
  /\ UNCHANGED <<switchVars, clientVars, inbox, buffer, pcm, visitorLang, turnVars,
                 frames, replyVars, logVars, endedAt>>

SttHearsNothing ==
  /\ pc = "stt"
  /\ pc' = "noSpeech"
  /\ Pays(1)
  /\ UNCHANGED <<switchVars, clientVars, inbox, buffer, pcm, visitorLang, turnVars,
                 frames, replyVars, endedAt>>

\* A supported language other than the operator's is the visitor's from now on;
\* an unusable one falls back to the operator's side.
SttHears(detected) ==
  /\ pc = "stt"
  /\ pc' = "transcript"
  /\ Pays(1)
  /\ IF detected \in Langs \ {Operator}
     THEN src' = detected /\ tgt' = Operator /\ turnLang' = detected /\ heardLast' = detected
     ELSE src' = Operator /\ tgt' = turnLang /\ UNCHANGED <<turnLang, heardLast>>
  /\ UNCHANGED <<switchVars, clientVars, inbox, buffer, pcm, visitorLang, frames,
                 replyVars, endedAt>>

\* Mutant of ResolveAnswer: the price of the operator's copy is not added.
OperatorCopyUnpaid ==
  /\ \/ pc = "resolve" /\ pc' = "faqTranslation"
     \/ pc = "resolveOperator" /\ pc' = "operatorTranslation"
  /\ \E n \in {0, 1} :
       billed' = billed + n /\ cost' = cost + (IF pc = "resolve" THEN n ELSE 0)
  /\ UNCHANGED <<switchVars, clientVars, inbox, buffer, pcm, visitorLang, turnVars, frames,
                 replyVars, rows, endedAt>>

\* An FAQ answer is in memory, or translated at a price, or falls back.
ResolveAnswer ==
  /\ \/ pc = "resolve" /\ pc' = "faqTranslation"
     \/ pc = "resolveOperator" /\ pc' = "operatorTranslation"
  /\ \E n \in {0, 1} : Pays(n)
  /\ UNCHANGED <<switchVars, clientVars, inbox, buffer, pcm, visitorLang, turnVars, frames,
                 replyVars, endedAt>>

\* get_faq_audio: from the cache, synthesized, or the synthesis failed.
VoiceAnswer ==
  /\ pc = "faqAudio"
  /\ \/ pc' = "faqChunks" /\ \E n \in {0, 1} : Pays(n)
     \/ pc' = "error" /\ UNCHANGED logVars
  /\ UNCHANGED <<switchVars, clientVars, inbox, buffer, pcm, visitorLang, turnVars, frames,
                 replyVars, endedAt>>

\* The general translation cache, the translation, and saving it.
LookUpTranslation ==
  /\ pc = "lookupTranslation"
  /\ pc' \in {"translation", "translate"}
  /\ UNCHANGED <<switchVars, clientVars, inbox, buffer, pcm, visitorLang, turnVars, frames,
                 replyVars, logVars, endedAt>>

Translate ==
  /\ pc = "translate"
  /\ \/ pc' = "error" /\ UNCHANGED logVars
     \/ pc' \in {"error", "saveTranslation"} /\ Pays(1)
  /\ UNCHANGED <<switchVars, clientVars, inbox, buffer, pcm, visitorLang, turnVars, frames,
                 replyVars, endedAt>>

SaveTranslation ==
  /\ pc = "saveTranslation"
  /\ pc' = "translation"
  /\ UNCHANGED <<switchVars, clientVars, inbox, buffer, pcm, visitorLang, turnVars, frames,
                 replyVars, logVars, endedAt>>

-----------------------------------------------------------------------------
(* Frames.                                                                 *)

\* What is sent at each send, and where the handler goes from there; the match
\* against the knowledge pack happens between the transcript and what follows.
Sent ==
  [greet |-> "connected", pong |-> "pong", refuse |-> "error", error |-> "error",
   noSpeech |-> "no_speech", transcript |-> "transcript", faqTranslation |-> "translation",
   operatorTranslation |-> "operator_translation", ttsEnd |-> "tts_end"]

After ==
  CASE pc \in {"greet", "pong", "refuse"} -> {"receive"}
    [] pc \in {"error", "noSpeech", "ttsEnd"} -> {"log"}
    [] pc = "transcript" ->
         {"resolve", IF src = tgt THEN "translation" ELSE "lookupTranslation"}
    [] pc = "faqTranslation" -> {IF src # Operator THEN "resolveOperator" ELSE "faqAudio"}
    [] pc = "operatorTranslation" -> {"faqAudio"}

Send ==
  /\ pc \in DOMAIN Sent
  /\ pc' \in After
  /\ frames' = IF pc \in {"greet", "pong", "refuse"} THEN frames
               ELSE Append(frames, Frame(Sent[pc]))
  /\ UNCHANGED <<switchVars, clientVars, inbox, buffer, pcm, visitorLang, turnVars,
                 replyVars, logVars, endedAt>>

\* The translation frame of a reply that is not an FAQ answer; then the reply
\* is split into sentences.
SendTranslation ==
  /\ pc = "translation"
  /\ pc' = "lookupSound"
  /\ frames' = Append(frames, Frame("translation"))
  /\ sentences' \in Parts /\ at' = 1
  /\ UNCHANGED <<switchVars, clientVars, inbox, buffer, pcm, visitorLang, turnVars, task,
                 logVars, endedAt>>

SendFaqChunks ==
  /\ pc = "faqChunks"
  /\ pc' = "ttsEnd"
  /\ frames' = Append(frames, Audio(1))
  /\ UNCHANGED <<switchVars, clientVars, inbox, buffer, pcm, visitorLang, turnVars,
                 replyVars, logVars, endedAt>>

-----------------------------------------------------------------------------
(* The sentences: every cache lookup first, then the audio in order.       *)

\* A miss starts a task.
LookUpSound ==
  /\ pc = "lookupSound"
  /\ \E found \in {"cached", "running"} : task' = [task EXCEPT ![at] = found]
  /\ IF at < sentences THEN at' = at + 1 /\ UNCHANGED pc
                       ELSE at' = 1 /\ pc' = "speak"
  /\ UNCHANGED <<switchVars, clientVars, inbox, buffer, pcm, visitorLang, turnVars, frames,
                 sentences, logVars, endedAt>>

\* A task ends on its own, whatever the handler is doing.
TaskEnds(i) ==
  /\ task[i] = "running"
  /\ \/ task' = [task EXCEPT ![i] = "ok"] /\ billed' = billed + 1
     \/ task' = [task EXCEPT ![i] = "failed"] /\ UNCHANGED billed
     \/ AdaptersMayRaise /\ task' = [task EXCEPT ![i] = "raised"] /\ UNCHANGED billed
  /\ UNCHANGED <<switchVars, clientVars, inbox, buffer, pcm, pc, visitorLang, turnVars,
                 frames, sentences, at, cost, rows, endedAt>>

\* Mutant of AwaitTask: a failed task is awaited forever.
AwaitOnlySuccess ==
  /\ pc = "speak"
  /\ \/ task[at] = "cached" /\ pc' = "audio" /\ UNCHANGED cost
     \/ task[at] = "ok" /\ pc' = "saveSound" /\ cost' = cost + 1
  /\ UNCHANGED <<switchVars, clientVars, inbox, buffer, pcm, visitorLang, turnVars, frames,
                 replyVars, billed, rows, endedAt>>

AwaitTask ==
  /\ pc = "speak"
  /\ \/ task[at] = "cached" /\ pc' = "audio" /\ UNCHANGED cost
     \/ task[at] = "ok" /\ pc' = "saveSound" /\ cost' = cost + 1
     \/ task[at] = "failed" /\ pc' = "error" /\ UNCHANGED cost
  /\ UNCHANGED <<switchVars, clientVars, inbox, buffer, pcm, visitorLang, turnVars, frames,
                 replyVars, billed, rows, endedAt>>

SaveSound ==
  /\ pc = "saveSound"
  /\ pc' = "audio"
  /\ UNCHANGED <<switchVars, clientVars, inbox, buffer, pcm, visitorLang, turnVars, frames,
                 replyVars, logVars, endedAt>>

\* Mutant of NextSentence: the end is announced after the first sentence.
EndEverySentence == at' = at /\ pc' = "ttsEnd"

NextSentence ==
  IF at < sentences THEN at' = at + 1 /\ pc' = "speak"
                    ELSE pc' = "ttsEnd" /\ UNCHANGED at

SendAudio ==
  /\ pc = "audio"
  /\ frames' = Append(frames, Audio(at))
  /\ NextSentence
  /\ UNCHANGED <<switchVars, clientVars, inbox, buffer, pcm, visitorLang, turnVars,
                 sentences, task, logVars, endedAt>>

-----------------------------------------------------------------------------
(* The end of the pipeline.                                                *)

Running == {i \in Parts : task[i] = "running"}
Cancelled == [i \in Parts |-> IF i \in Running THEN "cancelled" ELSE task[i]]

\* Mutants of Log: the running tasks are left alone; the language the pipeline
\* returns is dropped.
LogLeavesTasks ==
  /\ pc = "log"
  /\ pc' = "receive"
  /\ rows' = rows + 1
  /\ visitorLang' = turnLang
  /\ UNCHANGED <<switchVars, clientVars, inbox, buffer, pcm, turnVars, frames, replyVars,
                 cost, billed, endedAt>>

LogForgetsVisitor ==
  /\ pc = "log"
  /\ pc' = "receive"
  /\ rows' = rows + 1
  /\ task' = Cancelled
  /\ UNCHANGED <<switchVars, clientVars, inbox, buffer, pcm, visitorLang, turnVars, frames,
                 sentences, at, cost, billed, endedAt>>

\* The row, the finally that cancels what still runs, and the return.
Log ==
  /\ pc = "log"
  /\ pc' = "receive"
  /\ rows' = rows + 1
  /\ task' = Cancelled
  /\ visitorLang' = turnLang
  /\ UNCHANGED <<switchVars, clientVars, inbox, buffer, pcm, turnVars, frames, sentences, at,
                 cost, billed, endedAt>>

Sending == DOMAIN Sent \cup {"accept", "translation", "faqChunks", "audio"}
Querying == {"device", "resolve", "resolveOperator", "faqAudio", "lookupTranslation",
             "saveTranslation", "lookupSound", "saveSound", "log"}
Calling == {"stt", "resolve", "resolveOperator", "faqAudio", "translate"}

\* An exception leaves the pipeline and ends the connection.  The cache lookups
\* are outside the try whose finally cancels the tasks.
Raise ==
  /\ \/ pc \in Sending /\ gone
     \/ pc \in Querying /\ DbMayFail
     \/ pc \in Calling /\ AdaptersMayRaise
     \/ pc = "speak" /\ task[at] = "raised"
  /\ pc' = "closed"
  /\ endedAt' = pc
  /\ task' = IF pc = "lookupSound" THEN task ELSE Cancelled
  /\ UNCHANGED <<switchVars, clientVars, inbox, buffer, pcm, visitorLang, turnVars, frames,
                 sentences, at, logVars>>

-----------------------------------------------------------------------------
\* The server restarts: the connection is lost with everything in memory.
Restart ==
  /\ ReloadPaused
  /\ pc' = "closed"
  /\ task' = NoTasks
  /\ UNCHANGED <<clientVars, inbox, buffer, pcm, visitorLang, turnVars, frames, sentences,
                 at, logVars, endedAt>>

Pipeline ==
  \/ SttFails \/ SttHearsNothing \/ \E detected \in Langs \cup {NoLang} : SttHears(detected)
  \/ ResolveAnswer \/ VoiceAnswer
  \/ LookUpTranslation \/ Translate \/ SaveTranslation \/ SendTranslation \/ SendFaqChunks
  \/ LookUpSound \/ AwaitTask \/ SaveSound \/ SendAudio
  \/ Log

Handler ==
  \/ Connect \/ Accept \/ RecordDevice
  \/ ReceiveOther \/ ReceiveChunk \/ ReceiveEnd
  \/ Pipeline \/ Send \/ Raise

Client ==
  \/ \E flag \in {"heartbeat", "chunk", "end", "ignored"}, withAudio \in BOOLEAN :
       ClientSends(flag, withAudio)
  \/ ClientLeaves

Switch == (\E t \in Toggles : Toggle(t)) /\ UNCHANGED
  <<clientVars, inbox, buffer, pcm, pc, visitorLang, turnVars, frames, replyVars, logVars, endedAt>>

Next == Handler \/ (\E i \in Parts : TaskEnds(i)) \/ Client \/ Switch \/ Restart

Spec == Init /\ [][Next]_vars

\* The handler and its tasks go on whenever they can: database calls return or
\* raise, providers answer within their timeouts.  Nobody has to speak.
FairSpec == Spec /\ WF_vars(Handler) /\ \A i \in Parts : WF_vars(TaskEnds(i))

-----------------------------------------------------------------------------
Points == DOMAIN Sent \cup Querying \cup Calling \cup
  {"connect", "accept", "receive", "translation", "faqChunks", "speak", "audio", "closed"}

Messages == [flag : {"heartbeat", "chunk", "end", "ignored", "disconnect"},
             audio : SUBSET (1 .. MaxMessages)]
FrameTypes == [type : {"translation", "audio"} \cup {Sent[p] : p \in DOMAIN Sent}, part : Nat]
TaskStates == {"none", "cached", "running", "ok", "failed", "raised", "cancelled"}

TypeOK ==
  /\ SwitchTypeOK
  /\ gone \in BOOLEAN /\ {spoken, messages, cost, billed, rows} \subseteq Nat
  /\ spoken <= messages /\ messages <= MaxMessages
  /\ inbox \in Seq(Messages)
  /\ {buffer, pcm} \subseteq SUBSET (1 .. MaxMessages)
  /\ pc \in Points /\ endedAt \in Points \cup {"none"}
  /\ {visitorLang, turnLang, src, tgt, heardLast} \subseteq Langs
  /\ frames \in Seq(FrameTypes)
  /\ sentences \in 0 .. MaxSentences /\ at \in 0 .. sentences
  /\ task \in [Parts -> TaskStates]

\* The audio a pipeline transcribes is one utterance's: chunks of an utterance
\* refused while paused, or cut by an empty end, never reach a later one.
OneUtterancePerPipeline == Cardinality(pcm) <= 1

\* The frames of one reply: an error or silence, or a transcript and then an
\* error, or the translation and the audio of all its sentences in order and one
\* end, or of some and an error; an FAQ answer is one piece of audio, after the
\* operator's copy if a visitor asked.
Voice(n) == [i \in 1 .. n |-> Audio(i)]
Replies ==
  LET ending(n, last) == Voice(n) \o <<Frame(last)>>
      opening == <<Frame("transcript"), Frame("translation")>>
      answers == {ending(1, "tts_end"), ending(0, "error")}
  IN  IF sentences > 0
      THEN {opening \o ending(sentences, "tts_end")}
           \cup {opening \o ending(n, "error") : n \in 0 .. sentences - 1}
      ELSE {<<Frame("error")>>, <<Frame("no_speech")>>, <<Frame("transcript"), Frame("error")>>}
           \cup {opening \o a : a \in answers}
           \cup {opening \o <<Frame("operator_translation")>> \o a : a \in answers}

\* At every moment the client has seen the beginning of a well-formed reply, and
\* when the server listens again it has seen all of it.
RepliesWellFormed ==
  /\ \E r \in Replies : IsPrefix(frames, r)
  /\ pc = "receive" /\ frames # << >> => frames \in Replies

\* An utterance whose pipeline returned left exactly one row of analytics, and
\* unless a synthesis failed the row accounts for every call that was billed.
OneRowPerReply ==
  pc = "receive" /\ frames # << >> =>
    /\ rows = 1
    /\ (\A i \in Parts : task[i] # "failed") => cost = billed

\* Once a visitor was heard speaking a language, the operator is answered into
\* that language, however many utterances, errors and undetected ones later.
OperatorReachesVisitor == pc = "translation" /\ src = Operator => tgt = heardLast

\* No synthesis outlives the reply it was started for, unless a cache lookup
\* raised while the tasks were being started.
NoOrphanedTasks ==
  pc \in {"receive", "closed"} /\ endedAt # "lookupSound" => Running = {}

\* Every utterance that reaches the pipeline is answered or ends the connection,
\* whichever synthesis tasks fail and whatever the administrator switches.
EveryUtteranceEnds == pc = "stt" ~> pc \in {"receive", "closed"}

\* However many administrators toggle at once, and whatever crossings, failed
\* UPDATEs and restarts lie behind: when the flag was last set, its UPDATE did not
\* fail and no other one was then storing the opposite, the flag is what a restart
\* will read ("backed by Postgres so it survives a container restart").
UncontestedSwitchSurvives ==
  /\ ~contested
  /\ \A t \in Toggles : togglePc[t] # "storing"
  /\ \A t \in latest : togglePc[t] = "idle"
  => paused = dbPaused
=============================================================================
