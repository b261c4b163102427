---------------------------- MODULE SessionProofs ----------------------------
(***************************************************************************)
(* Proofs about the connection and its pipeline (TranslateSession), for    *)
(* any languages, messages, sentences, and errors of database and          *)
(* adapters: types, the audio of utterances, languages, synthesis tasks,   *)
(* the frames of a reply and what its row accounts for; and, for one       *)
(* administrator, the kill-switch.                                         *)
(***************************************************************************)
EXTENDS TranslateSession, FiniteSetTheorems, SequenceTheorems, TLAPS

-----------------------------------------------------------------------------
(* Types.                                                                  *)

\* While sentences are looked up and spoken there is a current one.
SentencesFit == pc \in {"lookupSound", "speak", "saveSound", "audio"} => at >= 1

LEMMA PointsAre ==
  Points = {"greet", "pong", "refuse", "error", "noSpeech", "transcript", "faqTranslation",
            "operatorTranslation", "ttsEnd", "device", "resolve", "resolveOperator", "faqAudio",
            "lookupTranslation", "saveTranslation", "lookupSound", "saveSound", "log", "stt",
            "translate", "connect", "accept", "receive", "translation", "faqChunks", "speak",
            "audio", "closed"}
BY DEF Points, Sent, Querying, Calling

LEMMA OneLess ==
  ASSUME NEW S, NEW s \in Seq(S), s # << >>
  PROVE  Head(s) \in S /\ Tail(s) \in Seq(S)
OBVIOUS

LEMMA OneMore ==
  ASSUME NEW S, NEW s \in Seq(S), NEW e \in S
  PROVE  Append(s, e) \in Seq(S)
OBVIOUS

LEMMA FramesAre ==
  /\ \A i \in Nat : Audio(i) \in FrameTypes
  /\ Frame("translation") \in FrameTypes
  /\ \A p \in DOMAIN Sent : Frame(Sent[p]) \in FrameTypes
<1>1. \A i \in Nat : Audio(i) \in FrameTypes
  BY DEF Audio, FrameTypes
<1>2. Frame("translation") \in FrameTypes
  BY DEF Frame, FrameTypes
<1>3. \A p \in DOMAIN Sent : Frame(Sent[p]) \in FrameTypes
  BY DEF Frame, FrameTypes
<1> QED BY <1>1, <1>2, <1>3

LEMMA HeadIsMessage ==
  ASSUME inbox \in Seq(Messages), inbox # << >>
  PROVE  /\ Message \in Messages /\ Tail(inbox) \in Seq(Messages)
         /\ Message.audio \in SUBSET (1 .. MaxMessages)
<1>1. Message \in Messages /\ Tail(inbox) \in Seq(Messages)
  BY OneLess DEF Message
<1> QED BY <1>1 DEF Messages

LEMMA WhereNext ==
  ASSUME pc \in DOMAIN Sent, pc' \in After
  PROVE  pc' \in {"receive", "log", "resolve", "translation", "lookupTranslation",
                  "resolveOperator", "faqAudio"}
BY DEF Sent, After

LEMMA TypeStep == TypeOK /\ SentencesFit /\ [Next]_vars => TypeOK' /\ SentencesFit'
<1> SUFFICES ASSUME TypeOK, SentencesFit, [Next]_vars PROVE TypeOK' /\ SentencesFit'
  OBVIOUS
<1>a. /\ Operator \in Langs /\ NoLang \notin Langs
      /\ MaxMessages \in Nat /\ MaxSentences \in Nat
  BY SessionAssumption DEF SessionAssumption
<1>b. frames \in Seq(FrameTypes) /\ inbox \in Seq(Messages)
  BY DEF TypeOK
<1> USE PointsAre DEF TypeOK, TaskStates, SentencesFit, SwitchTypeOK, switchVars, clientVars,
                     turnVars, replyVars, logVars
<1>1. CASE Connect
  BY <1>1, <1>a DEF Connect
<1>2. CASE Accept
  BY <1>2, <1>a DEF Accept
<1>3. CASE RecordDevice
  BY <1>3, <1>a DEF RecordDevice
<1>4. CASE ReceiveOther
  BY <1>4, <1>a DEF ReceiveOther, Message, Received
<1>5. CASE SttFails
  BY <1>5, <1>a DEF SttFails
<1>6. CASE SttHearsNothing
  BY <1>6, <1>a DEF SttHearsNothing, Pays
<1>7. CASE ResolveAnswer
  <2>1. cost' \in Nat /\ billed' \in Nat /\ UNCHANGED rows
    BY <1>7, SMTT(30) DEF ResolveAnswer, Pays
  <2> QED BY <1>7, <2>1 DEF ResolveAnswer
<1>8. CASE VoiceAnswer
  BY <1>8, <1>a, SMTT(30) DEF VoiceAnswer, Pays
<1>9. CASE LookUpTranslation
  BY <1>9, <1>a DEF LookUpTranslation
<1>10. CASE Translate
  BY <1>10, <1>a, SMTT(30) DEF Translate, Pays
<1>11. CASE SaveTranslation
  BY <1>11, <1>a DEF SaveTranslation
<1>12. CASE AwaitTask
  BY <1>12, <1>a DEF AwaitTask
<1>13. CASE SaveSound
  BY <1>13, <1>a DEF SaveSound
<1>14. CASE ClientLeaves
  <2>1. [flag |-> "disconnect", audio |-> {}] \in Messages
    BY DEF Messages
  <2>2. inbox' = Append(inbox, [flag |-> "disconnect", audio |-> {}])
    BY <1>14 DEF ClientLeaves
  <2>3. inbox' \in Seq(Messages)
    BY <2>1, <2>2, <1>b, OneMore
  <2> QED BY <1>14, <2>3 DEF ClientLeaves
<1>15. CASE Log
  BY <1>15, <1>a DEF Log, Running, Cancelled, Parts
<1>16. CASE Raise
  BY <1>16, <1>a DEF Raise, Sending, Querying, Calling, Running, Cancelled, Parts, Sent
<1>17. CASE Switch
  BY <1>17, <1>a DEF Switch, Toggle, SetPaused, StorePaused, StoreFails, StoringEnds
<1>18. CASE Restart
  BY <1>18, <1>a DEF Restart, ReloadPaused, NoTasks, Parts
<1>19. ASSUME NEW detected \in Langs \cup {NoLang}, SttHears(detected)
       PROVE  TypeOK' /\ SentencesFit'
  BY <1>19, <1>a DEF SttHears, Pays
<1>20. CASE ReceiveChunk
  <2>0. inbox # << >> /\ inbox' = Tail(inbox)
    BY <1>20 DEF ReceiveChunk, Received
  <2>1. Message.audio \in SUBSET (1 .. MaxMessages)
    BY <2>0, <1>b, HeadIsMessage
  <2>2. inbox' \in Seq(Messages)
    BY <2>0, <1>b, HeadIsMessage
  <2> QED BY <1>20, <1>a, <2>1, <2>2 DEF ReceiveChunk, Received
<1>21. CASE ReceiveEnd
  <2>0. inbox # << >> /\ inbox' = Tail(inbox)
    BY <1>21 DEF ReceiveEnd, Received
  <2>1. Message.audio \in SUBSET (1 .. MaxMessages)
    BY <2>0, <1>b, HeadIsMessage
  <2>2. inbox' \in Seq(Messages)
    BY <2>0, <1>b, HeadIsMessage
  <2>3. pc' \in {"receive", "refuse", "stt"} /\ buffer' = {}
    BY <1>21 DEF ReceiveEnd, Received, Begin
  <2>4. CASE pc' = "stt"
    <3>1. frames' = << >> /\ task' = NoTasks /\ pcm' \in SUBSET (1 .. MaxMessages)
      BY <1>21, <2>1, <2>4 DEF ReceiveEnd
    <3>2. frames' \in Seq(FrameTypes) /\ task' \in [Parts -> TaskStates]
      BY <3>1 DEF NoTasks
    <3> QED BY <1>21, <1>a, <2>2, <2>3, <2>4, <3>1, <3>2 DEF ReceiveEnd
  <2>5. CASE pc' # "stt"
    BY <1>21, <1>a, <2>2, <2>3, <2>5 DEF ReceiveEnd
  <2> QED BY <2>4, <2>5
<1>22. CASE SendTranslation
  <2>1. frames' \in Seq(FrameTypes)
    <3>1. frames' = Append(frames, Frame("translation"))
      BY <1>22 DEF SendTranslation
    <3> QED BY <3>1, <1>b, FramesAre, OneMore
  <2> QED BY <1>22, <1>a, <2>1 DEF SendTranslation, Parts
<1>23. CASE SendFaqChunks
  <2>1. frames' \in Seq(FrameTypes)
    <3>1. frames' = Append(frames, Audio(1))
      BY <1>23 DEF SendFaqChunks
    <3> QED BY <3>1, <1>b, FramesAre, OneMore
  <2> QED BY <1>23, <1>a, <2>1 DEF SendFaqChunks
<1>24. CASE SendAudio
  <2>1. at \in Nat
    BY <1>a
  <2>2. frames' \in Seq(FrameTypes)
    <3>1. frames' = Append(frames, Audio(at))
      BY <1>24 DEF SendAudio
    <3> QED BY <3>1, <2>1, <1>b, FramesAre, OneMore
  <2> QED BY <1>24, <1>a, <2>2, SMTT(30) DEF SendAudio, NextSentence
<1>25. CASE Send
  <2>1. frames' \in Seq(FrameTypes)
    <3>1. CASE frames' = frames
      BY <3>1, <1>b
    <3>2. CASE frames' = Append(frames, Frame(Sent[pc]))
      <4>1. Frame(Sent[pc]) \in FrameTypes
        BY <1>25, FramesAre DEF Send
      <4> QED BY <3>2, <4>1, <1>b, OneMore
    <3> QED BY <1>25, <3>1, <3>2 DEF Send
  <2>2. pc' \in {"receive", "log", "resolve", "translation", "lookupTranslation",
                  "resolveOperator", "faqAudio"}
    BY <1>25, WhereNext DEF Send
  <2> QED BY <1>25, <1>a, <2>1, <2>2 DEF Send
<1>26. CASE LookUpSound
  <2>1. task' \in [Parts -> TaskStates]
    BY <1>26 DEF LookUpSound
  <2>2. at \in 1 .. sentences /\ sentences \in 0 .. MaxSentences
    BY <1>26, <1>a DEF LookUpSound
  <2>3. at' \in 1 .. sentences /\ pc' \in {"lookupSound", "speak"}
    BY <1>26, <1>a, <2>2 DEF LookUpSound
  <2> QED BY <1>26, <1>a, <2>1, <2>2, <2>3 DEF LookUpSound
<1>27. ASSUME NEW i \in Parts, TaskEnds(i) PROVE TypeOK' /\ SentencesFit'
  <2>1. task' \in [Parts -> TaskStates]
    BY <1>27 DEF TaskEnds
  <2>2. billed' \in Nat
    BY <1>27 DEF TaskEnds
  <2> QED BY <1>27, <2>1, <2>2 DEF TaskEnds
<1>28. ASSUME NEW flag \in {"heartbeat", "chunk", "end", "ignored"}, NEW withAudio \in BOOLEAN,
             ClientSends(flag, withAudio)
       PROVE  TypeOK' /\ SentencesFit'
  <2>1. spoken + 1 \in 1 .. MaxMessages
    BY <1>28, <1>a DEF ClientSends
  <2> DEFINE m == [flag |-> flag, audio |-> IF withAudio THEN {spoken + 1} ELSE {}]
  <2>2. m \in Messages
    BY <2>1 DEF Messages
  <2>3. inbox' = Append(inbox, m)
    BY <1>28 DEF ClientSends
  <2> HIDE DEF m
  <2>4. inbox' \in Seq(Messages)
    BY <2>2, <2>3, <1>b, OneMore
  <2>5. spoken' \in Nat /\ spoken' <= messages' /\ messages' \in Nat /\ messages' <= MaxMessages
    BY <1>28, <1>a DEF ClientSends
  <2> QED BY <1>28, <2>4, <2>5 DEF ClientSends
<1>29. CASE UNCHANGED vars
  BY <1>29 DEF vars
<1> QED BY <1>1, <1>2, <1>3, <1>4, <1>5, <1>6, <1>7, <1>8, <1>9, <1>10, <1>11, <1>12, <1>13,
           <1>14, <1>15, <1>16, <1>17, <1>18, <1>19, <1>20, <1>21, <1>22, <1>23, <1>24, <1>25,
           <1>26, <1>27, <1>28, <1>29 DEF Next, Handler, Pipeline, Client

LEMMA TypeInit == Init => TypeOK /\ SentencesFit
<1> SUFFICES ASSUME Init PROVE TypeOK /\ SentencesFit
  OBVIOUS
<1>1. SwitchTypeOK
  BY DEF Init, SwitchInit, SwitchTypeOK
<1>2. inbox \in Seq(Messages) /\ frames \in Seq(FrameTypes) /\ task \in [Parts -> TaskStates]
  BY DEF Init, NoTasks, TaskStates
<1>3. {visitorLang, turnLang, src, tgt, heardLast} \subseteq Langs
  BY SessionAssumption DEF Init, SessionAssumption
<1>4. /\ {spoken, messages, cost, billed, rows} \subseteq Nat
      /\ spoken <= messages /\ messages <= MaxMessages
      /\ {buffer, pcm} \subseteq SUBSET (1 .. MaxMessages)
      /\ sentences \in 0 .. MaxSentences /\ at \in 0 .. sentences
  <2>1. MaxMessages \in Nat /\ MaxSentences \in Nat
    BY SessionAssumption DEF SessionAssumption
  <2>2. /\ spoken = 0 /\ messages = 0 /\ cost = 0 /\ billed = 0 /\ rows = 0
        /\ buffer = {} /\ pcm = {} /\ sentences = 0 /\ at = 0
    BY DEF Init
  <2> QED BY <2>1, <2>2
<1>5. gone \in BOOLEAN
  BY DEF Init
<1>6. pc \in Points /\ endedAt \in Points \cup {"none"} /\ SentencesFit
  BY PointsAre DEF Init, SentencesFit
<1> QED BY <1>1, <1>2, <1>3, <1>4, <1>5, <1>6 DEF TypeOK

-----------------------------------------------------------------------------
(* Languages and synthesis tasks.                                          *)

\* The connection remembers the visitor's language between utterances, the
\* pipeline during one; the reply goes there once the utterance was heard.
Outside == {"connect", "accept", "device", "greet", "receive", "pong", "refuse"}
Heard == {"transcript", "resolve", "faqTranslation", "resolveOperator", "operatorTranslation",
          "faqAudio", "lookupTranslation", "translate", "saveTranslation", "translation"}

LanguagesFit ==
  /\ pc \in Outside => visitorLang = heardLast
  /\ pc \notin Outside \cup {"closed"} => turnLang = heardLast
  /\ pc \in Heard /\ src = Operator => tgt = heardLast

\* Tasks run only while a reply is spoken or wound up, and after a lookup that
\* raised.
TasksFit ==
  \/ \A i \in Parts : task[i] # "running"
  \/ pc \in {"lookupSound", "speak", "saveSound", "audio", "error", "ttsEnd", "log"}
  \/ pc = "closed" /\ endedAt = "lookupSound"

LEMMA ControlStep ==
  TypeOK /\ LanguagesFit /\ TasksFit /\ [Next]_vars => LanguagesFit' /\ TasksFit'
<1> SUFFICES ASSUME TypeOK, LanguagesFit, TasksFit, [Next]_vars
             PROVE  LanguagesFit' /\ TasksFit'
  OBVIOUS
<1>a. pc \in Points /\ task \in [Parts -> TaskStates]
  BY DEF TypeOK
<1> USE <1>a, PointsAre DEF LanguagesFit, Outside, Heard, TasksFit, clientVars, turnVars, replyVars,
                           logVars
<1>1. CASE Connect
  BY <1>1 DEF Connect
<1>2. CASE Accept
  BY <1>2 DEF Accept
<1>3. CASE RecordDevice
  BY <1>3 DEF RecordDevice
<1>4. CASE ReceiveOther
  BY <1>4 DEF ReceiveOther, Received
<1>5. CASE ReceiveChunk
  BY <1>5 DEF ReceiveChunk, Received
<1>6. CASE ReceiveEnd
  BY <1>6 DEF ReceiveEnd, Received, Begin, NoTasks
<1>7. CASE SttFails
  BY <1>7 DEF SttFails
<1>8. CASE SttHearsNothing
  BY <1>8 DEF SttHearsNothing
<1>9. ASSUME NEW detected \in Langs \cup {NoLang}, SttHears(detected)
      PROVE  LanguagesFit' /\ TasksFit'
  BY <1>9 DEF SttHears
<1>10. CASE ResolveAnswer
  BY <1>10 DEF ResolveAnswer
<1>11. CASE VoiceAnswer
  BY <1>11 DEF VoiceAnswer
<1>12. CASE LookUpTranslation
  BY <1>12 DEF LookUpTranslation
<1>13. CASE Translate
  BY <1>13 DEF Translate
<1>14. CASE SaveTranslation
  BY <1>14 DEF SaveTranslation
<1>15. CASE SendTranslation
  BY <1>15 DEF SendTranslation
<1>16. CASE SendFaqChunks
  BY <1>16 DEF SendFaqChunks
<1>17. CASE LookUpSound
  BY <1>17 DEF LookUpSound
<1>18. CASE AwaitTask
  BY <1>18 DEF AwaitTask
<1>19. CASE SaveSound
  BY <1>19 DEF SaveSound
<1>20. CASE SendAudio
  BY <1>20 DEF SendAudio, NextSentence
<1>21. CASE Log
  BY <1>21 DEF Log, Cancelled, Running
<1>22. CASE Send
  BY <1>22 DEF Send, Sent, After
<1>23. CASE Raise
  BY <1>23 DEF Raise, Cancelled, Running, Sending, Querying, Calling, Sent
<1>24. ASSUME NEW i \in Parts, TaskEnds(i) PROVE LanguagesFit' /\ TasksFit'
  BY <1>24 DEF TaskEnds, TaskStates
<1>25. ASSUME NEW flag \in {"heartbeat", "chunk", "end", "ignored"}, NEW withAudio \in BOOLEAN,
             ClientSends(flag, withAudio)
       PROVE  LanguagesFit' /\ TasksFit'
  BY <1>25 DEF ClientSends
<1>26. CASE ClientLeaves
  BY <1>26 DEF ClientLeaves
<1>27. CASE Switch
  BY <1>27 DEF Switch
<1>28. CASE Restart
  BY <1>28 DEF Restart, NoTasks
<1>29. CASE UNCHANGED vars
  BY <1>29 DEF vars
<1> QED BY <1>1, <1>2, <1>3, <1>4, <1>5, <1>6, <1>7, <1>8, <1>9, <1>10, <1>11, <1>12, <1>13,
           <1>14, <1>15, <1>16, <1>17, <1>18, <1>19, <1>20, <1>21, <1>22, <1>23, <1>24, <1>25,
           <1>26, <1>27, <1>28, <1>29 DEF Next, Handler, Pipeline, Client

-----------------------------------------------------------------------------
(* Utterances.                                                             *)

\* All audio of S is from one utterance.
One(S) == \A a, b \in S : a = b

\* No message from the i-th up to but not including the j-th ends an utterance.
NoEnd(box, i, j) == \A k \in i .. j - 1 : box[k].flag # "end"

\* What is buffered and what is still on its way belong to one utterance up to
\* the message that ends it; what no message ends yet, to the next one.
Fits(box, buf, next) ==
  /\ One(buf)
  /\ \A j \in 1 .. Len(box) : NoEnd(box, 1, j) => One(buf \cup box[j].audio)
  /\ \A i, j \in 1 .. Len(box) :
       i <= j /\ NoEnd(box, i, j) => One(box[i].audio \cup box[j].audio)
  /\ \A i \in 1 .. Len(box) : NoEnd(box, i, Len(box) + 1) => box[i].audio \subseteq {next}
  /\ NoEnd(box, 1, Len(box) + 1) => buf \subseteq {next}

\* A message that is sent carries audio of the utterance that is being spoken.
LEMMA Arrives ==
  ASSUME NEW box \in Seq(Messages), NEW buf, NEW next \in Nat, Fits(box, buf, next),
         NEW m \in Messages, m.audio \subseteq {next}
  PROVE  Fits(Append(box, m), buf, IF m.flag = "end" THEN next + 1 ELSE next)
<1> DEFINE new == Append(box, m)
           n == Len(box)
<1>1. /\ n \in Nat /\ Len(new) = n + 1 /\ new[n + 1] = m
      /\ \A i \in 1 .. n : new[i] = box[i]
  OBVIOUS
<1> HIDE DEF new, n
<1>2. \A i, j \in 1 .. n + 1 : NoEnd(new, i, j) <=> NoEnd(box, i, j)
  BY <1>1 DEF NoEnd
<1>3. \A i \in 1 .. n + 1 : NoEnd(new, i, n + 2) <=> NoEnd(box, i, n + 1) /\ m.flag # "end"
  BY <1>1 DEF NoEnd
<1>4. /\ \A i \in 1 .. n : NoEnd(box, i, n + 1) => box[i].audio \subseteq {next}
      /\ NoEnd(box, 1, n + 1) => buf \subseteq {next}
  BY DEF Fits, n
<1>5. One(buf)
  BY DEF Fits
<1>6. \A j \in 1 .. n + 1 : NoEnd(new, 1, j) => One(buf \cup new[j].audio)
  <2> SUFFICES ASSUME NEW j \in 1 .. n + 1, NoEnd(new, 1, j) PROVE One(buf \cup new[j].audio)
    OBVIOUS
  <2>1. CASE j \in 1 .. n
    BY <1>1, <1>2, <2>1 DEF Fits, n
  <2>2. CASE j = n + 1
    BY <1>1, <1>2, <1>4, <2>2 DEF One
  <2> QED BY <1>1, <2>1, <2>2
<1>7. \A i, j \in 1 .. n + 1 : i <= j /\ NoEnd(new, i, j) => One(new[i].audio \cup new[j].audio)
  <2> SUFFICES ASSUME NEW i \in 1 .. n + 1, NEW j \in 1 .. n + 1, i <= j, NoEnd(new, i, j)
               PROVE  One(new[i].audio \cup new[j].audio)
    OBVIOUS
  <2>1. CASE j \in 1 .. n
    BY <1>1, <1>2, <2>1 DEF Fits, n
  <2>2. CASE i \in 1 .. n /\ j = n + 1
    BY <1>1, <1>2, <1>4, <2>2 DEF One
  <2>3. CASE i = n + 1 /\ j = n + 1
    BY <1>1, <2>3 DEF One
  <2> QED BY <1>1, <2>1, <2>2, <2>3
<1>8. m.flag # "end" => \A i \in 1 .. n + 1 : NoEnd(new, i, n + 2) => new[i].audio \subseteq {next}
  BY <1>1, <1>3, <1>4
<1>9. m.flag = "end" => \A i \in 1 .. n + 1 : ~NoEnd(new, i, n + 2)
  BY <1>3
<1> QED BY <1>1, <1>3, <1>4, <1>5, <1>6, <1>7, <1>8, <1>9 DEF Fits, new

\* The first message is received: its audio joins the buffer or, like the buffer,
\* is dropped.
LEMMA Taken ==
  ASSUME NEW box \in Seq(Messages), NEW buf, NEW next \in Nat, Fits(box, buf, next), box # << >>
  PROVE  /\ One(buf \cup Head(box).audio)
         /\ Head(box).flag # "end" => /\ Fits(Tail(box), buf \cup Head(box).audio, next)
                                      /\ Fits(Tail(box), buf, next)
         /\ Fits(Tail(box), {}, next)
<1> DEFINE rest == Tail(box)
           n == Len(box)
<1>1. /\ n \in Nat \ {0} /\ Len(rest) = n - 1 /\ Head(box) = box[1]
      /\ \A i \in 1 .. n - 1 : rest[i] = box[i + 1]
  OBVIOUS
<1> HIDE DEF rest, n
<1>2. \A i, j \in 1 .. n : NoEnd(rest, i, j) <=> NoEnd(box, i + 1, j + 1)
  <2> SUFFICES ASSUME NEW i \in 1 .. n, NEW j \in 1 .. n
               PROVE  NoEnd(rest, i, j) <=> NoEnd(box, i + 1, j + 1)
    OBVIOUS
  <2>1. ASSUME NoEnd(rest, i, j) PROVE NoEnd(box, i + 1, j + 1)
    <3> SUFFICES ASSUME NEW k \in i + 1 .. j PROVE box[k].flag # "end"
      BY <1>1 DEF NoEnd
    <3>1. k - 1 \in i .. j - 1 /\ k - 1 \in 1 .. n - 1
      BY <1>1
    <3>2. rest[k - 1] = box[k]
      BY <1>1, <3>1
    <3> QED BY <2>1, <3>1, <3>2 DEF NoEnd
  <2>2. ASSUME NoEnd(box, i + 1, j + 1) PROVE NoEnd(rest, i, j)
    BY <1>1, <2>2, SMTT(30) DEF NoEnd
  <2> QED BY <2>1, <2>2
<1>3. One(buf \cup box[1].audio)
  BY <1>1 DEF Fits, NoEnd, n
<1>4. Fits(rest, {}, next)
  <2>1. \A j \in 1 .. n - 1 : One(rest[j].audio)
    <3> SUFFICES ASSUME NEW j \in 1 .. n - 1 PROVE One(box[j + 1].audio)
      BY <1>1
    <3>1. NoEnd(box, j + 1, j + 1) /\ j + 1 \in 1 .. n
      BY <1>1 DEF NoEnd
    <3> QED BY <3>1 DEF Fits, n, One
  <2>2. \A i, j \in 1 .. n - 1 :
          i <= j /\ NoEnd(rest, i, j) => One(rest[i].audio \cup rest[j].audio)
    <3> SUFFICES ASSUME NEW i \in 1 .. n - 1, NEW j \in 1 .. n - 1, i <= j, NoEnd(rest, i, j)
                 PROVE  One(rest[i].audio \cup rest[j].audio)
      OBVIOUS
    <3>1. NoEnd(box, i + 1, j + 1) /\ i + 1 \in 1 .. n /\ j + 1 \in 1 .. n /\ i + 1 <= j + 1
      BY <1>1, <1>2
    <3> QED BY <1>1, <3>1 DEF Fits, n
  <2>3. \A i \in 1 .. n - 1 : NoEnd(rest, i, n) => rest[i].audio \subseteq {next}
    <3> SUFFICES ASSUME NEW i \in 1 .. n - 1, NoEnd(rest, i, n) PROVE rest[i].audio \subseteq {next}
      OBVIOUS
    <3>1. NoEnd(box, i + 1, n + 1) /\ i + 1 \in 1 .. n /\ rest[i] = box[i + 1]
      BY <1>1, <1>2
    <3> QED BY <3>1 DEF Fits, n
  <2> QED BY <1>1, <2>1, <2>2, <2>3 DEF Fits, One
<1>5. ASSUME Head(box).flag # "end", NEW S \in SUBSET (buf \cup box[1].audio)
      PROVE  Fits(rest, S, next)
  <2>1. \A j \in 2 .. n + 1 : NoEnd(box, 1, j) <=> NoEnd(box, 2, j)
    BY <1>1, <1>5 DEF NoEnd
  <2>2. \A j \in 1 .. n - 1 : NoEnd(rest, 1, j) => One(S \cup rest[j].audio)
    <3> SUFFICES ASSUME NEW j \in 1 .. n - 1, NoEnd(rest, 1, j) PROVE One(S \cup rest[j].audio)
      OBVIOUS
    <3>1. NoEnd(box, 1, j + 1) /\ j + 1 \in 1 .. n /\ 1 \in 1 .. n /\ rest[j] = box[j + 1]
      BY <1>1, <1>2, <2>1
    <3>2. One(buf \cup box[j + 1].audio) /\ One(box[1].audio \cup box[j + 1].audio)
      BY <3>1 DEF Fits, n
    <3> QED BY <1>3, <3>1, <3>2 DEF One
  <2>3. NoEnd(rest, 1, n) => S \subseteq {next}
    <3> SUFFICES ASSUME NoEnd(rest, 1, n) PROVE S \subseteq {next}
      OBVIOUS
    <3>1. NoEnd(box, 1, n + 1)
      BY <1>1, <1>2, <2>1
    <3>2. buf \subseteq {next} /\ box[1].audio \subseteq {next}
      BY <1>1, <3>1 DEF Fits, n
    <3> QED BY <3>2
  <2> QED BY <1>1, <1>3, <1>4, <2>2, <2>3 DEF Fits, One
<1> QED BY <1>1, <1>3, <1>4, <1>5 DEF rest
-----------------------------------------------------------------------------

\* What the handler has and what it has not received yet belong together.
UtterancesFit == One(pcm) /\ Fits(inbox, buffer, spoken + 1)

LEMMA UtteranceStep == TypeOK /\ UtterancesFit /\ [Next]_vars => UtterancesFit'
<1> SUFFICES ASSUME TypeOK, UtterancesFit, [Next]_vars PROVE UtterancesFit'
  OBVIOUS
<1>a. inbox \in Seq(Messages) /\ spoken \in Nat /\ spoken + 1 \in Nat
  BY DEF TypeOK
<1>b. One(pcm) /\ Fits(inbox, buffer, spoken + 1)
  BY DEF UtterancesFit
<1>1. CASE UNCHANGED <<inbox, buffer, pcm, spoken>>
  BY <1>1 DEF UtterancesFit
<1>2. ASSUME NEW flag \in {"heartbeat", "chunk", "end", "ignored"}, NEW withAudio \in BOOLEAN,
             ClientSends(flag, withAudio)
      PROVE  UtterancesFit'
  <2> DEFINE m == [flag |-> flag, audio |-> IF withAudio THEN {spoken + 1} ELSE {}]
  <2>1. m \in Messages /\ m.audio \subseteq {spoken + 1} /\ m.flag = flag
    <3>1. spoken + 1 \in 1 .. MaxMessages
      BY <1>2, SessionAssumption, SMTT(30) DEF ClientSends, TypeOK, SessionAssumption
    <3> QED BY <3>1 DEF Messages
  <2>2. /\ inbox' = Append(inbox, m) /\ spoken' = (IF flag = "end" THEN spoken + 1 ELSE spoken)
        /\ UNCHANGED <<buffer, pcm>>
    BY <1>2 DEF ClientSends
  <2> HIDE DEF m
  <2>3. Fits(inbox', buffer, IF flag = "end" THEN spoken + 2 ELSE spoken + 1)
    BY <1>a, <1>b, <2>1, <2>2, Arrives
  <2>4. (IF flag = "end" THEN spoken + 2 ELSE spoken + 1) = spoken' + 1
    BY <1>a, <2>2
  <2> QED BY <1>b, <2>2, <2>3, <2>4 DEF UtterancesFit
<1>3. CASE ClientLeaves
  <2> DEFINE m == [flag |-> "disconnect", audio |-> {}]
  <2>1. m \in Messages /\ m.audio \subseteq {spoken + 1} /\ m.flag # "end"
    BY DEF Messages
  <2>2. inbox' = Append(inbox, m) /\ UNCHANGED <<spoken, buffer, pcm>>
    BY <1>3 DEF ClientLeaves
  <2> HIDE DEF m
  <2> QED BY <1>a, <1>b, <2>1, <2>2, Arrives DEF UtterancesFit
<1>4. CASE ReceiveOther
  <2>1. /\ inbox # << >> /\ inbox' = Tail(inbox) /\ Head(inbox).flag # "end"
        /\ UNCHANGED <<spoken, buffer, pcm>>
    BY <1>4 DEF ReceiveOther, Received, Message, clientVars
  <2> QED BY <1>a, <1>b, <2>1, Taken DEF UtterancesFit
<1>5. CASE ReceiveChunk
  <2>1. /\ inbox # << >> /\ inbox' = Tail(inbox) /\ Head(inbox).flag # "end"
        /\ buffer' = buffer \cup Head(inbox).audio /\ UNCHANGED <<spoken, pcm>>
    BY <1>5 DEF ReceiveChunk, Received, Message, clientVars
  <2> QED BY <1>a, <1>b, <2>1, Taken DEF UtterancesFit
<1>6. CASE ReceiveEnd
  <2>1. /\ inbox # << >> /\ inbox' = Tail(inbox) /\ buffer' = {} /\ UNCHANGED spoken
        /\ pcm' = buffer \cup Head(inbox).audio \/ pcm' = pcm
    BY <1>6 DEF ReceiveEnd, Received, Message, Begin, clientVars
  <2>2. Fits(inbox', buffer', spoken' + 1) /\ One(buffer \cup Head(inbox).audio)
    BY <1>a, <1>b, <2>1, Taken
  <2> QED BY <1>b, <2>1, <2>2 DEF UtterancesFit
<1>7. CASE Connect \/ Accept \/ RecordDevice \/ Pipeline \/ Send \/ Raise \/ Switch \/ Restart
           \/ (\E i \in Parts : TaskEnds(i)) \/ UNCHANGED vars
  <2>1. UNCHANGED <<inbox, buffer, pcm, spoken>>
    BY <1>7 DEF vars, clientVars, Connect, Accept, RecordDevice, Send, Raise, Switch, Restart,
       TaskEnds,
      Pipeline, SttFails, SttHearsNothing, SttHears, ResolveAnswer, VoiceAnswer, LookUpTranslation,
      Translate, SaveTranslation, SendTranslation, SendFaqChunks, LookUpSound, AwaitTask, SaveSound,
      SendAudio, Log
  <2> QED BY <1>1, <2>1
<1> QED BY <1>2, <1>3, <1>4, <1>5, <1>6, <1>7 DEF Next, Handler, Client

-----------------------------------------------------------------------------
(* The kill-switch.                                                        *)

\* Unless the last press was contested, every handler that is still storing
\* stores what is in memory, and the last one has stored it unless it failed.
SwitchFits ==
  /\ latest = {} => paused = dbPaused /\ \A t \in Toggles : togglePc[t] # "storing"
  /\ ~contested => \A t \in Toggles : togglePc[t] = "storing" => wanted[t] = paused
  /\ ~contested => \A t \in latest : togglePc[t] = "idle" => paused = dbPaused

LEMMA SwitchStep == TypeOK /\ SwitchFits /\ [Next]_vars => SwitchFits'
<1> SUFFICES ASSUME TypeOK, SwitchFits, [Next]_vars PROVE SwitchFits'
  OBVIOUS
<1>a. /\ togglePc \in [Toggles -> {"idle", "storing", "failed"}]
      /\ wanted \in [Toggles -> BOOLEAN]
      /\ latest \subseteq Toggles /\ contested \in BOOLEAN
  BY DEF TypeOK, SwitchTypeOK
<1>1. CASE UNCHANGED switchVars
  BY <1>1 DEF SwitchFits, switchVars
<1>2. CASE Switch
  <2>1. PICK t \in Toggles : Toggle(t)
    BY <1>2 DEF Switch
  <2>2. ASSUME NEW value \in BOOLEAN, SetPaused(t, value) PROVE SwitchFits'
    BY <1>a, <2>2 DEF SetPaused, SwitchFits
  <2>3. CASE StorePaused(t)
    BY <1>a, <2>3 DEF StorePaused, StoringEnds, SwitchFits
  <2>4. CASE StoreFails(t)
    BY <1>a, <2>4 DEF StoreFails, StoringEnds, SwitchFits
  <2> QED BY <2>1, <2>2, <2>3, <2>4 DEF Toggle
<1>3. CASE Restart
  BY <1>a, <1>3 DEF Restart, ReloadPaused, SwitchFits
<1>4. CASE Handler \/ Client \/ (\E i \in Parts : TaskEnds(i)) \/ UNCHANGED vars
  <2>1. UNCHANGED switchVars
    BY <1>4 DEF vars, Handler, Pipeline, Client, Connect, Accept, RecordDevice, ReceiveOther,
      ReceiveChunk, ReceiveEnd, Send, Raise, TaskEnds, ClientSends, ClientLeaves, SttFails,
      SttHearsNothing, SttHears, ResolveAnswer, VoiceAnswer, LookUpTranslation, Translate,
      SaveTranslation, SendTranslation, SendFaqChunks, LookUpSound, AwaitTask, SaveSound,
      SendAudio, Log
  <2> QED BY <1>1, <2>1
<1> QED BY <1>2, <1>3, <1>4 DEF Next

-----------------------------------------------------------------------------
(* Frames.                                                                 *)

\* What has been sent before the first audio.
Opening == <<Frame("transcript"), Frame("translation")>>
OpeningFor(visitor) == IF visitor THEN Opening \o <<Frame("operator_translation")>> ELSE Opening
Openings == {OpeningFor(visitor) : visitor \in BOOLEAN}

\* Where a reply has no sentences yet, and where its sentences are spoken.
Unheard == {"connect", "accept", "device", "greet", "stt", "noSpeech", "transcript"}
Replying == {"resolve", "faqTranslation", "lookupTranslation", "translate", "saveTranslation",
             "translation"}
Answering == {"resolveOperator", "operatorTranslation", "faqAudio", "faqChunks"}
Speaking == {"speak", "saveSound", "audio"}
Idling == {"receive", "pong", "refuse"}

\* The frames the client has at each await.
FramesFit ==
  /\ pc \in Unheard \cup Replying \cup Answering => sentences = 0
  /\ pc \in Speaking \cup {"lookupSound"} => sentences > 0
  /\ pc \in Unheard => frames = << >>
  /\ pc \in Replying => frames = <<Frame("transcript")>>
  /\ pc \in {"resolveOperator", "operatorTranslation"} => frames = Opening
  /\ pc \in {"faqAudio", "faqChunks"} => frames \in Openings
  /\ pc = "lookupSound" => frames = Opening
  /\ pc \in Speaking => frames = Opening \o Voice(at - 1)
  /\ pc = "error" /\ sentences = 0 => frames \in {<< >>, <<Frame("transcript")>>} \cup Openings
  /\ pc = "error" /\ sentences > 0 => at >= 1 /\ frames = Opening \o Voice(at - 1)
  /\ pc = "ttsEnd" /\ sentences = 0 => \E o \in Openings : frames = o \o Voice(1)
  /\ pc = "ttsEnd" /\ sentences > 0 => frames = Opening \o Voice(sentences)
  /\ pc = "log" => frames \in Replies
  /\ pc \in Idling => frames = << >> \/ frames \in Replies

Begun == \E r \in Replies : IsPrefix(frames, r)

LEMMA TwoFrames ==
  ASSUME NEW S, NEW a \in S, NEW b \in S
  PROVE  Append(<<a>>, b) = <<a, b>>
<1> DEFINE s == Append(<<a>>, b)
           t == <<a, b>>
<1>1. <<a>> \in Seq(S) /\ Len(<<a>>) = 1 /\ <<a>>[1] = a
  OBVIOUS
<1>2. s \in Seq(S) /\ Len(s) = 2 /\ s[1] = a /\ s[2] = b
  BY <1>1, AppendProperties
<1>3. t \in Seq(S) /\ Len(t) = 2 /\ t[1] = a /\ t[2] = b
  OBVIOUS
<1> HIDE DEF s, t
<1>4. \A i \in 1 .. Len(s) : s[i] = t[i]
  BY <1>2, <1>3
<1>5. s = t
  BY <1>2, <1>3, <1>4, SeqEqual
<1> QED BY <1>5 DEF s, t

LEMMA AppendToBoth ==
  ASSUME NEW S, NEW a \in Seq(S), NEW b \in Seq(S), NEW f \in S
  PROVE  /\ Append(a \o b, f) = a \o Append(b, f)
         /\ Append(b, f) = b \o <<f>>
<1> DEFINE last == <<f>>
<1>1. a \o b \in Seq(S)
  BY ConcatProperties
<1>2. Append(a \o b, f) = (a \o b) \o last /\ Append(b, f) = b \o last
  BY <1>1, AppendIsConcat, Zenon
<1>3. last \in Seq(S)
  OBVIOUS
<1> HIDE DEF last
<1>4. (a \o b) \o last = a \o (b \o last)
  BY <1>3, ConcatAssociative
<1> QED BY <1>2, <1>4, Zenon DEF last

LEMMA FirstFrames ==
  /\ \A f : Append(<< >>, f) = <<f>>
  /\ Append(<<Frame("transcript")>>, Frame("translation")) = Opening
  /\ Append(<<Frame("transcript")>>, Frame("error")) = <<Frame("transcript"), Frame("error")>>
  /\ Append(Opening, Frame("operator_translation")) = OpeningFor(TRUE)
  /\ Opening = OpeningFor(FALSE)
  /\ Openings = {OpeningFor(TRUE), OpeningFor(FALSE)}
<1>1. {Frame("transcript"), Frame("translation"), Frame("operator_translation"), Frame("error")}
        \subseteq FrameTypes
  BY DEF Frame, FrameTypes, Sent
<1>2. \A f : Append(<< >>, f) = <<f>>
  OBVIOUS
<1>3. /\ Append(<<Frame("transcript")>>, Frame("translation")) = Opening
      /\ Append(<<Frame("transcript")>>, Frame("error")) = <<Frame("transcript"), Frame("error")>>
  BY <1>1, TwoFrames, Zenon DEF Opening
<1>4. Opening \in Seq(FrameTypes)
  <2> HIDE DEF FrameTypes
  <2> QED BY <1>1 DEF Opening
<1>5. Append(Opening, Frame("operator_translation")) = OpeningFor(TRUE)
  BY <1>1, <1>4, AppendToBoth, Zenon DEF OpeningFor
<1>6. Opening = OpeningFor(FALSE) /\ Openings = {OpeningFor(TRUE), OpeningFor(FALSE)}
  <2>1. Openings = {OpeningFor(TRUE), OpeningFor(FALSE)}
    BY DEF Openings
  <2> QED BY <2>1 DEF OpeningFor
<1> QED BY <1>2, <1>3, <1>5, <1>6

LEMMA OpeningsAreFrames ==
  /\ \A o \in Openings : o \in Seq(FrameTypes)
  /\ Opening \in Openings
<1>1. {Frame("transcript"), Frame("translation"), Frame("operator_translation")} \subseteq FrameTypes
  BY DEF Frame, FrameTypes, Sent
<1> HIDE DEF FrameTypes
<1>2. Opening \in Seq(FrameTypes) /\ <<Frame("operator_translation")>> \in Seq(FrameTypes)
  BY <1>1 DEF Opening
<1>3. Opening \o <<Frame("operator_translation")>> \in Seq(FrameTypes)
  BY <1>2, ConcatProperties
<1> QED BY <1>2, <1>3 DEF Openings, OpeningFor

\* What is spoken grows by one piece of audio, and ends with one frame.
LEMMA VoiceGrows ==
  ASSUME NEW o \in Seq(FrameTypes), NEW n \in Nat
  PROVE  /\ o \o Voice(0) = o
         /\ o \o Voice(n) \in Seq(FrameTypes)
         /\ Append(o \o Voice(n), Audio(n + 1)) = o \o Voice(n + 1)
         /\ \A f \in FrameTypes : Append(o \o Voice(n), f) = o \o (Voice(n) \o <<f>>)
<1>1. \A m \in Nat : Voice(m) \in Seq(FrameTypes)
  BY FramesAre DEF Voice
<1>2. Voice(0) = << >>
  BY DEF Voice
<1>3. Append(Voice(n), Audio(n + 1)) = Voice(n + 1)
  <2> DEFINE s == Append(Voice(n), Audio(n + 1))
             t == Voice(n + 1)
  <2>1. Len(Voice(n)) = n /\ \A i \in 1 .. n : Voice(n)[i] = Audio(i)
    BY DEF Voice
  <2>2. t \in Seq(FrameTypes) /\ Len(t) = n + 1 /\ \A i \in 1 .. n + 1 : t[i] = Audio(i)
    BY <1>1 DEF Voice
  <2>3. /\ s \in Seq(FrameTypes) /\ Len(s) = n + 1 /\ s[n + 1] = Audio(n + 1)
        /\ \A i \in 1 .. n : s[i] = Voice(n)[i]
    <3>1. Voice(n) \in Seq(FrameTypes) /\ Audio(n + 1) \in FrameTypes
      BY <1>1, FramesAre
    <3> QED BY <2>1, <3>1, AppendProperties
  <2> HIDE DEF s, t
  <2>4. \A i \in 1 .. Len(s) : s[i] = t[i]
    BY <2>1, <2>2, <2>3
  <2>5. s = t
    BY <2>2, <2>3, <2>4, SeqEqual
  <2> QED BY <2>5 DEF s, t
<1>4. ASSUME NEW f \in FrameTypes
      PROVE  /\ Append(o \o Voice(n), f) = o \o Append(Voice(n), f)
             /\ Append(Voice(n), f) = Voice(n) \o <<f>>
  <2>1. Voice(n) \in Seq(FrameTypes)
    BY <1>1
  <2> QED BY <2>1, AppendToBoth, Zenon
<1>5. Append(o \o Voice(n), Audio(n + 1)) = o \o Voice(n + 1)
  <2>1. Audio(n + 1) \in FrameTypes
    BY FramesAre
  <2> QED BY <1>3, <1>4, <2>1, Zenon
<1>6. o \o Voice(0) = o
  BY <1>2, ConcatEmptySeq
<1>7. o \o Voice(n) \in Seq(FrameTypes)
  BY <1>1, ConcatProperties
<1>8. \A f \in FrameTypes : Append(o \o Voice(n), f) = o \o (Voice(n) \o <<f>>)
  BY <1>4, Zenon
<1> QED BY <1>5, <1>6, <1>7, <1>8

\* How a reply ends.
LEMMA AnyEnding ==
  ASSUME NEW o \in Openings, NEW n \in Nat
  PROVE  /\ Append(o \o Voice(n), Frame("error")) = o \o (Voice(n) \o <<Frame("error")>>)
         /\ Append(o \o Voice(n), Frame("tts_end")) = o \o (Voice(n) \o <<Frame("tts_end")>>)
         /\ o \o Voice(0) = o
<1>1. Frame("error") \in FrameTypes /\ Frame("tts_end") \in FrameTypes
  BY DEF Frame, FrameTypes, Sent
<1>2. o \in Seq(FrameTypes)
  BY OpeningsAreFrames
<1> QED BY <1>1, <1>2, VoiceGrows, Zenon

LEMMA AnswerEndings ==
  ASSUME sentences = 0
  PROVE  /\ Append(<< >>, Frame("error")) \in Replies
         /\ Append(<< >>, Frame("no_speech")) \in Replies
         /\ Append(<<Frame("transcript")>>, Frame("error")) \in Replies
         /\ \A o \in Openings : /\ Append(o, Frame("error")) \in Replies
                                /\ Append(o \o Voice(1), Frame("tts_end")) \in Replies
<1> DEFINE all == Voice(1) \o <<Frame("tts_end")>>
           none == Voice(0) \o <<Frame("error")>>
           ways == {all, none}
           short == {<<Frame("error")>>, <<Frame("no_speech")>>, <<Frame("transcript"), Frame("error")>>}
<1>1. ~(sentences > 0)
  OBVIOUS
<1>2. Replies = short \cup {Opening \o a : a \in ways}
                      \cup {Opening \o <<Frame("operator_translation")>> \o a : a \in ways}
  BY <1>1, Zenon DEF Replies, Opening
<1>3. all \in ways /\ none \in ways
  OBVIOUS
<1>4. \A x \in short : x \in Replies
  BY <1>2, Zenon
<1>5. Append(<< >>, Frame("error")) \in Replies /\ Append(<< >>, Frame("no_speech")) \in Replies
  BY <1>4, FirstFrames, Zenon
<1>6. Append(<<Frame("transcript")>>, Frame("error")) \in Replies
  BY <1>4, FirstFrames, Zenon
<1>7. ASSUME NEW o \in Openings
      PROVE  /\ Append(o, Frame("error")) \in Replies
             /\ Append(o \o Voice(1), Frame("tts_end")) \in Replies
  <2>1. o = Opening \/ o = Opening \o <<Frame("operator_translation")>>
    BY DEF Openings, OpeningFor
  <2>2. o \o all \in Replies /\ o \o none \in Replies
    <3> HIDE DEF ways, all, none, short
    <3> QED BY <1>2, <1>3, <2>1, Zenon
  <2>3. Append(o \o Voice(1), Frame("tts_end")) = o \o all
    BY AnyEnding
  <2>4. Append(o, Frame("error")) = o \o none
    BY AnyEnding
  <2> QED BY <2>2, <2>3, <2>4, Zenon
<1> QED BY <1>5, <1>6, <1>7, Zenon

LEMMA SpokenEndings ==
  ASSUME sentences \in Nat, sentences > 0
  PROVE  /\ Append(Opening \o Voice(sentences), Frame("tts_end")) \in Replies
         /\ \A n \in 0 .. sentences - 1 : Append(Opening \o Voice(n), Frame("error")) \in Replies
<1>1. Opening \o (Voice(sentences) \o <<Frame("tts_end")>>) \in Replies
  BY DEF Replies, Opening
<1>2. ASSUME NEW n \in 0 .. sentences - 1
      PROVE  Append(Opening \o Voice(n), Frame("error")) \in Replies
  <2>1. Opening \o (Voice(n) \o <<Frame("error")>>) \in Replies
    BY DEF Replies, Opening
  <2>2. n \in Nat /\ Opening \in Openings
    BY OpeningsAreFrames
  <2> QED BY <2>1, <2>2, AnyEnding
<1>3. Opening \in Openings
  BY OpeningsAreFrames
<1>4. Append(Opening \o Voice(sentences), Frame("tts_end")) \in Replies
  BY <1>1, <1>3, AnyEnding
<1> QED BY <1>2, <1>4

\* The beginning of a sequence is a prefix of it.
LEMMA BeginningIsPrefix ==
  ASSUME NEW S, NEW s \in Seq(S)
  PROVE  /\ \A e \in S : IsPrefix(s, Append(s, e))
         /\ IsPrefix(s, s) /\ IsPrefix(<< >>, s)
<1>1. ASSUME NEW a \in Seq(S), NEW b \in Seq(S) PROVE IsPrefix(a, a \o b)
  <2>1. Len(a) <= Len(a \o b)
    BY ConcatProperties
  <2>2. SubSeq(a, 1, Len(a)) = a
    BY SubSeqFull
  <2>3. SubSeq(a \o b, 1, Len(a)) = a
    OBVIOUS
  <2> QED BY <2>1, <2>2, <2>3 DEF IsPrefix
<1>2. ASSUME NEW e \in S PROVE IsPrefix(s, Append(s, e))
  <2>1. <<e>> \in Seq(S)
    OBVIOUS
  <2>2. Append(s, e) = s \o <<e>>
    BY AppendIsConcat, Zenon
  <2> QED BY <1>1, <2>1, <2>2, Zenon
<1>3. << >> \in Seq(S) /\ s \o << >> = s /\ << >> \o s = s
  BY EmptySeq, ConcatEmptySeq
<1>4. IsPrefix(s, s \o << >>) /\ IsPrefix(<< >>, << >> \o s)
  BY <1>1, <1>3, Zenon
<1> QED BY <1>2, <1>3, <1>4, Zenon

\* What has been sent while the connection lives is the beginning of a reply.
LEMMA FitIsBegun ==
  ASSUME TypeOK, SentencesFit, FramesFit, pc # "closed"
  PROVE  Begun
<1>1. frames \in Seq(FrameTypes) /\ sentences \in Nat /\ at \in 0 .. sentences
  BY SessionAssumption DEF TypeOK
<1>2. Frame("error") \in FrameTypes /\ Frame("tts_end") \in FrameTypes
  BY DEF Frame, FrameTypes, Sent
<1>3. ASSUME NEW f \in FrameTypes, Append(frames, f) \in Replies PROVE Begun
  BY <1>1, <1>3, BeginningIsPrefix, Zenon DEF Begun
<1>4. CASE frames \in Replies
  BY <1>1, <1>4, BeginningIsPrefix, Zenon DEF Begun
<1>5. CASE frames = << >>
  <2>1. PICK r \in Replies : r \in Seq(FrameTypes)
    <3>1. CASE sentences = 0
      <4>1. << >> \in Seq(FrameTypes)
        BY EmptySeq
      <4>2. Append(<< >>, Frame("error")) \in Seq(FrameTypes)
        BY <1>2, <4>1, AppendProperties, Zenon
      <4> QED BY <3>1, <4>2, AnswerEndings, Zenon
    <3>2. CASE sentences > 0
      <4>1. 0 \in 0 .. sentences - 1
        BY <1>1, <3>2
      <4>2. Opening \o Voice(0) \in Seq(FrameTypes)
        BY OpeningsAreFrames, VoiceGrows
      <4>3. Append(Opening \o Voice(0), Frame("error")) \in Seq(FrameTypes)
        BY <1>2, <4>2, AppendProperties, Zenon
      <4>4. Append(Opening \o Voice(0), Frame("error")) \in Replies
        BY <1>1, <3>2, <4>1, SpokenEndings
      <4> QED BY <4>3, <4>4, Zenon
    <3> QED BY <1>1, <3>1, <3>2
  <2>2. IsPrefix(<< >>, r)
    BY <2>1, BeginningIsPrefix
  <2> QED BY <1>5, <2>2 DEF Begun
<1>6. CASE sentences = 0 /\ frames \in {<<Frame("transcript")>>} \cup Openings
  BY <1>2, <1>3, <1>6, AnswerEndings, Zenon
<1>7. ASSUME sentences = 0, NEW o \in Openings, frames = o \o Voice(1) PROVE Begun
  BY <1>2, <1>3, <1>7, AnswerEndings, Zenon
<1>8. ASSUME NEW n \in 0 .. sentences, sentences > 0, frames = Opening \o Voice(n) PROVE Begun
  <2>1. CASE n = sentences
    BY <1>1, <1>2, <1>3, <1>8, <2>1, SpokenEndings, Zenon
  <2>2. CASE n \in 0 .. sentences - 1
    BY <1>1, <1>2, <1>3, <1>8, <2>2, SpokenEndings, Zenon
  <2> QED BY <1>1, <2>1, <2>2
<1>9. Opening \in Openings /\ Opening = Opening \o Voice(0)
  BY OpeningsAreFrames, VoiceGrows
<1>10. pc \in Unheard \cup Replying \cup Answering \cup Speaking \cup Idling
              \cup {"lookupSound", "error", "ttsEnd", "log"}
  BY PointsAre DEF TypeOK, Unheard, Replying, Answering, Speaking, Idling
<1> USE DEF FramesFit
<1>11. CASE pc \in Unheard \cup Replying
  BY <1>5, <1>6, <1>11
<1>12. CASE pc \in Answering
  BY <1>6, <1>9, <1>12 DEF Answering
<1>13. CASE pc \in Speaking
  <2>1. at - 1 \in 0 .. sentences
    BY <1>1, <1>13 DEF SentencesFit, Speaking
  <2> QED BY <1>8, <1>13, <2>1
<1>14. CASE pc = "lookupSound"
  <2>1. 0 \in 0 .. sentences /\ sentences > 0 /\ frames = Opening \o Voice(0)
    BY <1>1, <1>9, <1>14
  <2> QED BY <1>8, <2>1
<1>15. CASE pc = "error"
  <2>1. CASE sentences = 0
    BY <1>5, <1>6, <1>15, <2>1
  <2>2. CASE sentences > 0
    <3>1. at - 1 \in 0 .. sentences
      BY <1>1, <1>15, <2>2
    <3> QED BY <1>8, <1>15, <2>2, <3>1
  <2> QED BY <1>1, <2>1, <2>2
<1>16. CASE pc = "ttsEnd"
  <2>1. CASE sentences = 0
    BY <1>7, <1>16, <2>1
  <2>2. CASE sentences > 0
    BY <1>1, <1>8, <1>16, <2>2
  <2> QED BY <1>1, <2>1, <2>2
<1>17. CASE pc = "log" \/ pc \in Idling
  BY <1>4, <1>5, <1>17
<1> QED BY <1>10, <1>11, <1>12, <1>13, <1>14, <1>15, <1>16, <1>17

LEMMA FramesStep ==
  TypeOK /\ SentencesFit /\ FramesFit /\ Begun /\ [Next]_vars => FramesFit' /\ Begun'
<1> SUFFICES ASSUME TypeOK, SentencesFit, FramesFit, Begun, [Next]_vars
             PROVE  FramesFit' /\ Begun'
  OBVIOUS
<1>a. TypeOK' /\ SentencesFit'
  BY TypeStep
<1>b. UNCHANGED sentences => Replies' = Replies
  BY DEF Replies
<1>c. pc \in Points /\ sentences \in Nat /\ at \in 0 .. sentences
  BY SessionAssumption DEF TypeOK
<1>d. ASSUME FramesFit', pc' # "closed" PROVE FramesFit' /\ Begun'
  <2>1. (TypeOK /\ SentencesFit /\ FramesFit /\ pc # "closed" => Begun)'
    BY FitIsBegun, PTL
  <2> QED BY <1>a, <1>d, <2>1
<1>e. ASSUME pc' = "closed", UNCHANGED <<frames, sentences>> PROVE FramesFit' /\ Begun'
  <2>1. FramesFit'
    BY <1>e DEF FramesFit, Unheard, Replying, Answering, Speaking, Idling
  <2> QED BY <1>b, <1>e, <2>1 DEF Begun
<1> USE DEF FramesFit, Unheard, Replying, Answering, Speaking, Idling
<1>1. CASE UNCHANGED <<pc, frames, sentences, at>>
  BY <1>1, <1>b DEF Begun
<1>2. CASE Connect
  BY <1>2, <1>d, <1>e DEF Connect, replyVars
<1>3. CASE Accept \/ RecordDevice
  BY <1>3, <1>d DEF Accept, RecordDevice, replyVars
<1>4. CASE ReceiveOther
  BY <1>4, <1>b, <1>d, <1>e DEF ReceiveOther, Received, replyVars
<1>5. CASE ReceiveEnd
  BY <1>5, <1>b, <1>d DEF ReceiveEnd, Received, Begin, replyVars
<1>6. CASE SttFails \/ SttHearsNothing \/ \E detected \in Langs \cup {NoLang} : SttHears(detected)
  BY <1>6, <1>d DEF SttFails, SttHearsNothing, SttHears, replyVars
<1>7. CASE ResolveAnswer
  BY <1>7, <1>d DEF ResolveAnswer, replyVars
<1>8. CASE VoiceAnswer
  BY <1>8, <1>d DEF VoiceAnswer, replyVars
<1>9. CASE LookUpTranslation \/ Translate \/ SaveTranslation
  BY <1>9, <1>d DEF LookUpTranslation, Translate, SaveTranslation, replyVars
<1>10. CASE SendTranslation
  <2>1. frames' = Opening /\ sentences' > 0 /\ pc' = "lookupSound"
    <3>1. frames' = Append(<<Frame("transcript")>>, Frame("translation"))
      BY <1>10 DEF SendTranslation
    <3>2. sentences' > 0 /\ pc' = "lookupSound"
      BY <1>10, SessionAssumption DEF SendTranslation, Parts
    <3> QED BY <3>1, <3>2, FirstFrames, Zenon
  <2> QED BY <1>d, <2>1
<1>11. CASE SendFaqChunks
  <2>1. /\ pc' = "ttsEnd" /\ sentences' = 0 /\ frames \in Openings
        /\ frames' = Append(frames, Audio(1))
    BY <1>11 DEF SendFaqChunks, replyVars
  <2>2. frames \o Voice(0) = frames
    BY <2>1, AnyEnding
  <2>3. frames' = frames \o Voice(1)
    <3>1. Append(frames \o Voice(0), Audio(0 + 1)) = frames \o Voice(0 + 1)
      BY <2>1, OpeningsAreFrames, VoiceGrows
    <3>2. 0 + 1 = 1
      OBVIOUS
    <3> QED BY <2>1, <2>2, <3>1, <3>2, Zenon
  <2>4. \E o \in Openings : frames' = o \o Voice(1)
    BY <2>1, <2>3, Zenon
  <2>5. pc' = "ttsEnd" /\ ~(sentences' > 0)
    BY <2>1
  <2>6. FramesFit'
    BY <2>4, <2>5, Zenon
  <2> QED BY <1>d, <2>5, <2>6
<1>12. CASE LookUpSound
  <2>1. Opening \o Voice(0) = Opening
    BY OpeningsAreFrames, AnyEnding
  <2> QED BY <1>12, <1>d, <2>1 DEF LookUpSound, replyVars
<1>13. CASE AwaitTask
  BY <1>13, <1>c, <1>d, SMTT(30) DEF AwaitTask, SentencesFit, replyVars
<1>14. CASE SaveSound
  BY <1>14, <1>d DEF SaveSound, replyVars
<1>15. CASE SendAudio
  <2>1. frames = Opening \o Voice(at - 1) /\ frames' = Append(frames, Audio(at)) /\ sentences > 0
    BY <1>15 DEF SendAudio
  <2>2. at \in Nat \ {0}
    BY <1>15, <1>c DEF SendAudio, SentencesFit
  <2>3. frames' = Opening \o Voice(at)
    <3>1. at - 1 \in Nat /\ (at - 1) + 1 = at
      BY <2>2
    <3>2. Append(Opening \o Voice(at - 1), Audio((at - 1) + 1)) = Opening \o Voice((at - 1) + 1)
      BY <3>1, OpeningsAreFrames, VoiceGrows
    <3> QED BY <2>1, <3>1, <3>2
  <2>4. CASE at < sentences
    <3>1. at' = at + 1 /\ pc' = "speak" /\ sentences' = sentences /\ at' - 1 = at
      BY <1>15, <2>2, <2>4 DEF SendAudio, NextSentence
    <3>2. frames' = Opening \o Voice(at' - 1)
      BY <2>3, <3>1, Zenon
    <3> QED BY <1>d, <2>1, <3>1, <3>2
  <2>5. CASE ~(at < sentences)
    <3>1. at = sentences /\ pc' = "ttsEnd" /\ sentences' = sentences
      BY <1>15, <1>c, <2>2, <2>5 DEF SendAudio, NextSentence
    <3>2. frames' = Opening \o Voice(sentences')
      BY <2>3, <3>1, Zenon
    <3>3. pc' = "ttsEnd" /\ sentences' # 0
      BY <2>1, <3>1
    <3>4. FramesFit'
      BY <3>2, <3>3, Zenon
    <3> QED BY <1>d, <3>3, <3>4
  <2> QED BY <2>4, <2>5
<1>16. CASE Log
  BY <1>16, <1>b, <1>d DEF Log
<1>17. CASE Send
  <2>1. UNCHANGED <<sentences, at>> /\ pc' \in After /\ pc \in DOMAIN Sent
    BY <1>17 DEF Send, replyVars
  <2>2. CASE pc \in {"greet", "pong", "refuse"}
    BY <1>17, <1>b, <1>d, <2>1, <2>2 DEF Send, After, Sent
  <2>3. CASE pc \notin {"greet", "pong", "refuse"}
    <3>1. frames' = Append(frames, Frame(Sent[pc]))
      BY <1>17, <2>3 DEF Send
    <3>2. CASE pc = "error"
      <4>1. frames' = Append(frames, Frame("error")) /\ pc' = "log"
        BY <2>1, <3>1, <3>2 DEF Sent, After
      <4>2. frames' \in Replies
        <5>1. CASE sentences = 0
          BY <3>2, <4>1, <5>1, AnswerEndings, Zenon
        <5>2. CASE sentences > 0
          <6>1. at - 1 \in 0 .. sentences - 1
            BY <1>c, <3>2, <5>2
          <6> QED BY <1>c, <3>2, <4>1, <5>2, <6>1, SpokenEndings, Zenon
        <5> QED BY <1>c, <5>1, <5>2
      <4> QED BY <1>b, <1>d, <2>1, <4>1, <4>2
    <3>3. CASE pc = "noSpeech"
      <4>1. frames' = Append(<< >>, Frame("no_speech")) /\ pc' = "log" /\ sentences = 0
        BY <2>1, <3>1, <3>3 DEF Sent, After
      <4>2. frames' \in Replies
        BY <4>1, AnswerEndings, Zenon
      <4> QED BY <1>b, <1>d, <2>1, <4>1, <4>2
    <3>4. CASE pc = "ttsEnd"
      <4>1. frames' = Append(frames, Frame("tts_end")) /\ pc' = "log"
        BY <2>1, <3>1, <3>4 DEF Sent, After
      <4>2. frames' \in Replies
        <5>1. CASE sentences = 0
          BY <3>4, <4>1, <5>1, AnswerEndings, Zenon
        <5>2. CASE sentences > 0
          BY <1>c, <3>4, <4>1, <5>2, SpokenEndings, Zenon
        <5> QED BY <1>c, <5>1, <5>2
      <4> QED BY <1>b, <1>d, <2>1, <4>1, <4>2
    <3>5. CASE pc = "transcript"
      <4>1. frames' = <<Frame("transcript")>>
        <5>1. frames' = Append(<< >>, Frame("transcript"))
          BY <3>1, <3>5 DEF Sent
        <5> QED BY <5>1, FirstFrames, Zenon
      <4>2. pc' \in Replying /\ sentences' = 0
        BY <2>1, <3>5 DEF After
      <4> QED BY <1>d, <4>1, <4>2
    <3>6. CASE pc = "faqTranslation"
      <4>1. frames' = Opening
        <5>1. frames' = Append(<<Frame("transcript")>>, Frame("translation"))
          BY <3>1, <3>6 DEF Sent
        <5> QED BY <5>1, FirstFrames, Zenon
      <4>2. pc' \in {"resolveOperator", "faqAudio"} /\ sentences' = 0 /\ frames' \in Openings
        BY <2>1, <3>6, <4>1, OpeningsAreFrames DEF After
      <4> QED BY <1>d, <4>1, <4>2
    <3>7. CASE pc = "operatorTranslation"
      <4>1. frames' \in Openings
        <5>1. frames' = Append(Opening, Frame("operator_translation"))
          BY <3>1, <3>7 DEF Sent
        <5> QED BY <5>1, FirstFrames
      <4>2. pc' = "faqAudio" /\ sentences' = 0
        BY <2>1, <3>7 DEF After
      <4> QED BY <1>d, <4>1, <4>2
    <3> QED BY <2>1, <2>3, <3>2, <3>3, <3>4, <3>5, <3>6, <3>7 DEF Sent
  <2> QED BY <2>2, <2>3
<1>18. CASE Raise \/ Restart
  BY <1>18, <1>e DEF Raise, Restart
<1>19. CASE ReceiveChunk \/ Client \/ Switch \/ (\E i \in Parts : TaskEnds(i)) \/ UNCHANGED vars
  <2>1. UNCHANGED <<pc, frames, sentences, at>>
    BY <1>19 DEF vars, replyVars, ReceiveChunk, Client, ClientSends, ClientLeaves, Switch, TaskEnds
  <2> QED BY <1>1, <2>1
<1> QED BY <1>2, <1>3, <1>4, <1>5, <1>6, <1>7, <1>8, <1>9, <1>10, <1>11, <1>12, <1>13, <1>14, <1>15,
           <1>16, <1>17, <1>18, <1>19 DEF Next, Handler, Pipeline
-----------------------------------------------------------------------------
(* Rows.                                                                   *)

\* The first sentence whose synthesis the row does not account for.
Unpaid == CASE pc = "lookupSound" -> 1
            [] pc = "speak" -> at
            [] pc \in {"saveSound", "audio"} -> at + 1

\* Of the synthesis tasks t, those of sentences from k on that a provider has
\* finished.
Done(t, k) == {i \in Parts : i >= k /\ t[i] = "ok"}

SpeechFit ==
  /\ pc \in Unheard \cup Replying \cup Answering => \A i \in Parts : task[i] = "none"
  /\ pc = "lookupSound" => \A i \in Parts : i >= at => task[i] = "none"
  /\ pc \in Speaking => \A i \in Parts : /\ i > sentences => task[i] = "none"
                                         /\ i < Unpaid => task[i] \in {"cached", "ok"}
  /\ pc = "ttsEnd" => \A i \in Parts : task[i] \in {"none", "cached", "ok"}

\* The row accounts for what was billed but for the sentences still to be spoken,
\* unless one failed.
BillFits ==
  /\ pc \in Unheard \cup Replying \cup Answering \cup {"ttsEnd"} => billed = cost
  /\ pc \in Speaking \cup {"lookupSound"} => billed = cost + Cardinality(Done(task, Unpaid))
  /\ pc \in {"error", "log"} =>
       \/ \E i \in Parts : task[i] = "failed"
       \/ billed = cost /\ \A i \in Parts : task[i] \in {"none", "cached", "ok"}
  /\ pc \in Idling => billed = cost \/ \E i \in Parts : task[i] = "failed"
  /\ pc \in Idling => \A i \in Parts : task[i] # "running"

RowsFit ==
  /\ pc \in Unheard \cup Replying \cup Answering \cup Speaking
             \cup {"lookupSound", "error", "ttsEnd", "log"} => rows = 0
  /\ pc \in Idling /\ frames # << >> => rows = 1
LEMMA DoneIsFinite ==
  ASSUME NEW t, NEW k
  PROVE  IsFiniteSet(Done(t, k)) /\ Cardinality(Done(t, k)) \in Nat
<1>1. IsFiniteSet(Parts)
  BY SessionAssumption, FS_Interval DEF Parts
<1>2. Done(t, k) \in SUBSET Parts
  BY DEF Done
<1> QED BY <1>1, <1>2, FS_Subset, FS_CardinalityType

LEMMA OneMoreDone ==
  ASSUME NEW t \in [Parts -> TaskStates], NEW k \in Nat, NEW i \in Parts, t[i] # "ok", i >= k
  PROVE  Cardinality(Done([t EXCEPT ![i] = "ok"], k)) = Cardinality(Done(t, k)) + 1
<1>1. Done([t EXCEPT ![i] = "ok"], k) = Done(t, k) \cup {i} /\ i \notin Done(t, k)
  BY DEF Done
<1> QED BY <1>1, DoneIsFinite, FS_AddElement

LEMMA NoMoreDone ==
  ASSUME NEW t \in [Parts -> TaskStates], NEW k \in Nat, NEW i \in Parts, NEW s, t[i] # "ok", s # "ok"
  PROVE  Done([t EXCEPT ![i] = s], k) = Done(t, k)
BY DEF Done

\* Going past sentence k.
LEMMA PastOne ==
  ASSUME NEW t \in [Parts -> TaskStates], NEW k \in Parts
  PROVE  Cardinality(Done(t, k)) = Cardinality(Done(t, k + 1)) + (IF t[k] = "ok" THEN 1 ELSE 0)
<1>1. CASE t[k] = "ok"
  <2>1. Done(t, k) = Done(t, k + 1) \cup {k} /\ k \notin Done(t, k + 1)
    BY <1>1 DEF Done, Parts
  <2> QED BY <1>1, <2>1, DoneIsFinite, FS_AddElement
<1>2. CASE t[k] # "ok"
  <2>1. Done(t, k) = Done(t, k + 1)
    BY <1>2 DEF Done, Parts
  <2>2. Cardinality(Done(t, k + 1)) \in Nat
    BY DoneIsFinite
  <2> QED BY <1>2, <2>1, <2>2
<1> QED BY <1>1, <1>2

LEMMA NoneDone ==
  ASSUME NEW t, NEW k, \A i \in Parts : i >= k => t[i] # "ok"
  PROVE  Cardinality(Done(t, k)) = 0
<1>1. Done(t, k) = {}
  BY DEF Done
<1> QED BY <1>1, FS_EmptySet

BillsInv == SpeechFit /\ BillFits

LEMMA BillsStep == TypeOK /\ SentencesFit /\ FramesFit /\ BillsInv /\ [Next]_vars => BillsInv'
<1> SUFFICES ASSUME TypeOK, SentencesFit, FramesFit, BillsInv, [Next]_vars PROVE BillsInv'
  OBVIOUS
<1>a. /\ pc \in Points /\ task \in [Parts -> TaskStates]
      /\ sentences \in 0 .. MaxSentences /\ at \in 0 .. sentences /\ MaxSentences \in Nat
      /\ cost \in Nat /\ billed \in Nat
  BY SessionAssumption DEF TypeOK
<1>b. pc \in Speaking \cup {"lookupSound"} => sentences > 0
  BY DEF FramesFit
<1> USE <1>a, PointsAre DEF BillsInv, SpeechFit, BillFits, Unheard, Replying, Answering, Speaking, Idling
<1>c. /\ pc = "lookupSound" => Unpaid = 1
      /\ pc = "speak" => Unpaid = at
      /\ pc \in {"saveSound", "audio"} => Unpaid = at + 1
  BY DEF Unpaid
<1>d. /\ pc' = "lookupSound" => Unpaid' = 1
      /\ pc' = "speak" => Unpaid' = at'
      /\ pc' \in {"saveSound", "audio"} => Unpaid' = at' + 1
  BY DEF Unpaid
<1>1. CASE UNCHANGED <<pc, task, at, sentences, cost, billed>>
  BY <1>1 DEF Unpaid, Done
<1>2. CASE Connect \/ Accept \/ RecordDevice
  BY <1>2 DEF Connect, Accept, RecordDevice, replyVars, logVars
<1>3. CASE ReceiveOther
  BY <1>3 DEF ReceiveOther, Received, replyVars, logVars
<1>4. CASE ReceiveEnd
  BY <1>4 DEF ReceiveEnd, Received, Begin, NoTasks, replyVars, logVars
<1>5. CASE SttFails \/ SttHearsNothing \/ \E detected \in Langs \cup {NoLang} : SttHears(detected)
  BY <1>5 DEF SttFails, SttHearsNothing, SttHears, Pays, replyVars, logVars
<1>6. CASE ResolveAnswer \/ VoiceAnswer
  BY <1>6 DEF ResolveAnswer, VoiceAnswer, Pays, replyVars, logVars
<1>7. CASE LookUpTranslation \/ Translate \/ SaveTranslation
  BY <1>7 DEF LookUpTranslation, Translate, SaveTranslation, Pays, replyVars, logVars
<1>8. CASE SendTranslation
  <2>1. /\ pc' = "lookupSound" /\ at' = 1 /\ task' = task /\ cost' = cost /\ billed' = billed
        /\ billed = cost /\ \A i \in Parts : task[i] = "none"
    BY <1>8 DEF SendTranslation, logVars
  <2>2. Cardinality(Done(task', Unpaid')) = 0
    BY <1>d, <2>1, NoneDone
  <2> QED BY <2>1, <2>2
<1>9. CASE SendFaqChunks
  BY <1>9 DEF SendFaqChunks, replyVars, logVars
<1>10. CASE LookUpSound
  <2>1. PICK found \in {"cached", "running"} : task' = [task EXCEPT ![at] = found]
    BY <1>10 DEF LookUpSound
  <2>2. at \in Parts /\ task[at] = "none" /\ found # "ok"
    <3>1. at >= 1
      BY <1>10 DEF LookUpSound, SentencesFit
    <3>2. at \in Parts
      BY <3>1 DEF Parts
    <3> QED BY <1>10, <3>2 DEF LookUpSound
  <2>3. Done(task', 1) = Done(task, 1)
    BY <2>1, <2>2, NoMoreDone, ZenonT(60)
  <2>4. /\ UNCHANGED <<sentences, cost, billed>> /\ pc = "lookupSound"
        /\ \/ at < sentences /\ at' = at + 1 /\ pc' = pc
           \/ ~(at < sentences) /\ at' = 1 /\ pc' = "speak"
    BY <1>10 DEF LookUpSound, logVars
  <2>5. Unpaid' = 1 /\ Unpaid = 1
    BY <1>c, <1>d, <2>4
  <2>6. BillFits'
    BY <2>3, <2>4, <2>5
  <2>7. SpeechFit'
    BY <2>1, <2>2, <2>4, <2>5 DEF Parts
  <2> QED BY <2>6, <2>7
<1>11. CASE AwaitTask
  <2>1. /\ pc = "speak" /\ UNCHANGED <<task, at, sentences, billed>> /\ Unpaid = at
        /\ at \in Parts /\ at \in Nat
    BY <1>11, <1>c DEF AwaitTask, replyVars, SentencesFit, Parts
  <2>2. CASE task[at] = "cached" /\ pc' = "audio" /\ UNCHANGED cost
    <3>1. Cardinality(Done(task, at)) = Cardinality(Done(task, at + 1))
      <4>1. Cardinality(Done(task, at + 1)) \in Nat
        BY DoneIsFinite
      <4> QED BY <2>1, <2>2, <4>1, PastOne
    <3>2. Unpaid' = at + 1
      BY <1>d, <2>1, <2>2
    <3>3. BillFits'
      BY <2>1, <2>2, <3>1, <3>2
    <3>4. SpeechFit'
      BY <2>1, <2>2, <3>2 DEF Parts
    <3> QED BY <3>3, <3>4
  <2>3. CASE task[at] = "ok" /\ pc' = "saveSound" /\ cost' = cost + 1
    <3>1. Cardinality(Done(task, at)) = Cardinality(Done(task, at + 1)) + 1
      BY <2>1, <2>3, PastOne
    <3>2. Cardinality(Done(task, at + 1)) \in Nat
      BY DoneIsFinite
    <3>3. Unpaid' = at + 1
      BY <1>d, <2>1, <2>3
    <3>4. BillFits'
      BY <2>1, <2>3, <3>1, <3>2, <3>3
    <3>5. SpeechFit'
      BY <2>1, <2>3, <3>3 DEF Parts
    <3> QED BY <3>4, <3>5
  <2>4. CASE task[at] = "failed" /\ pc' = "error" /\ UNCHANGED cost
    BY <2>1, <2>4
  <2> QED BY <1>11, <2>2, <2>3, <2>4 DEF AwaitTask
<1>12. CASE SaveSound
  BY <1>12, <1>c, <1>d DEF SaveSound, replyVars, logVars
<1>13. CASE SendAudio
  <2>1. /\ pc = "audio" /\ UNCHANGED <<task, sentences, cost, billed>> /\ Unpaid = at + 1
    BY <1>13, <1>c DEF SendAudio, logVars
  <2>2. CASE at < sentences
    <3>1. at' = at + 1 /\ pc' = "speak"
      BY <1>13, <2>2 DEF SendAudio, NextSentence
    <3> QED BY <1>d, <2>1, <3>1
  <2>3. CASE ~(at < sentences)
    <3>1. pc' = "ttsEnd" /\ at = sentences
      BY <1>13, <2>3 DEF SendAudio, NextSentence
    <3>2. \A i \in Parts : i >= at + 1 => task[i] = "none"
      BY <2>1, <3>1 DEF Parts
    <3>3. Cardinality(Done(task, at + 1)) = 0
      BY <3>2, NoneDone
    <3>4. \A i \in Parts : task[i] \in {"none", "cached", "ok"}
      BY <2>1, <3>1, <3>2 DEF Parts
    <3> QED BY <2>1, <3>1, <3>3, <3>4
  <2> QED BY <2>2, <2>3
<1>14. CASE Log
  <2>1. pc = "log" /\ pc' = "receive" /\ task' = Cancelled /\ UNCHANGED <<cost, billed>>
    BY <1>14 DEF Log
  <2>2. \A i \in Parts : task'[i] # "running" /\ (task[i] = "failed" => task'[i] = "failed")
    BY <2>1 DEF Cancelled, Running
  <2> QED BY <2>1, <2>2
<1>15. CASE Send
  <2>1. UNCHANGED <<task, at, sentences, cost, billed>> /\ pc' \in After /\ pc \in DOMAIN Sent
    BY <1>15 DEF Send, replyVars, logVars
  <2>2. CASE pc \in {"greet", "pong", "refuse"}
    <3>1. pc' = "receive"
      BY <2>1, <2>2 DEF After
    <3> QED BY <2>1, <2>2, <3>1
  <2>3. CASE pc \in {"error", "noSpeech", "ttsEnd"}
    <3>1. pc' = "log"
      BY <2>1, <2>3 DEF After
    <3> QED BY <2>1, <2>3, <3>1
  <2>4. CASE pc \in {"transcript", "faqTranslation", "operatorTranslation"}
    <3>1. pc' \in Replying \cup Answering
      BY <2>1, <2>4 DEF After
    <3> QED BY <2>1, <2>4, <3>1
  <2> QED BY <2>1, <2>2, <2>3, <2>4 DEF Sent
<1>16. ASSUME NEW i \in Parts, TaskEnds(i) PROVE BillsInv'
  <2>1. task[i] = "running" /\ UNCHANGED <<pc, at, sentences, cost>>
    BY <1>16 DEF TaskEnds
  <2>2. PICK s \in {"ok", "failed", "raised"} :
          /\ task' = [task EXCEPT ![i] = s]
          /\ billed' = IF s = "ok" THEN billed + 1 ELSE billed
    BY <1>16 DEF TaskEnds
  <2>3. CASE pc \in Speaking \cup {"lookupSound"}
    <3>1. i >= Unpaid /\ Unpaid \in Nat /\ Unpaid' = Unpaid
      BY <1>c, <1>d, <2>1, <2>3 DEF Parts, SentencesFit
    <3>2. s # "ok" => Cardinality(Done(task', Unpaid)) = Cardinality(Done(task, Unpaid))
      BY <2>1, <2>2, <3>1, NoMoreDone
    <3>3. s = "ok" => Cardinality(Done(task', Unpaid)) = Cardinality(Done(task, Unpaid)) + 1
      BY <2>1, <2>2, <3>1, OneMoreDone
    <3>4. Cardinality(Done(task, Unpaid)) \in Nat
      BY DoneIsFinite
    <3>5. BillFits'
      BY <2>1, <2>2, <2>3, <3>1, <3>2, <3>3, <3>4
    <3>6. SpeechFit'
      BY <2>1, <2>2, <2>3, <3>1
    <3> QED BY <3>5, <3>6
  <2>4. CASE pc \in {"error", "log"}
    <3>1. \E j \in Parts : task[j] = "failed"
      BY <2>1, <2>4
    <3>2. \E j \in Parts : task'[j] = "failed"
      BY <2>1, <2>2, <3>1
    <3> QED BY <2>1, <2>4, <3>2
  <2>5. CASE pc = "closed"
    BY <2>1, <2>5
  <2>6. ~(pc \in Unheard \cup Replying \cup Answering \cup Idling \cup {"ttsEnd"})
    BY <2>1
  <2> QED BY <2>3, <2>4, <2>5, <2>6
<1>17. CASE Raise \/ Restart
  BY <1>17 DEF Raise, Restart
<1>18. CASE ReceiveChunk \/ Client \/ Switch \/ UNCHANGED vars
  <2>1. UNCHANGED <<pc, task, at, sentences, cost, billed>>
    BY <1>18 DEF vars, ReceiveChunk, Client, ClientSends, ClientLeaves, Switch, replyVars, logVars
  <2> QED BY <1>1, <2>1
<1> QED BY <1>2, <1>3, <1>4, <1>5, <1>6, <1>7, <1>8, <1>9, <1>10, <1>11, <1>12, <1>13, <1>14, <1>15,
           <1>16, <1>17, <1>18 DEF Next, Handler, Pipeline

LEMMA RowsStep == TypeOK /\ FramesFit /\ RowsFit /\ [Next]_vars => RowsFit'
<1> SUFFICES ASSUME TypeOK, FramesFit, RowsFit, [Next]_vars PROVE RowsFit'
  OBVIOUS
<1>a. pc \in Points
  BY DEF TypeOK
<1> USE <1>a, PointsAre DEF RowsFit, Unheard, Replying, Answering, Speaking, Idling, logVars
<1>1. CASE UNCHANGED <<pc, frames, rows>>
  BY <1>1
<1>2. CASE Connect \/ Accept \/ RecordDevice
  BY <1>2 DEF Connect, Accept, RecordDevice
<1>3. CASE ReceiveOther
  BY <1>3 DEF ReceiveOther, Received
<1>4. CASE ReceiveEnd
  BY <1>4 DEF ReceiveEnd, Received, Begin
<1>5. CASE SttFails \/ SttHearsNothing \/ \E detected \in Langs \cup {NoLang} : SttHears(detected)
  BY <1>5 DEF SttFails, SttHearsNothing, SttHears, Pays
<1>6. CASE ResolveAnswer \/ VoiceAnswer
  BY <1>6 DEF ResolveAnswer, VoiceAnswer, Pays
<1>7. CASE LookUpTranslation \/ Translate \/ SaveTranslation
  BY <1>7 DEF LookUpTranslation, Translate, SaveTranslation, Pays
<1>8. CASE SendTranslation \/ SendFaqChunks
  BY <1>8 DEF SendTranslation, SendFaqChunks
<1>9. CASE LookUpSound \/ AwaitTask \/ SaveSound
  BY <1>9 DEF LookUpSound, AwaitTask, SaveSound
<1>10. CASE SendAudio
  BY <1>10 DEF SendAudio, NextSentence
<1>11. CASE Log
  BY <1>11 DEF Log
<1>12. CASE Send
  <2>1. UNCHANGED rows /\ pc' \in After /\ pc \in DOMAIN Sent
    BY <1>12 DEF Send
  <2>2. CASE pc \in {"greet", "pong", "refuse"}
    <3>1. pc' = "receive" /\ UNCHANGED frames
      BY <1>12, <2>1, <2>2 DEF Send, After
    <3>2. pc \in Idling \/ frames = << >>
      BY <2>2 DEF FramesFit
    <3> QED BY <2>1, <3>1, <3>2
  <2>3. CASE pc \notin {"greet", "pong", "refuse"}
    <3>1. rows = 0
      BY <2>1, <2>3 DEF Sent
    <3>2. pc' \notin Idling
      BY <2>1, <2>3 DEF Sent, After
    <3> QED BY <2>1, <3>1, <3>2
  <2> QED BY <2>2, <2>3
<1>13. CASE Raise \/ Restart
  BY <1>13 DEF Raise, Restart
<1>14. CASE ReceiveChunk \/ Client \/ Switch \/ (\E i \in Parts : TaskEnds(i)) \/ UNCHANGED vars
  <2>1. UNCHANGED <<pc, frames, rows>>
    BY <1>14 DEF vars, ReceiveChunk, Client, ClientSends, ClientLeaves, Switch, TaskEnds
  <2> QED BY <1>1, <2>1
<1> QED BY <1>2, <1>3, <1>4, <1>5, <1>6, <1>7, <1>8, <1>9, <1>10, <1>11, <1>12, <1>13, <1>14
        DEF Next, Handler, Pipeline
-----------------------------------------------------------------------------
(* The theorems.                                                           *)

SessionInv ==
  /\ TypeOK /\ SentencesFit /\ LanguagesFit /\ TasksFit /\ UtterancesFit
  /\ FramesFit /\ Begun /\ BillsInv /\ RowsFit

LEMMA SessionInvariant == Spec => []SessionInv
<1>1. Init => SessionInv
  <2> SUFFICES ASSUME Init PROVE SessionInv
    OBVIOUS
  <2>1. LanguagesFit /\ TasksFit
    BY DEF Init, LanguagesFit, Outside, Heard, TasksFit, NoTasks
  <2>2. UtterancesFit
    BY DEF Init, UtterancesFit, Fits, One
  <2>3. pc = "connect" /\ frames = << >> /\ sentences = 0 /\ task = NoTasks
        /\ cost = 0 /\ billed = 0 /\ rows = 0
    BY DEF Init
  <2>4. FramesFit /\ BillsInv /\ RowsFit
    BY <2>3 DEF FramesFit, BillsInv, SpeechFit, BillFits, RowsFit, NoTasks, Unheard, Replying,
       Answering, Speaking, Idling
  <2>5. Begun
    BY <2>3, <2>4, TypeInit, FitIsBegun
  <2> QED BY <2>1, <2>2, <2>4, <2>5, TypeInit DEF SessionInv
<1>2. SessionInv /\ [Next]_vars => SessionInv'
  BY TypeStep, ControlStep, UtteranceStep, FramesStep, BillsStep, RowsStep DEF SessionInv
<1> QED BY <1>1, <1>2, PTL DEF Spec

\* Every reachable state of a connection is well-typed.
THEOREM SessionTypeCorrect == Spec => []TypeOK
<1>1. SessionInv => TypeOK
  BY DEF SessionInv
<1> QED BY <1>1, SessionInvariant, PTL

\* However chunks, empty ends, refusals and heartbeats follow one another on
\* however long a connection: a pipeline transcribes the audio of one utterance.
THEOREM PipelinesNeverMix == Spec => []OneUtterancePerPipeline
<1>1. ASSUME SessionInv PROVE OneUtterancePerPipeline
  <2>1. One(pcm)
    BY <1>1 DEF SessionInv, UtterancesFit
  <2>2. CASE pcm = {}
    BY <2>2, FS_EmptySet DEF OneUtterancePerPipeline
  <2>3. CASE pcm # {}
    <3>1. PICK u \in pcm : pcm = {u}
      BY <2>1, <2>3 DEF One
    <3>2. Cardinality(pcm) = 1
      BY <3>1, FS_Singleton
    <3> QED BY <3>2 DEF OneUtterancePerPipeline
  <2> QED BY <2>2, <2>3
<1> QED BY <1>1, SessionInvariant, PTL

\* Whatever is heard, fails or is refused in between: the operator is translated
\* into the last language a visitor was heard speaking.
THEOREM OperatorAlwaysReachesVisitor == Spec => []OperatorReachesVisitor
<1>1. SessionInv => OperatorReachesVisitor
  BY DEF SessionInv, LanguagesFit, OperatorReachesVisitor, Heard
<1> QED BY <1>1, SessionInvariant, PTL

\* For any number of sentences: no synthesis outlives its reply, but after a cache
\* lookup that raised.
THEOREM TasksNeverOrphaned == Spec => []NoOrphanedTasks
<1>1. SessionInv => NoOrphanedTasks
  BY DEF SessionInv, TasksFit, NoOrphanedTasks, Running
<1> QED BY <1>1, SessionInvariant, PTL

\* Whatever fails, is refused or is switched, and for any number of sentences: the
\* client has seen the beginning of a well-formed reply at every moment, and all
\* of it when the server listens again.
THEOREM RepliesAlwaysWellFormed == Spec => []RepliesWellFormed
<1>1. SessionInv => RepliesWellFormed
  BY DEF SessionInv, FramesFit, Idling, Begun, RepliesWellFormed
<1> QED BY <1>1, SessionInvariant, PTL

\* However the synthesis tasks of a reply interleave with the handler: it leaves
\* one row, which accounts for every call billed unless a synthesis failed.
THEOREM RowsAlwaysAccount == Spec => []OneRowPerReply
<1>1. SessionInv => OneRowPerReply
  BY DEF SessionInv, RowsFit, BillsInv, BillFits, Idling, OneRowPerReply
<1> QED BY <1>1, SessionInvariant, PTL

\* However many pauses and resumes overlap, cross, fail and are cut by restarts:
\* once the last one has stored, a restart reads the switch as it is, unless that
\* one crossed another that wanted the opposite.
THEOREM UncontestedSwitchAlwaysSurvives == Spec => []UncontestedSwitchSurvives
<1>1. Init => SwitchFits
  BY DEF Init, SwitchInit, SwitchFits
<1>2. SessionInv /\ SwitchFits /\ [Next]_vars => SwitchFits'
  BY SwitchStep DEF SessionInv
<1>3. SwitchFits => UncontestedSwitchSurvives
  <2> SUFFICES ASSUME SwitchFits, ~contested, \A t \in latest : togglePc[t] = "idle"
               PROVE  paused = dbPaused
    BY DEF UncontestedSwitchSurvives
  <2>1. CASE latest = {}
    BY <2>1 DEF SwitchFits
  <2>2. CASE \E t \in latest : TRUE
    BY <2>2 DEF SwitchFits
  <2> QED BY <2>1, <2>2
<1> QED BY <1>1, <1>2, <1>3, SessionInvariant, PTL DEF Spec
=============================================================================
