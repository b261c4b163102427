--------------------------- MODULE SimulMtSession ---------------------------
(***************************************************************************)
(* One connection of the SimulMT server (src/main.py): the message loop and*)
(* heartbeat watchdog of src/api/websocket_handler.py, the partial         *)
(* translations of src/pipeline/simulmt.py, the utterance pipeline of      *)
(* src/pipeline/orchestrator.py and the session that                       *)
(* src/session/session_manager.py keeps in Redis.                          *)
(*                                                                         *)
(* pc names the await the loop is at; the watchdog is a task of its own.   *)
(* Audio is counted in chunks and texts in clauses' worth of characters;   *)
(* the services answer or fail (ProviderCall models how).                  *)
(***************************************************************************)
EXTENDS Integers, Sequences, FiniteSets

CONSTANTS
  Trigger,        \* chunks between two partial transcriptions
  Timeout,        \* HEARTBEAT_TIMEOUT_SECONDS
  SessionTtl,     \* SESSION_TTL_SECONDS
  RedisMayFail,   \* whether Redis commands may raise
  ServicesMayFail,\* whether the services may raise
  MaxMessages,    \* bound: messages of the client
  MaxChars        \* bound: length of a partial transcript

ASSUME SimulMtAssumption ==
  /\ {Trigger, Timeout, SessionTtl} \subseteq Nat \ {0}
  /\ {RedisMayFail, ServicesMayFail} \subseteq BOOLEAN
  /\ {MaxMessages, MaxChars} \subseteq Nat

VARIABLES
  gone, sent,      \* the client: has it left, and the messages it has sent
  silent, lapsed,  \* time since it last sent one; was that ever too long
  inbox,           \* messages not received yet
  idle,            \* time since last_activity
  cutOff,          \* the watchdog has closed the connection
  buffer,          \* audio_buffer
  lastBytes,       \* simulmt_state["last_bytes"]
  pc,
  utterance,       \* utterances received so far
  consumed,        \* _consumed_chars
  prefixOf,        \* the utterances whose clauses are in _translated_prefix
  stored, ttl,     \* the session's utterance_count in Redis, and its time to live
  active,          \* whether the session is in the set of active sessions
  current,         \* the count the pipeline read
  completed,       \* utterances whose pipeline ran to its end
  expired,         \* not in the code: the key's time to live has run out
  miscounted,      \* not in the code: an update of the count has raised
  cutShort         \* not in the code: a crash or a Redis error ended the handler

clientVars == <<gone, sent, silent, lapsed>>
timeVars == <<idle, cutOff>>
audioVars == <<buffer, lastBytes>>
partialVars == <<consumed, prefixOf>>
historyVars == <<expired, miscounted, cutShort>>
redisVars == <<stored, ttl, active, current, completed, historyVars>>
vars == <<clientVars, inbox, timeVars, audioVars, pc, utterance, partialVars, redisVars>>

Absent == -1

Init ==
  /\ gone = FALSE /\ sent = 0 /\ silent = 0 /\ lapsed = FALSE
  /\ inbox = << >>
  /\ idle = 0 /\ cutOff = FALSE
  /\ buffer = 0 /\ lastBytes = 0
  /\ pc = "createKey"
  /\ utterance = 0
  /\ consumed = 0 /\ prefixOf = {}
  /\ stored = Absent /\ ttl = 0 /\ active = FALSE
  /\ current = 0 /\ completed = 0
  /\ expired = FALSE /\ miscounted = FALSE /\ cutShort = FALSE

-----------------------------------------------------------------------------
(* The client, time and the watchdog.                                      *)

ClientSends(flag, audio) ==
  /\ ~gone /\ ~cutOff /\ sent < MaxMessages
  /\ sent' = sent + 1
  /\ silent' = 0
  /\ inbox' = Append(inbox, [flag |-> flag, audio |-> audio])
  /\ UNCHANGED <<gone, lapsed, timeVars, audioVars, pc, utterance, partialVars, redisVars>>

Hangup == [flag |-> "disconnect", audio |-> 0]

ClientLeaves ==
  /\ ~gone /\ pc # "closed"
  /\ gone' = TRUE
  /\ inbox' = Append(inbox, Hangup)
  /\ UNCHANGED <<sent, silent, lapsed, timeVars, audioVars, pc, utterance, partialVars, redisVars>>

Cap(n, most) == IF n < most THEN n + 1 ELSE n

\* A waiting message is taken at once. A key whose time to live has run out is
\* gone.
Tick ==
  /\ pc = "receive" => inbox = << >>
  /\ silent <= Timeout \/ idle <= Timeout \/ ttl > 0
  /\ silent' = Cap(silent, Timeout + 1)
  /\ lapsed' = (lapsed \/ silent' > Timeout)
  /\ idle' = Cap(idle, Timeout + 1)
  /\ ttl' = IF ttl > 0 THEN ttl - 1 ELSE 0
  /\ stored' = IF ttl = 1 THEN Absent ELSE stored
  /\ expired' = (expired \/ ttl = 1)
  /\ UNCHANGED <<gone, sent, inbox, cutOff, audioVars, pc, utterance, partialVars, active,
                 current, completed, miscounted, cutShort>>

Cleaning == {"cleanupRead", "cleanupDelete", "cleanupRemove", "closed"}

\* Mutant of Watchdog: the loop is not told that the connection is closed.
WatchdogOnlyCloses ==
  /\ pc \notin {"createKey", "createActive"} \cup Cleaning
  /\ ~cutOff /\ idle > Timeout
  /\ cutOff' = TRUE
  /\ UNCHANGED <<clientVars, inbox, idle, audioVars, pc, utterance, partialVars, redisVars>>

\* It runs from the creation of the session until the finally stops it.
Watchdog ==
  /\ pc \notin {"createKey", "createActive"} \cup Cleaning
  /\ ~cutOff /\ idle > Timeout
  /\ cutOff' = TRUE
  /\ inbox' = Append(inbox, Hangup)
  /\ UNCHANGED <<clientVars, idle, audioVars, pc, utterance, partialVars, redisVars>>

-----------------------------------------------------------------------------
(* SessionManager.                                                         *)

CreateKey ==
  /\ pc = "createKey"
  /\ pc' = "createActive"
  /\ stored' = 0 /\ ttl' = SessionTtl
  /\ UNCHANGED <<clientVars, inbox, timeVars, audioVars, utterance, partialVars, active,
                 current, completed, historyVars>>

CreateActive ==
  /\ pc = "createActive"
  /\ pc' = "greet"
  /\ active' = TRUE
  /\ idle' = 0
  /\ UNCHANGED <<clientVars, inbox, cutOff, audioVars, utterance, partialVars, stored, ttl,
                 current, completed, historyVars>>

\* Mutant of ReadCount: the count of the session the connection began with.
ReadFirstCount ==
  /\ pc = "readCount"
  /\ pc' = "readAgain"
  /\ current' = 0
  /\ UNCHANGED <<clientVars, inbox, timeVars, audioVars, utterance, partialVars, stored, ttl,
                 active, completed, historyVars>>

\* get_session, or the session the connection began with.
ReadCount ==
  /\ pc = "readCount"
  /\ pc' = "readAgain"
  /\ current' = IF stored = Absent THEN 0 ELSE stored
  /\ UNCHANGED <<clientVars, inbox, timeVars, audioVars, utterance, partialVars, stored, ttl,
                 active, completed, historyVars>>

\* update_session reads once more, and gives up if the session has expired.
ReadAgain ==
  /\ pc = "readAgain"
  /\ pc' = IF stored = Absent THEN "receive" ELSE "writeCount"
  /\ completed' = IF stored = Absent THEN completed + 1 ELSE completed
  /\ UNCHANGED <<clientVars, inbox, timeVars, audioVars, utterance, partialVars, stored, ttl,
                 active, current, historyVars>>

WriteCount ==
  /\ pc = "writeCount"
  /\ pc' = "receive"
  /\ stored' = current + 1 /\ ttl' = SessionTtl /\ expired' = FALSE
  /\ completed' = completed + 1
  /\ UNCHANGED <<clientVars, inbox, timeVars, audioVars, utterance, partialVars, active,
                 current, miscounted, cutShort>>

\* The finally of the connection: a read for the log, then delete_session.
CleanUpRead ==
  /\ pc = "cleanupRead"
  /\ pc' = "cleanupDelete"
  /\ UNCHANGED <<clientVars, inbox, timeVars, audioVars, utterance, partialVars, redisVars>>

\* Mutant of CleanUpDelete: the set of active sessions is forgotten.
DeleteKeyOnly ==
  /\ pc = "cleanupDelete"
  /\ pc' = "closed"
  /\ stored' = Absent /\ ttl' = 0
  /\ UNCHANGED <<clientVars, inbox, timeVars, audioVars, utterance, partialVars, active,
                 current, completed, historyVars>>

CleanUpDelete ==
  /\ pc = "cleanupDelete"
  /\ pc' = "cleanupRemove"
  /\ stored' = Absent /\ ttl' = 0
  /\ UNCHANGED <<clientVars, inbox, timeVars, audioVars, utterance, partialVars, active,
                 current, completed, historyVars>>

CleanUpRemove ==
  /\ pc = "cleanupRemove"
  /\ pc' = "closed"
  /\ active' = FALSE
  /\ UNCHANGED <<clientVars, inbox, timeVars, audioVars, utterance, partialVars, stored, ttl,
                 current, completed, historyVars>>

-----------------------------------------------------------------------------
(* The message loop.                                                       *)

Message == Head(inbox)
Takes(flag) ==
  /\ pc = "receive" /\ inbox # << >> /\ Message.flag = flag
  /\ inbox' = Tail(inbox)

ReceiveHangup ==
  /\ Takes("disconnect")
  /\ pc' = "cleanupRead"
  /\ UNCHANGED <<clientVars, timeVars, audioVars, utterance, partialVars, redisVars>>

\* A text frame is ignored and does not count as activity; an empty frame and
\* one with an unknown flag are ignored too, and do.
ReceiveText ==
  /\ Takes("text")
  /\ UNCHANGED <<clientVars, timeVars, audioVars, pc, utterance, partialVars, redisVars>>

ReceiveUnknown ==
  /\ Takes("unknown")
  /\ idle' = 0
  /\ UNCHANGED <<clientVars, cutOff, audioVars, pc, utterance, partialVars, redisVars>>

ReceiveHeartbeat ==
  /\ Takes("heartbeat")
  /\ idle' = 0
  /\ pc' = "pong"
  /\ UNCHANGED <<clientVars, cutOff, audioVars, utterance, partialVars, redisVars>>

ReceiveChunk ==
  /\ Takes("chunk")
  /\ idle' = 0
  /\ buffer' = buffer + Message.audio
  /\ IF buffer' - lastBytes >= Trigger
     THEN lastBytes' = buffer' /\ pc' = "partialStt"
     ELSE UNCHANGED <<lastBytes, pc>>
  /\ UNCHANGED <<clientVars, cutOff, utterance, partialVars, redisVars>>

\* Mutant of ReceiveEnd: the trigger is not reset with the buffer.
EndKeepsTrigger ==
  /\ Takes("end")
  /\ idle' = 0
  /\ buffer' = 0
  /\ IF buffer + Message.audio > 0
     THEN pc' = "stt" /\ utterance' = utterance + 1
     ELSE UNCHANGED <<pc, utterance>>
  /\ UNCHANGED <<clientVars, cutOff, lastBytes, partialVars, redisVars>>

ReceiveEnd ==
  /\ Takes("end")
  /\ idle' = 0
  /\ buffer' = 0 /\ lastBytes' = 0
  /\ IF buffer + Message.audio > 0
     THEN pc' = "stt" /\ utterance' = utterance + 1
     ELSE UNCHANGED <<pc, utterance>>
  /\ UNCHANGED <<clientVars, cutOff, partialVars, redisVars>>

Receive ==
  \/ ReceiveHangup \/ ReceiveText \/ ReceiveUnknown
  \/ ReceiveHeartbeat \/ ReceiveChunk \/ ReceiveEnd

-----------------------------------------------------------------------------
(* Partial transcripts and on_partial_transcript.                          *)

TranscribePartial ==
  /\ pc = "partialStt"
  /\ pc' = "partialTranscript"
  /\ UNCHANGED <<clientVars, inbox, timeVars, audioVars, utterance, partialVars, redisVars>>

\* After the partial transcript is sent: what it has beyond _consumed_chars may
\* hold a complete clause.
ExtractClause ==
  /\ pc = "partialTranscript"
  /\ \/ pc' = "receive" /\ UNCHANGED consumed
     \/ \E length \in 0 .. MaxChars : \E clause \in 1 .. length - consumed :
          consumed' = consumed + clause /\ pc' = "clause"
  /\ UNCHANGED <<clientVars, inbox, timeVars, audioVars, utterance, prefixOf, redisVars>>

\* The utterance being spoken is the one after those that have ended.
TranslateClause ==
  /\ pc = "clause"
  /\ \/ pc' = "partialTranslation" /\ prefixOf' = prefixOf \cup {utterance + 1}
     \/ pc' = "receive" /\ UNCHANGED prefixOf
  /\ UNCHANGED <<clientVars, inbox, timeVars, audioVars, utterance, consumed, redisVars>>

-----------------------------------------------------------------------------
(* process_utterance: where each await that returns leads. A text may be   *)
(* empty and the audio may hold no chunk.                                  *)

Onward ==
  [greet |-> {"receive"}, pong |-> {"receive"}, partialTranslation |-> {"receive"},
   stt |-> {"transcript"}, transcript |-> {"receive", "nmt"},
   nmt |-> {"translation"}, translation |-> {"receive", "tts"},
   tts |-> {"audio", "readCount"}, audio |-> {"readCount"},
   error |-> {"receive"}, apologize |-> {"receive"}]

\* Sends that are skipped, not refused, once the watchdog has closed.
SafeSends == {"greet", "apologize", "partialTranscript"}

Proceed ==
  /\ pc \in DOMAIN Onward
  /\ cutOff => pc \in SafeSends \cup {"stt", "nmt", "tts"}
  /\ pc' \in Onward[pc]
  /\ UNCHANGED <<clientVars, inbox, timeVars, audioVars, utterance, partialVars, redisVars>>

Sends == {"greet", "pong", "partialTranscript", "partialTranslation", "transcript",
          "translation", "audio", "error", "apologize"}
Services == {"partialStt", "stt", "nmt", "tts"}
RedisCalls == {"createKey", "createActive", "readCount", "readAgain", "writeCount",
               "cleanupRead", "cleanupDelete", "cleanupRemove"}

\* Mutant of Caught: an error in a message ends the loop.
Uncaught ==
  CASE pc \in {"partialStt", "partialTranscript", "partialTranslation"} -> "receive"
    [] pc \in {"stt", "nmt", "tts", "audio"} -> "error"
    [] pc \in {"pong", "transcript", "translation", "error", "readCount", "readAgain",
               "writeCount", "greet", "apologize"} -> "cleanupRead"
    [] OTHER -> "closed"

\* Where an exception at the await is caught: partial results are best-effort,
\* a service that fails is reported, a message that fails is apologized for, a
\* failing apology ends the loop, and nothing guards Redis around the loop.
Caught ==
  CASE pc \in {"partialStt", "partialTranscript", "partialTranslation"} -> "receive"
    [] pc \in {"stt", "nmt", "tts", "audio"} -> "error"
    [] pc \in {"pong", "transcript", "translation", "error", "readCount", "readAgain",
               "writeCount"} -> "apologize"
    [] pc \in {"greet", "apologize"} -> "cleanupRead"
    [] OTHER -> "closed"

\* A command that raises (a reply that does not arrive in time) may have been
\* carried out all the same.
NotDone == UNCHANGED <<stored, ttl, active>>
DoneAllTheSame ==
  \/ pc = "createKey" /\ stored' = 0 /\ ttl' = SessionTtl /\ UNCHANGED active
  \/ pc = "writeCount" /\ stored' = current + 1 /\ ttl' = SessionTtl /\ UNCHANGED active
  \/ pc = "cleanupDelete" /\ stored' = Absent /\ ttl' = 0 /\ UNCHANGED active
  \/ /\ pc \in {"createActive", "cleanupRemove"}
     /\ active' = (pc = "createActive") /\ UNCHANGED <<stored, ttl>>

\* A send fails once the watchdog has closed the connection, and may fail when
\* the client has left; an answer whose text is null fails after it is sent.
Raise ==
  /\ \/ pc \in Sends /\ gone
     \/ pc \in Sends \ SafeSends /\ cutOff
     \/ pc \in Services \cup {"transcript", "translation"} /\ ServicesMayFail
     \/ pc \in RedisCalls /\ RedisMayFail
  /\ pc' = Caught
  /\ NotDone \/ DoneAllTheSame
  /\ miscounted' = (miscounted \/ pc = "writeCount")
  /\ cutShort' = (cutShort \/ pc' = "closed")
  /\ UNCHANGED <<clientVars, inbox, timeVars, audioVars, utterance, partialVars, current,
                 completed, expired>>

\* The server stops: the connection is gone, Redis keeps what it has.
Crash ==
  /\ pc # "closed"
  /\ pc' = "closed"
  /\ cutShort' = TRUE
  /\ UNCHANGED <<clientVars, inbox, timeVars, audioVars, utterance, partialVars, stored, ttl,
                 active, current, completed, expired, miscounted>>

-----------------------------------------------------------------------------
Loop ==
  \/ CreateKey \/ CreateActive \/ Receive
  \/ TranscribePartial \/ ExtractClause \/ TranslateClause
  \/ Proceed \/ ReadCount \/ ReadAgain \/ WriteCount
  \/ CleanUpRead \/ CleanUpDelete \/ CleanUpRemove
  \/ Raise

Client ==
  \/ \E flag \in {"heartbeat", "chunk", "end", "text", "unknown"}, audio \in {0, 1} :
       (audio = 1 => flag \in {"chunk", "end"}) /\ ClientSends(flag, audio)
  \/ ClientLeaves

Next == Loop \/ Watchdog \/ Tick \/ Client \/ Crash

Spec == Init /\ [][Next]_vars

\* Awaits return, time passes and the watchdog wakes every second.
FairSpec == Spec /\ WF_vars(Loop) /\ WF_vars(Watchdog) /\ WF_vars(Tick)

-----------------------------------------------------------------------------
Points == Sends \cup Services \cup RedisCalls \cup {"receive", "clause", "closed"}

TypeOK ==
  /\ {gone, lapsed, cutOff, active, expired, miscounted, cutShort} \subseteq BOOLEAN
  /\ {sent, utterance, completed, current, buffer, lastBytes} \subseteq Nat
  /\ {silent, idle} \subseteq 0 .. Timeout + 1
  /\ inbox \in Seq([flag : {"heartbeat", "chunk", "end", "text", "unknown", "disconnect"},
                   audio : {0, 1}])
  /\ pc \in Points
  /\ consumed \in 0 .. MaxChars /\ prefixOf \subseteq Nat
  /\ stored \in Nat \cup {Absent} /\ ttl \in 0 .. SessionTtl
  /\ (stored = Absent) = (ttl = 0)
  /\ lastBytes <= buffer

\* A connection whose clean-up ran to its end leaves nothing of its session in
\* Redis, however the connection ended, whichever commands, services and sends
\* have failed on the way and wherever its key expired.
ClosedSessionsLeaveNothing ==
  pc = "closed" /\ (active \/ stored # Absent) => cutShort

\* Between messages the count in Redis is the number of utterances whose pipeline
\* ran to its end, although update_session writes a count read two awaits earlier
\* and the key may expire and be written again between any two commands; a key
\* that has expired stays away, and no other is ever missing.
CountsMatch ==
  pc = "receive" /\ ~miscounted => stored = IF expired THEN Absent ELSE completed

\* "never crash the WS loop" (websocket_handler.py): the loop ends because the
\* client left or was cut off, never because a message, a service or Redis failed.
LoopSurvivesErrors ==
  pc \in Cleaning \ {"closed"} => gone \/ cutOff

\* A client that has fallen silent for good is disconnected, whatever await the
\* loop was at, and its connection is cleaned up.
SilentClientsGo == <>[](silent > Timeout) => <>(pc = "closed")

-----------------------------------------------------------------------------
(* Claims of the repository that the code does not keep.                   *)

\* "Tracks partial transcript text for one utterance" (SimulMTProcessor): the
\* partial translation sent is made of the clauses of the utterance in progress.
PartialsAreThisUtterance ==
  pc = "partialTranslation" => prefixOf \subseteq {utterance + 1}

\* reason="Heartbeat timeout": only a client that once sent nothing for
\* longer than the timeout is cut off.
OnlySilentClientsAreCutOff == cutOff => lapsed

\* "Redis-backed session state (1hr TTL)": what a connection that ended has left
\* in Redis still has its time to live.
LeftoversExpire == pc = "closed" /\ active => ttl > 0
=============================================================================
