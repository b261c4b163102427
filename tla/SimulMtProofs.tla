---------------------------- MODULE SimulMtProofs ----------------------------
(***************************************************************************)
(* Proofs about one connection of the SimulMT server (SimulMtSession), for *)
(* any trigger, timeout, time to live, number of messages and length of a  *)
(* partial transcript, with or without errors of Redis and the services:   *)
(* types, what the connection leaves in Redis, the count it keeps there,   *)
(* and why its loop ends.                                                  *)
(***************************************************************************)
EXTENDS SimulMtSession, SequenceTheorems, TLAPS

-----------------------------------------------------------------------------
(* Types.                                                                  *)

Flags == {"heartbeat", "chunk", "end", "text", "unknown", "disconnect"}
Messages == [flag : Flags, audio : {0, 1}]

\* Where a call that returns or raises leads is an await again.
LEMMA OnwardIsPoint ==
  ASSUME pc \in DOMAIN Onward, NEW next \in Onward[pc]
  PROVE  next \in Points \ {"createKey", "createActive", "closed", "cleanupRead",
                            "cleanupDelete", "cleanupRemove", "readAgain", "writeCount"}
BY DEF Onward, Points, Sends, Services, RedisCalls

LEMMA CaughtIsPoint ==
  Caught \in {"receive", "error", "apologize", "cleanupRead", "closed"}
BY DEF Caught

LEMMA PointsAre ==
  {"receive", "error", "apologize", "cleanupRead", "closed"} \subseteq Points
BY DEF Points, Sends, Services, RedisCalls

\* A message that is received is one that was sent.
LEMMA HeadIsMessage ==
  ASSUME inbox \in Seq(Messages), inbox # << >>
  PROVE  Message \in Messages /\ Tail(inbox) \in Seq(Messages)
BY DEF Message

LEMMA CapInRange ==
  ASSUME NEW most \in Nat, NEW n \in 0 .. most PROVE Cap(n, most) \in 0 .. most
BY DEF Cap

LEMMA TypeInit == Init => TypeOK
<1> SUFFICES ASSUME Init PROVE TypeOK
  OBVIOUS
<1>1. Timeout \in Nat /\ SessionTtl \in Nat /\ MaxChars \in Nat
  BY SimulMtAssumption
<1>2. inbox \in Seq([flag : {"heartbeat", "chunk", "end", "text", "unknown", "disconnect"},
                    audio : {0, 1}])
  BY DEF Init
<1>3. {gone, lapsed, cutOff, active, expired, miscounted, cutShort} \subseteq BOOLEAN
  <2>1. /\ gone \in BOOLEAN /\ lapsed \in BOOLEAN /\ cutOff \in BOOLEAN /\ active \in BOOLEAN
        /\ expired \in BOOLEAN /\ miscounted \in BOOLEAN /\ cutShort \in BOOLEAN
    BY DEF Init
  <2> QED BY <2>1
<1>9. {sent, utterance, completed, current, buffer, lastBytes} \subseteq Nat
  BY DEF Init
<1>8. {silent, idle} \subseteq 0 .. Timeout + 1
  <2>1. silent = 0 /\ idle = 0 /\ 0 \in 0 .. Timeout + 1
    BY <1>1 DEF Init
  <2> QED BY <2>1
<1>4. pc \in Points
  BY DEF Init, Points, RedisCalls
<1>5. consumed \in 0 .. MaxChars /\ prefixOf \subseteq Nat
  BY <1>1 DEF Init
<1>6. stored \in Nat \cup {Absent} /\ ttl \in 0 .. SessionTtl
  BY <1>1 DEF Init
<1>7. (stored = Absent) = (ttl = 0) /\ lastBytes <= buffer
  BY DEF Init
<1> QED BY <1>2, <1>3, <1>4, <1>5, <1>6, <1>7, <1>8, <1>9 DEF TypeOK

LEMMA TypeStep == TypeOK /\ [Next]_vars => TypeOK'
<1> SUFFICES ASSUME TypeOK, [Next]_vars PROVE TypeOK'
  OBVIOUS
<1>a. /\ Trigger \in Nat /\ Timeout \in Nat /\ SessionTtl \in Nat \ {0}
      /\ MaxMessages \in Nat /\ MaxChars \in Nat
  BY SimulMtAssumption
<1>b. inbox \in Seq(Messages)
  BY DEF TypeOK, Messages, Flags
<1> USE DEF clientVars, timeVars, audioVars, partialVars, redisVars, historyVars
<1>1. CASE CreateKey
  BY <1>1, <1>a DEF CreateKey, TypeOK, Points, RedisCalls, Absent
<1>2. CASE CreateActive
  BY <1>2, <1>a DEF CreateActive, TypeOK, Points, Sends
<1>3. CASE Receive
  <2>1. ASSUME NEW flag, Takes(flag)
        PROVE  inbox' \in Seq(Messages) /\ Message.audio \in {0, 1}
    BY <1>b, <2>1, HeadIsMessage DEF Takes, Messages
  <2>2. inbox' \in Seq(Messages) /\ Message.audio \in {0, 1}
    BY <1>3, <2>1 DEF Receive, ReceiveHangup, ReceiveText, ReceiveUnknown, ReceiveHeartbeat,
                      ReceiveChunk, ReceiveEnd
  <2>3. inbox' \in Seq([flag : {"heartbeat", "chunk", "end", "text", "unknown", "disconnect"},
                        audio : {0, 1}])
    BY <2>2 DEF Messages, Flags
  <2>4. CASE ReceiveHangup \/ ReceiveText \/ ReceiveUnknown \/ ReceiveHeartbeat
    <3>1. pc' \in Points
      BY <2>4 DEF ReceiveHangup, ReceiveText, ReceiveUnknown, ReceiveHeartbeat, TypeOK,
                  Points, Sends, RedisCalls
    <3>2. {silent, idle}' \subseteq 0 .. Timeout + 1
      BY <2>4, <1>a DEF ReceiveHangup, ReceiveText, ReceiveUnknown, ReceiveHeartbeat, TypeOK
    <3> QED BY <2>3, <2>4, <3>1, <3>2, ZenonT(60)
            DEF ReceiveHangup, ReceiveText, ReceiveUnknown, ReceiveHeartbeat, TypeOK
  <2>5. CASE ReceiveChunk
    <3>1. buffer \in Nat /\ lastBytes \in Nat /\ lastBytes <= buffer
      BY DEF TypeOK
    <3>2. buffer' \in Nat /\ lastBytes' \in Nat /\ lastBytes' <= buffer'
      BY <2>2, <2>5, <3>1 DEF ReceiveChunk
    <3>3. pc' \in Points
      BY <2>5 DEF ReceiveChunk, TypeOK, Points, Services
    <3>4. idle' = 0 /\ UNCHANGED <<clientVars, cutOff, utterance, partialVars, redisVars>>
      BY <2>5 DEF ReceiveChunk
    <3>5. /\ {sent, utterance, completed, current, buffer, lastBytes}' \subseteq Nat
          /\ {silent, idle}' \subseteq 0 .. Timeout + 1
      BY <3>2, <3>4, <1>a DEF TypeOK
    <3> QED BY <2>3, <3>2, <3>3, <3>4, <3>5 DEF TypeOK
  <2>6. CASE ReceiveEnd
    <3>1. utterance' \in Nat /\ pc' \in Points
      BY <2>2, <2>6 DEF ReceiveEnd, TypeOK, Points, Services
    <3> QED BY <2>3, <2>6, <3>1, <1>a DEF ReceiveEnd, TypeOK
  <2> QED BY <1>3, <2>4, <2>5, <2>6 DEF Receive
<1>4. CASE TranscribePartial
  BY <1>4, <1>a DEF TranscribePartial, TypeOK, Points, Sends
<1>5. CASE ExtractClause
  <2>1. consumed' \in 0 .. MaxChars
    <3>1. consumed \in 0 .. MaxChars
      BY DEF TypeOK
    <3>2. ASSUME NEW length \in 0 .. MaxChars, NEW clause \in 1 .. length - consumed
          PROVE  consumed + clause \in 0 .. MaxChars
      BY <1>a, <3>1
    <3> QED BY <1>5, <3>1, <3>2 DEF ExtractClause
  <2> QED BY <1>5, <2>1, <1>a DEF ExtractClause, TypeOK, Points
<1>6. CASE TranslateClause
  <2>1. prefixOf' \subseteq Nat
    <3>1. utterance + 1 \in Nat /\ prefixOf \subseteq Nat
      BY DEF TypeOK
    <3> QED BY <1>6, <3>1 DEF TranslateClause
  <2> QED BY <1>6, <2>1, <1>a DEF TranslateClause, TypeOK, Points, Sends
<1>7. CASE Proceed
  BY <1>7, <1>a, OnwardIsPoint DEF Proceed, TypeOK
<1>8. CASE ReadCount \/ ReadAgain
  <2>1. pc' \in Points
    BY <1>8 DEF ReadCount, ReadAgain, Points, RedisCalls
  <2>2. current' \in Nat /\ completed' \in Nat
    BY <1>8 DEF ReadCount, ReadAgain, TypeOK
  <2> QED BY <1>8, <2>1, <2>2, ZenonT(60) DEF ReadCount, ReadAgain, TypeOK
<1>9. CASE WriteCount
  <2>1. stored' \in Nat /\ completed' \in Nat /\ stored' # Absent
    BY <1>9 DEF WriteCount, TypeOK, Absent
  <2>2. ttl' \in 0 .. SessionTtl /\ ttl' # 0
    BY <1>9, <1>a DEF WriteCount
  <2>3. {gone, lapsed, cutOff, active, expired, miscounted, cutShort}' \subseteq BOOLEAN
    BY <1>9 DEF WriteCount, TypeOK
  <2>4. {sent, utterance, completed, current, buffer, lastBytes}' \subseteq Nat
    BY <1>9, <2>1 DEF WriteCount, TypeOK
  <2> QED BY <1>9, <2>1, <2>2, <2>3, <2>4 DEF WriteCount, TypeOK, Points
<1>10. CASE CleanUpRead \/ CleanUpDelete \/ CleanUpRemove
  <2>1. pc' \in Points
    BY <1>10 DEF CleanUpRead, CleanUpDelete, CleanUpRemove, Points, RedisCalls
  <2>2. /\ stored' \in Nat \cup {Absent} /\ ttl' \in 0 .. SessionTtl
        /\ (stored' = Absent) = (ttl' = 0)
    BY <1>10, <1>a, SMTT(30) DEF CleanUpRead, CleanUpDelete, CleanUpRemove, TypeOK
  <2> QED BY <1>10, <2>1, <2>2, ZenonT(60) DEF CleanUpRead, CleanUpDelete, CleanUpRemove, TypeOK
<1>11. CASE Raise
  <2>1. /\ stored' \in Nat \cup {Absent} /\ ttl' \in 0 .. SessionTtl
        /\ (stored' = Absent) = (ttl' = 0)
    <3>1. CASE NotDone
      BY <3>1 DEF NotDone, TypeOK
    <3>2. CASE DoneAllTheSame
      <4>1. current \in Nat /\ stored \in Nat \cup {Absent} /\ ttl \in 0 .. SessionTtl
            /\ (stored = Absent) = (ttl = 0)
        BY DEF TypeOK
      <4> QED BY <3>2, <4>1, <1>a DEF DoneAllTheSame, Absent
    <3> QED BY <1>11, <3>1, <3>2 DEF Raise
  <2>2. active' \in BOOLEAN
    BY <1>11 DEF Raise, NotDone, DoneAllTheSame, TypeOK
  <2>3. miscounted' \in BOOLEAN /\ cutShort' \in BOOLEAN /\ pc' \in Points
    BY <1>11, CaughtIsPoint, PointsAre DEF Raise
  <2>4. {gone, lapsed, cutOff, active, expired, miscounted, cutShort}' \subseteq BOOLEAN
    BY <1>11, <2>2, <2>3 DEF Raise, TypeOK
  <2> QED BY <1>11, <1>a, <2>1, <2>3, <2>4 DEF Raise, TypeOK
<1>12. CASE Watchdog
  <2>1. Hangup \in Messages
    BY DEF Hangup, Messages, Flags
  <2>2. inbox' \in Seq(Messages)
    BY <1>12, <1>b, <2>1 DEF Watchdog
  <2> QED BY <1>12, <2>2, <1>a DEF Watchdog, TypeOK, Messages, Flags
<1>13. CASE Tick
  <2>1. silent' \in 0 .. Timeout + 1 /\ idle' \in 0 .. Timeout + 1
    BY <1>13, <1>a, CapInRange DEF Tick, TypeOK
  <2>2. ttl' \in 0 .. SessionTtl /\ stored' \in Nat \cup {Absent} /\ (stored' = Absent) = (ttl' = 0)
    BY <1>13, <1>a DEF Tick, TypeOK, Absent
  <2> QED BY <1>13, <2>1, <2>2, <1>a DEF Tick, TypeOK
<1>14. CASE Client
  <2>1. ASSUME NEW flag \in Flags, NEW audio \in {0, 1}, ClientSends(flag, audio) PROVE TypeOK'
    <3>1. inbox' \in Seq(Messages)
      BY <2>1, <1>b DEF ClientSends, Messages
    <3> QED BY <2>1, <3>1, <1>a, SMTT(30) DEF ClientSends, TypeOK, Messages, Flags
  <2>2. CASE ClientLeaves
    <3>1. Hangup \in Messages
      BY DEF Hangup, Messages, Flags
    <3>2. inbox' \in Seq(Messages)
      BY <2>2, <1>b, <3>1 DEF ClientLeaves
    <3> QED BY <2>2, <3>2, <1>a DEF ClientLeaves, TypeOK, Messages, Flags
  <2> QED BY <1>14, <2>1, <2>2 DEF Client, Flags
<1>15. CASE Crash
  BY <1>15, <1>a DEF Crash, TypeOK, Points
<1>16. CASE UNCHANGED vars
  BY <1>16, <1>a DEF vars, TypeOK
<1> QED
  BY <1>1, <1>2, <1>3, <1>4, <1>5, <1>6, <1>7, <1>8, <1>9, <1>10, <1>11, <1>12, <1>13, <1>14,
     <1>15, <1>16 DEF Next, Loop

\* Every reachable state is well-typed; in particular the buffer at the last
\* trigger is never larger than the buffer, and a key exists exactly as long as
\* it has time to live.
THEOREM SimulMtTypeCorrect == Spec => []TypeOK
BY TypeInit, TypeStep, PTL DEF Spec

-----------------------------------------------------------------------------
(* The session in Redis.  What is stored follows the count from the key's   *)
(* creation on, through its expiry and its return, as long as no update    *)
(* raised; what is left behind follows the clean-up, whatever came before. *)

CountFits ==
  /\ pc = "createKey" => stored = Absent /\ completed = 0 /\ ~expired
  /\ ~miscounted /\ pc \notin {"createKey", "cleanupRemove", "closed"} =>
       stored = IF expired THEN Absent ELSE completed
  /\ ~miscounted /\ pc = "readAgain" /\ stored # Absent => current = completed
  /\ ~miscounted /\ pc = "writeCount" => current = completed

DeletionFits ==
  ~cutShort =>
    /\ pc \in {"cleanupRemove", "closed"} => stored = Absent
    /\ pc = "closed" => ~active

RedisInv == TypeOK /\ CountFits /\ DeletionFits

LEMMA RedisInit == Init => RedisInv
BY TypeInit DEF Init, RedisInv, CountFits, DeletionFits

LEMMA RedisStep == RedisInv /\ [Next]_vars => RedisInv'
<1> SUFFICES ASSUME RedisInv, [Next]_vars PROVE CountFits' /\ DeletionFits'
  BY TypeStep DEF RedisInv
<1>a. TypeOK /\ CountFits /\ DeletionFits
  BY DEF RedisInv
<1>b. completed \in Nat /\ Absent \notin Nat /\ stored \in Nat \cup {Absent}
  BY <1>a DEF TypeOK, Absent
<1> USE DEF clientVars, timeVars, audioVars, partialVars, redisVars, historyVars
<1>1. CASE CreateKey \/ CreateActive
  BY <1>1, <1>a DEF CreateKey, CreateActive, CountFits, DeletionFits
<1>2. CASE Receive \/ TranscribePartial \/ ExtractClause \/ TranslateClause
  <2>1. /\ pc' \notin {"createKey", "cleanupRemove", "closed", "readAgain", "writeCount"}
        /\ pc \notin {"createKey", "cleanupRemove", "closed"}
        /\ UNCHANGED redisVars
    BY <1>2 DEF Receive, ReceiveHangup, ReceiveText, ReceiveUnknown, ReceiveHeartbeat,
                ReceiveChunk, ReceiveEnd, Takes, TranscribePartial, ExtractClause, TranslateClause
  <2> QED BY <2>1, <1>a DEF CountFits, DeletionFits
<1>3. CASE Proceed
  <2>1. pc \notin {"createKey", "cleanupRemove", "closed"}
    BY <1>3 DEF Proceed, Onward
  <2>2. pc' \notin {"createKey", "cleanupRemove", "closed", "readAgain", "writeCount"}
    BY <1>3, OnwardIsPoint DEF Proceed
  <2> QED BY <1>3, <2>1, <2>2, <1>a DEF Proceed, CountFits, DeletionFits
<1>4. CASE ReadCount \/ ReadAgain \/ WriteCount
  BY <1>4, <1>a, <1>b DEF ReadCount, ReadAgain, WriteCount, CountFits, DeletionFits
<1>5. CASE CleanUpRead \/ CleanUpDelete \/ CleanUpRemove
  BY <1>5, <1>a DEF CleanUpRead, CleanUpDelete, CleanUpRemove, CountFits, DeletionFits
<1>6. CASE Raise
  <2>1. CASE pc \in RedisCalls \ {"readCount", "readAgain", "writeCount"}
    <3>1. Caught = "closed"
      BY <2>1 DEF Caught, RedisCalls
    <3> QED BY <1>6, <3>1 DEF Raise, CountFits, DeletionFits
  <2>2. CASE pc = "writeCount"
    <3>1. Caught = "apologize"
      BY <2>2 DEF Caught
    <3> QED BY <1>6, <2>2, <3>1 DEF Raise, CountFits, DeletionFits
  <2>3. CASE pc \notin RedisCalls \/ pc \in {"readCount", "readAgain"}
    <3>1. pc \in Sends \cup Services \cup {"readCount", "readAgain"}
      BY <1>6, <2>3 DEF Raise, Sends, SafeSends
    <3>2. Caught \in {"receive", "error", "apologize", "cleanupRead"}
      BY <3>1 DEF Caught, Sends, Services
    <3>3. pc \notin {"createKey", "createActive", "writeCount", "cleanupDelete", "cleanupRemove",
                    "closed"}
      BY <3>1 DEF Sends, Services
    <3>4. UNCHANGED <<stored, active, current, completed, expired, miscounted, cutShort>>
      <4>1. NotDone
        BY <1>6, <3>3 DEF Raise, DoneAllTheSame
      <4>2. miscounted' = miscounted /\ cutShort' = cutShort
        BY <1>6, <1>a, <3>2, <3>3 DEF Raise, TypeOK
      <4> QED BY <1>6, <4>1, <4>2 DEF Raise, NotDone
    <3> QED BY <1>6, <1>a, <3>2, <3>3, <3>4 DEF Raise, CountFits, DeletionFits
  <2> QED BY <2>1, <2>2, <2>3
<1>7. CASE Watchdog \/ Client
  <2>1. UNCHANGED <<pc, stored, active, current, completed, expired, miscounted, cutShort>>
    BY <1>7 DEF Watchdog, Client, ClientSends, ClientLeaves
  <2> QED BY <2>1, <1>a DEF CountFits, DeletionFits
<1>8. CASE Tick
  <2>1. CASE ttl = 1
    <3>1. stored # Absent /\ stored' = Absent /\ expired' = TRUE
      <4>1. (stored = Absent) = (ttl = 0) /\ expired \in BOOLEAN
        BY <1>a DEF TypeOK
      <4>2. stored' = Absent /\ expired' = (expired \/ ttl = 1)
        BY <1>8, <2>1 DEF Tick
      <4>3. stored # Absent
        BY <2>1, <4>1
      <4>4. expired' = TRUE
        BY <2>1, <4>1, <4>2, Zenon
      <4> QED BY <4>2, <4>3, <4>4
    <3>2. UNCHANGED <<pc, active, current, completed, miscounted, cutShort>>
      BY <1>8 DEF Tick
    <3>3. pc # "createKey"
      BY <3>1, <1>a DEF CountFits
    <3> QED BY <3>1, <3>2, <3>3, <1>a DEF CountFits, DeletionFits
  <2>2. CASE ttl # 1
    BY <1>8, <2>2, <1>a DEF Tick, CountFits, DeletionFits, TypeOK
  <2> QED BY <2>1, <2>2
<1>9. CASE Crash
  BY <1>9, <1>a DEF Crash, CountFits, DeletionFits
<1>10. CASE UNCHANGED vars
  BY <1>10, <1>a DEF vars, CountFits, DeletionFits
<1> QED BY <1>1, <1>2, <1>3, <1>4, <1>5, <1>6, <1>7, <1>8, <1>9, <1>10 DEF Next, Loop

LEMMA RedisInvariant == Spec => []RedisInv
BY RedisInit, RedisStep, PTL DEF Spec

\* For any number of messages, any time to live and any failures of services,
\* sends and reads: between messages the count in Redis is the number of utterances
\* whose pipeline ran to its end, or its key is away because it has expired, unless
\* an update of the count itself has raised.
THEOREM CountsAlwaysMatch == Spec => []CountsMatch
<1>1. RedisInv => CountsMatch
  BY DEF RedisInv, CountFits, CountsMatch
<1> QED BY <1>1, RedisInvariant, PTL

\* However a connection ends, wherever its key expires and whatever fails in its
\* loop: short of a crash, or of a Redis error that ends the handler, neither its
\* key nor its place in the set of active sessions outlives it.
THEOREM ClosedSessionsAlwaysLeaveNothing == Spec => []ClosedSessionsLeaveNothing
<1>1. RedisInv => ClosedSessionsLeaveNothing
  BY DEF RedisInv, DeletionFits, ClosedSessionsLeaveNothing
<1> QED BY <1>1, RedisInvariant, PTL

-----------------------------------------------------------------------------
(* Why the loop ends.                                                      *)

\* A hangup in the inbox is the client's or the watchdog's.
HangupsFit ==
  /\ \A i \in 1 .. Len(inbox) : inbox[i].flag = "disconnect" => gone \/ cutOff
  /\ LoopSurvivesErrors

LoopInv == TypeOK /\ HangupsFit

LEMMA LoopInit == Init => LoopInv
BY TypeInit DEF Init, LoopInv, HangupsFit, LoopSurvivesErrors, Cleaning

\* Appending a message that is no hangup, or one's own hangup, keeps it so.
LEMMA Appended ==
  ASSUME TypeOK, HangupsFit, NEW message \in Messages, inbox' = Append(inbox, message),
         gone => gone', cutOff => cutOff', gone' \in BOOLEAN, cutOff' \in BOOLEAN,
         message.flag = "disconnect" => gone' \/ cutOff'
  PROVE  \A i \in 1 .. Len(inbox') : inbox'[i].flag = "disconnect" => gone' \/ cutOff'
<1>1. inbox \in Seq(Messages)
  BY DEF TypeOK, Messages, Flags
<1>2. /\ Len(inbox') = Len(inbox) + 1 /\ Len(inbox) \in Nat
      /\ \A i \in 1 .. Len(inbox) : inbox'[i] = inbox[i]
      /\ inbox'[Len(inbox) + 1] = message
  BY <1>1
<1> QED BY <1>2 DEF HangupsFit

LEMMA LoopStep == LoopInv /\ [Next]_vars => LoopInv'
<1> SUFFICES ASSUME LoopInv, [Next]_vars PROVE HangupsFit'
  BY TypeStep DEF LoopInv
<1>a. TypeOK /\ TypeOK' /\ HangupsFit
  BY TypeStep DEF LoopInv
<1>b. inbox \in Seq(Messages)
  BY <1>a DEF TypeOK, Messages, Flags
<1> USE DEF clientVars, timeVars, audioVars, partialVars, redisVars, historyVars
<1>1. CASE Receive
  <2>1. inbox # << >> /\ inbox' = Tail(inbox) /\ UNCHANGED <<gone, cutOff>>
    BY <1>1 DEF Receive, ReceiveHangup, ReceiveText, ReceiveUnknown, ReceiveHeartbeat,
                ReceiveChunk, ReceiveEnd, Takes
  <2>2. 1 \in 1 .. Len(inbox) /\ Message = inbox[1]
    BY <1>b, <2>1 DEF Message
  <2>3. \A i \in 1 .. Len(inbox') : i + 1 \in 1 .. Len(inbox) /\ inbox'[i] = inbox[i + 1]
    BY <1>b, <2>1
  <2>4. LoopSurvivesErrors'
    BY <1>1, <1>a, <2>1, <2>2
       DEF Receive, ReceiveHangup, ReceiveText, ReceiveUnknown, ReceiveHeartbeat, ReceiveChunk,
           ReceiveEnd, Takes, HangupsFit, LoopSurvivesErrors, Cleaning
  <2> QED BY <1>a, <2>1, <2>3, <2>4 DEF HangupsFit
<1>2. CASE Raise
  <2>1. pc \in {"greet", "apologize"} => gone
    BY <1>2 DEF Raise, Sends, SafeSends, Services, RedisCalls
  <2>2. pc' = "cleanupRead" => pc \in {"greet", "apologize"}
    BY <1>2 DEF Raise, Caught
  <2>3. LoopSurvivesErrors'
    BY <1>2, <2>1, <2>2, CaughtIsPoint DEF Raise, LoopSurvivesErrors, Cleaning
  <2> QED BY <1>2, <1>a, <2>3 DEF Raise, HangupsFit
<1>3. CASE Proceed
  <2>1. pc' \notin Cleaning
    BY <1>3, OnwardIsPoint DEF Proceed, Cleaning
  <2> QED BY <1>3, <1>a, <2>1 DEF Proceed, HangupsFit, LoopSurvivesErrors
<1>4. CASE CreateKey \/ CreateActive \/ TranscribePartial \/ ExtractClause \/ TranslateClause
           \/ ReadCount \/ ReadAgain \/ WriteCount
  BY <1>4, <1>a DEF CreateKey, CreateActive, TranscribePartial, ExtractClause, TranslateClause,
     ReadCount, ReadAgain, WriteCount, HangupsFit, LoopSurvivesErrors, Cleaning
<1>5. CASE CleanUpRead \/ CleanUpDelete \/ CleanUpRemove \/ Tick \/ Crash
  BY <1>5, <1>a DEF CleanUpRead, CleanUpDelete, CleanUpRemove, Tick, Crash, HangupsFit,
     LoopSurvivesErrors, Cleaning
<1>6. CASE Watchdog
  <2>1. Hangup \in Messages
    BY DEF Hangup, Messages, Flags
  <2>2. /\ inbox' = Append(inbox, Hangup) /\ cutOff' /\ UNCHANGED <<gone, pc>>
    BY <1>6 DEF Watchdog
  <2>3. \A i \in 1 .. Len(inbox') : inbox'[i].flag = "disconnect" => gone' \/ cutOff'
    BY <2>2
  <2> QED BY <2>2, <2>3 DEF HangupsFit, LoopSurvivesErrors
<1>7. CASE Client
  <2>1. ASSUME NEW flag \in Flags \ {"disconnect"}, NEW audio \in {0, 1},
               ClientSends(flag, audio)
        PROVE  HangupsFit'
    <3>1. [flag |-> flag, audio |-> audio] \in Messages
      BY DEF Messages
    <3>2. \A i \in 1 .. Len(inbox') : inbox'[i].flag = "disconnect" => gone' \/ cutOff'
      BY <2>1, <3>1, <1>a, Appended DEF ClientSends, TypeOK
    <3> QED BY <2>1, <3>2, <1>a DEF ClientSends, HangupsFit, LoopSurvivesErrors
  <2>2. CASE ClientLeaves
    BY <2>2, <1>a DEF ClientLeaves, HangupsFit, LoopSurvivesErrors
  <2> QED BY <1>7, <2>1, <2>2 DEF Client, Flags
<1>8. CASE UNCHANGED vars
  BY <1>8, <1>a DEF vars, HangupsFit, LoopSurvivesErrors
<1> QED BY <1>1, <1>2, <1>3, <1>4, <1>5, <1>6, <1>7, <1>8 DEF Next, Loop

\* Whatever fails, and however often: the loop is left for its clean-up only
\* after the client has left or the watchdog has closed the connection.
THEOREM LoopAlwaysSurvivesErrors == Spec => []LoopSurvivesErrors
<1>1. LoopInv => LoopSurvivesErrors
  BY DEF LoopInv, HangupsFit
<1> QED BY <1>1, LoopInit, LoopStep, PTL DEF Spec
=============================================================================
