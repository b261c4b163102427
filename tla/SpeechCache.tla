---------------------------- MODULE SpeechCache ----------------------------
(***************************************************************************)
(* The caches of general translations and speech: translation_cache and    *)
(* tts_audio_cache with their files (src/db.py 332-390), as the pipelines  *)
(* of run_sarvam_pipeline use them (src/sarvam_server.py 746-886).  The    *)
(* session around a pipeline is TranslateSession's; here several pipelines *)
(* share the caches, and what they say is carried as text and sound.       *)
(*                                                                         *)
(* One pair of languages; a hash is its text; hit counters are left out.   *)
(***************************************************************************)
EXTENDS SpokenText, AudioClip

CONSTANTS
  Pipelines,
  Questions,      \* what may be asked
  Translations,   \* the wordings providers may give, by question
  Voice,          \* the samples a sentence is spoken with
  Missing,        \* no translation, no file
  Torn,           \* a file cut while it was written
  MaxTalks,       \* bound: utterances
  MaxTears        \* bound: writes cut

\* Tables, evaluated once: the sentences of each text, their keys, their clips.
Shown == Questions \cup UNION {Translations[q] : q \in Questions}
Said == [t \in Shown |-> SplitSentences(t)]
Sentences == UNION {ToSet(Said[t]) : t \in Shown}

Key == [t \in Questions \cup Sentences |-> NormalizeForCache(t)]
TextKeys == {Key[q] : q \in Questions}
SpeechKeys == {Key[s] : s \in Sentences}

\* The files a provider may wrap its samples in: a canonical one, one with a
\* chunk of an odd size before the data, one that leaves the size open, one with
\* half a sample at the end.
Wrapped(pcm) ==
  LET format == Riff \o Chunk("fmt", 16, Filler(16))
  IN  {PcmToWav(pcm), format \o Chunk("LIST", 3, Filler(4)) \o Chunk("data", Len(pcm), pcm),
       format \o Chunk("data", Len(pcm) + WavHeaderSize, pcm), PcmToWav(pcm \o Filler(1))}

Clips == [s \in Sentences |-> {ApplyEdgeFade(WavToPcm(w)) : w \in Wrapped(Bytes(Voice[s]))}]

\* A text is finite, a blank ends no sentence; a sentence's sound has two samples
\* at least (a shorter one would not be faded).
ASSUME SpeechAssumption ==
  /\ Questions \subseteq DOMAIN Translations
  /\ \A q \in Questions : Translations[q] # {}
  /\ \A t \in Shown : t \in Seq(ToSet(t))
  /\ Blank \notin Marks
  /\ \A s \in Sentences : Voice[s] \in Seq(Int) /\ Len(Voice[s]) >= 2
  /\ FadeSamples \in Nat \ {0}
  /\ Missing # Torn
  /\ Missing \notin UNION {Translations[q] : q \in Questions}
  /\ Missing \notin UNION {Clips[s] : s \in Sentences}

VARIABLES
  translations,   \* translation_cache
  row,            \* whether tts_audio_cache has a row
  file,           \* the clip a general audio file holds
  job,            \* of each pipeline, its locals: see Idle
  talks, tears

vars == <<translations, row, file, job, talks, tears>>

\* at: the await; shown: the text sent to the client; n: the sentence it is at;
\* have: the clips found in the cache; heard: those sent.  saved and paid are
\* not in the code: what was cached when it began, and what it paid for.
Idle == [at |-> "idle", asked |-> << >>, shown |-> << >>, n |-> 1, have |-> << >>,
         heard |-> << >>, saved |-> {}, paid |-> {}]

Init ==
  /\ translations = [k \in TextKeys |-> Missing]
  /\ row = [k \in SpeechKeys |-> FALSE]
  /\ file = [k \in SpeechKeys |-> Missing]
  /\ job = [p \in Pipelines |-> Idle]
  /\ talks = 0 /\ tears = 0

At(p, where) == job[p].at = where
Becomes(p, record) == job' = [job EXCEPT ![p] = record]
Sentence(p) == Said[job[p].shown][job[p].n]

Showing(j, t) == [j EXCEPT !.at = "lookupSpeech", !.shown = t]

\* On to the next sentence; after the last of the lookups the speaking begins.
Looked(j, clip) ==
  LET more == j.n < Len(Said[j.shown])
  IN  [j EXCEPT !.have = Append(@, clip), !.n = IF more THEN @ + 1 ELSE 1,
                !.at = IF more THEN "lookupSpeech" ELSE "speak"]
Sent(j, clip) ==
  LET more == j.n < Len(Said[j.shown])
  IN  IF more THEN [j EXCEPT !.heard = Append(@, clip), !.n = @ + 1, !.at = "speak"]
      ELSE [j EXCEPT !.heard = Append(@, clip), !.n = 1, !.have = << >>, !.at = "done"]

-----------------------------------------------------------------------------
(* Text.                                                                   *)

\* An utterance heard and matched by no entry of the pack; both sides may speak
\* the same language, and then it is not translated.
Ask(p, q, translated) ==
  LET fresh == [Idle EXCEPT !.at = "lookupText", !.asked = q,
        !.saved = {<<"text", k>> : k \in {k \in TextKeys : translations[k] # Missing}}
                    \cup {<<"speech", k>> : k \in {k \in SpeechKeys : row[k]}}]
  IN  /\ job[p].at \in {"idle", "done"} /\ talks < MaxTalks
      /\ talks' = talks + 1
      /\ Becomes(p, IF translated THEN fresh ELSE Showing(fresh, q))
      /\ UNCHANGED <<translations, row, file, tears>>

LookupText(p) ==
  LET cached == translations[Key[job[p].asked]]
  IN  /\ At(p, "lookupText")
      /\ Becomes(p, IF cached # Missing THEN Showing(job[p], cached)
                    ELSE [job[p] EXCEPT !.at = "translate"])
      /\ UNCHANGED <<translations, row, file, talks, tears>>

Translate(p) ==
  /\ At(p, "translate")
  /\ \E t \in Translations[job[p].asked] :
       Becomes(p, [job[p] EXCEPT !.at = "saveText", !.shown = t, !.paid = {<<"text", job[p].asked>>}])
  /\ UNCHANGED <<translations, row, file, talks, tears>>

\* ON CONFLICT DO NOTHING; the client is shown this pipeline's own translation.
SaveText(p) ==
  LET k == Key[job[p].asked]
  IN  /\ At(p, "saveText")
      /\ translations' = [translations EXCEPT ![k] = IF @ = Missing THEN job[p].shown ELSE @]
      /\ Becomes(p, Showing(job[p], job[p].shown))
      /\ UNCHANGED <<row, file, talks, tears>>

-----------------------------------------------------------------------------
(* Speech: every sentence is looked up before the first is spoken.         *)

LookupSpeech(p) ==
  /\ At(p, "lookupSpeech")
  /\ Becomes(p, IF row[Key[Sentence(p)]] THEN [job[p] EXCEPT !.at = "readFile"]
                ELSE Looked(job[p], Missing))
  /\ UNCHANGED <<translations, row, file, talks, tears>>

\* The file is read after the await of the hit counter; none is a miss.
ReadFile(p) ==
  /\ At(p, "readFile")
  /\ Becomes(p, Looked(job[p], file[Key[Sentence(p)]]))
  /\ UNCHANGED <<translations, row, file, talks, tears>>

SayCached(p) ==
  /\ At(p, "speak") /\ job[p].have[job[p].n] # Missing
  /\ Becomes(p, Sent(job[p], job[p].have[job[p].n]))
  /\ UNCHANGED <<translations, row, file, talks, tears>>

\* The task's result is awaited in the sentence's turn, and the file written in
\* the same step; the row follows after an await.
Synthesize(p) ==
  LET s == Sentence(p)
  IN  /\ At(p, "speak") /\ job[p].have[job[p].n] = Missing
      /\ \E clip \in Clips[s] :
           /\ file' = [file EXCEPT ![Key[s]] = clip]
           /\ Becomes(p, [job[p] EXCEPT !.at = "saveRow", !.have[job[p].n] = clip,
                                        !.paid = @ \cup {<<"speech", s>>}])
      /\ UNCHANGED <<translations, row, talks, tears>>

SaveRow(p) ==
  /\ At(p, "saveRow")
  /\ row' = [row EXCEPT ![Key[Sentence(p)]] = TRUE]
  /\ Becomes(p, Sent(job[p], job[p].have[job[p].n]))
  /\ UNCHANGED <<translations, file, talks, tears>>

-----------------------------------------------------------------------------
\* A provider, a statement or the client gives up: the pipeline ends where it is.
Abandon(p) ==
  /\ job[p].at \notin {"idle", "done"}
  /\ Becomes(p, Idle)
  /\ UNCHANGED <<translations, row, file, talks, tears>>

\* The disk is full, or the server dies: what was written of the file stays.
Tear(p) ==
  /\ At(p, "speak") /\ job[p].have[job[p].n] = Missing /\ tears < MaxTears
  /\ tears' = tears + 1
  /\ file' = [file EXCEPT ![Key[Sentence(p)]] = Torn]
  /\ Becomes(p, Idle)
  /\ UNCHANGED <<translations, row, talks>>

Next == \E p \in Pipelines :
  \/ \E q \in Questions, translated \in BOOLEAN : Ask(p, q, translated)
  \/ LookupText(p) \/ Translate(p) \/ SaveText(p)
  \/ LookupSpeech(p) \/ ReadFile(p) \/ SayCached(p) \/ Synthesize(p) \/ SaveRow(p)
  \/ Abandon(p) \/ Tear(p)

Spec == Init /\ [][Next]_vars
=============================================================================
