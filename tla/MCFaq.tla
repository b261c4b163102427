------------------------------- MODULE MCFaq -------------------------------
(***************************************************************************)
(* Instances of FaqStore for TLC and the properties checked on them.       *)
(***************************************************************************)
EXTENDS FaqStore, TLC

CONSTANTS hi, ta, v1, v2, e1, e2, sarvam, azure

Order == <<hi, ta>>
HindiOnly == (hi :> 0) @@ (ta :> Nothing)
Both      == (hi :> 0) @@ (ta :> 0)
None      == (hi :> Nothing) @@ (ta :> Nothing)

ProcessSymmetry == Permutations(Visitors) \cup Permutations(Editors)

AtRest ==
  /\ \A p \in Processes : proc[p].at \in {"idle", "form"}
  /\ \A e \in Editors : proc[e].outcome \notin {"raised", "lost"}

-----------------------------------------------------------------------------
(* The audio cache.                                                        *)

\* A row of audio_cache whose file exists speaks the answer as it stands.  What
\* the purge of upsert_faq_answer is for, at every moment: FaqClaims.cfg refutes
\* it, without any edit, when two pipelines are given translations of different
\* providers.
CacheSpeaksAnswer ==
  \A l \in Langs : row[l] /\ file[l] # Nothing => file[l] = answers[l]

\* The voice a pilgrim is sent speaks the text their client is shown (the two
\* are read at different moments, from memory and from the cache).  FaqClaims.cfg
\* refutes it in the same way.
VoiceMatchesText ==
  \A v \in Visitors : proc[v].outcome = "spoken" => proc[v].heard = proc[v].text

\* Even with edits, no language's voice is ever played for another: a fallback
\* answer is cached under the language it is in.
VoiceInItsLanguage ==
  /\ \A l \in Langs : file[l] # Nothing => file[l].lang = l
  /\ \A v \in Visitors : proc[v].outcome = "spoken" => proc[v].heard.lang = proc[v].text.lang

\* "a changed approved_answer must never keep serving the old cached voice":
\* with every handler at rest, what the cache would serve is the answer.
ChangedAnswerChangesVoice == AtRest => CacheSpeaksAnswer

-----------------------------------------------------------------------------
(* The in-memory copy.                                                     *)

\* "so an admin edit takes effect immediately": when every handler has ended
\* without an error, FAQ_ENTRIES holds what the database holds.
EditTakesEffect == AtRest => Current = Loaded

-----------------------------------------------------------------------------
(* Machine translation.                                                    *)

\* "If no answer is authored for `lang` yet, live-translates ... and caches the
\* result as a new ... answer": an answer an administrator posted is never
\* replaced by a machine translation.
ReviewedAnswersSurvive ==
  [][\A l \in Langs : reviewed[l] => reviewed'[l]]_vars

\* "this only ever costs a real API call the *first* time any given language is
\* ever needed for this FAQ".
PaidOnce == \A l \in Langs : paid[l] <= 1

\* "Never raises": resolving or translating an answer ends with some answer.
NeverRaises == \A v \in Visitors : proc[v].outcome # "raised"

\* The comment in load_pack: the JOIN keeps the rows to "the same 'approved'
\* faq_ids as the query above", so a load never meets a row of an unknown entry.
RowsMatchEntries == \A p \in Processes : proc[p].at = "assign" => ~proc[p].loaded.late

-----------------------------------------------------------------------------
\* Whoever began something ends it, with a result or an error: the pilgrim whose
\* question matched, the administrator's form, the script.
EveryWorkEnds ==
  \A p \in Processes : proc[p].at \notin {"idle", "form"} ~> proc[p].at \in {"idle", "form"}

-----------------------------------------------------------------------------
(* Scripts.                                                                *)

\* "Nothing here is ever spoken to a real pilgrim until an admin approves it":
\* no pilgrim hears the placeholder of a seeded intent, nor a translation of it,
\* although the seed runs beside a server that serves, translates and reloads
\* the entry.
PlaceholdersAreNeverSpoken ==
  \A v \in Visitors : proc[v].text # Nothing => proc[v].text.rev >= 0

\* "Safe to re-run (upserts)": the seed leaves an administrator's answer alone.
SeedKeepsAnswers ==
  [][\A l \in Langs : answers[l] # Nothing /\ answers[l].rev >= 0 =>
       answers'[l] # Nothing /\ answers'[l].rev >= 0]_vars

\* "so the *first* live request in any language already hits the audio cache
\* instead of paying for + waiting on a live TTS call".
WarmMeansCached ==
  Warmer \in Scripts /\ proc[Warmer].outcome = "warmed" =>
    \A v \in Visitors : proc[v].at # "synthesize"
=============================================================================
