# Vaani backend: specifications, checks and proofs

TLA+ modules for the Vaani voice-translation backend, TLC configurations that
check them on small instances, and TLAPS proofs about every component that is
modelled.

* [The system](#the-system): inventory, state, operations, interactions
* [The modules](#the-modules): which module models which code, and how
* [The runs](#the-runs): what each shows, with which bounds
* [Fairness](#fairness)
* [The proofs](#the-proofs)
* [What the code does and its documentation does not say](#disagreements)
* [Not modelled](#not-modelled) and the [plan](#plan)

To check: `tlc -config X.cfg M` for a run `X` of module `M` (the table below
pairs them); `tlapm M.tla` for the proofs, where `M` is `RegistryProofs`,
`FaqProofs`, `SessionProofs`, `FaqMatchProofs`, `SpeechProofs`, `SimulMtProofs`,
`CallProofs` or `AdminProofs`.

## The system

The repository holds two servers that share a wire protocol.

**The live server** (`src/sarvam_server.py`, FastAPI on one asyncio loop,
Postgres behind `src/db.py`):

| part | state | operations | properties that make it correct |
|---|---|---|---|
| provider registry, `providers/registry.py` | per capability and provider: two 20-call windows, a counter of consecutive failures, `circuit_open_until`, a doubling cooldown; a forced provider in memory and in `provider_config` | `transcribe`, `translate`, `synthesize` (rank, attempt, record, fail over), `reload_config`, `set_forced_provider` | counter, window, circuit and cooldown agree; a dominated provider is never chosen; no eligible provider is skipped before a call fails; the a save never puts an override in memory older than its own |
| FAQ store, `faq_state.py`, `db.py`, `sarvam_server.py` 155-201, `admin.py` 212-248, and the scripts `seed_gaya_intents.py`, `migrate_faq.py`, `warm_cache.py` | `faq_knowledge`, `faq_answers`, `audio_cache`, audio files, `FAQ_ENTRIES` | `load_pack`/`reload`, `upsert_faq`, `upsert_answer` with its purge, live translation, voice lookup and synthesis, the edit form, the three scripts | the cached voice speaks the stored answer, in its language; a placeholder is never spoken; edits take effect; reviewed answers survive; no answer is paid twice |
| WebSocket session and pipeline, `sarvam_server.py` 484-886 | audio buffer, the visitor's language, the reply's sentences and synthesis tasks, cost, the analytics row | connect, messages, `run_sarvam_pipeline` | replies are well-formed sequences of frames, one row per reply with its cost, utterances never mix, tasks are not orphaned, the loop survives errors |
| kill-switch, `runtime_state.py` | `PAUSED`, `knowledge_packs.paused` | pause, resume, startup | a switch nobody contests is what a restart reads |
| FAQ matching and keywords, `faq_state.py` 22-114, `db.py` 33-66 and 474-487, `admin.py` 197-248, `migrate_faq.py` | `faq_keywords`, `FAQ_ENTRIES` | `match_faq` in two tiers, `create_faq`, `replace_faq_keywords`, the forms, the migration | an ambiguous question matches nothing by similarity; what is matched is what was saved; more keywords never lose a question |
| texts and audio helpers, `sarvam_server.py` 208-316 | none | `normalize_for_cache`, `split_sentences`, WAV header and parsing, edge fade | the sentences are the text; header and payload agree; clips begin and end in silence |
| caches of translations and speech, `db.py` 332-390 | `translation_cache`, `tts_audio_cache`, files | get, save | what is heard is what is shown; a repetition is not paid for |
| provider adapters, `providers/*_provider.py`, `sarvam_server.py` 319-483 | none | one call with its language codes and models | a failure is a `ProviderError`; a language arrives as itself |
| admin login and cost page, `admin.py`, `db.py`, `create_admin.py` | failed attempts, the browser's session, `conversation_analytics` | login, logout, `cost_page` | attempts are bounded and a lockout ends; the figures of a page agree |

**The SimulMT server** (`src/main.py`, the architecture `src/README.md`
describes; Redis for sessions, Bhashini for speech and translation):

| part | state | operations | properties that make it correct |
|---|---|---|---|
| connection, `api/websocket_handler.py` | audio buffer, `last_bytes`, `last_activity`, the watchdog | heartbeat, chunk, end, watchdog, cleanup | only silent clients are cut off, no error ends the loop, nothing is left behind |
| partial translations, `pipeline/simulmt.py` | consumed characters, translated prefix | `on_partial_transcript` | a partial translation is of the utterance in progress |
| pipeline, `pipeline/orchestrator.py` | none | `process_utterance` | every utterance ends, its count is right |
| sessions, `session/session_manager.py` | a key per session with a time to live, the set of active sessions | create, get, update, delete | sessions expire or are deleted |
| Bhashini client and services, `services/*.py` | none | one call with retries and a fallback | retries exactly what may pass, falls back when the primary fails |

**How the parts interact.** A session calls the registry for each of its three
capabilities and reads and writes the FAQ store and the caches; the
administrator's handlers run on the same loop and change the registry's
override, the FAQ store and the kill-switch. There are no threads in the live
server: every interleaving happens at an `await`, and each one is a place where
another handler may run. The scripts are processes of their own on the same
database. State shared across an `await` is the system's main hazard.

**Where it is hard.** Several handlers between two awaits (rankings worked
through while health changes; answers edited while a pipeline speaks them;
reloads that read before and assign after an edit); synthesis tasks that end in
any order while earlier sentences are sent; clients that leave in the middle of a
reply; statements without a transaction, cut by an error or a restart; scripts
that write the tables while the server serves from its copy of them; timeouts and
retries; numeric edges of windows, rates, similarity scores and a product of a cost
and a rate.
`PROJECT.json` lists each hazard at its line, with the properties about it.

## The modules

An action is the result of one `await` and everything up to the next one. Time
is not an absolute clock: a circuit, a heartbeat or a key holds the time it has
left (or has been waiting), and a `Tick` action moves all of them.

| module | models | state and actions |
|---|---|---|
| `CircuitBreaker` | `registry.py` 69-132 | the health record of one provider as a record; `RecordSuccess`, `RecordFailure` and `Elapse` are functions on it, `ShouldTrip` the two trip conditions, the score an exact fraction |
| `ProviderRegistry` (extends it) | the rest of `registry.py` | `Begin` ranks, `AttemptSucceeds`/`AttemptFails`/... are the results of a provider's call, the log actions the results of `_log_call`; any number of admin saves at once, each in three awaits, with `since`, a history variable: what was stored since a save wrote; `Restart` |
| `FailoverCall` | what `registry.py` 6-40 promises | the abstract call: a set of providers promised, each refusing at most once, failure only when all have refused |
| `MCRegistry` | | instances, the refinement mapping (`Promise`), the docstring's claims |
| `RegistryProofs` | | proofs about `ProviderRegistry` |
| `FaqStore` | `db.py` 33-98 and 439-529, `faq_state.py` 38-41, `sarvam_server.py` 155-201 and 684-741, `admin.py` 212-248, the answers of `seed_gaya_intents.py`, `migrate_faq.py`, `warm_cache.py` | one entry; `Visit` are the awaits of a pipeline, `Edit` those of the edit form, `SeedWork`, `MigrateAnswer` and `WarmerWork` those of the scripts; all use the same steps for upsert, purge, reload and voice; `Match` and `Show` resolve the answer for the pilgrim and then for an operator of another language; `AwaitRaises` ends any of them at an await (a statement, a send, a provider with an error of another kind); texts are (language, origin, revision), revision -1 the seed's placeholder |
| `MCFaq` | | instances, properties and claims |
| `MCFaqForms` (extends it) | | history variables: `alone` (the forms and pipelines that have had the system to themselves since they began), `wrote` (the translations a pipeline stored), `stored` (every answer the table ever held); the properties about them |
| `FaqProofs` | | proofs about `FaqStore` |
| `SpokenText` | `sarvam_server.py` 209-235, `str.strip` | `NormalizeForCache` and `SplitSentences` over texts of blanks, marks and other symbols |
| `FaqMatch` (extends it) | `faq_state.py` 22-114 | `MatchFaq`: the exact tier (first entry with a keyword in the text) and the fuzzy one (threshold and margin over the best other entry); a score is an integer in units of 1/2520, the least common denominator for keywords of up to nine words; `difflib` is the relation `Similar` |
| `FaqPack` (extends it) | `db.py` 33-66 and 474-487, the keyword half of the forms and of `migrate_faq.py` | the tables, the list in memory and its order; any number of tabs, whose forms overlap. `DeleteKeywords` finds the rows that are committed when it starts (`doomed`), `ReplaceKeywords` is the INSERTs and the commit: under READ COMMITTED two forms on one entry leave the rows of both. Loads are three statements and an assignment, with the `KeyError` of an entry approved in between; `current` is a history variable: the forms whose load saw everything written. The migration is statement by statement; failures and restarts |
| `MCFaqPack` | | instances, and the claims the code does not keep |
| `FaqMatchProofs` | | proofs about `FaqMatch` and `FaqPack` |
| `AudioClip` | `sarvam_server.py` 242-316 | `PcmToWav`, `WavToPcm`, `ApplyEdgeFade` over bytes that know what they are part of |
| `SpeechCache` (extends it) | `db.py` 332-390, the cache steps of `run_sarvam_pipeline` | several pipelines share the tables and the files; what they show and say is carried as text and sound; `Tear` cuts a write |
| `MCSpeech` | | instances and properties, and the definitions the helpers are compared with: `IsCutUp` for sentences, `Alike` for keys, `Faded` for sounds |
| `SpeechProofs` | | proofs about `SpeechCache`, `AudioClip` and `SpokenText` |
| `RuntimeState` | `runtime_state.py` and its two routes | `SetPaused`, `StorePaused`, `StoreFails`, `ReloadPaused`, for any number of handlers at once; history variables: `latest`, who set the flag last, and `contested`, whether another was then storing the opposite |
| `TranslateSession` (extends it) | `sarvam_server.py` 484-886 | one connection; `pc` names the await, `task` the synthesis of each sentence, `frames` what the client has been sent, `cost` and `billed` what the row will say and what providers were paid |
| `MCSession` | | instances, the claims the code does not keep |
| `SimulMtSession` | `websocket_handler.py`, `simulmt.py`, `orchestrator.py`, `session_manager.py` | one connection and its watchdog; `Onward` lists where each await that returns leads, `Caught` where each that raises does, and `Raise` lets a Redis command that raises have been carried out or not (`DoneAllTheSame`); history variables: `expired`, `miscounted` (an update of the count has raised), `cutShort` (a crash or Redis ended the handler) |
| `SimulMtProofs` | | proofs about `SimulMtSession` |
| `SessionProofs` | | proofs about `TranslateSession` and `RuntimeState` |
| `ProviderCall` | `providers/*_provider.py`, `sarvam_server.py` 319-483, `bhashini_client.py`, `services/*.py` | one call of an adapter or a service: `Begin` chooses codes and model, `Post` classifies an answer (`WhereTo`) and reads it (`Reading`, `Reports`), `Backoff`, `GiveUp` and `Fallback` do the rest |
| `CallProofs` | | proofs about `ProviderCall` |
| `ServiceCall` | a call as its caller sees it | one await that returns or raises |
| `AdminPages` | `admin.py` 37-83 and 173-190, `db.py` 101-130 and 263-325, `create_admin.py` | the failures as a list of ages, `Submit` and `Verify` on both sides of the password check; the cost page as four statements while rows arrive and the clock runs |
| `MCAdmin` | | the kinds of rows of the instance |
| `AdminProofs` | | proofs about the login and the cost page |

Composition: `TranslateSession` reads the kill-switch it is composed with, and
sees registry and FAQ store through their results, which is what `FailoverCall`
and `MCFaq` check of them: a call answers, fails with `ProviderError` or raises
something else (`RegistryClaims` shows that it can), and ends; the FAQ answer is a
voice, a text without voice, or an exception. The registry in turn takes an
adapter's call as one await with those results, and `SimulMtSession` a service's
as one that returns or raises: `ProviderCalls` shows both to be `ServiceCall`
(`IsOneCall`, a refinement), and `FailuresAreProviderErrors` which failures an
adapter passes on. `FaqPack` owns keywords and the list of entries, `FaqStore` the
answers of one entry; they share `load_pack`, which each models for the tables it
owns. `SpeechCache` takes texts from `SpokenText` and sound from `AudioClip`.

Abstractions worth knowing:

* the three capabilities of the registry run the same loop on disjoint records,
  so one is modelled; a float score is an exact rational, compared by cross
  multiplication; a forced provider the dictionary does not know is not modelled
  (the form offers only known ones);
* speech-to-text is always asked without a language, so only providers that
  detect one are eligible: `Requests` gives the eligible sets;
* texts are short sequences over a few words or syllables; letter case is left out;
* in `FaqStore` a voice depends on its language and its text; one provider's
  translation of one text is always the same, two providers' differ
  (`Translators`);
* a sentence's audio is one frame, though the code sends it in chunks between
  which nothing else is sent;
* a byte of a WAV file is known by what it is part of (an id, a size, a sample), so a
  field read at a place where none begins reads as noise;
* of a login key (name and address) one is modelled, of analytics rows their hour,
  kind and cost; of the twelve languages of the adapters three, one of each kind;
* messages of a client are heartbeats, chunks, ends and ignored ones, with audio
  or without.

Operators named as mutants in a comment (`DoubledUncapped`, `EndKeepsTrigger`,
...) are never used by a specification. Each is a plausible bug in the definition
next to it, and `PROJECT.json` says which property notices it.

## The runs

| run (module) | instance | what it shows |
|---|---|---|
| `RegistryBreaker` (`MCRegistry`) | 2 providers, 2 concurrent calls, windows of 3, trips at 2 in a row or a majority of at least 2 samples, cooldown 1 capped at 3, at most 4 failures in a row | `TypeOK`, `CountersMatchWindows`, `OpenCircuitsAreEarned`, `CooldownsMatchCircuits` and `FailedTrialReopens` under every interleaving of outcomes; `NoDominatedChoice`: no call asks a healthy provider before one that is cheaper and no less reliable |
| `RegistryPromise` (`MCRegistry`) | 3 providers, one free and unconfigured, a call, mixed requests, 2 administrators who save at once, failing statements, restarts, fairness | `KeepsPromise`: the candidate loop implements `FailoverCall`, liveness included; `SavesPutNothingOlder`: what a save puts in memory is its own override or one stored after it |
| `FaqUpkeep` (`MCFaq`) | a pipeline with 2 visits and operators of both languages, the seed, the migration and the warmer run over an approved entry with one answer, a failing await, a restart, fairness | `PlaceholdersAreNeverSpoken` however far the scripts have come; `EveryWorkEnds` for pipelines and scripts |
| `FaqEdits` (`MCFaqForms`) | 2 pipelines, 2 translating providers with different wordings, a form that edits and may withdraw, a failing await | `VoiceInItsLanguage` under every race of edit, translation and voice; `SpokenWasStored`: nothing is shown, spoken or voiced that the table never held; `TranslationIsServed` and `SavedFormRepairs`: a translation, or a form, that has the system to itself ends with one answer everywhere, whatever earlier races and failures left |
| `SessionReplies` (`MCSession`) | 2 messages, up to 2 sentences, database and adapter errors, a client that may leave, an administrator at the switch, restarts, fairness | `RepliesWellFormed`, `OneRowPerReply`, `NoOrphanedTasks`, `OneUtterancePerPipeline`, `OperatorReachesVisitor`, `EveryUtteranceEnds` |
| `SessionSwitch` (`MCSession`) | 3 administrators who pause and resume at once, UPDATEs that fail, restarts, a connection that opens and closes beside them | `UncontestedSwitchSurvives`: once no UPDATE is under way, a flag last set while nobody was storing the opposite, by a request that did not fail, is what a restart reads |
| `SimulMtLoop` (`SimulMtSession`) | 2 messages, a partial transcription every chunk, timeout 1, time to live 3, service and Redis errors, a crash, fairness | `TypeOK` (with the trigger within the buffer), `ClosedSessionsLeaveNothing` and `CountsMatch` wherever the key expires and comes back, `LoopSurvivesErrors`, `SilentClientsGo` |
| `FaqPack` (`MCFaqPack`) | 2 entries, 2 languages, keywords of 2 and 5 words that overlap, 6 questions, 2 tabs, 3 events in all of: up to 3 saved forms, the migration, a failing statement or restart | `WholeWordings`: what is served is put together of whole posted sets, whichever forms overlap on an entry; `SavedMeansServed`: a saved form whose load nobody overtook left in memory what is stored; `FuzzyIgnoresOrder` and `MoreKeywordsKeepQuestions` of the matching, over every list that is reached |
| `SpeechCache` (`MCSpeech`) | 2 pipelines, 3 utterances that differ by blanks and marks, two wordings of a translation, four layouts of a provider's WAV file, a torn file | `SaysWhatItShows`, `SeamsAreSilent`, `SavedIsNotPaidAgain` |
| `ProviderCalls` (`ProviderCall`) | 3 attempts, two errors of each kind, every adapter, service, task and language, fairness | `RetriedExactlyWhenUseful`, `FailuresAreProviderErrors`, `LanguagesKeepTheirCodes`, `IsOneCall` |
| `AdminPages` (`MCAdmin`) | 2 login requests at a time, lockout after 2 failures for 2 ticks, rows of 3 kinds over a midnight, a cost page open | `AttemptsAreBounded`, `EveryLockoutEnds`, `FiguresAgree` |
| `FaqStaleVoice` (`MCFaq`) | ends in a counterexample, see [below](#disagreements) | a pipeline that began before an edit caches the old voice after the edit's purge |

**Bounds.** Windows of 3 with a threshold of 2 reach every combination of a full
window, one that drops its oldest element, a trip by the counter, a trip by the
rate and both; cooldown 1 capped at 3 doubles, meets the cap and stays there (the
proofs lift these bounds altogether). Two concurrent callers are enough to have
one outcome recorded between another call's ranking and its outcome. In the FAQ
store one entry suffices, since rows, files and memory of different entries share
only the reload; two languages give a source and a target; two providers give
a translation two wordings, which two pipelines store, purge and voice over each
other, beside an edit; one error and one restart let each meet every await, and
the repair of what it left. Two administrators let saves cross, three let one
toggle cross two others that disagree; three events let two forms overlap on an
entry and a third be saved after, or a failure or the migration come between. Two sentences let a later one end
or fail before an earlier one is sent, and two messages let the state of one
utterance, answered, failed or refused, reach the next. Keywords of two and five
words put scores at, above and below threshold and margin (5 of 5, 4 of 5, 1 of 2);
two entries are enough for a match to have a rival. Three utterances of two
pipelines let one find what another is about to save, has saved, or has torn. A
clock that runs past a midnight puts it between any two statements of a page.

The only guards that are not the code's are those of `MaxVisits`, `MaxEdits`,
`MaxRuns`, `MaxErrors`, `MaxRestarts` (`FaqStore`), `MaxSaves`, `MaxMigrations`,
`MaxErrors`, `MaxEvents` (`FaqPack`), `MaxTalks`, `MaxTears` (`SpeechCache`), `MaxMessages`,
`MaxSentences`, `MaxChars` (the connections), `MaxConsecutive` (the registry),
`LastHour` and `MaxRows` (`AdminPages`). Once those are used up there may be nothing
left to do, and a provider's call just ends, which is why deadlock is not checked
in the runs of `FaqStore`, `FaqPack`, `SpeechCache`, `SimulMtSession` and
`ProviderCall`; the others always have a step left.

## Fairness

* `ProviderRegistry`: weak fairness of each caller; `FaqStore`: of each pipeline,
  each form and each script that was started; `TranslateSession`: of the handler and
  of each synthesis task. They wait for nothing but the database and HTTP calls; the
  clients have timeouts (30 s, `sarvam_server.py` 92; 20 s, `azure_provider.py` 46),
  and a call of either kind that fails raises. Nobody has to call, visit, edit, run a
  script, speak or restart.
* `SimulMtSession`: weak fairness of the loop (Bhashini requests time out after
  30 s), of the watchdog, which wakes every second, and of time.
* `ProviderCall`: weak fairness of the call, for the same timeouts.
* `AdminPages`: weak fairness of time alone; that every lockout ends needs no more.

That a circuit becomes available again is not claimed: with every circuit open
the last-resort attempts go on, and each that fails reopens its circuit.

## The proofs

Each theorem is about every value of the constants, from the assumption beside
their declaration and what its statement assumes, and each comes from an inductive
invariant, checked by TLC before it was proved. Proofs follow one plan: a lemma for
the initial states, one per way a step can touch the invariant, one for the step,
and the theorem. Where a theorem assumes something of its own, a configuration
shows what happens without it.

### The registry

`RegistryProofs`, for every window size, threshold, cooldown, cost, set of
providers, callers and administrators, from `BreakerAssumption` and
`RegistryAssumption` (positive sizes, a base cooldown within the cap, finitely many
providers with distinct positions).

* `RegistryTypeCorrect`: `Spec => []TypeOK`. The type already says something: a
  cooldown lies between the base and the cap, and the index of a running call is
  one of its ranking's.
* `CountersAlwaysMatch`, `OpenCircuitsAlwaysEarned`, `CooldownsAlwaysMatch`, and
  `FailedTrialsReopen`: the health records. The invariant is `BreakersInv`: `TypeOK`
  and, for each provider, `BreakerInv`. The earned circuit is the interesting part. A
  circuit is set by a failure that trips, and stays set over further failures, so one
  must know that a trip condition survives one more failure: `PushFailureCount`
  counts the failures in the window after the oldest outcome has dropped out (a
  failure may push out a failure, so the count need not grow), `MajorityPersists` does
  the arithmetic and `TripPersists` puts them together. `HealthStep` reduces the
  steps of the registry to four ways a record can change, and one lemma per
  operation covers each.
* `NeverDominated` (`NoDominatedChoice`): `ScoreTerms` and `DominatingScoresLess` show
  that the score, compared by cross multiplication, respects cost and both rates,
  `DominatedIsNotBefore` that a ranking does.
* `CallsKeepTheirPromise`: every initial state is one of `FailoverCall` and every step
  one of its steps or a stutter (`KeepsPromise` without its fairness). `CallsInv` says
  that a call asks distinct providers and has no result before it ends. There is one lemma per step of the abstract call (`MapsToRefuse`,
  `MapsToAccept`, `MapsToGiveUp`, `MapsToAbandon`, `MapsToCall`).
* `SavesAlwaysPutNothingOlder` (`SavesPutNothingOlder`), for any number of
  administrators: `SavesInv` follows what a save has written, or what replaced it, from
  the row, while the save has not read, into its snapshot. It does not follow that the
  last save wins: reads and assignments cross (`RegistryOverrideRace`).

### The FAQ store

`FaqProofs`, for any languages, pipelines, forms, translators and faults, from
`StoreAssumption`. Four lemmas say what `With` leaves of the other fields of a
process, `GoThroughIsSound` what going through a form's languages carries on.

* `VoicesKeepTheirLanguage` (`VoiceInItsLanguage`), from `StoreInv`: every text held
  anywhere, in rows, files, dicts, forms, loads and between awaits, is of the language
  it is held for. Nothing is assumed of who runs beside whom.
* `NoPlaceholderWithoutEdits` (`PlaceholdersAreNeverSpoken`), without forms: while the
  entry is approved no placeholder is stored, none is ever in memory or in a load
  (`PlaceholderInv`). An edit may approve the entry while the seed still writes it
  (`FaqSeedRace`).
* `SpokenAlwaysWasStored` (`SpokenWasStored`, of `MCFaqForms`), with nothing assumed of
  who runs beside whom: `StoredInv` follows each text from the upsert that stored it to
  the dicts, loads, files and pipelines that carry it. A translation is shown only after
  its upsert, and what a fallback shows was read from the table.
* `TranslationsAreServed` (`TranslationIsServed`, of `MCFaqForms`), for any number of
  providers and whatever ran before: `ServedInv` follows a pipeline that is alone from
  the question it was asked, over upsert, purge, reload and synthesis, to the answer.
  Beside others it is false: two pipelines that were given two wordings can leave the
  row of one with the voice of the other (`FaqClaims`).
* `SavedFormsRepair` (`SavedFormRepairs`, of `MCFaqForms`), for any number of forms
  and everything that ran before them. `AnsweredInv` holds whoever runs beside whom: a
  row, a copy in memory, a load or work in progress is only ever of a language with a
  stored answer, so the form that is opened shows every language that may have a row.
  `AloneInv` follows the handler from there while it is alone: the rows left are those
  of languages it still goes through (`AloneWriteNext`, from `IndexIsPlace`: each
  language comes up once), and what it loads is what is stored. `RestingLeavesTables`
  says that a process that rests before and after its step has not touched the tables.

### The session

`SessionProofs` proves of `TranslateSession`, for any languages, messages,
sentences, administrators and errors (`SessionAssumption`):

* `SessionTypeCorrect`: `Spec => []TypeOK`.
* `PipelinesNeverMix` (`OneUtterancePerPipeline`): the audio that is transcribed
  together is of one utterance. What the handler has buffered says too little for
  induction: `UtterancesFit` relates it to every message still on its way (`Fits`:
  up to the next end, the buffer and the inbox hold one utterance's audio, and after
  the last end that of the utterance being spoken). `Arrives` and `Taken` show that a
  message that enters or leaves the inbox keeps it so.
* `RepliesAlwaysWellFormed` (`RepliesWellFormed`): `FramesFit` says for each await which
  frames have been sent when it is reached, and the lemmas on prefixes
  (`AppendToBoth`, `VoiceGrows`, `AnswerEndings`) that each is the beginning of a
  whole reply.
* `RowsAlwaysAccount` (`OneRowPerReply`): a task bills in a step of its own, the
  handler adds to the row when it has the sound; `BillFits` says that in between the two
  differ by the finished tasks of the sentences still to be spoken, and `OneMoreDone`
  counts them.
* `OperatorAlwaysReachesVisitor` (`OperatorReachesVisitor`), from `LanguagesFit`:
  the language remembered for the visitor is the last one heard.
* `TasksNeverOrphaned` (`NoOrphanedTasks`), from `TasksFit`: outside the part of a
  reply that waits for them no synthesis runs.
* `UncontestedSwitchAlwaysSurvives` (`UncontestedSwitchSurvives`), for any number of
  administrators: `SwitchFits` says that unless the last request was contested,
  everyone still storing stores what is in memory, and the last one has stored it
  unless it failed (`SwitchStep`). When two that want opposite values cross, memory and
  column may part (`SessionClaims`).

### FAQ matching and keywords

`FaqMatchProofs`, from `MatchAssumption` and `PackAssumption`:

* `PacksAreLists`: whatever forms, migrations, failures and restarts do, the list in
  memory holds each entry at most once, with texts for keywords. The others
  rest on it.
* `ReloadsKeepFuzzyAnswers` (`FuzzyIgnoresOrder`): the fuzzy tier does not depend on
  the order the database returns rows in. `FuzzyMeans` gives what the fuzzy tier
  computes (the one entry at or above the threshold that is clear of every other),
  `OneFuzzyEntry` that there is at most one, since the margin is positive.
* `SynonymsNeverHurt` (`MoreKeywordsKeepQuestions`): a score is a maximum over
  keywords, so a keyword more raises its entry's and no other's.
* `ListsHoldWholeWordings` (`WholeWordings`), for any number of forms that overlap: a
  transaction under READ COMMITTED deletes the rows that were committed when it
  began, less those another form has replaced meanwhile. `WholeInv` keeps for each
  entry and language that the rows are a union of whole posted sets and that every open
  transaction is about to delete whole ones of them (`HoldsWhole`); with the migration,
  which commits row by row, it ends (`PackClaims`).
* `SavedIsAlwaysServed` (`SavedMeansServed`), for any number of forms, migration
  included, from `CurrentInv`: of the forms whose load began after the last write, each
  statement found what is stored. What `current` leaves out happens in the code: a
  reload overtaken by a later one is assigned last (`PackClaims`).

### Texts, speech and sound

`SpeechProofs`, from `SpeechAssumption`, for any pipelines, texts, sounds and torn
files. `SpeechInv` says for each job how many sentences it has paid for, heard and
still carries at each await, and that what it saw saved is still saved.

* `RepliesAreSaidInTurn`: a reply that is done has said every sentence it shows, once
  and in its turn, each in a sound that was made for a sentence with its key or in a
  torn file.
* `CachedKeysAreNeverPaid`: what is in a cache when a pipeline begins it does not pay for.
* `WhatIsShownIsSaid` (`SaysWhatItShows`): the reply that is heard is the text that is
  shown, cut up exactly where blanks follow a mark, each sentence as its faded samples
  or those of one with the same key, or as a torn file. It rests on `LayoutsAgree` and on
  `TextsAreCutUp`: `SplitSentences` of any text is `IsCutUp` (`SentencesBegin` says where
  a sentence begins, `SentencesAreSlices` and `StripSlice` up to where it reaches).
* `RenderingsAreNeverPaidTwice` (`SavedIsNotPaidAgain`): renderings of one utterance
  have one key (`AlikeTextsShareKeys`). `Alike` compares the symbols that count and
  where blanks stand between them; `PlacesOfCounting` shows that the places
  `NormalizeForCache` keeps are in the same order in both, and `SameOrder` that
  two sets whose elements correspond in their order are listed alike.
* `SeamsAreAlwaysSilent` (`SeamsAreSilent`): `FadeIsSilent` for any samples, and
  `BytesAndBack`, by which samples written as bytes are read as themselves.
* `LayoutsAgree`: in each of the four layouts the samples of a sentence give the same
  clip. `WalkExists` and `WavToPcmWalks` turn the loop over the chunks into a rule that
  can be applied at any offset; `FormatIsPassed` and `OtherChunkIsPassed` take it over
  the chunks before the data (the padding of an odd size included), `DataIsFound` reads
  the data, `HalfASample` and `FadeSeesSamples` drop the odd byte at the end.

`SpeechAssumption` asks that texts are finite, that the blank is no mark and that a
sentence's sound has two samples at least (at 16 kHz an eighth of a millisecond; one
sample alone would not be faded). What these proofs need of induction is over numbers:
`NatInductionSet` states it for a set instead of an operator and is proved from
`LeastNumber`, and `InOrderPlaces` derives from it that the numbers of a finite set
can be listed in their order.

### The SimulMT server

`SimulMtProofs`, for any messages, times and faults: `SimulMtTypeCorrect`;
`CountsAlwaysMatch` (`CountsMatch`) and `ClosedSessionsAlwaysLeaveNothing`
(`ClosedSessionsLeaveNothing`) from `RedisInv`: `CountFits` follows the count from the
key's creation, over its expiry and its return between two commands, as long as no update
raised, `DeletionFits` the clean-up, whatever came before it, as long as neither a crash
nor Redis ended the handler; `LoopAlwaysSurvivesErrors` (`LoopSurvivesErrors`) from
`LoopInv`: a hangup in the inbox is the client's or the watchdog's.

### Calls and login

`CallProofs`, from `CallAssumption`: `CallTypeCorrect`, `RetriesAreExact`,
`ErrorsStayProviderErrors`, `LanguagesAreKept`, and `EveryCallIsOne`, the safety part of
the refinement of `ServiceCall`. The invariant `CallInv` says how far a
call has come (`Progress`: every answer but the last one was retryable, and there is
one for each attempt) and what was sent for which language (`Languages`).

`AdminProofs`, from `AdminAssumption`: `AdminTypeCorrect` and `AttemptsAlwaysBounded`:
the failures within a window exceed the limit by no more than the requests that were
past the check together, for any number of requests. The code keeps the failures of
the window by filtering, the model by dropping the head of the list; that these
agree needs the failures to be in the order of time, which is part of the type
invariant, and `WithinIsTheRest` and `AgeingOnlyForgets` do the counting.

`FiguresAlwaysAgree` (`FiguresAgree`), for any rows, and any number of rows
that arrive and midnights that pass while a page is put together; of a cost the proof
uses only that it is a natural number (`CostsAreNumbers`). The sums are a recursive
function over the rows: `SumsAddUp` shows that it exists and gives numbers, `SumsGrow`
that a sum over more rows, or over a larger choice of them, is no smaller.
`CostInv` keeps between two statements that today's total is part of the sum still
to come, for as long as the day the page asks for is today (`FiguresInv`), and
`DaysFollowHours` that a day that is over does not come back.

### What is only model-checked

* Liveness, which is out of the prover's reach: `EveryWorkEnds`, `EveryUtteranceEnds`,
  `SilentClientsGo`, `EveryLockoutEnds`, and the fairness of `KeepsPromise` and
  `IsOneCall`.

Everything else the passing runs check is also proved, under what its theorem assumes.
The type invariants of `TranslateSession`, `FaqPack` (`PackInv`), `ProviderCall` and
`AdminPages` are proved and not checked again by their runs.

## Disagreements

Each of these configurations checks sentences of the repository, quoted beside the
properties, and ends in a counterexample. `FaqStaleVoice` is a run of
`PROJECT.json`, with its finding; the others are kept to be run by hand
(`tlc -config X.cfg M`). Where one names several properties each of them fails: TLC
stops at the first, so leave one at a time in the configuration to see each.

| configuration (module) | property | what the code does |
|---|---|---|
| `FaqStaleVoice` (`MCFaq`) | `ChangedAnswerChangesVoice` | a pipeline that began before an edit caches the old voice after the edit's purge |
| `RegistryClaims` (`MCRegistry`) | `FailureTriesEveryCandidate` | an exception that is no `ProviderError` ends the call before the remaining candidates |
| | `OpenIsSkipped` | a call attempts a provider whose circuit opened after it ranked |
| | `DoublesOnlyAfterCooldown` | failures of calls already in flight double the cooldown of a circuit nobody has retried |
| | `LastResortIsLeastRecentlyFailed` | among open circuits the one that ends soonest is tried, which is not the least recently failed |
| `RegistryTripWindow` (`MCRegistry`) | `TripsOnLastTenCalls` | the failure rate is over up to 20 calls, not the last 10 |
| `RegistryOverrideRace` (`MCRegistry`) | `FailuresRaiseScore` | the score of a provider that costs nothing does not rise with its failures |
| | `OverrideInEffect` | two saves whose reloads cross leave memory with the older override |
| `FaqClaims` (`MCFaq`) | `PaidOnce` | two pipelines translate the same answer at once |
| | `EditTakesEffect` | a reload that read before an edit assigns after it |
| | `CacheSpeaksAnswer` | with two providers, two pipelines translate the same answer and the voice of one is kept with the text of the other |
| | `VoiceMatchesText` | and is played to a pilgrim who is shown that text |
| | `ReviewedAnswersSurvive` | a live translation in flight replaces the answer an administrator typed meanwhile |
| `FaqRaises` (`MCFaq`) | `NeverRaises` | an approved entry without an answer makes the pipeline raise |
| `FaqLoadRace` (`MCFaq`) | `RowsMatchEntries` | an entry approved between two statements of `load_pack` has rows and no entry |
| `FaqSeedRerun` (`MCFaq`) | `SeedKeepsAnswers` | the seed, run again, writes its placeholder over an answer |
| `FaqSeedRace` (`MCFaq`) | `PlaceholdersAreNeverSpoken` | an entry approved while the seed is writing it speaks a placeholder |
| `FaqWarmMiss` (`MCFaq`) | `WarmMeansCached` | the warmer voices the authored answers only: a language without one is translated, and paid for, by its first pilgrim |
| `PackClaims` (`MCFaqPack`) | `RerunIsSafe` | a load between two statements of the migration finds a keyword set that nobody posted |
| | `WordingsAsPosted` | two forms that replace one entry's keywords at once leave those of both |
| | `SavedIsServed` | two forms that overlap: the reload that read first assigns last, and "Saved" is shown over an old list |
| | `AnswersFollowKeywords` | two entries with a keyword in the question: the first of the list answers, and a reload may change which that is |
| `SpeechClaims` (`MCSpeech`) | `WholeClips` | a file cut while it was written is played |
| | `OnlyRealRepeats` | a question and a statement that differ by their mark share a translation |
| `SessionClaims` (`MCSession`) | `ConnectionSurvivesErrors` | an unexpected error in one utterance ends the connection |
| | `PipelineNeverRaises` | a client that leaves in the middle of a reply makes the pipeline raise |
| | `EveryRequestLogged` | an utterance ended that way is billed and leaves no row |
| | `CostIsReal` | syntheses behind a failed sentence are billed and not in the row |
| | `SwitchSurvivesRestart` | a pause and a resume that cross leave memory and column apart |
| `SimulMtClaims` (`SimulMtSession`) | `PartialsAreThisUtterance` | the partial translation of an utterance starts with clauses of earlier ones |
| | `OnlySilentClientsAreCutOff` | a client that keeps sending is cut off while the loop is in a long await |
| | `LeftoversExpire` | a server that stops leaves its sessions in the set of active ones |
| `CallClaims` (`ProviderCall`) | `FallbackCoversFailures` | a reply that cannot be decoded does not reach the fallback |
| | `AdaptersRaiseProviderErrors` | nor does it reach the registry as a `ProviderError` |
| `AdminSavings` (`MCAdmin`) | `OnlyRepeatsAreAvoided` | the cost page counts requests as avoided that were paid for |

## Not modelled

* The request and response formatting of the adapters beyond codes, models and the
  shape of a reply; the chunks a clip is sent in.
* The dashboard, device and provider pages and the landing page: each figure is one
  statement, shown as read. The cost page, which puts four together, is modelled.
* The mock server (a test double), the price list, backups and the other operations
  scripts: sequences of commands without state the servers share.
* Other connections around a SimulMT session, and with them Azure's SDK, which blocks
  the event loop while it recognizes.
* A day later than today asked of the cost page; an application and a database in
  different time zones.

## Plan

Done: registry, FAQ store with its scripts, matching and keywords, texts and audio,
speech caches, session with kill-switch, SimulMT connection, provider calls, login
and cost page; proofs about all of them, of every safety property the runs check.
Left:

1. A composition of several connections around one registry, in place of the results
   that `TranslateSession` takes from it.
2. The figures of the dashboard and device pages, once one of them is read by more
   than one statement.
