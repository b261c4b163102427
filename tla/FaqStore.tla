------------------------------ MODULE FaqStore ------------------------------
(***************************************************************************)
(* One approved-answer entry of the knowledge pack, from the database rows *)
(* to the voice a pilgrim hears: faq_knowledge, faq_answers and audio_cache*)
(* (src/db.py), the audio files on disk, the in-memory copy FAQ_ENTRIES    *)
(* (src/faq_state.py), the pipeline that resolves, machine-translates,     *)
(* shows and speaks an answer (src/sarvam_server.py 155-201 and 684-741),  *)
(* the administrator who edits it (src/admin.py 212-248), and the scripts  *)
(* that run beside the server: seed_gaya_intents.py, migrate_faq.py and    *)
(* warm_cache.py.                                                          *)
(*                                                                         *)
(* Every action runs from one await to the next; a database statement takes*)
(* effect in an action of its own.  A voice depends on the language alone, *)
(* and a cache path on nothing else, so rows and files are indexed by      *)
(* language.                                                               *)
(***************************************************************************)
EXTENDS Integers, Sequences, FiniteSets, TLC

CONSTANTS
  Langs,          \* the supported languages
  LangOrder,      \* the order the form and the scripts go through them in
  Hindi,          \* the preferred source of a live translation
  Operators,      \* the languages of the counters' operators
  Visitors,       \* concurrent pipelines that matched the entry
  Editors,        \* concurrent edit-form handlers
  Scripts,        \* the scripts that are run beside the server
  Translators,    \* the providers a live translation may come from
  Nothing,        \* no answer, no file, no entry
  FirstAnswers,   \* the answers authored at the start, [Langs -> 0 or Nothing]
  FirstVoices,    \* the languages whose answer is in the audio cache then
  FirstStatus,    \* the entry's status at the start; "absent" without a row
  Statuses,       \* the statuses the form may be submitted with
  MaxVisits, MaxEdits, MaxRuns, MaxRestarts, MaxErrors    \* bounds

Seed == "seed"
Migration == "migration"
Warmer == "warmer"

\* An answer text: its language, who worded it and which revision it renders:
\* revision n of the administrator's wording (0: the one that the migration
\* carries), or one provider's translation of a text that renders revision n.
\* Revision -1 is the placeholder of a seeded intent, which is no answer.
Texts == [lang : Langs, origin : {"typed"} \cup Translators, rev : -1 .. MaxEdits]

ASSUME StoreAssumption ==
  /\ Hindi \in Langs /\ Operators \subseteq Langs
  /\ LangOrder \in Seq(Langs)
  /\ \A l \in Langs : \E i \in DOMAIN LangOrder : LangOrder[i] = l
  /\ \A i, j \in DOMAIN LangOrder : LangOrder[i] = LangOrder[j] => i = j
  /\ Statuses \subseteq {"approved", "draft"}
  /\ FirstStatus \in {"approved", "draft", "absent"}
  /\ FirstAnswers \in [Langs -> {0, Nothing}]
  /\ FirstVoices \subseteq {l \in Langs : FirstAnswers[l] = 0}
  /\ Scripts \subseteq {Seed, Migration, Warmer}
  /\ Visitors \cap Editors = {}
  /\ (Visitors \cup Editors) \cap {Seed, Migration, Warmer} = {}
  /\ "typed" \notin Translators
  /\ Nothing \notin Langs \cup Texts /\ Nothing \notin [Langs -> Texts \cup {Nothing}]
  /\ {MaxVisits, MaxEdits, MaxRuns, MaxRestarts, MaxErrors} \subseteq Nat

Typed(l, n)   == [lang |-> l, origin |-> "typed", rev |-> n]
Placeholder(l) == Typed(l, -1)
Machine(l, t, m) == [lang |-> l, origin |-> m, rev |-> t.rev]

Processes == Visitors \cup Editors \cup Scripts

VARIABLES
  status,     \* faq_knowledge.status
  answers,    \* faq_answers.answer_text
  reviewed,   \* faq_answers.reviewed
  row,        \* whether audio_cache has a row
  file,       \* the text a file on disk speaks
  heap,       \* the entry dicts created so far; the last one is in FAQ_ENTRIES
  proc,       \* what each process is at, and what it carries across its awaits
  paid,       \* translate calls paid for, per language
  used        \* how much of each bound is used up

db == <<status, answers, reviewed, row>>
vars == <<db, file, heap, proc, paid, used>>

NoAnswers == [l \in Langs |-> Nothing]
Authored(entry) == {l \in Langs : entry[l] # Nothing}
Current == heap[Len(heap)]
NothingLoaded == [first |-> FALSE, late |-> FALSE, answers |-> NoAnswers]

\* What a complete, undisturbed load_pack returns.
Loaded == IF status = "approved" THEN answers ELSE Nothing

Init ==
  /\ status = FirstStatus
  /\ answers = [l \in Langs |-> IF FirstAnswers[l] = 0 THEN Typed(l, 0) ELSE Nothing]
  /\ reviewed = [l \in Langs |-> FirstAnswers[l] = 0]
  /\ row = [l \in Langs |-> l \in FirstVoices]
  /\ file = [l \in Langs |-> IF l \in FirstVoices THEN Typed(l, 0) ELSE Nothing]
  /\ heap = <<Loaded>>
  /\ proc = [p \in Processes |->
       [at |-> "idle",            \* the statement or call it is at
        lang |-> Hindi, text |-> Nothing,     \* the answer it carries
        held |-> 1,               \* index in heap of the dict a visitor matched
        seen |-> FALSE,           \* a row or rows read before an await
        loaded |-> NothingLoaded, \* what its load_pack has read so far
        form |-> NoAnswers,       \* the answers it still goes through
        shown |-> Nothing,        \* what the pilgrim was shown, while the
        operator |-> Nothing,     \*   operator's language is still to be answered
        heard |-> Nothing,        \* the text whose voice was last sent
        outcome |-> "none"]]      \* how its last work ended
  /\ paid = [l \in Langs |-> 0]
  /\ used = [visits |-> 0, edits |-> 0, runs |-> 0, restarts |-> 0, errors |-> 0]

\* A process as it is, but for the fields that change.
With(r, changes) == [f \in DOMAIN r |-> IF f \in DOMAIN changes THEN changes[f] ELSE r[f]]
Become(p, changes) == proc' = [proc EXCEPT ![p] = With(@, changes)]
Count(what, max) == used[what] < max /\ used' = [used EXCEPT ![what] = @ + 1]

\* A handler or a script ends; the outcome says how.
Ended(how) ==
  [at |-> "idle", outcome |-> how, seen |-> FALSE, loaded |-> NothingLoaded, form |-> NoAnswers,
   shown |-> Nothing, operator |-> Nothing]
End(p, how) == Become(p, Ended(how))

-----------------------------------------------------------------------------
(* resolve_or_translate_faq_answer, up to its first await.                 *)

\* Hindi if it is authored, else whichever language the dict lists first.
Sources(entry) == IF entry[Hindi] # Nothing THEN {Hindi} ELSE Authored(entry)

\* match_faq hands out the dict in FAQ_ENTRIES; the pipeline asks it for
\* language l, that of the question, at a counter whose operator reads o.  With
\* no answer at all, next(iter(...)) raises StopIteration.
Match(v, l, o) ==
  LET Go(where, s, how) ==
        Become(v, [at |-> where, held |-> Len(heap), lang |-> l, outcome |-> how,
                   text |-> IF s = Nothing THEN Nothing ELSE Current[s],
                   operator |-> IF o = l THEN Nothing ELSE o, shown |-> Nothing])
  IN  /\ proc[v].at = "idle" /\ Current # Nothing
      /\ Count("visits", MaxVisits)
      /\ \/ Current[l] # Nothing /\ Go("show", l, "none")
         \/ Current[l] = Nothing /\ \E s \in Sources(Current) : Go("translate", s, "none")
         \/ Authored(Current) = {} /\ Go("idle", Nothing, "raised")
      /\ UNCHANGED <<db, file, heap, paid>>

\* The answer is shown to the pilgrim.  An operator of another language is shown
\* one too, asked of the same dict, before the voice is looked up.
Show(v) ==
  LET entry == heap[proc[v].held]
      o == proc[v].operator
  IN  /\ proc[v].at = "show"
      /\ IF o \in Langs \ Authored(entry)
         THEN \E s \in Sources(entry) :
                Become(v, [at |-> "translate", lang |-> o, text |-> entry[s],
                           shown |-> proc[v].text])
         ELSE Become(v, [at |-> "lookup", operator |-> Nothing])
      /\ UNCHANGED <<db, file, heap, paid, used>>

\* t is the answer to show, to the pilgrim or then to the operator; with both,
\* the voice of what the pilgrim was shown is next.
Answered(v, t) ==
  LET first == proc[v].shown
  IN  Become(v, IF first = Nothing THEN [at |-> "show", lang |-> t.lang, text |-> t]
                ELSE [at |-> "lookup", lang |-> first.lang, text |-> first,
                      shown |-> Nothing, operator |-> Nothing])

\* The translation succeeds, or the answer falls back to the source text.
Translated(v) ==
  LET l == proc[v].lang
  IN  /\ \E m \in Translators :
           Become(v, [at |-> "upsert", text |-> Machine(l, proc[v].text, m)])
      /\ paid' = [paid EXCEPT ![l] = @ + 1]

\* Mutants of TranslateAnswers: the fallback keeps the language asked for; the
\* translation is used but never stored.
FallbackKeepsLanguage(v) ==
  /\ proc[v].at = "translate"
  /\ \/ Translated(v)
     \/ proc[v].shown = Nothing /\ Become(v, [at |-> "show"]) /\ UNCHANGED paid
  /\ UNCHANGED <<db, file, heap, used>>

TranslationNotStored(v) ==
  /\ proc[v].at = "translate"
  /\ \E m \in Translators :
       Answered(v, Machine(proc[v].lang, proc[v].text, m))
  /\ UNCHANGED <<db, file, heap, paid, used>>

TranslateAnswers(v) ==
  /\ proc[v].at = "translate"
  /\ \/ Translated(v)
     \/ Answered(v, proc[v].text) /\ UNCHANGED paid
  /\ UNCHANGED <<db, file, heap, used>>

-----------------------------------------------------------------------------
(* db.upsert_faq_answer and db.invalidate_audio_cache.                     *)

\* Mutant of Upsert: a translation is stored but the voice of an older one is kept.
UpsertKeepsVoice(p) ==
  /\ proc[p].at = "upsert"
  /\ answers' = [answers EXCEPT ![proc[p].lang] = proc[p].text]
  /\ reviewed' = [reviewed EXCEPT ![proc[p].lang] = p \in Editors]
  /\ Become(p, [at |-> IF p \in Visitors THEN "purgeFiles" ELSE "purgeSelect"])
  /\ UNCHANGED <<status, row, file, heap, paid, used>>

Upsert(p) ==
  /\ proc[p].at = "upsert"
  /\ answers' = [answers EXCEPT ![proc[p].lang] = proc[p].text]
  /\ reviewed' = [reviewed EXCEPT ![proc[p].lang] = p \in Editors]
  /\ Become(p, [at |-> "purgeSelect"])
  /\ UNCHANGED <<status, row, file, heap, paid, used>>

PurgeSelect(p) ==
  /\ proc[p].at = "purgeSelect"
  /\ Become(p, [at |-> "purgeDelete", seen |-> row[proc[p].lang]])
  /\ UNCHANGED <<db, file, heap, paid, used>>

PurgeDelete(p) ==
  /\ proc[p].at = "purgeDelete"
  /\ row' = [row EXCEPT ![proc[p].lang] = FALSE]
  /\ Become(p, [at |-> "purgeFiles"])
  /\ UNCHANGED <<status, answers, reviewed, file, heap, paid, used>>

\* The languages still to go through: those with a text, in order.
Remaining(p, after) ==
  {i \in DOMAIN LangOrder : i > after /\ proc[p].form[LangOrder[i]] # Nothing}
Index(l) == CHOOSE i \in DOMAIN LangOrder : LangOrder[i] = l

GoThrough(p, after, step, done) ==
  LET rest == Remaining(p, after)
      l == LangOrder[CHOOSE i \in rest : \A j \in rest : i <= j]
  IN  IF rest = {} THEN Become(p, done)
      ELSE Become(p, [at |-> step, lang |-> l, text |-> proc[p].form[l]])

\* Mutant of WriteNext: an answer that is stored as posted is left alone.
WriteChanged(p, after) ==
  LET rest == {i \in Remaining(p, after) : proc[p].form[LangOrder[i]] # answers[LangOrder[i]]}
      l == LangOrder[CHOOSE i \in rest : \A j \in rest : i <= j]
  IN  IF rest = {} THEN Become(p, IF p \in Editors THEN [at |-> "loadFaqs"] ELSE Ended("saved"))
      ELSE Become(p, [at |-> "upsert", lang |-> l, text |-> proc[p].form[l]])

\* The server reloads when the form is written; a script just ends.
WriteNext(p, after) ==
  GoThrough(p, after, "upsert",
    IF p \in Editors THEN [at |-> "loadFaqs"] ELSE Ended("saved"))

\* Files of the rows it selected are removed.  A visitor then puts its text in
\* the dict it holds and reloads; a form or script goes on with its languages.
PurgeFiles(p) ==
  LET l == proc[p].lang
  IN  /\ proc[p].at = "purgeFiles"
      /\ file' = IF proc[p].seen THEN [file EXCEPT ![l] = Nothing] ELSE file
      /\ IF p \in Visitors
         THEN /\ heap' = [heap EXCEPT ![proc[p].held][l] = proc[p].text]
              /\ Become(p, [at |-> "loadFaqs"])
         ELSE WriteNext(p, Index(l)) /\ UNCHANGED heap
      /\ UNCHANGED <<db, paid, used>>

-----------------------------------------------------------------------------
(* faq_state.reload and db.load_pack: three statements without a           *)
(* transaction, each joined on the status of its own moment.               *)

LoadFaqs(p) ==
  /\ proc[p].at = "loadFaqs"
  /\ Become(p, [at |-> "loadKeywords",
                loaded |-> [NothingLoaded EXCEPT !.first = status = "approved"]])
  /\ UNCHANGED <<db, file, heap, paid, used>>

LoadKeywords(p) ==
  /\ proc[p].at = "loadKeywords"
  /\ LET unknown == status = "approved" /\ ~proc[p].loaded.first
     IN  Become(p, [at |-> "loadAnswers", loaded |-> [proc[p].loaded EXCEPT !.late = unknown]])
  /\ UNCHANGED <<db, file, heap, paid, used>>

\* Mutant of LoadAnswers: rows of drafts are not filtered out.
LoadAnyAnswers(p) ==
  /\ proc[p].at = "loadAnswers"
  /\ Become(p, [at |-> "assign", loaded |-> [proc[p].loaded EXCEPT !.answers = answers]])
  /\ UNCHANGED <<db, file, heap, paid, used>>

LoadAnswers(p) ==
  LET unknown == ~proc[p].loaded.first /\ Authored(answers) # {}
  IN  /\ proc[p].at = "loadAnswers"
      /\ Become(p, [at |-> "assign", loaded |->
           IF status # "approved" THEN proc[p].loaded
           ELSE [proc[p].loaded EXCEPT !.late = @ \/ unknown, !.answers = answers]])
      /\ UNCHANGED <<db, file, heap, paid, used>>

\* A keyword or answer row of an entry the first statement did not return
\* raises KeyError; otherwise the new list replaces FAQ_ENTRIES.  The warmer
\* has a FAQ_ENTRIES of its own, and goes through the answers in it; an entry
\* without any raises StopIteration.
Assign(p) ==
  LET found == IF proc[p].loaded.first THEN proc[p].loaded.answers ELSE Nothing
  IN  /\ proc[p].at = "assign"
      /\ IF proc[p].loaded.late \/ (p = Warmer /\ found = NoAnswers)
         THEN End(p, "raised") /\ UNCHANGED heap
         ELSE IF p = Warmer
         THEN /\ Become(p, [at |-> "warm", form |-> IF found = Nothing THEN NoAnswers ELSE found])
              /\ UNCHANGED heap
         ELSE /\ heap' = Append(heap, found)
              /\ IF p \in Visitors THEN Answered(p, proc[p].text) ELSE End(p, "saved")
      /\ UNCHANGED <<db, file, paid, used>>

-----------------------------------------------------------------------------
(* get_faq_audio.                                                          *)

LookupRow(p) ==
  /\ proc[p].at = "lookup"
  /\ Become(p, [at |-> "readFile", seen |-> row[proc[p].lang]])
  /\ UNCHANGED <<db, file, heap, paid, used>>

\* The voice is there: a visitor is sent it, the warmer takes the next language.
Speak(p, spoken) ==
  IF p = Warmer THEN Become(p, [at |-> "warm"])
  ELSE proc' = [proc EXCEPT ![p] = With(With(@, Ended("spoken")), [heard |-> spoken])]

\* A row whose file is gone counts as a miss.
ReadFile(p) ==
  LET l == proc[p].lang
  IN  /\ proc[p].at = "readFile"
      /\ IF proc[p].seen /\ file[l] # Nothing THEN Speak(p, file[l])
         ELSE Become(p, [at |-> "synthesize"])
      /\ UNCHANGED <<db, file, heap, paid, used>>

\* Mutant of SynthesizeAnswers: a failed synthesis starts over.
SynthesizeAgain(p) ==
  /\ proc[p].at = "synthesize"
  /\ \/ /\ file' = [file EXCEPT ![proc[p].lang] = proc[p].text]
        /\ Become(p, [at |-> "saveRow"])
     \/ Become(p, [at |-> "lookup"]) /\ UNCHANGED file
  /\ UNCHANGED <<db, heap, paid, used>>

\* The file is written as soon as the synthesis answers, the row after an
\* await.  A synthesis that fails ends the pipeline or the script.
SynthesizeAnswers(p) ==
  /\ proc[p].at = "synthesize"
  /\ \/ /\ file' = [file EXCEPT ![proc[p].lang] = proc[p].text]
        /\ Become(p, [at |-> "saveRow"])
     \/ End(p, "voiceless") /\ UNCHANGED file
  /\ UNCHANGED <<db, heap, paid, used>>

SaveRow(p) ==
  /\ proc[p].at = "saveRow"
  /\ row' = [row EXCEPT ![proc[p].lang] = TRUE]
  /\ Speak(p, proc[p].text)
  /\ UNCHANGED <<status, answers, reviewed, file, heap, paid, used>>

-----------------------------------------------------------------------------
(* The administrator's edit form.                                          *)

OpenForm(e) ==
  /\ proc[e].at = "idle" /\ used.edits < MaxEdits /\ status # "absent"
  /\ Become(e, [at |-> "form", form |-> answers, outcome |-> "none"])
  /\ UNCHANGED <<db, file, heap, paid, used>>

\* The form is posted with a new wording for language l and every other field
\* as it was shown.  upsert_faq comes first.
SubmitForm(e, l, s) ==
  /\ proc[e].at = "form" /\ Count("edits", MaxEdits)
  /\ Become(e, [at |-> "write", form |-> [proc[e].form EXCEPT ![l] = Typed(l, used.edits + 1)]])
  /\ status' = s
  /\ UNCHANGED <<answers, reviewed, row, file, heap, paid>>

WriteForm(p) ==
  /\ proc[p].at = "write"
  /\ WriteNext(p, 0)
  /\ UNCHANGED <<db, file, heap, paid, used>>

-----------------------------------------------------------------------------
(* The scripts, each a process with a connection of its own.               *)

\* seed_gaya_intents.py, an intent without a draft answer: upsert_faq makes the
\* entry a draft whatever it was, then the placeholders are written one by one.
StartSeed ==
  /\ Seed \in Scripts /\ proc[Seed].at = "idle" /\ Count("runs", MaxRuns)
  /\ status' = "draft"
  /\ Become(Seed, [at |-> "write", outcome |-> "none",
                   form |-> [l \in Langs |-> Placeholder(l)]])
  /\ UNCHANGED <<answers, reviewed, row, file, heap, paid>>

\* migrate_faq.py: an entry that exists keeps its status.
StartMigration ==
  /\ Migration \in Scripts /\ proc[Migration].at = "idle" /\ Count("runs", MaxRuns)
  /\ status' = IF status = "absent" THEN "approved" ELSE status
  /\ LET script == [l \in Langs |-> Typed(l, 0)]
         first == LangOrder[1]
     IN  Become(Migration, [at |-> "migrate", form |-> script, lang |-> first,
                            text |-> script[first], outcome |-> "none"])
  /\ UNCHANGED <<answers, reviewed, row, file, heap, paid>>

\* An INSERT ... ON CONFLICT of its own: it purges nothing, and a row that is
\* there keeps its reviewed flag.
MigrateAnswer ==
  LET l == proc[Migration].lang
  IN  /\ Migration \in Scripts /\ proc[Migration].at = "migrate"
      /\ answers' = [answers EXCEPT ![l] = proc[Migration].text]
      /\ reviewed' = [reviewed EXCEPT ![l] = @ \/ answers[l] = Nothing]
      /\ GoThrough(Migration, Index(l), "migrate", Ended("saved"))
      /\ UNCHANGED <<status, row, file, heap, paid, used>>

StartWarmer ==
  /\ Warmer \in Scripts /\ proc[Warmer].at = "idle" /\ Count("runs", MaxRuns)
  /\ Become(Warmer, [at |-> "loadFaqs", outcome |-> "none"])
  /\ UNCHANGED <<db, file, heap, paid>>

\* Every supported language resolves to one that is authored, and each of those
\* comes up once, in an order that depends on the fallbacks.
WarmNext ==
  LET todo == proc[Warmer].form
  IN  /\ Warmer \in Scripts /\ proc[Warmer].at = "warm"
      /\ \/ \E l \in Authored(todo) :
              Become(Warmer, [at |-> "warmCheck", lang |-> l, text |-> todo[l],
                              form |-> [todo EXCEPT ![l] = Nothing]])
         \/ Authored(todo) = {} /\ End(Warmer, "warmed")
      /\ UNCHANGED <<db, file, heap, paid, used>>

\* A row is enough to skip the language, with or without its file.
WarmCheck ==
  /\ Warmer \in Scripts /\ proc[Warmer].at = "warmCheck"
  /\ Become(Warmer, [at |-> IF row[proc[Warmer].lang] THEN "warm" ELSE "lookup"])
  /\ UNCHANGED <<db, file, heap, paid, used>>

-----------------------------------------------------------------------------
(* Faults.                                                                 *)

\* An await raises (a statement, the socket of a pilgrim who has left, a provider
\* with an error that is no ProviderError): the handler or script ends, what it
\* has stored stays.
Awaits == {"upsert", "purgeSelect", "purgeDelete", "loadFaqs", "loadKeywords", "loadAnswers",
           "lookup", "saveRow", "write", "migrate", "warmCheck", "show", "translate", "synthesize"}
AwaitRaises(p) ==
  /\ proc[p].at \in Awaits
  /\ Count("errors", MaxErrors)
  /\ End(p, "raised")
  /\ UNCHANGED <<db, file, heap, paid>>

\* The server restarts: rows and files survive, everything in memory is lost
\* and startup loads the pack before the first request.
Restart ==
  /\ Count("restarts", MaxRestarts)
  /\ heap' = <<Loaded>>
  /\ proc' = [p \in Processes |->
       IF p \in Scripts THEN proc[p]
       ELSE IF proc[p].at \in {"idle", "form"} THEN With(proc[p], [held |-> 1])
       ELSE With(proc[p], [held |-> 1, at |-> "idle", outcome |-> "lost"])]
  /\ UNCHANGED <<db, file, paid>>

-----------------------------------------------------------------------------
Store(p) == Upsert(p) \/ PurgeSelect(p) \/ PurgeDelete(p) \/ PurgeFiles(p) \/ WriteForm(p)
Load(p) == LoadFaqs(p) \/ LoadKeywords(p) \/ LoadAnswers(p) \/ Assign(p)
Voice(p) == LookupRow(p) \/ ReadFile(p) \/ SynthesizeAnswers(p) \/ SaveRow(p)

Visit(v) == Show(v) \/ TranslateAnswers(v) \/ Store(v) \/ Load(v) \/ Voice(v)
Edit(e) == Store(e) \/ Load(e)
SeedWork == \E s \in Scripts \cap {Seed} : Store(s)
WarmerWork == WarmNext \/ WarmCheck \/ \E s \in Scripts \cap {Warmer} : Load(s) \/ Voice(s)

Next ==
  \/ \E v \in Visitors : Visit(v) \/ \E l \in Langs, o \in Operators : Match(v, l, o)
  \/ \E e \in Editors :
       Edit(e) \/ OpenForm(e) \/ \E l \in Langs, s \in Statuses : SubmitForm(e, l, s)
  \/ StartSeed \/ SeedWork
  \/ StartMigration \/ MigrateAnswer
  \/ StartWarmer \/ WarmerWork
  \/ Restart
  \/ \E p \in Processes : AwaitRaises(p)

Spec == Init /\ [][Next]_vars

\* Database statements and provider calls return: the HTTP clients have
\* timeouts and the awaits are on nothing else.  Nobody has to visit, to edit
\* or to run a script.
FairSpec ==
  /\ Spec
  /\ \A v \in Visitors : WF_vars(Visit(v))
  /\ \A e \in Editors : WF_vars(Edit(e))
  /\ WF_vars(SeedWork) /\ WF_vars(MigrateAnswer) /\ WF_vars(WarmerWork)
=============================================================================
