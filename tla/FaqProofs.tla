------------------------------ MODULE FaqProofs ------------------------------
(***************************************************************************)
(* Proofs about the approved-answer entry (FaqStore), for any languages,   *)
(* visitors, providers and bounds, with restarts and failing statements at *)
(* any point: in which language a voice is, that no placeholder of the seed*)
(* script reaches a pilgrim, that a form saved undisturbed repairs what    *)
(* went wrong before it, that a translation made undisturbed is what is    *)
(* heard and kept, and that nothing is spoken that was never stored.       *)
(***************************************************************************)
EXTENDS MCFaqForms, WellFoundedInduction, TLAPS

-----------------------------------------------------------------------------
(* Types, with every text under its own language.                          *)

Fields == {"at", "lang", "text", "held", "seen", "loaded", "form", "shown", "operator",
           "heard", "outcome"}
Counters == {"visits", "edits", "runs", "restarts", "errors"}

\* One text per language, or none, each in that language.
Entries ==
  {e \in [Langs -> Texts \cup {Nothing}] : \A l \in Langs : e[l] # Nothing => e[l].lang = l}

ShapeOK ==
  /\ proc = [p \in Processes |-> proc[p]]
  /\ \A p \in Processes : DOMAIN proc[p] = Fields

DataOK ==
  /\ answers \in Entries /\ file \in Entries
  /\ heap \in Seq(Entries \cup {Nothing}) /\ heap # << >>
  /\ used \in [Counters -> Nat]

\* At these a process carries a text of its language; a visitor also while it
\* reloads the pack.
Carrying == {"upsert", "purgeSelect", "purgeDelete", "purgeFiles", "show", "lookup", "readFile",
             "synthesize", "saveRow", "migrate", "warmCheck"}
Loading == {"loadFaqs", "loadKeywords", "loadAnswers", "assign"}
Carries(p) == proc[p].at \in IF p \in Visitors THEN Carrying \cup Loading ELSE Carrying

ProcessOK(p) ==
  /\ proc[p].lang \in Langs
  /\ proc[p].text \in Texts \cup {Nothing}
  /\ proc[p].form \in Entries
  /\ proc[p].loaded \in [first : BOOLEAN, late : BOOLEAN, answers : Entries]
  /\ proc[p].at = "translate" => proc[p].text \in Texts
  /\ Carries(p) => proc[p].text \in Texts /\ proc[p].text.lang = proc[p].lang

\* What a visitor matched stays in the heap until its work ends; a voice it was
\* sent is in the language of its text.
VisitorOK(v) ==
  /\ proc[v].at \in {"idle", "translate"} \cup Carrying \cup Loading
  /\ proc[v].at # "idle" =>
       /\ proc[v].outcome = "none"
       /\ proc[v].held \in 1 .. Len(heap) /\ heap[proc[v].held] \in Entries
  /\ proc[v].shown \in Texts \cup {Nothing}
  /\ proc[v].outcome = "spoken" => proc[v].heard.lang = proc[v].text.lang

StoreInv ==
  /\ ShapeOK
  /\ DataOK
  /\ \A p \in Processes : ProcessOK(p)
  /\ \A v \in Visitors : VisitorOK(v)

LEMMA MinExists ==
  ASSUME NEW S, S \subseteq Nat, S # {}
  PROVE  \E x \in S : \A y \in S : x <= y
<1> DEFINE R == {p \in Nat \X Nat : p[1] < p[2]}
<1>1. OpToRel(<, Nat) = R
  BY Zenon DEF OpToRel
<1>2. IsWellFoundedOn(R, Nat)
  BY <1>1, NatLessThanWellFounded, Zenon
<1>3. \E x \in S : \A y \in S : ~ (<<y, x>> \in R)
  <2> HIDE DEF R
  <2> QED BY <1>2, WFMin
<1>4. ASSUME NEW x \in S, NEW y \in S, ~ (<<y, x>> \in R) PROVE x <= y
  BY <1>4
<1> QED
  BY <1>3, <1>4

-----------------------------------------------------------------------------
(* What a change of one process does to it and to the others.              *)

LEMMA BecomeChanges ==
  ASSUME ShapeOK, NEW p \in Processes, NEW c, Become(p, c)
  PROVE  /\ ShapeOK'
         /\ \A q \in Processes \ {p} : proc'[q] = proc[q]
         /\ proc'[p].at = IF "at" \in DOMAIN c THEN c.at ELSE proc[p].at
         /\ proc'[p].lang = IF "lang" \in DOMAIN c THEN c.lang ELSE proc[p].lang
         /\ proc'[p].text = IF "text" \in DOMAIN c THEN c.text ELSE proc[p].text
         /\ proc'[p].held = IF "held" \in DOMAIN c THEN c.held ELSE proc[p].held
         /\ proc'[p].loaded = IF "loaded" \in DOMAIN c THEN c.loaded ELSE proc[p].loaded
         /\ proc'[p].form = IF "form" \in DOMAIN c THEN c.form ELSE proc[p].form
         /\ proc'[p].shown = IF "shown" \in DOMAIN c THEN c.shown ELSE proc[p].shown
         /\ proc'[p].operator = IF "operator" \in DOMAIN c THEN c.operator ELSE proc[p].operator
         /\ proc'[p].heard = IF "heard" \in DOMAIN c THEN c.heard ELSE proc[p].heard
         /\ proc'[p].outcome = IF "outcome" \in DOMAIN c THEN c.outcome ELSE proc[p].outcome
<1>1. /\ ShapeOK'
      /\ \A q \in Processes \ {p} : proc'[q] = proc[q]
      /\ \A f \in Fields : proc'[p][f] = IF f \in DOMAIN c THEN c[f] ELSE proc[p][f]
  BY DEF ShapeOK, Become, With
<1> QED BY <1>1 DEF Fields

LEMMA EndChanges ==
  ASSUME ShapeOK, NEW p \in Processes, NEW how, End(p, how)
  PROVE  /\ ShapeOK'
         /\ \A q \in Processes \ {p} : proc'[q] = proc[q]
         /\ proc'[p].at = "idle" /\ proc'[p].outcome = how
         /\ proc'[p].loaded = NothingLoaded /\ proc'[p].form = NoAnswers
         /\ proc'[p].lang = proc[p].lang /\ proc'[p].text = proc[p].text
         /\ proc'[p].shown = Nothing /\ proc'[p].operator = Nothing
         /\ proc'[p].heard = proc[p].heard
BY BecomeChanges DEF End, Ended

LEMMA SpeakChanges ==
  ASSUME ShapeOK, NEW p \in Processes, NEW spoken, Speak(p, spoken)
  PROVE  /\ ShapeOK'
         /\ \A q \in Processes \ {p} : proc'[q] = proc[q]
         /\ proc'[p].lang = proc[p].lang /\ proc'[p].text = proc[p].text
         /\ p = Warmer =>
              /\ proc'[p].at = "warm" /\ proc'[p].shown = proc[p].shown
              /\ proc'[p].loaded = proc[p].loaded /\ proc'[p].form = proc[p].form
         /\ p # Warmer =>
              /\ proc'[p].at = "idle" /\ proc'[p].heard = spoken /\ proc'[p].outcome = "spoken"
              /\ proc'[p].shown = Nothing
              /\ proc'[p].loaded = NothingLoaded /\ proc'[p].form = NoAnswers
<1>1. CASE p = Warmer
  <2>1. Become(p, [at |-> "warm"])
    BY <1>1 DEF Speak
  <2> QED BY <1>1, <2>1, BecomeChanges
<1>2. CASE p # Warmer
  <2>1. proc' = [proc EXCEPT ![p] = With(With(@, Ended("spoken")), [heard |-> spoken])]
    BY <1>2 DEF Speak
  <2>2. /\ ShapeOK'
        /\ \A q \in Processes \ {p} : proc'[q] = proc[q]
        /\ \A f \in Fields :
             proc'[p][f] = IF f = "heard" THEN spoken
                           ELSE IF f \in DOMAIN Ended("spoken") THEN Ended("spoken")[f]
                           ELSE proc[p][f]
    BY <2>1 DEF ShapeOK, With
  <2> QED BY <1>2, <2>2 DEF Fields, Ended
<1> QED BY <1>1, <1>2

LEMMA NothingIsEntry == NoAnswers \in Entries /\ NothingLoaded \in [first : BOOLEAN, late : BOOLEAN, answers : Entries]
BY DEF NoAnswers, Entries, NothingLoaded

LEMMA NothingIsNoEntry == Nothing \notin Entries
BY StoreAssumption DEF Entries

\* A step of one process keeps the others' part of the invariant.
LEMMA OneProcessSteps ==
  ASSUME StoreInv, ShapeOK', DataOK', NEW p \in Processes,
         \A q \in Processes \ {p} : proc'[q] = proc[q],
         \A i \in 1 .. Len(heap) : i \in 1 .. Len(heap') /\ (heap[i] \in Entries => heap'[i] \in Entries),
         ProcessOK(p)', p \in Visitors => VisitorOK(p)'
  PROVE  StoreInv'
<1>1. ASSUME NEW q \in Processes \ {p} PROVE ProcessOK(q)'
  BY <1>1 DEF StoreInv, ProcessOK, Carries
<1>2. ASSUME NEW v \in Visitors, v # p PROVE VisitorOK(v)'
  BY <1>2 DEF StoreInv, VisitorOK, Processes
<1> QED BY <1>1, <1>2 DEF StoreInv

\* The common case: the heap stays.
LEMMA OneProcessStepsQuietly ==
  ASSUME StoreInv, ShapeOK', DataOK', NEW p \in Processes, UNCHANGED heap,
         \A q \in Processes \ {p} : proc'[q] = proc[q],
         ProcessOK(p)', p \in Visitors => VisitorOK(p)'
  PROVE  StoreInv'
BY OneProcessSteps

LEMMA Kinds ==
  /\ \A v \in Visitors : v \in Processes /\ v \notin Editors /\ v \notin {Seed, Migration, Warmer}
  /\ \A e \in Editors : e \in Processes /\ e \notin Visitors /\ e \notin {Seed, Migration, Warmer}
  /\ \A s \in Scripts : s \in Processes /\ s \notin Visitors /\ s \notin Editors
BY StoreAssumption DEF Processes

LEMMA InitIsSound == Init => StoreInv
<1> SUFFICES ASSUME Init PROVE StoreInv
  OBVIOUS
<1>1. MaxEdits \in Nat /\ Hindi \in Langs
  BY StoreAssumption
<1>2. \A l \in Langs : Typed(l, 0) \in Texts /\ Typed(l, 0).lang = l
  BY <1>1 DEF Texts, Typed
<1>3. answers \in Entries /\ file \in Entries
  BY <1>2 DEF Init, Entries
<1>4. heap \in Seq(Entries \cup {Nothing}) /\ heap # << >>
  BY <1>3 DEF Init, Loaded
<1>5. used \in [Counters -> Nat]
  BY DEF Init, Counters
<1>6. ShapeOK
  BY DEF Init, ShapeOK, Fields
<1>7. ASSUME NEW p \in Processes PROVE ProcessOK(p)
  <2>1. /\ proc[p].at = "idle" /\ proc[p].lang = Hindi /\ proc[p].text = Nothing
        /\ proc[p].form = NoAnswers /\ proc[p].loaded = NothingLoaded
    BY DEF Init
  <2> QED BY <1>1, <2>1, NothingIsEntry DEF ProcessOK, Carries, Carrying, Loading
<1>8. ASSUME NEW v \in Visitors PROVE VisitorOK(v)
  <2>1. proc[v].at = "idle" /\ proc[v].outcome = "none" /\ proc[v].shown = Nothing
    BY Kinds DEF Init
  <2> QED BY <2>1 DEF VisitorOK
<1> QED BY <1>3, <1>4, <1>5, <1>6, <1>7, <1>8 DEF StoreInv, DataOK

-----------------------------------------------------------------------------
(* Every step keeps every text under its language.                         *)

LEMMA CurrentIsEntry ==
  ASSUME DataOK, Current # Nothing
  PROVE  Current \in Entries /\ Len(heap) \in 1 .. Len(heap) /\ Current = heap[Len(heap)]
BY DEF DataOK, Current

LEMMA SourcesAreAuthored ==
  ASSUME NEW entry PROVE \A s \in Sources(entry) : s \in Langs /\ entry[s] # Nothing
BY StoreAssumption DEF Sources, Authored

\* Where a process goes through the texts of its form.
LEMMA GoThroughIsSound ==
  ASSUME StoreInv, DataOK', UNCHANGED heap, NEW p \in Processes, p \notin Visitors,
         NEW after, NEW step, NEW how, step \in Carrying,
         \/ GoThrough(p, after, step, Ended(how))
         \/ GoThrough(p, after, step, [at |-> "loadFaqs"])
  PROVE  StoreInv'
<1> DEFINE rest == Remaining(p, after)
           l == LangOrder[CHOOSE i \in rest : \A j \in rest : i <= j]
<1>1. ShapeOK /\ ProcessOK(p)
  BY DEF StoreInv
<1>2. CASE rest = {}
  <2>1. End(p, how) \/ Become(p, [at |-> "loadFaqs"])
    BY <1>2 DEF GoThrough, End
  <2>2. CASE End(p, how)
    BY <1>1, <2>2, EndChanges, NothingIsEntry, OneProcessStepsQuietly
       DEF ProcessOK, Carries, Carrying
  <2>3. CASE Become(p, [at |-> "loadFaqs"])
    BY <1>1, <2>3, BecomeChanges, OneProcessStepsQuietly DEF ProcessOK, Carries, Carrying
  <2> QED BY <2>1, <2>2, <2>3
<1>3. CASE rest # {}
  <2>1. Become(p, [at |-> step, lang |-> l, text |-> proc[p].form[l]]) /\ step \in Carrying
    BY <1>3 DEF GoThrough
  <2>2. /\ rest \subseteq Nat
        /\ \A i \in rest : LangOrder[i] \in Langs /\ proc[p].form[LangOrder[i]] # Nothing
    BY StoreAssumption DEF Remaining
  <2>3. PICK i \in rest : \A j \in rest : i <= j
    BY <1>3, <2>2, MinExists
  <2>4. l \in Langs /\ proc[p].form[l] # Nothing
    BY <2>2, <2>3
  <2>5. proc[p].form[l] \in Texts /\ proc[p].form[l].lang = l
    BY <1>1, <2>4 DEF ProcessOK, Entries
  <2> HIDE DEF rest, l
  <2>6. /\ ShapeOK' /\ \A q \in Processes \ {p} : proc'[q] = proc[q]
        /\ proc'[p].at = step /\ proc'[p].lang = l /\ proc'[p].text = proc[p].form[l]
        /\ proc'[p].form = proc[p].form /\ proc'[p].loaded = proc[p].loaded
    BY <1>1, <2>1, BecomeChanges
  <2>7. ProcessOK(p)'
    BY <1>1, <2>4, <2>5, <2>6 DEF ProcessOK, Carrying
  <2> QED BY <2>6, <2>7, OneProcessStepsQuietly
<1> QED BY <1>2, <1>3

LEMMA WriteNextIsSound ==
  ASSUME StoreInv, DataOK', UNCHANGED heap, NEW p \in Processes, p \notin Visitors,
         NEW after, WriteNext(p, after)
  PROVE  StoreInv'
BY GoThroughIsSound DEF WriteNext, Carrying

LEMMA MatchIsSound ==
  ASSUME StoreInv, NEW v \in Visitors, NEW l \in Langs, NEW o, Match(v, l, o)
  PROVE  StoreInv'
<1>1. ShapeOK /\ DataOK /\ ProcessOK(v) /\ VisitorOK(v) /\ v \in Processes
  BY Kinds DEF StoreInv
<1>2. Current \in Entries /\ Len(heap) \in 1 .. Len(heap) /\ Current = heap[Len(heap)]
  BY <1>1, CurrentIsEntry DEF Match
<1>3. UNCHANGED <<db, file, heap>> /\ Count("visits", MaxVisits)
  BY DEF Match
<1>4. DataOK'
  BY <1>1, <1>3 DEF DataOK, db, Count, Counters
<1>5. PICK where, s, how :
        /\ Become(v, [at |-> where, held |-> Len(heap), lang |-> l, outcome |-> how,
                      text |-> IF s = Nothing THEN Nothing ELSE Current[s],
                      operator |-> IF o = l THEN Nothing ELSE o, shown |-> Nothing])
        /\ \/ where = "show" /\ s = l /\ how = "none" /\ Current[l] # Nothing
           \/ where = "translate" /\ s \in Sources(Current) /\ how = "none"
           \/ where = "idle" /\ s = Nothing /\ how = "raised"
  BY DEF Match
<1>6. /\ ShapeOK' /\ \A q \in Processes \ {v} : proc'[q] = proc[q]
      /\ proc'[v].at = where /\ proc'[v].lang = l /\ proc'[v].held = Len(heap)
      /\ proc'[v].outcome = how /\ proc'[v].shown = Nothing
      /\ proc'[v].text = IF s = Nothing THEN Nothing ELSE Current[s]
      /\ proc'[v].form = proc[v].form /\ proc'[v].loaded = proc[v].loaded
  BY <1>1, <1>5, BecomeChanges
<1>7. (s \in Langs /\ Current[s] # Nothing) \/ (where = "idle" /\ s = Nothing)
  BY <1>5, SourcesAreAuthored
<1>8. s \in Langs /\ Current[s] # Nothing =>
        Nothing # s /\ Current[s] \in Texts /\ Current[s].lang = s
  BY <1>2, StoreAssumption DEF Entries
<1>9. ProcessOK(v)'
  BY <1>1, <1>5, <1>6, <1>7, <1>8 DEF ProcessOK, Carries, Carrying, Loading
<1>10. VisitorOK(v)'
  BY <1>2, <1>3, <1>5, <1>6 DEF VisitorOK, Carrying, Loading
<1> QED BY <1>1, <1>3, <1>4, <1>6, <1>9, <1>10, OneProcessStepsQuietly

\* The answer of the operator's language is asked of the dict that was matched.
LEMMA ShowIsSound ==
  ASSUME StoreInv, NEW v \in Visitors, Show(v)
  PROVE  StoreInv'
<1> DEFINE entry == heap[proc[v].held]
           o == proc[v].operator
<1>1. ShapeOK /\ DataOK /\ ProcessOK(v) /\ VisitorOK(v) /\ v \in Processes
  BY Kinds DEF StoreInv
<1>2. /\ UNCHANGED <<db, file, heap, used>> /\ proc[v].at = "show"
      /\ \/ /\ o \in Langs \ Authored(entry)
            /\ \E s \in Sources(entry) :
                 Become(v, [at |-> "translate", lang |-> o, text |-> entry[s],
                            shown |-> proc[v].text])
         \/ Become(v, [at |-> "lookup", operator |-> Nothing])
  BY DEF Show
<1>3. entry \in Entries /\ proc[v].text \in Texts /\ proc[v].text.lang = proc[v].lang
  BY <1>1, <1>2 DEF VisitorOK, ProcessOK, Carries, Carrying
<1>4. DataOK'
  BY <1>1, <1>2 DEF DataOK, db
<1>5. ASSUME NEW s \in Sources(entry), o \in Langs,
             Become(v, [at |-> "translate", lang |-> o, text |-> entry[s],
                        shown |-> proc[v].text])
      PROVE  StoreInv'
  <2>1. /\ ShapeOK' /\ \A q \in Processes \ {v} : proc'[q] = proc[q]
        /\ proc'[v].at = "translate" /\ proc'[v].lang = o
        /\ proc'[v].text = entry[s] /\ proc'[v].held = proc[v].held
        /\ proc'[v].outcome = proc[v].outcome /\ proc'[v].shown = proc[v].text
        /\ proc'[v].form = proc[v].form /\ proc'[v].loaded = proc[v].loaded
    BY <1>1, <1>5, BecomeChanges
  <2>2. entry[s] \in Texts
    BY <1>3, <1>5, SourcesAreAuthored DEF Entries
  <2>3. ProcessOK(v)'
    BY <1>1, <1>5, <2>1, <2>2 DEF ProcessOK, Carries, Carrying, Loading
  <2>4. VisitorOK(v)'
    BY <1>1, <1>2, <1>3, <2>1 DEF VisitorOK
  <2> QED BY <1>1, <1>2, <1>4, <2>1, <2>3, <2>4, OneProcessStepsQuietly
<1>6. CASE Become(v, [at |-> "lookup", operator |-> Nothing])
  <2>1. /\ ShapeOK' /\ \A q \in Processes \ {v} : proc'[q] = proc[q]
        /\ proc'[v].at = "lookup" /\ proc'[v].lang = proc[v].lang
        /\ proc'[v].text = proc[v].text /\ proc'[v].held = proc[v].held
        /\ proc'[v].outcome = proc[v].outcome /\ proc'[v].shown = proc[v].shown
        /\ proc'[v].form = proc[v].form /\ proc'[v].loaded = proc[v].loaded
    BY <1>1, <1>6, BecomeChanges
  <2>2. ProcessOK(v)'
    BY <1>1, <1>3, <2>1 DEF ProcessOK
  <2>3. VisitorOK(v)'
    BY <1>1, <1>2, <2>1 DEF VisitorOK, Carrying
  <2> QED BY <1>1, <1>2, <1>4, <2>1, <2>2, <2>3, OneProcessStepsQuietly
<1> QED BY <1>2, <1>5, <1>6

\* An answer has come: it is shown, or the voice of what was shown is next.
LEMMA AnsweredIsSound ==
  ASSUME StoreInv, DataOK', NEW v \in Visitors, NEW t \in Texts, Answered(v, t),
         proc[v].at # "idle",
         \A i \in 1 .. Len(heap) : i \in 1 .. Len(heap') /\ (heap[i] \in Entries => heap'[i] \in Entries)
  PROVE  StoreInv'
<1> DEFINE first == proc[v].shown
           next == IF first = Nothing THEN "show" ELSE "lookup"
           new == IF first = Nothing THEN t ELSE first
<1>1. ShapeOK /\ ProcessOK(v) /\ VisitorOK(v) /\ v \in Processes
  BY Kinds DEF StoreInv
<1>2. new \in Texts /\ new.lang \in Langs
  <2>1. new \in Texts
    BY <1>1 DEF VisitorOK
  <2> QED BY <2>1 DEF Texts
<1>3. /\ ShapeOK' /\ \A q \in Processes \ {v} : proc'[q] = proc[q]
      /\ proc'[v].at = next /\ proc'[v].lang = new.lang /\ proc'[v].text = new
      /\ proc'[v].held = proc[v].held /\ proc'[v].outcome = proc[v].outcome
      /\ proc'[v].shown = Nothing
      /\ proc'[v].form = proc[v].form /\ proc'[v].loaded = proc[v].loaded
  <2>1. CASE first = Nothing
    <3>1. Become(v, [at |-> "show", lang |-> t.lang, text |-> t])
      BY <2>1 DEF Answered
    <3> QED BY <1>1, <2>1, <3>1, BecomeChanges
  <2>2. CASE first # Nothing
    <3>1. Become(v, [at |-> "lookup", lang |-> first.lang, text |-> first,
                     shown |-> Nothing, operator |-> Nothing])
      BY <2>2 DEF Answered
    <3> QED BY <1>1, <2>2, <3>1, BecomeChanges
  <2> QED BY <2>1, <2>2
<1> HIDE DEF new
<1>4. ProcessOK(v)'
  BY <1>1, <1>2, <1>3 DEF ProcessOK
<1>5. VisitorOK(v)'
  BY <1>1, <1>3 DEF VisitorOK, Carrying
<1> QED BY <1>1, <1>3, <1>4, <1>5, OneProcessSteps

LEMMA TranslateIsSound ==
  ASSUME StoreInv, NEW v \in Visitors, TranslateAnswers(v)
  PROVE  StoreInv'
<1>1. ShapeOK /\ DataOK /\ ProcessOK(v) /\ VisitorOK(v) /\ v \in Processes
  BY Kinds DEF StoreInv
<1>2. UNCHANGED <<db, file, heap, used>> /\ proc[v].at = "translate" /\ proc[v].text \in Texts
  BY <1>1 DEF TranslateAnswers, ProcessOK
<1>3. DataOK'
  BY <1>1, <1>2 DEF DataOK, db
<1>4. CASE Answered(v, proc[v].text)
  BY <1>2, <1>3, <1>4, AnsweredIsSound
<1>5. ASSUME NEW m \in Translators,
             Become(v, [at |-> "upsert", text |-> Machine(proc[v].lang, proc[v].text, m)])
      PROVE  StoreInv'
  <2>1. /\ ShapeOK' /\ \A q \in Processes \ {v} : proc'[q] = proc[q]
        /\ proc'[v].at = "upsert" /\ proc'[v].lang = proc[v].lang
        /\ proc'[v].text = Machine(proc[v].lang, proc[v].text, m)
        /\ proc'[v].held = proc[v].held
        /\ proc'[v].outcome = proc[v].outcome /\ proc'[v].shown = proc[v].shown
        /\ proc'[v].form = proc[v].form /\ proc'[v].loaded = proc[v].loaded
    BY <1>1, <1>5, BecomeChanges
  <2>2. /\ Machine(proc[v].lang, proc[v].text, m) \in Texts
        /\ Machine(proc[v].lang, proc[v].text, m).lang = proc[v].lang
    BY <1>1, <1>2 DEF ProcessOK, Machine, Texts
  <2>3. ProcessOK(v)'
    BY <1>1, <2>1, <2>2 DEF ProcessOK
  <2>4. VisitorOK(v)'
    BY <1>1, <1>2, <2>1 DEF VisitorOK, Carrying
  <2> QED BY <1>1, <1>2, <1>3, <2>1, <2>3, <2>4, OneProcessStepsQuietly
<1> QED BY <1>4, <1>5 DEF TranslateAnswers, Translated

LEMMA StoreIsSound ==
  ASSUME StoreInv, NEW p \in Processes, Store(p)
  PROVE  StoreInv'
<1>1. ShapeOK /\ DataOK /\ ProcessOK(p)
  BY DEF StoreInv
<1>2. p \in Visitors => VisitorOK(p)
  BY DEF StoreInv
<1>3. CASE Upsert(p)
  <2>1. /\ UNCHANGED <<file, heap, used>> /\ proc[p].at = "upsert"
        /\ answers' = [answers EXCEPT ![proc[p].lang] = proc[p].text]
        /\ Become(p, [at |-> "purgeSelect"])
    BY <1>3 DEF Upsert
  <2>2. proc[p].text \in Texts /\ proc[p].text.lang = proc[p].lang
    BY <1>1, <2>1 DEF ProcessOK, Carries, Carrying
  <2>3. DataOK'
    BY <1>1, <2>1, <2>2 DEF DataOK, Entries
  <2>4. /\ ShapeOK' /\ \A q \in Processes \ {p} : proc'[q] = proc[q]
        /\ proc'[p].at = "purgeSelect" /\ proc'[p].lang = proc[p].lang
        /\ proc'[p].text = proc[p].text /\ proc'[p].held = proc[p].held
        /\ proc'[p].outcome = proc[p].outcome /\ proc'[p].shown = proc[p].shown
        /\ proc'[p].form = proc[p].form /\ proc'[p].loaded = proc[p].loaded
    BY <1>1, <2>1, BecomeChanges
  <2>5. ProcessOK(p)'
    BY <1>1, <2>2, <2>4 DEF ProcessOK
  <2>6. p \in Visitors => VisitorOK(p)'
    BY <1>2, <2>1, <2>4 DEF VisitorOK, Carrying
  <2> QED BY <2>1, <2>3, <2>4, <2>5, <2>6, OneProcessStepsQuietly
<1>4. CASE PurgeSelect(p) \/ PurgeDelete(p)
  <2>1. PICK next : /\ next \in {"purgeDelete", "purgeFiles"}
                    /\ \/ Become(p, [at |-> next])
                       \/ Become(p, [at |-> next, seen |-> row[proc[p].lang]])
    BY <1>4 DEF PurgeSelect, PurgeDelete
  <2>2. /\ UNCHANGED <<answers, file, heap, used>>
        /\ proc[p].at \in {"purgeSelect", "purgeDelete"}
    BY <1>4 DEF PurgeSelect, PurgeDelete, db
  <2>3. DataOK'
    BY <1>1, <2>2 DEF DataOK
  <2>4. /\ ShapeOK' /\ \A q \in Processes \ {p} : proc'[q] = proc[q]
        /\ proc'[p].at = next /\ proc'[p].lang = proc[p].lang
        /\ proc'[p].text = proc[p].text /\ proc'[p].held = proc[p].held
        /\ proc'[p].outcome = proc[p].outcome /\ proc'[p].shown = proc[p].shown
        /\ proc'[p].form = proc[p].form /\ proc'[p].loaded = proc[p].loaded
    BY <1>1, <2>1, BecomeChanges
  <2>5. ProcessOK(p)'
    BY <1>1, <2>1, <2>2, <2>4 DEF ProcessOK, Carries, Carrying
  <2>6. p \in Visitors => VisitorOK(p)'
    BY <1>2, <2>1, <2>2, <2>4 DEF VisitorOK, Carrying
  <2> QED BY <2>2, <2>3, <2>4, <2>5, <2>6, OneProcessStepsQuietly
<1>5. CASE PurgeFiles(p)
  <2>1. /\ proc[p].at = "purgeFiles" /\ UNCHANGED <<answers, used>>
        /\ file' = [file EXCEPT ![proc[p].lang] = Nothing] \/ UNCHANGED file
    BY <1>5 DEF PurgeFiles, db
  <2>2. /\ proc[p].text \in Texts /\ proc[p].text.lang = proc[p].lang
        /\ proc[p].lang \in Langs
    BY <1>1, <2>1 DEF ProcessOK, Carries, Carrying
  <2>3. file' \in Entries
    BY <1>1, <2>1, <2>2 DEF DataOK, Entries
  <2>4. CASE p \in Visitors
    <3>1. /\ heap' = [heap EXCEPT ![proc[p].held][proc[p].lang] = proc[p].text]
          /\ Become(p, [at |-> "loadFaqs"])
      BY <1>5, <2>4 DEF PurgeFiles
    <3>2. proc[p].held \in 1 .. Len(heap) /\ heap[proc[p].held] \in Entries
      BY <1>2, <2>1, <2>4 DEF VisitorOK
    <3>3. heap \in Seq(Entries \cup {Nothing}) /\ heap # << >>
      BY <1>1 DEF DataOK
    <3>4. [heap[proc[p].held] EXCEPT ![proc[p].lang] = proc[p].text] \in Entries
      BY <2>2, <3>2 DEF Entries
    <3>5. /\ heap' \in Seq(Entries \cup {Nothing}) /\ Len(heap') = Len(heap)
          /\ \A i \in 1 .. Len(heap) :
               heap'[i] = IF i = proc[p].held
                          THEN [heap[proc[p].held] EXCEPT ![proc[p].lang] = proc[p].text]
                          ELSE heap[i]
      <4> DEFINE new == [heap[proc[p].held] EXCEPT ![proc[p].lang] = proc[p].text]
      <4>1. heap' = [heap EXCEPT ![proc[p].held] = new]
        BY <3>1
      <4>2. new \in Entries
        BY <3>4
      <4> HIDE DEF new
      <4>3. heap' \in Seq(Entries \cup {Nothing}) /\ Len(heap') = Len(heap)
        BY <3>2, <3>3, <4>1, <4>2
      <4>4. \A i \in 1 .. Len(heap) : heap'[i] = IF i = proc[p].held THEN new ELSE heap[i]
        BY <3>2, <3>3, <4>1
      <4> QED BY <4>3, <4>4 DEF new
    <3>6. /\ heap' # << >>
          /\ \A i \in 1 .. Len(heap) :
               i \in 1 .. Len(heap') /\ (heap[i] \in Entries => heap'[i] \in Entries)
      BY <3>3, <3>4, <3>5
    <3>7. DataOK'
      BY <1>1, <2>1, <2>3, <3>5, <3>6 DEF DataOK
    <3>8. /\ ShapeOK' /\ \A q \in Processes \ {p} : proc'[q] = proc[q]
          /\ proc'[p].at = "loadFaqs" /\ proc'[p].lang = proc[p].lang
          /\ proc'[p].text = proc[p].text /\ proc'[p].held = proc[p].held
          /\ proc'[p].outcome = proc[p].outcome /\ proc'[p].shown = proc[p].shown
          /\ proc'[p].form = proc[p].form /\ proc'[p].loaded = proc[p].loaded
      BY <1>1, <3>1, BecomeChanges
    <3>9. ProcessOK(p)'
      BY <1>1, <2>2, <3>8 DEF ProcessOK
    <3>10. VisitorOK(p)'
      BY <1>2, <2>1, <2>4, <3>2, <3>6, <3>8 DEF VisitorOK, Loading
    <3> QED BY <3>6, <3>7, <3>8, <3>9, <3>10, OneProcessSteps
  <2>5. CASE p \notin Visitors
    <3>1. WriteNext(p, Index(proc[p].lang)) /\ UNCHANGED heap
      BY <1>5, <2>5 DEF PurgeFiles
    <3>2. DataOK'
      BY <1>1, <2>1, <2>3, <3>1 DEF DataOK
    <3> QED BY <2>5, <3>1, <3>2, WriteNextIsSound
  <2> QED BY <2>4, <2>5
<1>6. CASE WriteForm(p)
  <2>1. UNCHANGED <<answers, file, heap, used>> /\ proc[p].at = "write" /\ WriteNext(p, 0)
    BY <1>6 DEF WriteForm, db
  <2>2. DataOK'
    BY <1>1, <2>1 DEF DataOK
  <2>3. p \notin Visitors
    BY <1>2, <2>1 DEF VisitorOK, Carrying, Loading
  <2> QED BY <2>1, <2>2, <2>3, WriteNextIsSound
<1> QED BY <1>3, <1>4, <1>5, <1>6 DEF Store

LEMMA LoadIsSound ==
  ASSUME StoreInv, NEW p \in Processes, Load(p)
  PROVE  StoreInv'
<1>1. ShapeOK /\ DataOK /\ ProcessOK(p)
  BY DEF StoreInv
<1>2. p \in Visitors => VisitorOK(p)
  BY DEF StoreInv
<1> DEFINE LoadedType == [first : BOOLEAN, late : BOOLEAN, answers : Entries]
<1>3. CASE LoadFaqs(p) \/ LoadKeywords(p) \/ LoadAnswers(p)
  <2>1. PICK next, load :
          /\ next \in {"loadKeywords", "loadAnswers", "assign"} /\ load \in LoadedType
          /\ Become(p, [at |-> next, loaded |-> load])
    <3>1. proc[p].loaded \in LoadedType
      BY <1>1 DEF ProcessOK
    <3>2. CASE LoadFaqs(p)
      <4>1. [NothingLoaded EXCEPT !.first = status = "approved"] \in LoadedType
        BY NothingIsEntry
      <4> QED BY <3>2, <4>1 DEF LoadFaqs
    <3>3. CASE LoadKeywords(p)
      <4>1. \A b \in BOOLEAN : [proc[p].loaded EXCEPT !.late = b] \in LoadedType
        BY <3>1
      <4>2. (status = "approved" /\ ~proc[p].loaded.first) \in BOOLEAN
        OBVIOUS
      <4> QED BY <3>3, <4>1, <4>2 DEF LoadKeywords
    <3>4. CASE LoadAnswers(p)
      <4>1. answers \in Entries
        BY <1>1 DEF DataOK
      <4>2. \A b \in BOOLEAN :
              [proc[p].loaded EXCEPT !.late = b, !.answers = answers] \in LoadedType
        BY <3>1, <4>1
      <4>3. PICK b \in BOOLEAN :
              Become(p, [at |-> "assign", loaded |->
                IF status # "approved" THEN proc[p].loaded
                ELSE [proc[p].loaded EXCEPT !.late = b, !.answers = answers]])
        BY <3>4 DEF LoadAnswers
      <4> QED BY <3>1, <4>2, <4>3
    <3> QED BY <1>3, <3>2, <3>3, <3>4
  <2>2. UNCHANGED <<answers, file, heap, used>> /\ proc[p].at \in Loading
    BY <1>3 DEF LoadFaqs, LoadKeywords, LoadAnswers, db, Loading
  <2>3. DataOK'
    BY <1>1, <2>2 DEF DataOK
  <2>4. /\ ShapeOK' /\ \A q \in Processes \ {p} : proc'[q] = proc[q]
        /\ proc'[p].at = next /\ proc'[p].lang = proc[p].lang
        /\ proc'[p].text = proc[p].text /\ proc'[p].held = proc[p].held
        /\ proc'[p].outcome = proc[p].outcome /\ proc'[p].shown = proc[p].shown
        /\ proc'[p].form = proc[p].form /\ proc'[p].loaded = load
    BY <1>1, <2>1, BecomeChanges
  <2>5. ProcessOK(p)'
    BY <1>1, <2>1, <2>2, <2>4 DEF ProcessOK, Carries, Carrying, Loading
  <2>6. p \in Visitors => VisitorOK(p)'
    BY <1>2, <2>1, <2>2, <2>4 DEF VisitorOK, Loading
  <2> QED BY <2>2, <2>3, <2>4, <2>5, <2>6, OneProcessStepsQuietly
<1>4. CASE Assign(p)
  <2> DEFINE found == IF proc[p].loaded.first THEN proc[p].loaded.answers ELSE Nothing
  <2>1. /\ proc[p].at = "assign" /\ UNCHANGED <<answers, file, used>>
        /\ found \in Entries \cup {Nothing}
    BY <1>1, <1>4 DEF Assign, db, ProcessOK
  <2>2. \/ End(p, "raised") /\ UNCHANGED heap
        \/ /\ p = Warmer
           /\ Become(p, [at |-> "warm", form |-> IF found = Nothing THEN NoAnswers ELSE found])
           /\ UNCHANGED heap
        \/ /\ p # Warmer /\ p \notin Visitors
           /\ heap' = Append(heap, found) /\ End(p, "saved")
        \/ /\ p \in Visitors
           /\ heap' = Append(heap, found) /\ Answered(p, proc[p].text)
    BY <1>4 DEF Assign
  <2> HIDE DEF found
  <2>3. heap' = Append(heap, found) =>
          /\ heap' \in Seq(Entries \cup {Nothing}) /\ heap' # << >>
          /\ \A i \in 1 .. Len(heap) : i \in 1 .. Len(heap') /\ heap'[i] = heap[i]
    BY <1>1, <2>1 DEF DataOK
  <2>4. DataOK'
    BY <1>1, <2>1, <2>2, <2>3 DEF DataOK
  <2>5. \A i \in 1 .. Len(heap) :
          i \in 1 .. Len(heap') /\ (heap[i] \in Entries => heap'[i] \in Entries)
    BY <2>2, <2>3
  <2>6. CASE End(p, "raised") \/ End(p, "saved")
    <3>1. /\ ShapeOK' /\ \A q \in Processes \ {p} : proc'[q] = proc[q]
          /\ proc'[p].at = "idle" /\ proc'[p].outcome \in {"raised", "saved"}
          /\ proc'[p].shown = Nothing
          /\ proc'[p].loaded = NothingLoaded /\ proc'[p].form = NoAnswers
          /\ proc'[p].lang = proc[p].lang /\ proc'[p].text = proc[p].text
      BY <1>1, <2>6, EndChanges
    <3>2. ProcessOK(p)'
      BY <1>1, <3>1, NothingIsEntry DEF ProcessOK, Carries, Carrying, Loading
    <3>3. p \in Visitors => VisitorOK(p)'
      BY <3>1 DEF VisitorOK
    <3> QED BY <2>4, <2>5, <3>1, <3>2, <3>3, OneProcessSteps
  <2>7. CASE Become(p, [at |-> "warm", form |-> IF found = Nothing THEN NoAnswers ELSE found])
             /\ p = Warmer
    <3>1. /\ ShapeOK' /\ \A q \in Processes \ {p} : proc'[q] = proc[q]
          /\ proc'[p].at = "warm" /\ proc'[p].lang = proc[p].lang
          /\ proc'[p].text = proc[p].text /\ proc'[p].loaded = proc[p].loaded
          /\ proc'[p].form = IF found = Nothing THEN NoAnswers ELSE found
      BY <1>1, <2>7, BecomeChanges
    <3>2. ProcessOK(p)'
      BY <1>1, <2>1, <3>1, NothingIsEntry DEF ProcessOK, Carries, Carrying, Loading
    <3>3. p \notin Visitors
      BY <2>7, Kinds
    <3> QED BY <2>4, <2>5, <3>1, <3>2, <3>3, OneProcessSteps
  <2>8. CASE Answered(p, proc[p].text) /\ p \in Visitors
    <3>1. proc[p].text \in Texts
      BY <1>1, <2>1, <2>8 DEF ProcessOK, Carries, Loading
    <3> QED BY <2>1, <2>4, <2>5, <2>8, <3>1, AnsweredIsSound
  <2> QED BY <2>2, <2>6, <2>7, <2>8
<1> QED BY <1>3, <1>4 DEF Load

\* A voice that is sent is in the language of the text.
LEMMA SpeakIsSound ==
  ASSUME StoreInv, DataOK', UNCHANGED heap, NEW p \in Processes, NEW spoken, Speak(p, spoken),
         p \in Visitors => spoken.lang = proc[p].text.lang
  PROVE  StoreInv'
<1>1. ShapeOK /\ ProcessOK(p)
  BY DEF StoreInv
<1>2. CASE p = Warmer
  <2>1. /\ ShapeOK' /\ \A q \in Processes \ {p} : proc'[q] = proc[q]
        /\ proc'[p].lang = proc[p].lang /\ proc'[p].text = proc[p].text
        /\ proc'[p].at = "warm"
        /\ proc'[p].loaded = proc[p].loaded /\ proc'[p].form = proc[p].form
    BY <1>1, <1>2, SpeakChanges
  <2>2. ProcessOK(p)'
    BY <1>1, <2>1 DEF ProcessOK, Carries, Carrying, Loading
  <2> QED BY <1>2, <2>1, <2>2, Kinds, OneProcessStepsQuietly
<1>3. CASE p # Warmer
  <2>1. /\ ShapeOK' /\ \A q \in Processes \ {p} : proc'[q] = proc[q]
        /\ proc'[p].lang = proc[p].lang /\ proc'[p].text = proc[p].text
        /\ proc'[p].at = "idle" /\ proc'[p].heard = spoken /\ proc'[p].outcome = "spoken"
        /\ proc'[p].shown = Nothing
        /\ proc'[p].loaded = NothingLoaded /\ proc'[p].form = NoAnswers
    BY <1>1, <1>3, SpeakChanges
  <2>2. ProcessOK(p)'
    BY <1>1, <2>1, NothingIsEntry DEF ProcessOK, Carries, Carrying, Loading
  <2>3. p \in Visitors => VisitorOK(p)'
    BY <2>1 DEF VisitorOK
  <2> QED BY <2>1, <2>2, <2>3, OneProcessStepsQuietly
<1> QED BY <1>2, <1>3

LEMMA VoiceIsSound ==
  ASSUME StoreInv, NEW p \in Processes, Voice(p)
  PROVE  StoreInv'
<1>1. ShapeOK /\ DataOK /\ ProcessOK(p)
  BY DEF StoreInv
<1>2. p \in Visitors => VisitorOK(p)
  BY DEF StoreInv
<1>3. /\ proc[p].at \in {"lookup", "readFile", "synthesize", "saveRow"}
      /\ UNCHANGED <<answers, heap, used>>
  BY DEF Voice, LookupRow, ReadFile, SynthesizeAnswers, SaveRow, db
<1>4. proc[p].text \in Texts /\ proc[p].text.lang = proc[p].lang /\ proc[p].lang \in Langs
  BY <1>1, <1>3 DEF ProcessOK, Carries, Carrying
<1>5. file' = file \/ file' = [file EXCEPT ![proc[p].lang] = proc[p].text]
  BY DEF Voice, LookupRow, ReadFile, SynthesizeAnswers, SaveRow
<1>6. DataOK'
  BY <1>1, <1>3, <1>4, <1>5 DEF DataOK, Entries
<1>7. ASSUME NEW next, next \in {"readFile", "synthesize", "saveRow"},
             \/ Become(p, [at |-> next])
             \/ Become(p, [at |-> next, seen |-> row[proc[p].lang]])
      PROVE  StoreInv'
  <2>1. /\ ShapeOK' /\ \A q \in Processes \ {p} : proc'[q] = proc[q]
        /\ proc'[p].at = next /\ proc'[p].lang = proc[p].lang
        /\ proc'[p].text = proc[p].text /\ proc'[p].held = proc[p].held
        /\ proc'[p].outcome = proc[p].outcome /\ proc'[p].shown = proc[p].shown
        /\ proc'[p].form = proc[p].form /\ proc'[p].loaded = proc[p].loaded
    BY <1>1, <1>7, BecomeChanges
  <2>2. ProcessOK(p)'
    BY <1>1, <1>4, <1>7, <2>1 DEF ProcessOK
  <2>3. p \in Visitors => VisitorOK(p)'
    BY <1>2, <1>3, <1>7, <2>1 DEF VisitorOK, Carrying
  <2> QED BY <1>3, <1>6, <2>1, <2>2, <2>3, OneProcessStepsQuietly
<1>8. CASE LookupRow(p)
  BY <1>7, <1>8 DEF LookupRow
<1>9. CASE ReadFile(p)
  <2>1. file[proc[p].lang] # Nothing => file[proc[p].lang].lang = proc[p].text.lang
    BY <1>1, <1>4 DEF DataOK, Entries
  <2>2. CASE Speak(p, file[proc[p].lang]) /\ file[proc[p].lang] # Nothing
    BY <1>3, <1>6, <2>1, <2>2, SpeakIsSound
  <2>3. CASE Become(p, [at |-> "synthesize"])
    BY <1>7, <2>3
  <2> QED BY <1>9, <2>2, <2>3 DEF ReadFile
<1>10. CASE SynthesizeAnswers(p)
  <2>1. CASE End(p, "voiceless")
    <3>1. /\ ShapeOK' /\ \A q \in Processes \ {p} : proc'[q] = proc[q]
          /\ proc'[p].at = "idle" /\ proc'[p].outcome = "voiceless" /\ proc'[p].shown = Nothing
          /\ proc'[p].loaded = NothingLoaded /\ proc'[p].form = NoAnswers
          /\ proc'[p].lang = proc[p].lang /\ proc'[p].text = proc[p].text
      BY <1>1, <2>1, EndChanges
    <3>2. ProcessOK(p)'
      BY <1>1, <3>1, NothingIsEntry DEF ProcessOK, Carries, Carrying, Loading
    <3>3. p \in Visitors => VisitorOK(p)'
      BY <3>1 DEF VisitorOK
    <3> QED BY <1>3, <1>6, <3>1, <3>2, <3>3, OneProcessStepsQuietly
  <2>2. CASE Become(p, [at |-> "saveRow"])
    BY <1>7, <2>2
  <2> QED BY <1>10, <2>1, <2>2 DEF SynthesizeAnswers
<1>11. CASE SaveRow(p)
  BY <1>3, <1>6, <1>11, SpeakIsSound DEF SaveRow
<1> QED BY <1>8, <1>9, <1>10, <1>11 DEF Voice

LEMMA EditorIsSound ==
  ASSUME StoreInv, NEW e \in Editors,
         OpenForm(e) \/ \E l \in Langs, s \in Statuses : SubmitForm(e, l, s)
  PROVE  StoreInv'
<1>1. ShapeOK /\ DataOK /\ ProcessOK(e) /\ e \in Processes /\ e \notin Visitors
  BY Kinds DEF StoreInv
<1>2. PICK next, form : /\ next \in {"form", "write"} /\ form \in Entries
                        /\ \/ Become(e, [at |-> next, form |-> form])
                           \/ Become(e, [at |-> next, form |-> form, outcome |-> "none"])
  <2>1. CASE OpenForm(e)
    BY <1>1, <2>1 DEF OpenForm, DataOK
  <2>2. ASSUME NEW l \in Langs, NEW s \in Statuses, SubmitForm(e, l, s)
        PROVE  /\ [proc[e].form EXCEPT ![l] = Typed(l, used.edits + 1)] \in Entries
               /\ Become(e, [at |-> "write",
                             form |-> [proc[e].form EXCEPT ![l] = Typed(l, used.edits + 1)]])
    <3>1. used.edits \in Nat /\ MaxEdits \in Nat /\ used.edits < MaxEdits
      BY <1>1, <2>2, StoreAssumption DEF DataOK, Counters, SubmitForm, Count
    <3>2. /\ Typed(l, used.edits + 1) \in Texts /\ Typed(l, used.edits + 1).lang = l
          /\ proc[e].form \in Entries
      BY <1>1, <3>1 DEF Typed, Texts, ProcessOK
    <3> QED BY <2>2, <3>2 DEF SubmitForm, Entries
  <2> QED BY <2>1, <2>2
<1>3. UNCHANGED <<answers, file, heap>> /\ used' \in [Counters -> Nat]
  <2>1. CASE OpenForm(e)
    BY <1>1, <2>1 DEF OpenForm, db, DataOK
  <2>2. CASE \E l \in Langs, s \in Statuses : SubmitForm(e, l, s)
    <3>1. UNCHANGED <<answers, file, heap>> /\ Count("edits", MaxEdits)
      BY <2>2 DEF SubmitForm
    <3> QED BY <1>1, <3>1 DEF Count, DataOK, Counters
  <2> QED BY <2>1, <2>2
<1>4. DataOK'
  BY <1>1, <1>3 DEF DataOK
<1>5. /\ ShapeOK' /\ \A q \in Processes \ {e} : proc'[q] = proc[q]
      /\ proc'[e].at = next /\ proc'[e].lang = proc[e].lang
      /\ proc'[e].text = proc[e].text /\ proc'[e].loaded = proc[e].loaded
      /\ proc'[e].form = form
  BY <1>1, <1>2, BecomeChanges
<1>6. ProcessOK(e)'
  BY <1>1, <1>2, <1>5 DEF ProcessOK, Carries, Carrying
<1> QED BY <1>1, <1>3, <1>4, <1>5, <1>6, OneProcessStepsQuietly

\* The seed, the migration and the warmer, but for what they share with others.
LEMMA ScriptIsSound ==
  ASSUME StoreInv, StartSeed \/ StartMigration \/ MigrateAnswer \/ StartWarmer \/ WarmNext \/ WarmCheck
  PROVE  StoreInv'
<1>1. ShapeOK /\ DataOK
  BY DEF StoreInv
<1>2. ASSUME NEW s \in Scripts
      PROVE  s \in Processes /\ s \notin Visitors /\ ProcessOK(s)
  BY <1>2, Kinds DEF StoreInv
<1>3. ASSUME Count("runs", MaxRuns) PROVE used' \in [Counters -> Nat]
  BY <1>1, <1>3 DEF Count, DataOK, Counters
<1>4. ASSUME NEW n \in {-1, 0}, NEW l \in Langs PROVE Typed(l, n) \in Texts /\ Typed(l, n).lang = l
  BY <1>4, StoreAssumption DEF Typed, Texts
<1>5. ASSUME NEW n \in {-1, 0} PROVE [l \in Langs |-> Typed(l, n)] \in Entries
  BY <1>4 DEF Entries
<1>6. CASE StartSeed
  <2>1. /\ Seed \in Scripts /\ UNCHANGED <<answers, file, heap>>
        /\ Become(Seed, [at |-> "write", outcome |-> "none",
                         form |-> [l \in Langs |-> Placeholder(l)]])
    BY <1>6 DEF StartSeed
  <2>2. [l \in Langs |-> Placeholder(l)] \in Entries
    BY <1>5 DEF Placeholder
  <2>3. DataOK'
    BY <1>1, <1>3, <1>6, <2>1 DEF DataOK, StartSeed
  <2>4. /\ ShapeOK' /\ \A q \in Processes \ {Seed} : proc'[q] = proc[q]
        /\ proc'[Seed].at = "write" /\ proc'[Seed].lang = proc[Seed].lang
        /\ proc'[Seed].text = proc[Seed].text /\ proc'[Seed].loaded = proc[Seed].loaded
        /\ proc'[Seed].form = [l \in Langs |-> Placeholder(l)]
    BY <1>1, <1>2, <2>1, BecomeChanges
  <2>5. ProcessOK(Seed)'
    BY <1>2, <2>1, <2>2, <2>4 DEF ProcessOK, Carries, Carrying
  <2> QED BY <1>2, <2>1, <2>3, <2>4, <2>5, OneProcessStepsQuietly
<1>7. CASE StartMigration
  <2> DEFINE script == [l \in Langs |-> Typed(l, 0)]
             first == LangOrder[1]
  <2>1. /\ Migration \in Scripts /\ UNCHANGED <<answers, file, heap>>
        /\ Become(Migration, [at |-> "migrate", form |-> script, lang |-> first,
                              text |-> script[first], outcome |-> "none"])
    BY <1>7 DEF StartMigration
  <2>2. first \in Langs
    BY StoreAssumption
  <2>3. script \in Entries /\ script[first] \in Texts /\ script[first].lang = first
    BY <1>4, <1>5, <2>2
  <2> HIDE DEF script, first
  <2>4. DataOK'
    BY <1>1, <1>3, <1>7, <2>1 DEF DataOK, StartMigration
  <2>5. /\ ShapeOK' /\ \A q \in Processes \ {Migration} : proc'[q] = proc[q]
        /\ proc'[Migration].at = "migrate" /\ proc'[Migration].lang = first
        /\ proc'[Migration].text = script[first] /\ proc'[Migration].form = script
        /\ proc'[Migration].loaded = proc[Migration].loaded
    BY <1>1, <1>2, <2>1, BecomeChanges
  <2>6. ProcessOK(Migration)'
    BY <1>2, <2>1, <2>2, <2>3, <2>5 DEF ProcessOK
  <2> QED BY <1>2, <2>1, <2>4, <2>5, <2>6, OneProcessStepsQuietly
<1>8. CASE MigrateAnswer
  <2>1. /\ Migration \in Scripts /\ UNCHANGED <<file, heap, used>>
        /\ answers' = [answers EXCEPT ![proc[Migration].lang] = proc[Migration].text]
        /\ proc[Migration].at = "migrate"
        /\ GoThrough(Migration, Index(proc[Migration].lang), "migrate", Ended("saved"))
    BY <1>8 DEF MigrateAnswer
  <2>2. /\ proc[Migration].text \in Texts /\ proc[Migration].text.lang = proc[Migration].lang
    BY <1>2, <2>1 DEF ProcessOK, Carries, Carrying
  <2>3. DataOK'
    BY <1>1, <2>1, <2>2 DEF DataOK, Entries
  <2>4. "migrate" \in Carrying
    BY DEF Carrying
  <2> QED BY <1>2, <2>1, <2>3, <2>4, GoThroughIsSound
<1>9. CASE StartWarmer
  <2>1. /\ Warmer \in Scripts /\ UNCHANGED <<answers, file, heap>>
        /\ Become(Warmer, [at |-> "loadFaqs", outcome |-> "none"])
    BY <1>9 DEF StartWarmer, db
  <2>2. DataOK'
    BY <1>1, <1>3, <1>9, <2>1 DEF DataOK, StartWarmer
  <2>3. /\ ShapeOK' /\ \A q \in Processes \ {Warmer} : proc'[q] = proc[q]
        /\ proc'[Warmer].at = "loadFaqs" /\ proc'[Warmer].lang = proc[Warmer].lang
        /\ proc'[Warmer].text = proc[Warmer].text /\ proc'[Warmer].form = proc[Warmer].form
        /\ proc'[Warmer].loaded = proc[Warmer].loaded
    BY <1>1, <1>2, <2>1, BecomeChanges
  <2>4. ProcessOK(Warmer)'
    BY <1>2, <2>1, <2>3 DEF ProcessOK, Carries, Carrying
  <2> QED BY <1>2, <2>1, <2>2, <2>3, <2>4, OneProcessStepsQuietly
<1>10. CASE WarmNext
  <2>1. Warmer \in Scripts /\ UNCHANGED <<answers, file, heap, used>>
    BY <1>10 DEF WarmNext, db
  <2>2. DataOK'
    BY <1>1, <2>1 DEF DataOK
  <2>3. CASE End(Warmer, "warmed")
    <3>1. /\ ShapeOK' /\ \A q \in Processes \ {Warmer} : proc'[q] = proc[q]
          /\ proc'[Warmer].at = "idle"
          /\ proc'[Warmer].loaded = NothingLoaded /\ proc'[Warmer].form = NoAnswers
          /\ proc'[Warmer].lang = proc[Warmer].lang /\ proc'[Warmer].text = proc[Warmer].text
      BY <1>1, <1>2, <2>1, <2>3, EndChanges
    <3>2. ProcessOK(Warmer)'
      BY <1>2, <2>1, <3>1, NothingIsEntry DEF ProcessOK, Carries, Carrying
    <3> QED BY <1>2, <2>1, <2>2, <3>1, <3>2, OneProcessStepsQuietly
  <2>4. ASSUME NEW l \in Authored(proc[Warmer].form),
               Become(Warmer, [at |-> "warmCheck", lang |-> l, text |-> proc[Warmer].form[l],
                               form |-> [proc[Warmer].form EXCEPT ![l] = Nothing]])
        PROVE  StoreInv'
    <3>1. l \in Langs /\ proc[Warmer].form[l] \in Texts /\ proc[Warmer].form[l].lang = l
      BY <1>2, <2>1 DEF Authored, ProcessOK, Entries
    <3>2. [proc[Warmer].form EXCEPT ![l] = Nothing] \in Entries
      BY <1>2, <2>1 DEF ProcessOK, Entries
    <3>3. /\ ShapeOK' /\ \A q \in Processes \ {Warmer} : proc'[q] = proc[q]
          /\ proc'[Warmer].at = "warmCheck" /\ proc'[Warmer].lang = l
          /\ proc'[Warmer].text = proc[Warmer].form[l]
          /\ proc'[Warmer].form = [proc[Warmer].form EXCEPT ![l] = Nothing]
          /\ proc'[Warmer].loaded = proc[Warmer].loaded
      BY <1>1, <1>2, <2>1, <2>4, BecomeChanges
    <3>4. ProcessOK(Warmer)'
      BY <1>2, <2>1, <3>1, <3>2, <3>3 DEF ProcessOK
    <3> QED BY <1>2, <2>1, <2>2, <3>3, <3>4, OneProcessStepsQuietly
  <2> QED BY <1>10, <2>3, <2>4 DEF WarmNext
<1>11. CASE WarmCheck
  <2>1. /\ Warmer \in Scripts /\ UNCHANGED <<answers, file, heap, used>>
        /\ proc[Warmer].at = "warmCheck"
    BY <1>11 DEF WarmCheck, db
  <2>2. DataOK'
    BY <1>1, <2>1 DEF DataOK
  <2>3. PICK next : next \in {"warm", "lookup"} /\ Become(Warmer, [at |-> next])
    BY <1>11 DEF WarmCheck
  <2>4. /\ ShapeOK' /\ \A q \in Processes \ {Warmer} : proc'[q] = proc[q]
        /\ proc'[Warmer].at = next /\ proc'[Warmer].lang = proc[Warmer].lang
        /\ proc'[Warmer].text = proc[Warmer].text /\ proc'[Warmer].form = proc[Warmer].form
        /\ proc'[Warmer].loaded = proc[Warmer].loaded
    BY <1>1, <1>2, <2>1, <2>3, BecomeChanges
  <2>5. ProcessOK(Warmer)'
    BY <1>2, <2>1, <2>3, <2>4 DEF ProcessOK, Carries, Carrying
  <2> QED BY <1>2, <2>1, <2>2, <2>4, <2>5, OneProcessStepsQuietly
<1> QED BY <1>6, <1>7, <1>8, <1>9, <1>10, <1>11

LEMMA FailureIsSound ==
  ASSUME StoreInv, NEW p \in Processes, AwaitRaises(p)
  PROVE  StoreInv'
<1>1. ShapeOK /\ DataOK /\ ProcessOK(p)
  BY DEF StoreInv
<1>2. UNCHANGED <<answers, file, heap>> /\ used' \in [Counters -> Nat] /\ End(p, "raised")
  BY <1>1 DEF AwaitRaises, db, Count, DataOK, Counters
<1>3. DataOK'
  BY <1>1, <1>2 DEF DataOK
<1>4. /\ ShapeOK' /\ \A q \in Processes \ {p} : proc'[q] = proc[q]
      /\ proc'[p].at = "idle" /\ proc'[p].outcome = "raised" /\ proc'[p].shown = Nothing
      /\ proc'[p].loaded = NothingLoaded /\ proc'[p].form = NoAnswers
      /\ proc'[p].lang = proc[p].lang /\ proc'[p].text = proc[p].text
  BY <1>1, <1>2, EndChanges
<1>5. ProcessOK(p)'
  BY <1>1, <1>4, NothingIsEntry DEF ProcessOK, Carries, Carrying, Loading
<1>6. p \in Visitors => VisitorOK(p)'
  BY <1>4 DEF VisitorOK
<1> QED BY <1>2, <1>3, <1>4, <1>5, <1>6, OneProcessStepsQuietly

LEMMA RestartChanges ==
  ASSUME ShapeOK, Restart
  PROVE  /\ ShapeOK'
         /\ \A p \in Processes :
              /\ proc'[p].lang = proc[p].lang /\ proc'[p].text = proc[p].text
              /\ proc'[p].form = proc[p].form /\ proc'[p].loaded = proc[p].loaded
              /\ proc'[p].heard = proc[p].heard /\ proc'[p].shown = proc[p].shown
              /\ proc'[p].at = IF p \in Scripts \/ proc[p].at = "form" THEN proc[p].at ELSE "idle"
              /\ p \notin Scripts =>
                   proc'[p].outcome = IF proc[p].at \in {"idle", "form"} THEN proc[p].outcome
                                      ELSE "lost"
<1>1. proc' = [p \in Processes |->
        IF p \in Scripts THEN proc[p]
        ELSE IF proc[p].at \in {"idle", "form"} THEN With(proc[p], [held |-> 1])
        ELSE With(proc[p], [held |-> 1, at |-> "idle", outcome |-> "lost"])]
  BY DEF Restart
<1>2. ASSUME NEW p \in Processes, NEW c, proc'[p] = With(proc[p], c)
      PROVE  /\ DOMAIN proc'[p] = Fields
             /\ \A f \in Fields : proc'[p][f] = IF f \in DOMAIN c THEN c[f] ELSE proc[p][f]
  BY <1>2 DEF ShapeOK, With
<1>3. ASSUME NEW p \in Processes, p \notin Scripts, proc[p].at \in {"idle", "form"}
      PROVE  /\ DOMAIN proc'[p] = Fields
             /\ \A f \in Fields : proc'[p][f] = IF f = "held" THEN 1 ELSE proc[p][f]
  <2>1. proc'[p] = With(proc[p], [held |-> 1])
    BY <1>1, <1>3
  <2> QED BY <1>2, <2>1
<1>4. ASSUME NEW p \in Processes, p \notin Scripts, proc[p].at \notin {"idle", "form"}
      PROVE  /\ DOMAIN proc'[p] = Fields
             /\ \A f \in Fields : proc'[p][f] = IF f = "held" THEN 1
                                                ELSE IF f = "at" THEN "idle"
                                                ELSE IF f = "outcome" THEN "lost"
                                                ELSE proc[p][f]
  <2>1. proc'[p] = With(proc[p], [held |-> 1, at |-> "idle", outcome |-> "lost"])
    BY <1>1, <1>4
  <2> QED BY <1>2, <2>1
<1>5. ASSUME NEW p \in Processes, p \in Scripts
      PROVE  proc'[p] = proc[p] /\ DOMAIN proc'[p] = Fields
  BY <1>1, <1>5 DEF ShapeOK
<1>6. ShapeOK'
  BY <1>1, <1>3, <1>4, <1>5 DEF ShapeOK
<1> QED BY <1>3, <1>4, <1>5, <1>6 DEF Fields

LEMMA RestartIsSound ==
  ASSUME StoreInv, Restart
  PROVE  StoreInv'
<1>1. ShapeOK /\ DataOK
  BY DEF StoreInv
<1>2. UNCHANGED <<answers, status, file>> /\ used' \in [Counters -> Nat] /\ heap' = <<Loaded>>
  BY <1>1 DEF Restart, db, Count, DataOK, Counters
<1>3. DataOK'
  BY <1>1, <1>2 DEF DataOK, Loaded
<1>4. ASSUME NEW p \in Processes PROVE ProcessOK(p)'
  <2>1. ProcessOK(p)
    BY DEF StoreInv
  <2> QED BY <1>1, <2>1, RestartChanges DEF ProcessOK, Carries, Carrying, Loading
<1>5. ASSUME NEW v \in Visitors PROVE VisitorOK(v)'
  <2>1. VisitorOK(v) /\ v \in Processes /\ v \notin Scripts
    BY Kinds DEF StoreInv
  <2> QED BY <1>1, <2>1, RestartChanges DEF VisitorOK, Carrying, Loading
<1> QED BY <1>1, <1>3, <1>4, <1>5, RestartChanges DEF StoreInv

LEMMA StepIsSound == StoreInv /\ [Next]_vars => StoreInv'
<1> SUFFICES ASSUME StoreInv, [Next]_vars PROVE StoreInv'
  OBVIOUS
<1>1. CASE \E v \in Visitors : Visit(v) \/ \E l \in Langs, o \in Operators : Match(v, l, o)
  BY <1>1, Kinds, MatchIsSound, ShowIsSound, TranslateIsSound, StoreIsSound, LoadIsSound,
     VoiceIsSound DEF Visit
<1>2. CASE \E e \in Editors :
             Edit(e) \/ OpenForm(e) \/ \E l \in Langs, s \in Statuses : SubmitForm(e, l, s)
  BY <1>2, Kinds, EditorIsSound, StoreIsSound, LoadIsSound DEF Edit
<1>3. CASE SeedWork
  BY <1>3, Kinds, StoreIsSound DEF SeedWork
<1>4. CASE WarmerWork
  BY <1>4, Kinds, ScriptIsSound, LoadIsSound, VoiceIsSound DEF WarmerWork
<1>5. CASE StartSeed \/ StartMigration \/ MigrateAnswer \/ StartWarmer
  BY <1>5, ScriptIsSound
<1>6. CASE Restart
  BY <1>6, RestartIsSound
<1>7. CASE \E p \in Processes : AwaitRaises(p)
  BY <1>7, FailureIsSound
<1>8. CASE UNCHANGED vars
  BY <1>8 DEF vars, db, StoreInv, ShapeOK, DataOK, ProcessOK, Carries, VisitorOK
<1> QED BY <1>1, <1>2, <1>3, <1>4, <1>5, <1>6, <1>7, <1>8 DEF Next

LEMMA StoreAlwaysSound == Spec => []StoreInv
BY InitIsSound, StepIsSound, PTL DEF Spec

\* Whatever pipelines, edits, scripts, failures and restarts do in whatever
\* order, every file is a voice of its own language and every voice a pilgrim is
\* sent is in the language of the text they are shown.
THEOREM VoicesKeepTheirLanguage == Spec => []VoiceInItsLanguage
<1>1. StoreInv => VoiceInItsLanguage
  BY DEF StoreInv, DataOK, Entries, VisitorOK, VoiceInItsLanguage
<1> QED BY <1>1, StoreAlwaysSound, PTL

-----------------------------------------------------------------------------
(* Placeholders, while nobody edits.                                       *)

Real(entry) == \A l \in Langs : entry[l] # Nothing => entry[l].rev >= 0

RealProcess(p) ==
  /\ Real(proc[p].loaded.answers)
  /\ proc[p].shown # Nothing => proc[p].shown.rev >= 0
  /\ p # Seed => Real(proc[p].form) /\ (proc[p].text # Nothing => proc[p].text.rev >= 0)

\* Only the seed writes placeholders, and before the first it has made the entry
\* a draft, which nothing but an edit undoes; no load returns a draft.
PlaceholderInv ==
  /\ status # "draft" => Real(answers)
  /\ Seed \in Scripts /\ proc[Seed].at # "idle" => status = "draft"
  /\ \A i \in 1 .. Len(heap) : heap[i] # Nothing => Real(heap[i])
  /\ \A p \in Processes : RealProcess(p)

LEMMA RealInit == Init => PlaceholderInv
<1> SUFFICES ASSUME Init PROVE PlaceholderInv
  OBVIOUS
<1>1. Real(answers)
  BY DEF Init, Real, Typed
<1>2. \A i \in 1 .. Len(heap) : heap[i] # Nothing => Real(heap[i])
  BY <1>1 DEF Init, Loaded
<1>3. ASSUME NEW p \in Processes
      PROVE  proc[p].at = "idle" /\ RealProcess(p)
  <2>1. /\ proc[p].at = "idle" /\ proc[p].text = Nothing /\ proc[p].shown = Nothing
        /\ proc[p].form = NoAnswers /\ proc[p].loaded = NothingLoaded
    BY DEF Init
  <2> QED BY <2>1 DEF RealProcess, Real, NothingLoaded, NoAnswers
<1> QED BY <1>1, <1>2, <1>3, Kinds DEF PlaceholderInv

LEMMA NothingIsReal == Real(NoAnswers) /\ Real(NothingLoaded.answers)
BY DEF Real, NoAnswers, NothingLoaded

\* A step of one process that leaves the status alone.
LEMMA OneProcessStaysReal ==
  ASSUME PlaceholderInv, NEW p \in Processes, UNCHANGED status,
         \A q \in Processes \ {p} : proc'[q] = proc[q],
         p = Seed => proc'[p].at = "idle" \/ proc[p].at # "idle",
         status # "draft" => Real(answers'),
         \A i \in 1 .. Len(heap') : heap'[i] # Nothing => Real(heap'[i]),
         RealProcess(p)'
  PROVE  PlaceholderInv'
<1>1. ASSUME NEW q \in Processes PROVE RealProcess(q)'
  BY <1>1 DEF PlaceholderInv, RealProcess
<1>2. Seed \in Scripts /\ proc'[Seed].at # "idle" => status' = "draft"
  BY Kinds DEF PlaceholderInv
<1> QED BY <1>1, <1>2 DEF PlaceholderInv

\* An answer that has come is real, and so is the one that was shown before.
LEMMA RealAnswered ==
  ASSUME ShapeOK, NEW v \in Visitors, RealProcess(v), NEW t, t.rev >= 0, Answered(v, t)
  PROVE  /\ \A q \in Processes \ {v} : proc'[q] = proc[q]
         /\ RealProcess(v)'
<1>1. v \in Processes
  BY Kinds
<1>2. CASE proc[v].shown = Nothing
  <2>1. Become(v, [at |-> "show", lang |-> t.lang, text |-> t])
    BY <1>2 DEF Answered
  <2> QED BY <1>1, <2>1, BecomeChanges DEF RealProcess
<1>3. CASE proc[v].shown # Nothing
  <2>1. Become(v, [at |-> "lookup", lang |-> proc[v].shown.lang, text |-> proc[v].shown,
                   shown |-> Nothing, operator |-> Nothing])
    BY <1>3 DEF Answered
  <2> QED BY <1>1, <1>3, <2>1, BecomeChanges DEF RealProcess
<1> QED BY <1>2, <1>3

LEMMA RealVisit ==
  ASSUME StoreInv, PlaceholderInv, NEW v \in Visitors,
         TranslateAnswers(v) \/ Show(v) \/ \E l \in Langs, o \in Operators : Match(v, l, o)
  PROVE  PlaceholderInv'
<1>1. /\ ShapeOK /\ DataOK /\ ProcessOK(v) /\ VisitorOK(v) /\ v \in Processes /\ v # Seed
      /\ RealProcess(v)
  BY Kinds DEF StoreInv, PlaceholderInv
<1>2. UNCHANGED <<status, answers, heap>>
  BY DEF TranslateAnswers, Show, Match, db
<1>3. ASSUME \A q \in Processes \ {v} : proc'[q] = proc[q], RealProcess(v)'
      PROVE  PlaceholderInv'
  BY <1>1, <1>2, <1>3, OneProcessStaysReal DEF PlaceholderInv
<1>4. ASSUME NEW l \in Langs, NEW o \in Operators, Match(v, l, o) PROVE PlaceholderInv'
  <2>1. Current \in Entries /\ Len(heap) \in 1 .. Len(heap) /\ Current = heap[Len(heap)]
    BY <1>1, <1>4, CurrentIsEntry DEF Match
  <2>2. Current # Nothing /\ Real(Current)
    BY <1>4, <2>1 DEF Match, PlaceholderInv
  <2>3. PICK where, s, how :
          /\ Become(v, [at |-> where, held |-> Len(heap), lang |-> l, outcome |-> how,
                        text |-> IF s = Nothing THEN Nothing ELSE Current[s],
                        operator |-> IF o = l THEN Nothing ELSE o, shown |-> Nothing])
          /\ s \in Langs \cup {Nothing}
    BY <1>4, SourcesAreAuthored DEF Match
  <2>4. /\ \A q \in Processes \ {v} : proc'[q] = proc[q]
        /\ proc'[v].form = proc[v].form /\ proc'[v].loaded = proc[v].loaded
        /\ proc'[v].text = IF s = Nothing THEN Nothing ELSE Current[s]
        /\ proc'[v].shown = Nothing
    BY <1>1, <2>3, BecomeChanges
  <2>5. RealProcess(v)'
    BY <1>1, <2>2, <2>3, <2>4 DEF Real, RealProcess
  <2> QED BY <1>3, <2>4, <2>5
<1>5. CASE Show(v)
  <2> DEFINE entry == heap[proc[v].held]
  <2>1. /\ proc[v].text \in Texts /\ proc[v].text.rev >= 0
        /\ entry \in Entries /\ entry # Nothing
    BY <1>1, <1>5, StoreAssumption, NothingIsNoEntry
       DEF Show, VisitorOK, ProcessOK, Carries, Carrying, RealProcess
  <2>2. Real(entry)
    BY <1>1, <1>5, <2>1 DEF Show, VisitorOK, PlaceholderInv
  <2>3. CASE Become(v, [at |-> "lookup", operator |-> Nothing])
    BY <1>1, <1>3, <2>3, BecomeChanges DEF RealProcess
  <2>4. ASSUME NEW s \in Sources(entry),
               Become(v, [at |-> "translate", lang |-> proc[v].operator, text |-> entry[s],
                          shown |-> proc[v].text])
        PROVE  PlaceholderInv'
    <3>1. entry[s].rev >= 0
      BY <2>2, <2>4, SourcesAreAuthored DEF Real
    <3>2. /\ \A q \in Processes \ {v} : proc'[q] = proc[q]
          /\ proc'[v].form = proc[v].form /\ proc'[v].loaded = proc[v].loaded
          /\ proc'[v].text = entry[s] /\ proc'[v].shown = proc[v].text
      BY <1>1, <2>4, BecomeChanges
    <3>3. RealProcess(v)'
      BY <1>1, <2>1, <3>1, <3>2 DEF RealProcess
    <3> QED BY <1>3, <3>2, <3>3
  <2> QED BY <1>5, <2>3, <2>4 DEF Show
<1>6. CASE TranslateAnswers(v)
  <2>1. proc[v].text \in Texts /\ proc[v].text.rev >= 0
    BY <1>1, <1>6, StoreAssumption DEF TranslateAnswers, ProcessOK, RealProcess
  <2>2. CASE Answered(v, proc[v].text)
    BY <1>1, <1>3, <2>1, <2>2, RealAnswered
  <2>3. ASSUME NEW m, Become(v, [at |-> "upsert", text |-> Machine(proc[v].lang, proc[v].text, m)])
        PROVE  PlaceholderInv'
    <3>1. /\ \A q \in Processes \ {v} : proc'[q] = proc[q]
          /\ proc'[v].form = proc[v].form /\ proc'[v].loaded = proc[v].loaded
          /\ proc'[v].text = Machine(proc[v].lang, proc[v].text, m)
          /\ proc'[v].shown = proc[v].shown
      BY <1>1, <2>3, BecomeChanges
    <3>2. proc'[v].text.rev = proc[v].text.rev
      BY <3>1 DEF Machine
    <3>3. RealProcess(v)'
      BY <1>1, <2>1, <3>1, <3>2 DEF RealProcess
    <3> QED BY <1>3, <3>1, <3>3
  <2> QED BY <1>6, <2>2, <2>3 DEF TranslateAnswers, Translated
<1> QED BY <1>4, <1>5, <1>6

\* Going through a form takes its texts or drops it.
LEMMA RealGoThrough ==
  ASSUME StoreInv, PlaceholderInv, NEW p \in Processes, UNCHANGED <<status, heap>>,
         status # "draft" => Real(answers'),
         proc[p].at # "idle", NEW after, NEW step, NEW how,
         \/ GoThrough(p, after, step, Ended(how))
         \/ GoThrough(p, after, step, [at |-> "loadFaqs"])
  PROVE  PlaceholderInv'
<1> DEFINE rest == Remaining(p, after)
           l == LangOrder[CHOOSE i \in rest : \A j \in rest : i <= j]
<1>1. ShapeOK /\ ProcessOK(p) /\ RealProcess(p)
  BY DEF StoreInv, PlaceholderInv
<1>2. CASE rest = {}
  <2>1. End(p, how) \/ Become(p, [at |-> "loadFaqs"])
    BY <1>2 DEF GoThrough, End
  <2>2. CASE End(p, how)
    <3>1. /\ ShapeOK' /\ \A q \in Processes \ {p} : proc'[q] = proc[q]
          /\ proc'[p].loaded = NothingLoaded /\ proc'[p].form = NoAnswers
          /\ proc'[p].text = proc[p].text /\ proc'[p].shown \in {proc[p].shown, Nothing}
      BY <1>1, <2>2, EndChanges
    <3>2. RealProcess(p)'
      BY <1>1, <3>1, NothingIsReal DEF RealProcess
    <3> QED BY <3>1, <3>2, OneProcessStaysReal DEF PlaceholderInv
  <2>3. CASE Become(p, [at |-> "loadFaqs"])
    <3>1. /\ ShapeOK' /\ \A q \in Processes \ {p} : proc'[q] = proc[q]
          /\ proc'[p].loaded = proc[p].loaded /\ proc'[p].form = proc[p].form
          /\ proc'[p].text = proc[p].text /\ proc'[p].shown \in {proc[p].shown, Nothing}
      BY <1>1, <2>3, BecomeChanges
    <3>2. RealProcess(p)'
      BY <1>1, <3>1 DEF RealProcess
    <3> QED BY <3>1, <3>2, OneProcessStaysReal DEF PlaceholderInv
  <2> QED BY <2>1, <2>2, <2>3
<1>3. CASE rest # {}
  <2>1. Become(p, [at |-> step, lang |-> l, text |-> proc[p].form[l]])
    BY <1>3 DEF GoThrough
  <2>2. /\ rest \subseteq Nat
        /\ \A i \in rest : LangOrder[i] \in Langs
    BY StoreAssumption DEF Remaining
  <2>3. \E i \in rest : \A j \in rest : i <= j
    BY <1>3, <2>2, MinExists
  <2>4. l \in Langs
    BY <2>2, <2>3
  <2> HIDE DEF rest, l
  <2>5. /\ ShapeOK' /\ \A q \in Processes \ {p} : proc'[q] = proc[q]
        /\ proc'[p].text = proc[p].form[l] /\ proc'[p].shown = proc[p].shown
        /\ proc'[p].form = proc[p].form /\ proc'[p].loaded = proc[p].loaded
    BY <1>1, <2>1, BecomeChanges
  <2>6. RealProcess(p)'
    BY <1>1, <2>4, <2>5 DEF RealProcess, Real
  <2> QED BY <2>5, <2>6, OneProcessStaysReal DEF PlaceholderInv
<1> QED BY <1>2, <1>3

LEMMA RealWriteNext ==
  ASSUME StoreInv, PlaceholderInv, NEW p \in Processes, UNCHANGED <<status, heap>>,
         status # "draft" => Real(answers'),
         proc[p].at # "idle", NEW after, WriteNext(p, after)
  PROVE  PlaceholderInv'
BY RealGoThrough DEF WriteNext

LEMMA RealStore ==
  ASSUME StoreInv, PlaceholderInv, NEW p \in Processes, Store(p)
  PROVE  PlaceholderInv'
<1>1. ShapeOK /\ DataOK /\ ProcessOK(p) /\ RealProcess(p)
  BY DEF StoreInv, PlaceholderInv
<1>2. /\ proc[p].at \in {"upsert", "purgeSelect", "purgeDelete", "purgeFiles", "write"}
      /\ UNCHANGED status
  BY DEF Store, Upsert, PurgeSelect, PurgeDelete, PurgeFiles, WriteForm, db
<1>3. p = Seed => status = "draft"
  BY <1>2, Kinds DEF PlaceholderInv, Processes
<1>4. CASE Upsert(p)
  <2>1. /\ answers' = [answers EXCEPT ![proc[p].lang] = proc[p].text]
        /\ Become(p, [at |-> "purgeSelect"]) /\ UNCHANGED heap
    BY <1>4 DEF Upsert
  <2>2. status # "draft" => Real(answers')
    <3>1. proc[p].text \in Texts /\ proc[p].lang \in Langs
      BY <1>1, <1>4 DEF Upsert, ProcessOK, Carries, Carrying
    <3>2. status # "draft" => Real(answers) /\ proc[p].text.rev >= 0
      BY <1>1, <1>3, <3>1, StoreAssumption DEF PlaceholderInv, RealProcess
    <3> QED BY <1>1, <2>1, <3>1, <3>2 DEF Real, DataOK, Entries
  <2>3. /\ ShapeOK' /\ \A q \in Processes \ {p} : proc'[q] = proc[q]
        /\ proc'[p].text = proc[p].text /\ proc'[p].shown \in {proc[p].shown, Nothing}
        /\ proc'[p].form = proc[p].form /\ proc'[p].loaded = proc[p].loaded
    BY <1>1, <2>1, BecomeChanges
  <2>4. RealProcess(p)'
    BY <1>1, <2>3 DEF RealProcess
  <2> QED BY <1>2, <2>1, <2>2, <2>3, <2>4, OneProcessStaysReal DEF PlaceholderInv
<1>5. CASE PurgeSelect(p) \/ PurgeDelete(p)
  <2>1. PICK next : \/ Become(p, [at |-> next])
                    \/ Become(p, [at |-> next, seen |-> row[proc[p].lang]])
    BY <1>5 DEF PurgeSelect, PurgeDelete
  <2>2. UNCHANGED <<answers, heap>>
    BY <1>5 DEF PurgeSelect, PurgeDelete, db
  <2>3. /\ ShapeOK' /\ \A q \in Processes \ {p} : proc'[q] = proc[q]
        /\ proc'[p].text = proc[p].text /\ proc'[p].shown \in {proc[p].shown, Nothing}
        /\ proc'[p].form = proc[p].form /\ proc'[p].loaded = proc[p].loaded
    BY <1>1, <2>1, BecomeChanges
  <2>4. RealProcess(p)'
    BY <1>1, <2>3 DEF RealProcess
  <2> QED BY <1>2, <2>2, <2>3, <2>4, OneProcessStaysReal DEF PlaceholderInv
<1>6. CASE PurgeFiles(p)
  <2>1. UNCHANGED answers /\ proc[p].at = "purgeFiles"
    BY <1>6 DEF PurgeFiles, db
  <2>2. CASE p \in Visitors
    <3>1. /\ heap' = [heap EXCEPT ![proc[p].held][proc[p].lang] = proc[p].text]
          /\ Become(p, [at |-> "loadFaqs"])
      BY <1>6, <2>2 DEF PurgeFiles
    <3>2. /\ proc[p].held \in 1 .. Len(heap) /\ heap[proc[p].held] \in Entries
          /\ heap[proc[p].held] # Nothing => Real(heap[proc[p].held])
          /\ p # Seed
      BY <2>1, <2>2, Kinds DEF StoreInv, VisitorOK, PlaceholderInv
    <3>3. proc[p].text \in Texts /\ proc[p].lang \in Langs /\ proc[p].text.rev >= 0
      BY <1>1, <2>1, <3>2, StoreAssumption DEF ProcessOK, Carries, Carrying, RealProcess
    <3> DEFINE new == [heap[proc[p].held] EXCEPT ![proc[p].lang] = proc[p].text]
    <3>4. heap[proc[p].held] # Nothing => Real(new)
      BY <3>2, <3>3 DEF Real, Entries
    <3>5. heap[proc[p].held] # Nothing
      <4>1. Nothing \notin Entries
        BY NothingIsNoEntry
      <4> QED BY <3>2, <4>1
    <3>6. heap' = [heap EXCEPT ![proc[p].held] = new]
      BY <3>1
    <3> HIDE DEF new
    <3>7. \A i \in 1 .. Len(heap') : heap'[i] # Nothing => Real(heap'[i])
      BY <1>1, <3>2, <3>4, <3>5, <3>6 DEF DataOK, PlaceholderInv
    <3>8. /\ ShapeOK' /\ \A q \in Processes \ {p} : proc'[q] = proc[q]
          /\ proc'[p].text = proc[p].text /\ proc'[p].shown \in {proc[p].shown, Nothing}
          /\ proc'[p].form = proc[p].form /\ proc'[p].loaded = proc[p].loaded
      BY <1>1, <3>1, BecomeChanges
    <3>9. RealProcess(p)'
      BY <1>1, <3>8 DEF RealProcess
    <3> QED BY <1>2, <2>1, <3>2, <3>7, <3>8, <3>9, OneProcessStaysReal DEF PlaceholderInv
  <2>3. CASE p \notin Visitors
    <3>1. WriteNext(p, Index(proc[p].lang)) /\ UNCHANGED heap
      BY <1>6, <2>3 DEF PurgeFiles
    <3> QED BY <1>2, <2>1, <3>1, RealWriteNext DEF PlaceholderInv
  <2> QED BY <2>2, <2>3
<1>7. CASE WriteForm(p)
  <2>1. UNCHANGED <<answers, heap>> /\ WriteNext(p, 0)
    BY <1>7 DEF WriteForm, db
  <2> QED BY <1>2, <2>1, RealWriteNext DEF PlaceholderInv
<1> QED BY <1>4, <1>5, <1>6, <1>7 DEF Store

LEMMA RealLoad ==
  ASSUME StoreInv, PlaceholderInv, NEW p \in Processes, Load(p)
  PROVE  PlaceholderInv'
<1>1. ShapeOK /\ DataOK /\ ProcessOK(p) /\ RealProcess(p)
  BY DEF StoreInv, PlaceholderInv
<1>2. proc[p].at \in Loading /\ UNCHANGED <<status, answers>>
  BY DEF Load, LoadFaqs, LoadKeywords, LoadAnswers, Assign, db, Loading
<1>3. CASE LoadFaqs(p) \/ LoadKeywords(p) \/ LoadAnswers(p)
  <2>1. PICK next, load :
          Become(p, [at |-> next, loaded |-> load]) /\ Real(load.answers)
    <3>1. /\ proc[p].loaded \in [first : BOOLEAN, late : BOOLEAN, answers : Entries]
          /\ Real(proc[p].loaded.answers)
      BY <1>1 DEF ProcessOK, RealProcess
    <3>2. CASE LoadFaqs(p)
      <4>1. [NothingLoaded EXCEPT !.first = status = "approved"].answers = NothingLoaded.answers
        BY DEF NothingLoaded
      <4> QED BY <3>2, <4>1, NothingIsReal DEF LoadFaqs
    <3>3. CASE LoadKeywords(p)
      <4>1. \A b \in BOOLEAN : [proc[p].loaded EXCEPT !.late = b].answers = proc[p].loaded.answers
        BY <3>1
      <4>2. (status = "approved" /\ ~proc[p].loaded.first) \in BOOLEAN
        OBVIOUS
      <4> QED BY <3>1, <3>3, <4>1, <4>2 DEF LoadKeywords
    <3>4. CASE LoadAnswers(p)
      <4>1. \A b \in BOOLEAN :
              [proc[p].loaded EXCEPT !.late = b, !.answers = answers].answers = answers
        BY <3>1
      <4>2. PICK b \in BOOLEAN :
              Become(p, [at |-> "assign", loaded |->
                IF status # "approved" THEN proc[p].loaded
                ELSE [proc[p].loaded EXCEPT !.late = b, !.answers = answers]])
        BY <3>4 DEF LoadAnswers
      <4>3. status = "approved" => Real(answers)
        BY DEF PlaceholderInv
      <4> QED BY <3>1, <4>1, <4>2, <4>3
    <3> QED BY <1>3, <3>2, <3>3, <3>4
  <2>2. UNCHANGED heap
    BY <1>3 DEF LoadFaqs, LoadKeywords, LoadAnswers
  <2>3. /\ ShapeOK' /\ \A q \in Processes \ {p} : proc'[q] = proc[q]
        /\ proc'[p].text = proc[p].text /\ proc'[p].shown \in {proc[p].shown, Nothing}
        /\ proc'[p].form = proc[p].form /\ proc'[p].loaded = load
    BY <1>1, <2>1, BecomeChanges
  <2>4. RealProcess(p)'
    BY <1>1, <2>1, <2>3 DEF RealProcess
  <2> QED BY <1>2, <2>2, <2>3, <2>4, OneProcessStaysReal DEF PlaceholderInv, Loading
<1>4. CASE Assign(p)
  <2> DEFINE found == IF proc[p].loaded.first THEN proc[p].loaded.answers ELSE Nothing
  <2>1. (found # Nothing => Real(found)) /\ found \in Entries \cup {Nothing}
    BY <1>1 DEF RealProcess, ProcessOK
  <2>2. \/ (End(p, "raised") \/ End(p, "saved")) /\ (UNCHANGED heap \/ heap' = Append(heap, found))
        \/ /\ p = Warmer /\ UNCHANGED heap
           /\ Become(p, [at |-> "warm", form |-> IF found = Nothing THEN NoAnswers ELSE found])
        \/ /\ p \in Visitors /\ heap' = Append(heap, found)
           /\ Answered(p, proc[p].text)
    BY <1>4 DEF Assign
  <2> HIDE DEF found
  <2>3. \A i \in 1 .. Len(heap') : heap'[i] # Nothing => Real(heap'[i])
    <3>1. CASE heap' = Append(heap, found)
      <4>1. heap \in Seq(Entries \cup {Nothing})
        BY <1>1 DEF DataOK
      <4>2. \A i \in 1 .. Len(heap') : heap'[i] = IF i <= Len(heap) THEN heap[i] ELSE found
        BY <2>1, <3>1, <4>1
      <4>3. \A i \in 1 .. Len(heap') : i <= Len(heap) => i \in 1 .. Len(heap)
        BY <4>1
      <4> QED BY <2>1, <4>2, <4>3 DEF PlaceholderInv
    <3> QED BY <2>2, <3>1 DEF PlaceholderInv
  <2>4. /\ \A q \in Processes \ {p} : proc'[q] = proc[q]
        /\ RealProcess(p)'
    <3>1. CASE End(p, "raised") \/ End(p, "saved")
      <4>1. /\ \A q \in Processes \ {p} : proc'[q] = proc[q]
            /\ proc'[p].loaded = NothingLoaded /\ proc'[p].form = NoAnswers
            /\ proc'[p].text = proc[p].text /\ proc'[p].shown \in {proc[p].shown, Nothing}
        BY <1>1, <3>1, EndChanges
      <4> QED BY <1>1, <4>1, NothingIsReal DEF RealProcess
    <3>2. CASE Become(p, [at |-> "warm", form |-> IF found = Nothing THEN NoAnswers ELSE found])
      <4>1. /\ \A q \in Processes \ {p} : proc'[q] = proc[q]
            /\ proc'[p].loaded = proc[p].loaded /\ proc'[p].text = proc[p].text
            /\ proc'[p].shown \in {proc[p].shown, Nothing}
            /\ proc'[p].form = IF found = Nothing THEN NoAnswers ELSE found
        BY <1>1, <3>2, BecomeChanges
      <4> QED BY <1>1, <2>1, <4>1, NothingIsReal DEF RealProcess
    <3>3. CASE p \in Visitors /\ Answered(p, proc[p].text)
      <4>1. proc[p].text \in Texts /\ proc[p].text.rev >= 0
        BY <1>1, <1>2, <3>3, Kinds, StoreAssumption DEF ProcessOK, Carries, RealProcess
      <4> QED BY <1>1, <3>3, <4>1, RealAnswered
    <3> QED BY <2>2, <3>1, <3>2, <3>3
  <2> QED BY <1>2, <2>3, <2>4, OneProcessStaysReal DEF PlaceholderInv, Loading
<1> QED BY <1>3, <1>4 DEF Load

LEMMA RealVoice ==
  ASSUME StoreInv, PlaceholderInv, NEW p \in Processes, Voice(p)
  PROVE  PlaceholderInv'
<1>1. ShapeOK /\ RealProcess(p)
  BY DEF StoreInv, PlaceholderInv
<1>2. proc[p].at # "idle" /\ UNCHANGED <<status, answers, heap>>
  BY DEF Voice, LookupRow, ReadFile, SynthesizeAnswers, SaveRow, db
<1>3. \/ \E next : Become(p, [at |-> next])
      \/ \E next : Become(p, [at |-> next, seen |-> row[proc[p].lang]])
      \/ \E spoken : Speak(p, spoken)
      \/ End(p, "voiceless")
  BY DEF Voice, LookupRow, ReadFile, SynthesizeAnswers, SaveRow
<1>4. /\ \A q \in Processes \ {p} : proc'[q] = proc[q]
      /\ proc'[p].text = proc[p].text /\ proc'[p].shown \in {proc[p].shown, Nothing}
      /\ \/ proc'[p].loaded = proc[p].loaded /\ proc'[p].form = proc[p].form
         \/ proc'[p].loaded = NothingLoaded /\ proc'[p].form = NoAnswers
  <2>1. CASE \E next : \/ Become(p, [at |-> next])
                       \/ Become(p, [at |-> next, seen |-> row[proc[p].lang]])
    BY <1>1, <2>1, BecomeChanges
  <2>2. CASE \E spoken : Speak(p, spoken)
    BY <1>1, <2>2, SpeakChanges
  <2>3. CASE End(p, "voiceless")
    BY <1>1, <2>3, EndChanges
  <2> QED BY <1>3, <2>1, <2>2, <2>3
<1>5. RealProcess(p)'
  BY <1>1, <1>4, NothingIsReal DEF RealProcess
<1> QED BY <1>2, <1>4, <1>5, OneProcessStaysReal DEF PlaceholderInv

LEMMA RealScripts ==
  ASSUME StoreInv, PlaceholderInv,
         StartSeed \/ StartMigration \/ MigrateAnswer \/ StartWarmer \/ WarmNext \/ WarmCheck
  PROVE  PlaceholderInv'
<1>1. ShapeOK /\ DataOK
  BY DEF StoreInv
<1>2. ASSUME NEW s \in Scripts
      PROVE  s \in Processes /\ ProcessOK(s) /\ RealProcess(s)
  BY <1>2, Kinds DEF StoreInv, PlaceholderInv
<1>3. CASE StartSeed
  <2>1. /\ Seed \in Scripts /\ UNCHANGED <<answers, heap>> /\ status' = "draft"
        /\ Become(Seed, [at |-> "write", outcome |-> "none",
                         form |-> [l \in Langs |-> Placeholder(l)]])
    BY <1>3 DEF StartSeed
  <2>2. /\ \A q \in Processes \ {Seed} : proc'[q] = proc[q]
        /\ proc'[Seed].loaded = proc[Seed].loaded /\ proc'[Seed].shown = proc[Seed].shown
    BY <1>1, <1>2, <2>1, BecomeChanges
  <2>3. ASSUME NEW q \in Processes PROVE RealProcess(q)'
    BY <2>2 DEF PlaceholderInv, RealProcess
  <2> QED BY <2>1, <2>3 DEF PlaceholderInv
<1>4. CASE StartMigration
  <2> DEFINE script == [l \in Langs |-> Typed(l, 0)]
             first == LangOrder[1]
  <2>1. /\ Migration \in Scripts /\ UNCHANGED <<answers, heap>>
        /\ status' = IF status = "absent" THEN "approved" ELSE status
        /\ Become(Migration, [at |-> "migrate", form |-> script, lang |-> first,
                              text |-> script[first], outcome |-> "none"])
    BY <1>4 DEF StartMigration
  <2>2. first \in Langs
    BY StoreAssumption
  <2>3. Real(script) /\ script[first].rev >= 0
    BY <2>2 DEF Real, Typed
  <2> HIDE DEF script, first
  <2>4. /\ \A q \in Processes \ {Migration} : proc'[q] = proc[q]
        /\ proc'[Migration].loaded = proc[Migration].loaded
        /\ proc'[Migration].shown = proc[Migration].shown
        /\ proc'[Migration].form = script /\ proc'[Migration].text = script[first]
    BY <1>1, <1>2, <2>1, BecomeChanges
  <2>5. ASSUME NEW q \in Processes PROVE RealProcess(q)'
    BY <2>3, <2>4 DEF PlaceholderInv, RealProcess
  <2>6. Seed \in Scripts => proc'[Seed] = proc[Seed]
    BY <2>4, Kinds DEF Seed, Migration
  <2> QED BY <2>1, <2>5, <2>6 DEF PlaceholderInv
<1>5. CASE MigrateAnswer
  <2>1. /\ Migration \in Scripts /\ UNCHANGED <<status, heap>>
        /\ answers' = [answers EXCEPT ![proc[Migration].lang] = proc[Migration].text]
        /\ proc[Migration].at = "migrate"
        /\ GoThrough(Migration, Index(proc[Migration].lang), "migrate", Ended("saved"))
    BY <1>5 DEF MigrateAnswer
  <2>2. /\ proc[Migration].text \in Texts /\ proc[Migration].lang \in Langs
        /\ proc[Migration].text.rev >= 0
    BY <1>2, <2>1, StoreAssumption
       DEF ProcessOK, Carries, Carrying, RealProcess, Seed, Migration
  <2>3. status # "draft" => Real(answers')
    BY <1>1, <2>1, <2>2 DEF PlaceholderInv, Real, DataOK, Entries
  <2> QED BY <1>2, <2>1, <2>3, RealGoThrough
<1>6. CASE StartWarmer \/ WarmCheck
  <2>1. /\ Warmer \in Scripts /\ UNCHANGED <<status, answers, heap>>
        /\ \E next : \/ Become(Warmer, [at |-> next])
                     \/ Become(Warmer, [at |-> next, outcome |-> "none"])
    BY <1>6 DEF StartWarmer, WarmCheck, db
  <2>2. /\ \A q \in Processes \ {Warmer} : proc'[q] = proc[q]
        /\ proc'[Warmer].loaded = proc[Warmer].loaded
        /\ proc'[Warmer].form = proc[Warmer].form /\ proc'[Warmer].text = proc[Warmer].text
        /\ proc'[Warmer].shown \in {proc[Warmer].shown, Nothing}
    BY <1>1, <1>2, <2>1, BecomeChanges
  <2>3. RealProcess(Warmer)'
    BY <1>2, <2>1, <2>2 DEF RealProcess
  <2> QED BY <1>2, <2>1, <2>2, <2>3, OneProcessStaysReal DEF PlaceholderInv, Seed, Warmer
<1>7. CASE WarmNext
  <2>1. Warmer \in Scripts /\ UNCHANGED <<status, answers, heap>>
    BY <1>7 DEF WarmNext, db
  <2>2. /\ Real(proc[Warmer].form) /\ proc[Warmer].form \in Entries
        /\ proc[Warmer].text # Nothing => proc[Warmer].text.rev >= 0
        /\ proc[Warmer].shown # Nothing => proc[Warmer].shown.rev >= 0
    BY <1>2, <2>1 DEF RealProcess, ProcessOK, Seed, Warmer
  <2>3. /\ \A q \in Processes \ {Warmer} : proc'[q] = proc[q]
        /\ RealProcess(Warmer)'
    <3>1. CASE End(Warmer, "warmed")
      <4>1. /\ \A q \in Processes \ {Warmer} : proc'[q] = proc[q]
            /\ proc'[Warmer].loaded = NothingLoaded /\ proc'[Warmer].form = NoAnswers
            /\ proc'[Warmer].text = proc[Warmer].text
            /\ proc'[Warmer].shown \in {proc[Warmer].shown, Nothing}
        BY <1>1, <1>2, <2>1, <3>1, EndChanges
      <4> QED BY <2>2, <4>1, NothingIsReal DEF RealProcess
    <3>2. ASSUME NEW l \in Authored(proc[Warmer].form),
                 Become(Warmer, [at |-> "warmCheck", lang |-> l, text |-> proc[Warmer].form[l],
                                 form |-> [proc[Warmer].form EXCEPT ![l] = Nothing]])
          PROVE  /\ \A q \in Processes \ {Warmer} : proc'[q] = proc[q]
                 /\ RealProcess(Warmer)'
      <4>1. /\ \A q \in Processes \ {Warmer} : proc'[q] = proc[q]
            /\ proc'[Warmer].loaded = proc[Warmer].loaded
            /\ proc'[Warmer].text = proc[Warmer].form[l]
            /\ proc'[Warmer].shown = proc[Warmer].shown
            /\ proc'[Warmer].form = [proc[Warmer].form EXCEPT ![l] = Nothing]
        BY <1>1, <1>2, <2>1, <3>2, BecomeChanges
      <4>2. proc[Warmer].form[l].rev >= 0
        BY <2>2 DEF Authored, Real
      <4>3. Real([proc[Warmer].form EXCEPT ![l] = Nothing])
        BY <2>2 DEF Real, Entries
      <4>4. Real(proc[Warmer].loaded.answers)
        BY <1>2, <2>1 DEF RealProcess
      <4> QED BY <2>2, <4>1, <4>2, <4>3, <4>4 DEF RealProcess
    <3> QED BY <1>7, <3>1, <3>2 DEF WarmNext
  <2> QED BY <1>2, <2>1, <2>3, OneProcessStaysReal DEF PlaceholderInv, Seed, Warmer
<1> QED BY <1>3, <1>4, <1>5, <1>6, <1>7

LEMMA RealFailure ==
  ASSUME StoreInv, PlaceholderInv, NEW p \in Processes, AwaitRaises(p)
  PROVE  PlaceholderInv'
<1>1. ShapeOK /\ RealProcess(p) /\ End(p, "raised") /\ UNCHANGED <<status, answers, heap>>
  BY DEF StoreInv, PlaceholderInv, AwaitRaises, db
<1>2. /\ \A q \in Processes \ {p} : proc'[q] = proc[q]
      /\ proc'[p].loaded = NothingLoaded /\ proc'[p].form = NoAnswers
      /\ proc'[p].text = proc[p].text /\ proc'[p].at = "idle"
      /\ proc'[p].shown \in {proc[p].shown, Nothing}
  BY <1>1, EndChanges
<1>3. RealProcess(p)'
  BY <1>1, <1>2, NothingIsReal DEF RealProcess
<1> QED BY <1>1, <1>2, <1>3, OneProcessStaysReal DEF PlaceholderInv

LEMMA RealRestart ==
  ASSUME StoreInv, PlaceholderInv, Restart
  PROVE  PlaceholderInv'
<1>1. ShapeOK /\ UNCHANGED <<status, answers>> /\ heap' = <<Loaded>>
  BY DEF StoreInv, Restart, db
<1>2. \A i \in 1 .. Len(heap') : heap'[i] # Nothing => Real(heap'[i])
  BY <1>1 DEF PlaceholderInv, Loaded
<1>3. ASSUME NEW q \in Processes PROVE RealProcess(q)'
  BY <1>1, RestartChanges DEF PlaceholderInv, RealProcess
<1>4. Seed \in Scripts => proc'[Seed].at = proc[Seed].at
  BY <1>1, RestartChanges, Kinds
<1> QED BY <1>1, <1>2, <1>3, <1>4 DEF PlaceholderInv

LEMMA RealStep == Editors = {} /\ StoreInv /\ PlaceholderInv /\ [Next]_vars => PlaceholderInv'
<1> SUFFICES ASSUME Editors = {}, StoreInv, PlaceholderInv, [Next]_vars PROVE PlaceholderInv'
  OBVIOUS
<1>1. CASE \E v \in Visitors : Visit(v) \/ \E l \in Langs, o \in Operators : Match(v, l, o)
  BY <1>1, Kinds, RealVisit, RealStore, RealLoad, RealVoice DEF Visit
<1>2. CASE SeedWork
  BY <1>2, Kinds, RealStore DEF SeedWork
<1>3. CASE WarmerWork
  BY <1>3, Kinds, RealScripts, RealLoad, RealVoice DEF WarmerWork
<1>4. CASE StartSeed \/ StartMigration \/ MigrateAnswer \/ StartWarmer
  BY <1>4, RealScripts
<1>5. CASE Restart
  BY <1>5, RealRestart
<1>6. CASE \E p \in Processes : AwaitRaises(p)
  BY <1>6, RealFailure
<1>7. CASE UNCHANGED vars
  BY <1>7 DEF vars, db, PlaceholderInv, RealProcess
<1> QED BY <1>1, <1>2, <1>3, <1>4, <1>5, <1>6, <1>7 DEF Next

\* Whatever the pipelines, the scripts, failures and restarts do in whatever
\* order, no pilgrim hears a placeholder of the seed or a translation of one, as
\* long as nobody saves an edit form; an edit can race with the seed
\* (FaqSeedRace).
THEOREM NoPlaceholderWithoutEdits ==
  ASSUME Editors = {}
  PROVE  Spec => []PlaceholdersAreNeverSpoken
<1>1. PlaceholderInv => PlaceholdersAreNeverSpoken
  BY Kinds DEF PlaceholderInv, RealProcess, PlaceholdersAreNeverSpoken
<1>2. Spec => []PlaceholderInv
  <2>1. StoreInv /\ PlaceholderInv /\ [Next]_vars => PlaceholderInv'
    BY RealStep
  <2> QED BY <2>1, RealInit, StoreAlwaysSound, PTL DEF Spec
<1> QED BY <1>1, <1>2, PTL

-----------------------------------------------------------------------------
(* An answer is never lost: whatever row, copy in memory or work there is  *)
(* of a language, an answer in it is stored.                               *)

\* For every text of the entry an answer is stored.
HasAnswers(entry) == \A l \in Langs : entry[l] # Nothing => answers[l] # Nothing

AnsweredDataOK ==
  /\ row \in [Langs -> BOOLEAN]
  /\ \A l \in Langs : row[l] => answers[l] # Nothing
  /\ \A i \in 1 .. Len(heap) : heap[i] # Nothing => HasAnswers(heap[i])

\* Only a process that is about to store a text may be the first to have one.
AnsweredProcessOK(p) ==
  /\ HasAnswers(proc[p].loaded.answers)
  /\ p = Warmer => HasAnswers(proc[p].form)
  /\ proc[p].at = "translate" => answers[proc[p].text.lang] # Nothing
  /\ p \in Visitors /\ proc[p].shown # Nothing => answers[proc[p].shown.lang] # Nothing
  /\ Carries(p) /\ proc[p].at \notin {"upsert", "migrate"} => answers[proc[p].lang] # Nothing

AnsweredInv ==
  /\ AnsweredDataOK
  /\ \A p \in Processes : AnsweredProcessOK(p)

AnswersStay == \A l \in Langs : answers[l] # Nothing => answers'[l] # Nothing

LEMMA NothingIsAnswered ==
  /\ \A l \in Langs : NoAnswers[l] = Nothing
  /\ NothingLoaded.answers = NoAnswers
BY DEF NoAnswers, NothingLoaded

LEMMA AnsweredInit == Init => AnsweredInv
<1> SUFFICES ASSUME Init PROVE AnsweredInv
  OBVIOUS
<1>1. \A l \in Langs : /\ answers[l] = IF FirstAnswers[l] = 0 THEN Typed(l, 0) ELSE Nothing
                       /\ Typed(l, 0) \in Texts
  BY StoreAssumption DEF Init, Typed, Texts
<1>2. row \in [Langs -> BOOLEAN] /\ \A l \in Langs : row[l] => answers[l] # Nothing
  <2>1. row = [l \in Langs |-> l \in FirstVoices]
    BY DEF Init
  <2>2. \A l \in FirstVoices : l \in Langs /\ answers[l] # Nothing
    BY <1>1, StoreAssumption
  <2>3. \A l \in Langs : row[l] => l \in FirstVoices
    BY <2>1, Zenon
  <2>4. \A l \in Langs : row[l] \in BOOLEAN
    BY <2>1
  <2> QED BY <2>1, <2>2, <2>3, <2>4
<1>3. AnsweredDataOK
  BY <1>2 DEF AnsweredDataOK, Init, Loaded, HasAnswers
<1>4. ASSUME NEW p \in Processes PROVE AnsweredProcessOK(p)
  <2>1. /\ proc[p].at = "idle" /\ proc[p].shown = Nothing
        /\ proc[p].form = NoAnswers /\ proc[p].loaded = NothingLoaded
    BY DEF Init
  <2> QED BY <2>1, NothingIsAnswered DEF AnsweredProcessOK, HasAnswers, Carries, Carrying, Loading
<1> QED BY <1>3, <1>4 DEF AnsweredInv

\* A step of one process that loses no answer.
LEMMA OneProcessStaysAnswered ==
  ASSUME StoreInv, AnsweredInv, NEW p \in Processes, AnswersStay,
         \A q \in Processes \ {p} : proc'[q] = proc[q],
         AnsweredDataOK', AnsweredProcessOK(p)'
  PROVE  AnsweredInv'
<1>1. ASSUME NEW q \in Processes, q # p PROVE AnsweredProcessOK(q)'
  <2>1. proc'[q] = proc[q] /\ AnsweredProcessOK(q) /\ ProcessOK(q)
    BY <1>1 DEF AnsweredInv, StoreInv
  <2>2. \A l \in Langs : proc[q].loaded.answers[l] # Nothing => answers'[l] # Nothing
    BY <2>1 DEF AnsweredProcessOK, HasAnswers, AnswersStay
  <2>3. q = Warmer => \A l \in Langs : proc[q].form[l] # Nothing => answers'[l] # Nothing
    BY <2>1 DEF AnsweredProcessOK, HasAnswers, AnswersStay
  <2>4. proc[q].at = "translate" => answers'[proc[q].text.lang] # Nothing
    BY <2>1 DEF AnsweredProcessOK, ProcessOK, Texts, AnswersStay
  <2>5. Carries(q) /\ proc[q].at \notin {"upsert", "migrate"} => answers'[proc[q].lang] # Nothing
    BY <2>1 DEF AnsweredProcessOK, ProcessOK, AnswersStay
  <2>6. q \in Visitors /\ proc[q].shown # Nothing => answers'[proc[q].shown.lang] # Nothing
    BY <2>1 DEF AnsweredProcessOK, StoreInv, VisitorOK, Texts, AnswersStay
  <2> QED BY <2>1, <2>2, <2>3, <2>4, <2>5, <2>6 DEF AnsweredProcessOK, HasAnswers, Carries
<1> QED BY <1>1 DEF AnsweredInv

\* The common case: answers, rows and heap stay.
LEMMA QuietDataStaysAnswered ==
  ASSUME AnsweredDataOK, UNCHANGED <<answers, row, heap>>
  PROVE  AnswersStay /\ AnsweredDataOK'
BY DEF AnswersStay, AnsweredDataOK, HasAnswers

LEMMA ShownStaysAnswered ==
  ASSUME StoreInv, AnsweredInv, AnswersStay, NEW v \in Visitors, proc[v].shown # Nothing
  PROVE  answers'[proc[v].shown.lang] # Nothing
<1>1. proc[v].shown \in Texts /\ v \in Processes
  BY Kinds DEF StoreInv, VisitorOK
<1>2. answers[proc[v].shown.lang] # Nothing
  BY <1>1 DEF AnsweredInv, AnsweredProcessOK
<1> QED BY <1>1, <1>2 DEF Texts, AnswersStay

\* A process that has ended has nothing left to answer.
LEMMA EndStaysAnswered ==
  ASSUME StoreInv, AnsweredInv, NEW p \in Processes, AnswersStay, AnsweredDataOK',
         NEW how, End(p, how)
  PROVE  AnsweredInv'
<1>1. /\ \A q \in Processes \ {p} : proc'[q] = proc[q]
      /\ proc'[p].loaded = NothingLoaded /\ proc'[p].form = NoAnswers
      /\ proc'[p].at = "idle" /\ proc'[p].shown = Nothing
  BY EndChanges DEF StoreInv
<1>2. AnsweredProcessOK(p)'
  BY <1>1, NothingIsAnswered DEF AnsweredProcessOK, HasAnswers, Carries, Carrying, Loading
<1> QED BY <1>1, <1>2, OneProcessStaysAnswered

\* What changes of a process is where it is, and the language stays answered.
LEMMA MoveStaysAnswered ==
  ASSUME StoreInv, AnsweredInv, NEW p \in Processes, AnswersStay, AnsweredDataOK',
         NEW next, NEW seen, next # "translate",
         \/ Become(p, [at |-> next])
         \/ Become(p, [at |-> next, seen |-> seen])
         \/ Become(p, [at |-> next, outcome |-> seen])
         \/ Become(p, [at |-> next, operator |-> seen]),
         \/ answers'[proc[p].lang] # Nothing
         \/ next \notin IF p \in Visitors THEN Carrying \cup Loading ELSE Carrying
  PROVE  AnsweredInv'
<1>1. /\ \A q \in Processes \ {p} : proc'[q] = proc[q]
      /\ proc'[p].at = next /\ proc'[p].lang = proc[p].lang /\ proc'[p].shown = proc[p].shown
      /\ proc'[p].loaded = proc[p].loaded /\ proc'[p].form = proc[p].form
  BY BecomeChanges DEF StoreInv
<1>2. AnsweredProcessOK(p)
  BY DEF AnsweredInv
<1>3. AnsweredProcessOK(p)'
  BY <1>1, <1>2, ShownStaysAnswered DEF AnsweredProcessOK, HasAnswers, Carries, AnswersStay
<1> QED BY <1>1, <1>3, OneProcessStaysAnswered

\* An answer that has come is of an answered language, and so is the one shown before.
LEMMA AnswerStaysAnswered ==
  ASSUME StoreInv, AnsweredInv, NEW v \in Visitors, AnswersStay, AnsweredDataOK',
         NEW t \in Texts, answers[t.lang] # Nothing, Answered(v, t)
  PROVE  AnsweredInv'
<1>1. ShapeOK /\ v \in Processes /\ v # Warmer /\ AnsweredProcessOK(v)
  BY Kinds DEF StoreInv, AnsweredInv
<1>2. PICK next, new :
        /\ \A q \in Processes \ {v} : proc'[q] = proc[q]
        /\ next \in {"show", "lookup"} /\ proc'[v].at = next /\ proc'[v].lang = new.lang
        /\ proc'[v].shown = Nothing /\ proc'[v].loaded = proc[v].loaded
        /\ answers'[new.lang] # Nothing
  <2>1. CASE proc[v].shown = Nothing
    <3>1. Become(v, [at |-> "show", lang |-> t.lang, text |-> t])
      BY <2>1 DEF Answered
    <3>2. answers'[t.lang] # Nothing
      BY DEF Texts, AnswersStay
    <3> QED BY <1>1, <2>1, <3>1, <3>2, BecomeChanges
  <2>2. CASE proc[v].shown # Nothing
    <3>1. Become(v, [at |-> "lookup", lang |-> proc[v].shown.lang, text |-> proc[v].shown,
                     shown |-> Nothing, operator |-> Nothing])
      BY <2>2 DEF Answered
    <3> QED BY <1>1, <2>2, <3>1, BecomeChanges, ShownStaysAnswered
  <2> QED BY <2>1, <2>2
<1>3. AnsweredProcessOK(v)'
  BY <1>1, <1>2 DEF AnsweredProcessOK, HasAnswers, AnswersStay
<1> QED BY <1>1, <1>2, <1>3, OneProcessStaysAnswered

LEMMA AnsweredVisit ==
  ASSUME StoreInv, AnsweredInv, NEW v \in Visitors,
         TranslateAnswers(v) \/ Show(v) \/ \E l \in Langs, o \in Operators : Match(v, l, o)
  PROVE  AnsweredInv'
<1>1. /\ ShapeOK /\ DataOK /\ ProcessOK(v) /\ VisitorOK(v) /\ v \in Processes /\ v # Warmer
      /\ AnsweredDataOK /\ AnsweredProcessOK(v)
  BY Kinds DEF StoreInv, AnsweredInv
<1>2. UNCHANGED <<answers, row, heap>>
  BY DEF TranslateAnswers, Show, Match, db
<1>3. AnswersStay /\ AnsweredDataOK'
  BY <1>1, <1>2, QuietDataStaysAnswered
<1>4. ASSUME NEW l \in Langs, NEW o \in Operators, Match(v, l, o) PROVE AnsweredInv'
  <2>1. Current \in Entries /\ Len(heap) \in 1 .. Len(heap) /\ Current = heap[Len(heap)]
    BY <1>1, <1>4, CurrentIsEntry DEF Match
  <2>2. \A t \in Langs : Current[t] # Nothing => answers[t] # Nothing /\ Current[t].lang = t
    BY <1>1, <1>4, <2>1 DEF Match, AnsweredDataOK, HasAnswers, Entries
  <2>3. PICK where, s, how :
          /\ Become(v, [at |-> where, held |-> Len(heap), lang |-> l, outcome |-> how,
                        text |-> IF s = Nothing THEN Nothing ELSE Current[s],
                        operator |-> IF o = l THEN Nothing ELSE o, shown |-> Nothing])
          /\ \/ where = "show" /\ Current[l] # Nothing
             \/ where = "translate" /\ s \in Sources(Current)
             \/ where = "idle"
    BY <1>4 DEF Match
  <2>4. \A t \in Sources(Current) : t \in Langs /\ Current[t] # Nothing /\ t # Nothing
    BY StoreAssumption, SourcesAreAuthored
  <2>5. /\ \A q \in Processes \ {v} : proc'[q] = proc[q]
        /\ proc'[v].at = where /\ proc'[v].lang = l /\ proc'[v].shown = Nothing
        /\ proc'[v].text = IF s = Nothing THEN Nothing ELSE Current[s]
        /\ proc'[v].form = proc[v].form /\ proc'[v].loaded = proc[v].loaded
    BY <1>1, <2>3, BecomeChanges
  <2>6. where = "translate" => answers[proc'[v].text.lang] # Nothing
    BY <2>2, <2>3, <2>4, <2>5
  <2>7. where = "show" => answers[l] # Nothing
    BY <2>2, <2>3
  <2>8. AnsweredProcessOK(v)'
    BY <1>1, <1>2, <2>3, <2>5, <2>6, <2>7
       DEF AnsweredProcessOK, HasAnswers, Carries, Carrying, Loading
  <2> QED BY <1>1, <1>3, <2>5, <2>8, OneProcessStaysAnswered
<1>5. CASE Show(v)
  <2> DEFINE entry == heap[proc[v].held]
  <2>1. /\ proc[v].held \in 1 .. Len(heap) /\ entry \in Entries /\ entry # Nothing
        /\ proc[v].text \in Texts /\ proc[v].text.lang = proc[v].lang
        /\ answers[proc[v].lang] # Nothing
    BY <1>1, <1>5, NothingIsNoEntry
       DEF Show, VisitorOK, ProcessOK, AnsweredProcessOK, Carries, Carrying
  <2>2. CASE Become(v, [at |-> "lookup", operator |-> Nothing])
    BY <1>1, <1>2, <1>3, <2>1, <2>2, MoveStaysAnswered
  <2>3. ASSUME NEW s \in Sources(entry),
               Become(v, [at |-> "translate", lang |-> proc[v].operator, text |-> entry[s],
                          shown |-> proc[v].text])
        PROVE  AnsweredInv'
    <3>1. s \in Langs /\ entry[s] # Nothing
      BY SourcesAreAuthored
    <3>2. entry[s].lang = s /\ answers[s] # Nothing
      BY <1>1, <2>1, <3>1 DEF AnsweredDataOK, HasAnswers, Entries
    <3>3. /\ \A q \in Processes \ {v} : proc'[q] = proc[q]
          /\ proc'[v].at = "translate" /\ proc'[v].text = entry[s]
          /\ proc'[v].shown = proc[v].text
          /\ proc'[v].form = proc[v].form /\ proc'[v].loaded = proc[v].loaded
      BY <1>1, <2>3, BecomeChanges
    <3>4. AnsweredProcessOK(v)'
      BY <1>1, <1>2, <2>1, <3>2, <3>3
         DEF AnsweredProcessOK, HasAnswers, Carries, Carrying, Loading
    <3> QED BY <1>1, <1>3, <3>3, <3>4, OneProcessStaysAnswered
  <2> QED BY <1>5, <2>2, <2>3 DEF Show
<1>6. CASE TranslateAnswers(v)
  <2>1. proc[v].text \in Texts /\ answers[proc[v].text.lang] # Nothing
    BY <1>1, <1>6 DEF TranslateAnswers, AnsweredProcessOK, ProcessOK
  <2>2. CASE Answered(v, proc[v].text)
    BY <1>3, <2>1, <2>2, AnswerStaysAnswered
  <2>3. ASSUME NEW m, Become(v, [at |-> "upsert", text |-> Machine(proc[v].lang, proc[v].text, m)])
        PROVE  AnsweredInv'
    <3>1. /\ \A q \in Processes \ {v} : proc'[q] = proc[q]
          /\ proc'[v].at = "upsert" /\ proc'[v].shown = proc[v].shown
          /\ proc'[v].form = proc[v].form /\ proc'[v].loaded = proc[v].loaded
      BY <1>1, <2>3, BecomeChanges
    <3>2. AnsweredProcessOK(v)'
      BY <1>1, <1>2, <3>1 DEF AnsweredProcessOK, HasAnswers
    <3> QED BY <1>1, <1>3, <3>1, <3>2, OneProcessStaysAnswered
  <2> QED BY <1>6, <2>2, <2>3 DEF TranslateAnswers, Translated
<1> QED BY <1>4, <1>5, <1>6

\* Going through a form stores what it holds, of any language.
LEMMA AnsweredGoThrough ==
  ASSUME StoreInv, AnsweredInv, NEW p \in Processes, p \notin Visitors, AnswersStay, AnsweredDataOK',
         NEW after, NEW step \in {"upsert", "migrate"}, NEW how,
         \/ GoThrough(p, after, step, Ended(how))
         \/ GoThrough(p, after, step, [at |-> "loadFaqs"])
  PROVE  AnsweredInv'
<1>1. CASE End(p, how)
  BY <1>1, EndStaysAnswered
<1>2. CASE Become(p, [at |-> "loadFaqs"])
  BY <1>2, MoveStaysAnswered DEF Carrying
<1>3. ASSUME NEW l, NEW text, Become(p, [at |-> step, lang |-> l, text |-> text])
      PROVE  AnsweredInv'
  <2>1. /\ \A q \in Processes \ {p} : proc'[q] = proc[q]
        /\ proc'[p].at = step
        /\ proc'[p].loaded = proc[p].loaded /\ proc'[p].form = proc[p].form
    BY <1>3, BecomeChanges DEF StoreInv
  <2>2. AnsweredProcessOK(p)
    BY DEF AnsweredInv
  <2>3. AnsweredProcessOK(p)'
    BY <2>1, <2>2 DEF AnsweredProcessOK, HasAnswers, AnswersStay
  <2> QED BY <2>1, <2>3, OneProcessStaysAnswered
<1> QED BY <1>1, <1>2, <1>3 DEF GoThrough, End

LEMMA AnsweredStore ==
  ASSUME StoreInv, AnsweredInv, NEW p \in Processes, Store(p)
  PROVE  AnsweredInv'
<1>1. ShapeOK /\ DataOK /\ ProcessOK(p) /\ AnsweredDataOK /\ AnsweredProcessOK(p)
  BY DEF StoreInv, AnsweredInv
<1>2. p \in Visitors => VisitorOK(p)
  BY DEF StoreInv
<1>3. /\ proc[p].lang \in Langs
      /\ proc[p].at = "upsert" => proc[p].text \in Texts
      /\ proc[p].at \in {"purgeSelect", "purgeDelete", "purgeFiles"} =>
           answers[proc[p].lang] # Nothing
  BY <1>1 DEF ProcessOK, AnsweredProcessOK, Carries, Carrying
<1>4. CASE Upsert(p)
  <2>1. /\ UNCHANGED <<row, heap>> /\ proc[p].at = "upsert"
        /\ answers' = [answers EXCEPT ![proc[p].lang] = proc[p].text]
        /\ Become(p, [at |-> "purgeSelect"])
    BY <1>4 DEF Upsert
  <2>2. AnswersStay /\ answers'[proc[p].lang] # Nothing
    BY <1>1, <1>3, <2>1, StoreAssumption DEF AnswersStay, DataOK, Entries
  <2>3. AnsweredDataOK'
    BY <1>1, <2>1, <2>2 DEF AnsweredDataOK, HasAnswers, AnswersStay
  <2> QED BY <2>1, <2>2, <2>3, MoveStaysAnswered
<1>5. CASE PurgeSelect(p) \/ PurgeDelete(p)
  <2>1. PICK next : /\ next \in {"purgeDelete", "purgeFiles"}
                    /\ \/ Become(p, [at |-> next])
                       \/ Become(p, [at |-> next, seen |-> row[proc[p].lang]])
    BY <1>5 DEF PurgeSelect, PurgeDelete
  <2>2. /\ UNCHANGED <<answers, heap>> /\ answers'[proc[p].lang] # Nothing
        /\ UNCHANGED row \/ row' = [row EXCEPT ![proc[p].lang] = FALSE]
    BY <1>3, <1>5 DEF PurgeSelect, PurgeDelete, db
  <2>3. AnswersStay /\ AnsweredDataOK'
    BY <1>1, <2>2 DEF AnsweredDataOK, HasAnswers, AnswersStay
  <2> QED BY <2>1, <2>2, <2>3, MoveStaysAnswered
<1>6. CASE PurgeFiles(p)
  <2>1. UNCHANGED <<answers, row>> /\ proc[p].at = "purgeFiles" /\ AnswersStay
    BY <1>6 DEF PurgeFiles, db, AnswersStay
  <2>2. CASE p \in Visitors
    <3>1. /\ heap' = [heap EXCEPT ![proc[p].held][proc[p].lang] = proc[p].text]
          /\ Become(p, [at |-> "loadFaqs"])
      BY <1>6, <2>2 DEF PurgeFiles
    <3>2. /\ proc[p].held \in 1 .. Len(heap) /\ heap[proc[p].held] \in Entries
          /\ heap[proc[p].held] # Nothing
      BY <1>2, <2>1, <2>2, NothingIsNoEntry DEF VisitorOK
    <3> DEFINE new == [heap[proc[p].held] EXCEPT ![proc[p].lang] = proc[p].text]
    <3>3. HasAnswers(heap[proc[p].held])
      BY <1>1, <3>2 DEF AnsweredDataOK
    <3>4. HasAnswers(new)
      BY <1>3, <2>1, <3>2, <3>3 DEF HasAnswers, Entries
    <3>5. heap' = [heap EXCEPT ![proc[p].held] = new]
      BY <3>1
    <3> HIDE DEF new
    <3>6. \A i \in 1 .. Len(heap') : heap'[i] # Nothing => HasAnswers(heap'[i])
      BY <1>1, <3>2, <3>4, <3>5 DEF DataOK, AnsweredDataOK
    <3>7. AnsweredDataOK'
      BY <1>1, <2>1, <3>6 DEF AnsweredDataOK, HasAnswers
    <3> QED BY <1>3, <2>1, <3>1, <3>7, MoveStaysAnswered
  <2>3. CASE p \notin Visitors
    <3>1. WriteNext(p, Index(proc[p].lang)) /\ UNCHANGED heap
      BY <1>6, <2>3 DEF PurgeFiles
    <3>2. AnsweredDataOK'
      BY <1>1, <2>1, <3>1, QuietDataStaysAnswered
    <3> QED BY <2>1, <2>3, <3>1, <3>2, AnsweredGoThrough DEF WriteNext
  <2> QED BY <2>2, <2>3
<1>7. CASE WriteForm(p)
  <2>1. UNCHANGED <<answers, row, heap>> /\ proc[p].at = "write" /\ WriteNext(p, 0)
    BY <1>7 DEF WriteForm, db
  <2>2. p \notin Visitors
    BY <1>2, <2>1 DEF VisitorOK, Carrying, Loading
  <2>3. AnswersStay /\ AnsweredDataOK'
    BY <1>1, <2>1, QuietDataStaysAnswered
  <2> QED BY <2>1, <2>2, <2>3, AnsweredGoThrough DEF WriteNext
<1> QED BY <1>4, <1>5, <1>6, <1>7 DEF Store

LEMMA AnsweredLoad ==
  ASSUME StoreInv, AnsweredInv, NEW p \in Processes, Load(p)
  PROVE  AnsweredInv'
<1>1. ShapeOK /\ DataOK /\ ProcessOK(p) /\ AnsweredDataOK /\ AnsweredProcessOK(p)
  BY DEF StoreInv, AnsweredInv
<1>2. UNCHANGED <<answers, row>> /\ AnswersStay /\ proc[p].at \in Loading
  BY DEF Load, LoadFaqs, LoadKeywords, LoadAnswers, Assign, db, AnswersStay, Loading
<1>3. p \in Visitors => answers[proc[p].lang] # Nothing
  BY <1>1, <1>2 DEF AnsweredProcessOK, Carries, Loading
<1>4. CASE LoadFaqs(p) \/ LoadKeywords(p) \/ LoadAnswers(p)
  <2>1. AnsweredDataOK'
    <3>1. UNCHANGED heap
      BY <1>4 DEF LoadFaqs, LoadKeywords, LoadAnswers
    <3> QED BY <1>1, <1>2, <3>1, QuietDataStaysAnswered
  <2>2. ASSUME NEW next \in {"loadKeywords", "loadAnswers", "assign"}, NEW load,
               Become(p, [at |-> next, loaded |-> load]),
               \A l \in Langs : load.answers[l] # Nothing => answers[l] # Nothing
        PROVE  AnsweredInv'
    <3>1. /\ \A q \in Processes \ {p} : proc'[q] = proc[q]
          /\ proc'[p].at = next /\ proc'[p].lang = proc[p].lang
          /\ proc'[p].loaded = load /\ proc'[p].form = proc[p].form
          /\ proc'[p].shown = proc[p].shown
      BY <1>1, <2>2, BecomeChanges
    <3>2. AnsweredProcessOK(p)'
      BY <1>1, <1>2, <1>3, <2>2, <3>1
         DEF AnsweredProcessOK, HasAnswers, Carries, Carrying, Loading
    <3> QED BY <1>2, <2>1, <3>1, <3>2, OneProcessStaysAnswered
  <2>3. /\ proc[p].loaded \in [first : BOOLEAN, late : BOOLEAN, answers : Entries]
        /\ \A l \in Langs : proc[p].loaded.answers[l] # Nothing => answers[l] # Nothing
    BY <1>1 DEF ProcessOK, AnsweredProcessOK, HasAnswers
  <2>4. CASE LoadFaqs(p)
    <3> DEFINE load == [NothingLoaded EXCEPT !.first = status = "approved"]
    <3>1. \A l \in Langs : load.answers[l] = Nothing
      BY NothingIsAnswered DEF NothingLoaded
    <3>2. Become(p, [at |-> "loadKeywords", loaded |-> load])
      BY <2>4 DEF LoadFaqs
    <3> HIDE DEF load
    <3> QED BY <2>2, <3>1, <3>2
  <2>5. CASE LoadKeywords(p)
    <3> DEFINE load == [proc[p].loaded EXCEPT !.late = status = "approved" /\ ~proc[p].loaded.first]
    <3>1. load.answers = proc[p].loaded.answers
      BY <2>3
    <3>2. Become(p, [at |-> "loadAnswers", loaded |-> load])
      BY <2>5 DEF LoadKeywords
    <3> HIDE DEF load
    <3> QED BY <2>2, <2>3, <3>1, <3>2
  <2>6. CASE LoadAnswers(p)
    <3> DEFINE load(b) == [proc[p].loaded EXCEPT !.late = b, !.answers = answers]
    <3>1. \A b \in BOOLEAN : load(b).answers = answers
      BY <2>3
    <3>2. PICK b \in BOOLEAN :
            Become(p, [at |-> "assign",
                       loaded |-> IF status # "approved" THEN proc[p].loaded ELSE load(b)])
      BY <2>6 DEF LoadAnswers
    <3> HIDE DEF load
    <3>3. CASE status # "approved"
      <4>1. Become(p, [at |-> "assign", loaded |-> proc[p].loaded])
        BY <3>2, <3>3
      <4> QED BY <2>2, <2>3, <4>1
    <3>4. CASE status = "approved"
      <4>1. Become(p, [at |-> "assign", loaded |-> load(b)])
        BY <3>2, <3>4
      <4> QED BY <2>2, <3>1, <4>1
    <3> QED BY <3>3, <3>4
  <2> QED BY <1>4, <2>4, <2>5, <2>6
<1>5. CASE Assign(p)
  <2> DEFINE found == IF proc[p].loaded.first THEN proc[p].loaded.answers ELSE Nothing
  <2>1. /\ found \in Entries \cup {Nothing}
        /\ found # Nothing => \A l \in Langs : found[l] # Nothing => answers[l] # Nothing
    BY <1>1 DEF ProcessOK, AnsweredProcessOK, HasAnswers
  <2>2. \/ (End(p, "raised") \/ End(p, "saved")) /\ (UNCHANGED heap \/ heap' = Append(heap, found))
        \/ /\ p = Warmer /\ UNCHANGED heap
           /\ Become(p, [at |-> "warm", form |-> IF found = Nothing THEN NoAnswers ELSE found])
        \/ /\ p \in Visitors /\ heap' = Append(heap, found)
           /\ Answered(p, proc[p].text)
    BY <1>5 DEF Assign
  <2> HIDE DEF found
  <2>3. \A i \in 1 .. Len(heap') : heap'[i] # Nothing => HasAnswers(heap'[i])
    <3>1. CASE heap' = Append(heap, found)
      <4>1. heap \in Seq(Entries \cup {Nothing})
        BY <1>1 DEF DataOK
      <4>2. \A i \in 1 .. Len(heap') : heap'[i] = IF i <= Len(heap) THEN heap[i] ELSE found
        BY <2>1, <3>1, <4>1
      <4>3. \A i \in 1 .. Len(heap') : i <= Len(heap) => i \in 1 .. Len(heap)
        BY <4>1
      <4> QED BY <1>1, <2>1, <4>2, <4>3 DEF AnsweredDataOK, HasAnswers
    <3> QED BY <1>1, <2>2, <3>1 DEF AnsweredDataOK
  <2>4. AnsweredDataOK'
    BY <1>1, <1>2, <2>3 DEF AnsweredDataOK, HasAnswers
  <2>5. CASE End(p, "raised") \/ End(p, "saved")
    BY <1>2, <2>4, <2>5, EndStaysAnswered
  <2>6. CASE p = Warmer /\ Become(p, [at |-> "warm", form |-> IF found = Nothing THEN NoAnswers ELSE found])
    <3>1. /\ \A q \in Processes \ {p} : proc'[q] = proc[q]
          /\ proc'[p].at = "warm" /\ proc'[p].loaded = proc[p].loaded
          /\ proc'[p].form = IF found = Nothing THEN NoAnswers ELSE found
          /\ p \notin Visitors
      BY <1>1, <2>6, Kinds, BecomeChanges
    <3>2. \A l \in Langs : proc'[p].form[l] # Nothing => answers[l] # Nothing
      BY <2>1, <3>1, NothingIsAnswered
    <3>3. ~Carries(p)'
      BY <2>6, <3>1, StoreAssumption DEF Carries, Carrying, Loading
    <3>4. AnsweredProcessOK(p)'
      BY <1>1, <1>2, <3>1, <3>2, <3>3 DEF AnsweredProcessOK, HasAnswers
    <3> QED BY <1>2, <2>4, <3>1, <3>4, OneProcessStaysAnswered
  <2>7. CASE p \in Visitors /\ Answered(p, proc[p].text)
    <3>1. proc[p].text \in Texts /\ proc[p].text.lang = proc[p].lang
      BY <1>1, <1>2, <2>7 DEF ProcessOK, Carries
    <3> QED BY <1>2, <1>3, <2>4, <2>7, <3>1, AnswerStaysAnswered
  <2> QED BY <2>2, <2>5, <2>6, <2>7
<1> QED BY <1>4, <1>5 DEF Load

LEMMA AnsweredVoice ==
  ASSUME StoreInv, AnsweredInv, NEW p \in Processes, Voice(p)
  PROVE  AnsweredInv'
<1>1. ShapeOK /\ DataOK /\ ProcessOK(p) /\ AnsweredDataOK /\ AnsweredProcessOK(p)
  BY DEF StoreInv, AnsweredInv
<1>2. /\ proc[p].at \in {"lookup", "readFile", "synthesize", "saveRow"}
      /\ UNCHANGED <<answers, heap>> /\ AnswersStay
      /\ UNCHANGED row \/ row' = [row EXCEPT ![proc[p].lang] = TRUE]
  BY DEF Voice, LookupRow, ReadFile, SynthesizeAnswers, SaveRow, db, AnswersStay
<1>3. answers'[proc[p].lang] # Nothing /\ proc[p].lang \in Langs
  BY <1>1, <1>2 DEF ProcessOK, AnsweredProcessOK, Carries, Carrying
<1>4. AnsweredDataOK'
  BY <1>1, <1>2, <1>3 DEF AnsweredDataOK, HasAnswers
<1>5. ASSUME NEW spoken, Speak(p, spoken) PROVE AnsweredInv'
  <2>1. /\ \A q \in Processes \ {p} : proc'[q] = proc[q]
        /\ \/ /\ proc'[p].at = "warm" /\ p \notin Visitors
              /\ proc'[p].loaded = proc[p].loaded /\ proc'[p].form = proc[p].form
           \/ /\ proc'[p].at = "idle" /\ proc'[p].shown = Nothing
              /\ proc'[p].loaded = NothingLoaded /\ proc'[p].form = NoAnswers
    BY <1>1, <1>5, Kinds, SpeakChanges
  <2>2. AnsweredProcessOK(p)'
    BY <1>1, <1>2, <2>1, NothingIsAnswered
       DEF AnsweredProcessOK, HasAnswers, Carries, Carrying, Loading
  <2> QED BY <1>2, <1>4, <2>1, <2>2, OneProcessStaysAnswered
<1>6. CASE \/ \E next \in {"readFile", "synthesize", "saveRow"} :
                \/ Become(p, [at |-> next])
                \/ Become(p, [at |-> next, seen |-> row[proc[p].lang]])
  BY <1>2, <1>3, <1>4, <1>6, MoveStaysAnswered
<1>7. CASE End(p, "voiceless")
  BY <1>2, <1>4, <1>7, EndStaysAnswered
<1> QED BY <1>5, <1>6, <1>7 DEF Voice, LookupRow, ReadFile, SynthesizeAnswers, SaveRow

LEMMA AnsweredEditor ==
  ASSUME StoreInv, AnsweredInv, NEW e \in Editors,
         OpenForm(e) \/ \E l \in Langs, s \in Statuses : SubmitForm(e, l, s)
  PROVE  AnsweredInv'
<1>1. /\ ShapeOK /\ AnsweredDataOK /\ AnsweredProcessOK(e)
      /\ e \in Processes /\ e # Warmer /\ e \notin Visitors
  BY Kinds DEF StoreInv, AnsweredInv
<1>2. AnswersStay /\ AnsweredDataOK' /\ UNCHANGED answers
  <2>1. UNCHANGED <<answers, row, heap>>
    BY DEF OpenForm, SubmitForm, db
  <2> QED BY <1>1, <2>1, QuietDataStaysAnswered
<1>3. PICK next \in {"form", "write"} :
        \E form : \/ Become(e, [at |-> next, form |-> form])
                  \/ Become(e, [at |-> next, form |-> form, outcome |-> "none"])
  BY DEF OpenForm, SubmitForm
<1>4. /\ \A q \in Processes \ {e} : proc'[q] = proc[q]
      /\ proc'[e].at = next /\ proc'[e].loaded = proc[e].loaded
  BY <1>1, <1>3, BecomeChanges
<1>5. AnsweredProcessOK(e)'
  BY <1>1, <1>2, <1>4 DEF AnsweredProcessOK, HasAnswers, Carries, Carrying
<1> QED BY <1>1, <1>2, <1>4, <1>5, OneProcessStaysAnswered

LEMMA AnsweredScripts ==
  ASSUME StoreInv, AnsweredInv,
         StartSeed \/ StartMigration \/ MigrateAnswer \/ StartWarmer \/ WarmNext \/ WarmCheck
  PROVE  AnsweredInv'
<1>1. ShapeOK /\ DataOK /\ AnsweredDataOK
  BY DEF StoreInv, AnsweredInv
<1>2. ASSUME NEW s \in Scripts
      PROVE  s \in Processes /\ s \notin Visitors /\ ProcessOK(s) /\ AnsweredProcessOK(s)
  BY <1>2, Kinds DEF StoreInv, AnsweredInv
<1>3. CASE StartSeed \/ StartMigration
  <2>1. UNCHANGED <<answers, row, heap>>
    BY <1>3 DEF StartSeed, StartMigration
  <2>2. PICK s \in Scripts \ {Warmer} :
          \E form, l, text :
            \/ Become(s, [at |-> "write", outcome |-> "none", form |-> form])
            \/ Become(s, [at |-> "migrate", form |-> form, lang |-> l, text |-> text,
                          outcome |-> "none"])
    BY <1>3 DEF StartSeed, StartMigration, Seed, Migration, Warmer
  <2>3. /\ \A q \in Processes \ {s} : proc'[q] = proc[q]
        /\ proc'[s].at \in {"write", "migrate"} /\ proc'[s].loaded = proc[s].loaded
    BY <1>1, <1>2, <2>2, BecomeChanges
  <2>4. AnsweredProcessOK(s)'
    BY <1>2, <2>1, <2>3 DEF AnsweredProcessOK, HasAnswers, Carries, Carrying
  <2> QED BY <1>1, <1>2, <2>1, <2>3, <2>4, QuietDataStaysAnswered, OneProcessStaysAnswered
<1>4. CASE MigrateAnswer
  <2>1. /\ Migration \in Scripts /\ UNCHANGED <<row, heap>>
        /\ answers' = [answers EXCEPT ![proc[Migration].lang] = proc[Migration].text]
        /\ proc[Migration].at = "migrate"
        /\ GoThrough(Migration, Index(proc[Migration].lang), "migrate", Ended("saved"))
    BY <1>4 DEF MigrateAnswer
  <2>2. proc[Migration].text \in Texts
    BY <1>2, <2>1 DEF ProcessOK, Carries, Carrying
  <2>3. AnswersStay
    BY <1>1, <2>1, <2>2, StoreAssumption DEF AnswersStay, DataOK, Entries
  <2>4. AnsweredDataOK'
    BY <1>1, <2>1, <2>3 DEF AnsweredDataOK, HasAnswers, AnswersStay
  <2> QED BY <1>2, <2>1, <2>3, <2>4, AnsweredGoThrough
<1>5. ASSUME StartWarmer \/ WarmNext \/ WarmCheck
      PROVE  /\ Warmer \in Scripts /\ UNCHANGED <<answers, row, heap>>
             /\ AnswersStay /\ AnsweredDataOK'
  <2>1. Warmer \in Scripts /\ UNCHANGED <<answers, row, heap>>
    BY <1>5 DEF StartWarmer, WarmNext, WarmCheck, db
  <2> QED BY <1>1, <2>1, QuietDataStaysAnswered
<1>6. CASE StartWarmer
  BY <1>2, <1>5, <1>6, MoveStaysAnswered DEF StartWarmer, Carrying
<1>7. CASE WarmNext
  <2>1. CASE End(Warmer, "warmed")
    BY <1>2, <1>5, <1>7, <2>1, EndStaysAnswered
  <2>2. ASSUME NEW l \in Authored(proc[Warmer].form),
               Become(Warmer, [at |-> "warmCheck", lang |-> l, text |-> proc[Warmer].form[l],
                               form |-> [proc[Warmer].form EXCEPT ![l] = Nothing]])
        PROVE  AnsweredInv'
    <3>1. /\ AnsweredProcessOK(Warmer) /\ proc[Warmer].form \in Entries
          /\ Warmer \in Processes /\ Warmer \notin Visitors /\ UNCHANGED answers
      BY <1>2, <1>5, <1>7 DEF ProcessOK
    <3>2. l \in Langs /\ answers[l] # Nothing
      BY <3>1 DEF AnsweredProcessOK, HasAnswers, Authored
    <3>3. \A m \in Langs : [proc[Warmer].form EXCEPT ![l] = Nothing][m] # Nothing =>
                             answers[m] # Nothing
      BY <3>1 DEF AnsweredProcessOK, HasAnswers, Entries
    <3>4. /\ \A q \in Processes \ {Warmer} : proc'[q] = proc[q]
          /\ proc'[Warmer].at = "warmCheck" /\ proc'[Warmer].lang = l
          /\ proc'[Warmer].form = [proc[Warmer].form EXCEPT ![l] = Nothing]
          /\ proc'[Warmer].loaded = proc[Warmer].loaded
      BY <1>1, <2>2, <3>1, BecomeChanges
    <3>5. AnsweredProcessOK(Warmer)'
      BY <3>1, <3>2, <3>3, <3>4 DEF AnsweredProcessOK, HasAnswers
    <3> QED BY <1>5, <1>7, <3>1, <3>4, <3>5, OneProcessStaysAnswered
  <2> QED BY <1>7, <2>1, <2>2 DEF WarmNext
<1>8. CASE WarmCheck
  <2>1. PICK next \in {"warm", "lookup"} : Become(Warmer, [at |-> next])
    BY <1>8 DEF WarmCheck
  <2>2. answers[proc[Warmer].lang] # Nothing
    BY <1>2, <1>5, <1>8 DEF WarmCheck, AnsweredProcessOK, Carries, Carrying
  <2> QED BY <1>2, <1>5, <1>8, <2>1, <2>2, MoveStaysAnswered
<1> QED BY <1>3, <1>4, <1>6, <1>7, <1>8

LEMMA AnsweredFault ==
  ASSUME StoreInv, AnsweredInv, Restart \/ \E p \in Processes : AwaitRaises(p)
  PROVE  AnsweredInv'
<1>1. ShapeOK /\ AnsweredDataOK
  BY DEF StoreInv, AnsweredInv
<1>2. ASSUME NEW p \in Processes, AwaitRaises(p) PROVE AnsweredInv'
  <2>1. UNCHANGED <<answers, row, heap>> /\ End(p, "raised")
    BY <1>2 DEF AwaitRaises, db
  <2> QED BY <1>1, <2>1, QuietDataStaysAnswered, EndStaysAnswered
<1>3. CASE Restart
  <2>1. UNCHANGED <<status, answers, row>> /\ heap' = <<Loaded>>
    BY <1>3 DEF Restart, db
  <2>2. AnsweredDataOK'
    BY <1>1, <2>1 DEF AnsweredDataOK, HasAnswers, Loaded
  <2>3. ASSUME NEW q \in Processes PROVE AnsweredProcessOK(q)'
    <3>1. /\ AnsweredProcessOK(q)
          /\ proc'[q].lang = proc[q].lang /\ proc'[q].text = proc[q].text
          /\ proc'[q].form = proc[q].form /\ proc'[q].loaded = proc[q].loaded
          /\ proc'[q].shown = proc[q].shown
          /\ proc'[q].at = proc[q].at \/ proc'[q].at = "idle"
      BY <1>1, <1>3, RestartChanges DEF AnsweredInv
    <3> QED BY <2>1, <3>1 DEF AnsweredProcessOK, HasAnswers, Carries, Carrying, Loading
  <2> QED BY <2>2, <2>3 DEF AnsweredInv
<1> QED BY <1>2, <1>3

LEMMA AnsweredStep == StoreInv /\ AnsweredInv /\ [Next]_vars => AnsweredInv'
<1> SUFFICES ASSUME StoreInv, AnsweredInv, [Next]_vars PROVE AnsweredInv'
  OBVIOUS
<1>1. CASE \E v \in Visitors : Visit(v) \/ \E l \in Langs, o \in Operators : Match(v, l, o)
  BY <1>1, Kinds, AnsweredVisit, AnsweredStore, AnsweredLoad, AnsweredVoice DEF Visit
<1>2. CASE \E e \in Editors :
             Edit(e) \/ OpenForm(e) \/ \E l \in Langs, s \in Statuses : SubmitForm(e, l, s)
  BY <1>2, Kinds, AnsweredEditor, AnsweredStore, AnsweredLoad DEF Edit
<1>3. CASE SeedWork
  BY <1>3, Kinds, AnsweredStore DEF SeedWork
<1>4. CASE WarmerWork
  BY <1>4, Kinds, AnsweredScripts, AnsweredLoad, AnsweredVoice DEF WarmerWork
<1>5. CASE StartSeed \/ StartMigration \/ MigrateAnswer \/ StartWarmer
  BY <1>5, AnsweredScripts
<1>6. CASE Restart \/ \E p \in Processes : AwaitRaises(p)
  BY <1>6, AnsweredFault
<1>7. CASE UNCHANGED vars
  BY <1>7 DEF vars, db, AnsweredInv, AnsweredDataOK, AnsweredProcessOK, HasAnswers, Carries
<1> QED BY <1>1, <1>2, <1>3, <1>4, <1>5, <1>6, <1>7 DEF Next

LEMMA AnsweredAlways == Spec => []AnsweredInv
BY AnsweredInit, AnsweredStep, StoreAlwaysSound, PTL DEF Spec

-----------------------------------------------------------------------------
(* A form whose handler has the system to itself.                          *)

Storing == {"upsert", "purgeSelect", "purgeDelete", "purgeFiles"}

\* Where the handler of a form may be.
Places == {"idle", "form", "write"} \cup Storing \cup Loading

\* What it has loaded is what is stored.
LoadOK(p) ==
  /\ proc[p].at \in Loading \ {"loadFaqs"} =>
       ~proc[p].loaded.late /\ proc[p].loaded.first = (status = "approved")
  /\ proc[p].at = "assign" /\ proc[p].loaded.first => proc[p].loaded.answers = answers

\* The rows that are left are those of languages the form still goes through,
\* none once it loads.
AloneOK(e) ==
  /\ proc[e].at = "form" => proc[e].form = answers
  /\ proc[e].at = "write" => \A l \in Langs : row[l] => proc[e].form[l] # Nothing
  /\ proc[e].at \in Storing =>
       \A l \in Langs : row[l] => proc[e].form[l] # Nothing /\ Index(proc[e].lang) <= Index(l)
  /\ proc[e].at = "purgeFiles" => ~row[proc[e].lang]
  /\ proc[e].at \in Loading => \A l \in Langs : ~row[l]
  /\ LoadOK(e)

AloneInv ==
  \A e \in Editors :
    /\ proc[e].at \in Places
    /\ alone[e] => OthersRest(e) /\ AloneOK(e)

LEMMA IndexIsPlace ==
  /\ \A l \in Langs :
       Index(l) \in DOMAIN LangOrder /\ LangOrder[Index(l)] = l /\ Index(l) \in Nat \ {0}
  /\ \A i \in DOMAIN LangOrder : LangOrder[i] \in Langs /\ Index(LangOrder[i]) = i
<1>1. LangOrder \in Seq(Langs)
  BY StoreAssumption
<1>2. ASSUME NEW l \in Langs
      PROVE  Index(l) \in DOMAIN LangOrder /\ LangOrder[Index(l)] = l
  <2>1. \E i \in DOMAIN LangOrder : LangOrder[i] = l
    BY StoreAssumption
  <2> QED BY <2>1 DEF Index
<1>3. \A i \in DOMAIN LangOrder : LangOrder[i] \in Langs /\ i \in Nat \ {0}
  BY <1>1
<1>4. ASSUME NEW i \in DOMAIN LangOrder PROVE Index(LangOrder[i]) = i
  BY <1>2, <1>3, StoreAssumption
<1> QED BY <1>2, <1>3, <1>4

\* The form goes on with the next of its languages, before any row of a later
\* one; when none is left there is no row.
LEMMA AloneWriteNext ==
  ASSUME StoreInv, NEW e \in Editors, NEW after, WriteNext(e, after), UNCHANGED row,
         \A l \in Langs : row[l] => proc[e].form[l] # Nothing /\ after < Index(l)
  PROVE  AloneOK(e)'
<1> DEFINE rest == Remaining(e, after)
           i == CHOOSE k \in rest : \A j \in rest : k <= j
<1>1. ShapeOK /\ e \in Processes
  BY Kinds DEF StoreInv
<1>2. \A l \in Langs : row[l] => Index(l) \in rest
  BY IndexIsPlace DEF Remaining
<1>3. CASE rest = {}
  <2>1. Become(e, [at |-> "loadFaqs"])
    BY <1>3 DEF WriteNext, GoThrough
  <2>2. proc'[e].at = "loadFaqs"
    BY <1>1, <2>1, BecomeChanges
  <2>3. \A l \in Langs : ~row'[l]
    <3> HIDE DEF rest
    <3> QED BY <1>2, <1>3
  <2> HIDE DEF rest, i
  <2> QED BY <2>2, <2>3 DEF AloneOK, LoadOK, Loading, Storing
<1>4. CASE rest # {}
  <2>1. Become(e, [at |-> "upsert", lang |-> LangOrder[i], text |-> proc[e].form[LangOrder[i]]])
    BY <1>4 DEF WriteNext, GoThrough
  <2>2. rest \subseteq DOMAIN LangOrder /\ rest \subseteq Nat
    BY StoreAssumption DEF Remaining
  <2>3. \E k \in rest : \A j \in rest : k <= j
    BY <1>4, <2>2, MinExists
  <2>4. i \in rest /\ \A j \in rest : i <= j
    BY <2>3
  <2>5. Index(LangOrder[i]) = i
    BY <2>2, <2>4, IndexIsPlace
  <2> HIDE DEF rest, i
  <2>6. proc'[e].at = "upsert" /\ proc'[e].lang = LangOrder[i] /\ proc'[e].form = proc[e].form
    BY <1>1, <2>1, BecomeChanges
  <2>7. \A l \in Langs : row[l] => Index(proc'[e].lang) <= Index(l)
    BY <1>2, <2>4, <2>5, <2>6
  <2> QED BY <2>6, <2>7 DEF AloneOK, LoadOK, Loading, Storing
<1> QED BY <1>3, <1>4

LEMMA AloneStores ==
  ASSUME StoreInv, AnsweredInv, NEW e \in Editors, AloneOK(e), Store(e)
  PROVE  AloneOK(e)'
<1>1. ShapeOK /\ e \in Processes /\ e \notin Visitors /\ proc[e].lang \in Langs
      /\ row \in [Langs -> BOOLEAN]
  BY Kinds DEF StoreInv, ProcessOK, AnsweredInv, AnsweredDataOK
<1>2. CASE Upsert(e) \/ PurgeSelect(e)
  <2>1. /\ proc[e].at \in {"upsert", "purgeSelect"} /\ UNCHANGED row
        /\ \E next \in {"purgeSelect", "purgeDelete"} :
             \/ Become(e, [at |-> next])
             \/ Become(e, [at |-> next, seen |-> row[proc[e].lang]])
    BY <1>2 DEF Upsert, PurgeSelect, db
  <2>2. /\ proc'[e].at \in {"purgeSelect", "purgeDelete"}
        /\ proc'[e].form = proc[e].form /\ proc'[e].lang = proc[e].lang
    BY <1>1, <2>1, BecomeChanges
  <2> QED BY <2>1, <2>2 DEF AloneOK, LoadOK, Storing, Loading
<1>3. CASE PurgeDelete(e)
  <2>1. /\ proc[e].at = "purgeDelete" /\ row' = [row EXCEPT ![proc[e].lang] = FALSE]
        /\ Become(e, [at |-> "purgeFiles"])
    BY <1>3 DEF PurgeDelete
  <2>2. /\ proc'[e].at = "purgeFiles"
        /\ proc'[e].form = proc[e].form /\ proc'[e].lang = proc[e].lang
    BY <1>1, <2>1, BecomeChanges
  <2>3. ~row'[proc[e].lang] /\ \A l \in Langs : row'[l] => row[l]
    BY <1>1, <2>1
  <2> QED BY <2>1, <2>2, <2>3 DEF AloneOK, LoadOK, Storing, Loading
<1>4. CASE PurgeFiles(e)
  <2>1. /\ proc[e].at = "purgeFiles" /\ UNCHANGED row
        /\ WriteNext(e, Index(proc[e].lang))
    BY <1>1, <1>4 DEF PurgeFiles, db
  <2>2. ASSUME NEW l \in Langs, row[l]
        PROVE  proc[e].form[l] # Nothing /\ Index(proc[e].lang) < Index(l)
    <3>1. /\ proc[e].form[l] # Nothing /\ Index(proc[e].lang) <= Index(l)
          /\ l # proc[e].lang
      BY <2>1, <2>2 DEF AloneOK, LoadOK, Storing
    <3>2. Index(proc[e].lang) # Index(l)
      BY <1>1, <3>1, IndexIsPlace
    <3> QED BY <1>1, <3>1, <3>2, IndexIsPlace
  <2> QED BY <2>1, <2>2, AloneWriteNext DEF Storing
<1>5. CASE WriteForm(e)
  <2>1. proc[e].at = "write" /\ UNCHANGED row /\ WriteNext(e, 0)
    BY <1>5 DEF WriteForm, db
  <2>2. \A l \in Langs : row[l] => proc[e].form[l] # Nothing /\ 0 < Index(l)
    BY <2>1, IndexIsPlace DEF AloneOK, LoadOK
  <2> QED BY <2>1, <2>2, AloneWriteNext DEF Storing
<1> QED BY <1>2, <1>3, <1>4, <1>5 DEF Store

\* A pack that is loaded undisturbed is what is stored.
LEMMA WholeLoads ==
  ASSUME StoreInv, NEW p \in Processes, LoadOK(p), LoadFaqs(p) \/ LoadKeywords(p) \/ LoadAnswers(p)
  PROVE  /\ LoadOK(p)' /\ proc'[p].at \in Loading \ {"loadFaqs"}
         /\ proc'[p].lang = proc[p].lang /\ proc'[p].text = proc[p].text
         /\ proc'[p].shown = proc[p].shown /\ proc'[p].operator = proc[p].operator
         /\ UNCHANGED <<status, answers, row, file, heap>>
<1>1. ShapeOK /\ proc[p].loaded \in [first : BOOLEAN, late : BOOLEAN, answers : Entries]
  BY DEF StoreInv, ProcessOK
<1>2. UNCHANGED <<status, answers, row, file, heap>>
  BY DEF LoadFaqs, LoadKeywords, LoadAnswers, db
<1>3. SUFFICES \E next \in {"loadKeywords", "loadAnswers", "assign"} : \E load :
                 /\ Become(p, [at |-> next, loaded |-> load])
                 /\ ~load.late /\ load.first = (status = "approved")
                 /\ next = "assign" /\ load.first => load.answers = answers
  <2>1. ASSUME NEW next \in {"loadKeywords", "loadAnswers", "assign"}, NEW load,
               Become(p, [at |-> next, loaded |-> load])
        PROVE  /\ proc'[p].at = next /\ proc'[p].loaded = load
               /\ proc'[p].lang = proc[p].lang /\ proc'[p].text = proc[p].text
               /\ proc'[p].shown = proc[p].shown /\ proc'[p].operator = proc[p].operator
    BY <1>1, <2>1, BecomeChanges
  <2> QED BY <1>2, <2>1 DEF LoadOK, Loading
<1>4. CASE LoadFaqs(p)
  <2> DEFINE load == [NothingLoaded EXCEPT !.first = status = "approved"]
  <2>1. ~load.late /\ load.first = (status = "approved")
    BY DEF NothingLoaded
  <2>2. Become(p, [at |-> "loadKeywords", loaded |-> load])
    BY <1>4 DEF LoadFaqs
  <2> HIDE DEF load
  <2> QED BY <2>1, <2>2
<1>5. CASE LoadKeywords(p)
  <2> DEFINE load == [proc[p].loaded EXCEPT !.late = status = "approved" /\ ~proc[p].loaded.first]
  <2>1. proc[p].loaded.first = (status = "approved")
    BY <1>5 DEF LoadKeywords, LoadOK, Loading
  <2>2. ~load.late /\ load.first = (status = "approved")
    BY <1>1, <2>1
  <2>3. Become(p, [at |-> "loadAnswers", loaded |-> load])
    BY <1>5 DEF LoadKeywords
  <2> HIDE DEF load
  <2> QED BY <2>2, <2>3
<1>6. CASE LoadAnswers(p)
  <2>1. ~proc[p].loaded.late /\ proc[p].loaded.first = (status = "approved")
    BY <1>6 DEF LoadAnswers, LoadOK, Loading
  <2>2. CASE status # "approved"
    <3>1. Become(p, [at |-> "assign", loaded |-> proc[p].loaded])
      BY <1>6, <2>2 DEF LoadAnswers
    <3> QED BY <2>1, <2>2, <3>1
  <2>3. CASE status = "approved"
    <3> DEFINE late == proc[p].loaded.late \/ (~proc[p].loaded.first /\ Authored(answers) # {})
               load == [proc[p].loaded EXCEPT !.late = late, !.answers = answers]
    <3>1. ~load.late /\ load.first = (status = "approved") /\ load.answers = answers
      BY <1>1, <2>1, <2>3
    <3>2. Become(p, [at |-> "assign", loaded |-> load])
      BY <1>6, <2>3 DEF LoadAnswers
    <3> HIDE DEF load
    <3> QED BY <3>1, <3>2
  <2> QED BY <2>2, <2>3
<1> QED BY <1>4, <1>5, <1>6

LEMMA WholeAssign ==
  ASSUME StoreInv, NEW p \in Processes, p # Warmer, LoadOK(p), Assign(p)
  PROVE  /\ Current' = Loaded' /\ UNCHANGED <<status, answers, row, file>>
         /\ IF p \in Visitors THEN Answered(p, proc[p].text) ELSE End(p, "saved")
<1>1. /\ ~proc[p].loaded.late /\ UNCHANGED <<status, answers, row, file>>
      /\ proc[p].loaded.first = (status = "approved")
      /\ proc[p].loaded.first => proc[p].loaded.answers = answers
  BY DEF LoadOK, Loading, Assign, db
<1>2. /\ heap' = Append(heap, Loaded)
      /\ IF p \in Visitors THEN Answered(p, proc[p].text) ELSE End(p, "saved")
  BY <1>1 DEF Assign, Loaded
<1>3. Current' = Loaded
  BY <1>2 DEF StoreInv, DataOK, Current
<1> QED BY <1>1, <1>2, <1>3 DEF Loaded

LEMMA AloneLoads ==
  ASSUME StoreInv, NEW e \in Editors, AloneOK(e), Load(e)
  PROVE  AloneOK(e)'
<1>1. ShapeOK /\ e \in Processes /\ e \notin Visitors /\ e # Warmer
  BY Kinds DEF StoreInv
<1>2. CASE LoadFaqs(e) \/ LoadKeywords(e) \/ LoadAnswers(e)
  <2>1. proc[e].at \in Loading
    BY <1>2 DEF LoadFaqs, LoadKeywords, LoadAnswers, Loading
  <2>2. /\ LoadOK(e)' /\ proc'[e].at \in Loading /\ UNCHANGED row
    BY <1>1, <1>2, WholeLoads DEF AloneOK
  <2> QED BY <2>1, <2>2 DEF AloneOK, Loading, Storing
<1>3. CASE Assign(e)
  <2>1. End(e, "saved")
    BY <1>1, <1>3, WholeAssign DEF AloneOK
  <2>2. proc'[e].at = "idle"
    BY <1>1, <2>1, EndChanges
  <2> QED BY <2>2 DEF AloneOK, LoadOK, Storing, Loading
<1> QED BY <1>2, <1>3 DEF Load

LEMMA AloneOpens ==
  ASSUME StoreInv, AnsweredInv, NEW e \in Editors, AloneOK(e),
         OpenForm(e) \/ \E l \in Langs, s \in Statuses : SubmitForm(e, l, s)
  PROVE  AloneOK(e)'
<1>1. ShapeOK /\ DataOK /\ ProcessOK(e) /\ e \in Processes
  BY Kinds DEF StoreInv
<1>2. CASE OpenForm(e)
  <2>1. proc'[e].at = "form" /\ proc'[e].form = answers /\ UNCHANGED answers
    BY <1>1, <1>2, BecomeChanges DEF OpenForm, db
  <2> QED BY <2>1 DEF AloneOK, LoadOK, Storing, Loading
<1>3. ASSUME NEW l \in Langs, NEW s \in Statuses, SubmitForm(e, l, s)
      PROVE  AloneOK(e)'
  <2>1. /\ proc'[e].at = "write"
        /\ proc'[e].form = [proc[e].form EXCEPT ![l] = Typed(l, used.edits + 1)]
        /\ proc[e].form = answers /\ UNCHANGED row
    BY <1>1, <1>3, BecomeChanges DEF SubmitForm, AloneOK
  <2>2. Typed(l, used.edits + 1) # Nothing
    <3>1. used.edits \in Nat /\ MaxEdits \in Nat /\ used.edits < MaxEdits
      BY <1>1, <1>3, StoreAssumption DEF DataOK, Counters, SubmitForm, Count
    <3>2. Typed(l, used.edits + 1) \in Texts
      BY <3>1 DEF Typed, Texts
    <3> QED BY <3>2, StoreAssumption
  <2>3. \A m \in Langs : row[m] => proc'[e].form[m] # Nothing
    BY <1>1, <2>1, <2>2 DEF AnsweredInv, AnsweredDataOK, DataOK, Entries
  <2> QED BY <2>1, <2>3 DEF AloneOK, LoadOK, Storing, Loading
<1> QED BY <1>2, <1>3

\* A step of a process is a step of its own program; no other process moves.
LEMMA OnlyOneMoves ==
  ASSUME StoreInv, NEW p \in Processes,
         \/ Store(p) \/ Load(p) \/ Voice(p) \/ TranslateAnswers(p) \/ Show(p) \/ AwaitRaises(p)
         \/ OpenForm(p) \/ \E l \in Langs, o \in Operators : Match(p, l, o)
         \/ \E l \in Langs, s \in Statuses : SubmitForm(p, l, s)
         \/ p = Seed /\ StartSeed
         \/ p = Migration /\ (StartMigration \/ MigrateAnswer)
         \/ p = Warmer /\ (StartWarmer \/ WarmNext \/ WarmCheck)
  PROVE  \A q \in Processes \ {p} : proc'[q] = proc[q]
<1>1. ShapeOK
  BY DEF StoreInv
<1>2. ASSUME NEW c, Become(p, c) PROVE \A q \in Processes \ {p} : proc'[q] = proc[q]
  BY <1>1, <1>2, BecomeChanges
<1>3. ASSUME NEW spoken, Speak(p, spoken) PROVE \A q \in Processes \ {p} : proc'[q] = proc[q]
  BY <1>1, <1>3, SpeakChanges
<1>4. ASSUME NEW how, End(p, how) PROVE \A q \in Processes \ {p} : proc'[q] = proc[q]
  BY <1>1, <1>4, EndChanges
<1>5. ASSUME NEW after, NEW step, NEW done, GoThrough(p, after, step, done)
      PROVE  \A q \in Processes \ {p} : proc'[q] = proc[q]
  BY <1>2, <1>5 DEF GoThrough
<1>6. CASE Store(p)
  BY <1>2, <1>5, <1>6 DEF Store, Upsert, PurgeSelect, PurgeDelete, PurgeFiles, WriteForm, WriteNext
<1>7. CASE Load(p)
  BY <1>2, <1>4, <1>7 DEF Load, LoadFaqs, LoadKeywords, LoadAnswers, Assign, Answered
<1>8. CASE Voice(p)
  BY <1>2, <1>3, <1>4, <1>8 DEF Voice, LookupRow, ReadFile, SynthesizeAnswers, SaveRow
<1>9. CASE TranslateAnswers(p) \/ Show(p) \/ \E l \in Langs, o \in Operators : Match(p, l, o)
  BY <1>2, <1>9 DEF TranslateAnswers, Translated, Answered, Show, Match
<1>10. CASE \/ AwaitRaises(p) \/ OpenForm(p)
            \/ \E l \in Langs, s \in Statuses : SubmitForm(p, l, s)
  BY <1>2, <1>4, <1>10 DEF AwaitRaises, OpenForm, SubmitForm
<1>11. CASE \/ p = Seed /\ StartSeed
            \/ p = Migration /\ (StartMigration \/ MigrateAnswer)
  BY <1>2, <1>5, <1>11 DEF StartSeed, StartMigration, MigrateAnswer
<1>12. CASE p = Warmer /\ (StartWarmer \/ WarmNext \/ WarmCheck)
  BY <1>2, <1>4, <1>12 DEF StartWarmer, WarmNext, WarmCheck
<1> QED BY <1>6, <1>7, <1>8, <1>9, <1>10, <1>11, <1>12

\* A process that rests before its step and after it leaves the tables alone.
LEMMA RestingLeavesTables ==
  ASSUME StoreInv, NEW p \in Processes,
         proc[p].at \in {"idle", "form"}, proc'[p].at \in {"idle", "form"},
         \/ Store(p) \/ Load(p) \/ Voice(p) \/ TranslateAnswers(p) \/ Show(p) \/ AwaitRaises(p)
         \/ OpenForm(p) \/ \E l \in Langs, o \in Operators : Match(p, l, o)
         \/ \E l \in Langs, s \in Statuses : SubmitForm(p, l, s)
         \/ p = Seed /\ StartSeed
         \/ p = Migration /\ (StartMigration \/ MigrateAnswer)
         \/ p = Warmer /\ (StartWarmer \/ WarmNext \/ WarmCheck)
  PROVE  UNCHANGED <<status, answers, row, file, heap>>
<1>1. ShapeOK
  BY DEF StoreInv
<1>2. ~(Store(p) \/ Load(p) \/ Voice(p) \/ TranslateAnswers(p) \/ Show(p))
  BY DEF Store, Upsert, PurgeSelect, PurgeDelete, PurgeFiles, WriteForm,
     Load, LoadFaqs, LoadKeywords, LoadAnswers, Assign,
     Voice, LookupRow, ReadFile, SynthesizeAnswers, SaveRow, TranslateAnswers, Show
<1>3. ASSUME NEW l \in Langs, NEW s \in Statuses, SubmitForm(p, l, s) PROVE FALSE
  <2>1. proc'[p].at = "write"
    BY <1>1, <1>3, BecomeChanges DEF SubmitForm
  <2> QED BY <2>1
<1>4. ~(p = Seed /\ StartSeed)
  BY <1>1, BecomeChanges DEF StartSeed
<1>5. ~(p = Migration /\ (StartMigration \/ MigrateAnswer))
  BY <1>1, BecomeChanges DEF StartMigration, MigrateAnswer
<1> QED BY <1>2, <1>3, <1>4, <1>5
        DEF AwaitRaises, OpenForm, Match, StartWarmer, WarmNext, WarmCheck, db

\* What a step is, by the process that takes it.
LEMMA StepsHaveOwners ==
  ASSUME Next, ~Restart
  PROVE  \E p \in Processes :
           /\ \/ Store(p) \/ Load(p) \/ Voice(p) \/ TranslateAnswers(p) \/ Show(p) \/ AwaitRaises(p)
              \/ OpenForm(p) \/ \E l \in Langs, o \in Operators : Match(p, l, o)
              \/ \E l \in Langs, s \in Statuses : SubmitForm(p, l, s)
              \/ p = Seed /\ StartSeed
              \/ p = Migration /\ (StartMigration \/ MigrateAnswer)
              \/ p = Warmer /\ (StartWarmer \/ WarmNext \/ WarmCheck)
           /\ p \in Editors =>
                \/ Edit(p) \/ OpenForm(p) \/ AwaitRaises(p)
                \/ \E l \in Langs, s \in Statuses : SubmitForm(p, l, s)
           /\ p \in Visitors =>
                \/ Visit(p) \/ AwaitRaises(p)
                \/ \E l \in Langs, o \in Operators : Match(p, l, o)
<1>1. CASE \E v \in Visitors : Visit(v) \/ \E l \in Langs, o \in Operators : Match(v, l, o)
  BY <1>1, Kinds DEF Visit
<1>2. CASE \E e \in Editors :
             Edit(e) \/ OpenForm(e) \/ \E l \in Langs, s \in Statuses : SubmitForm(e, l, s)
  BY <1>2, Kinds DEF Edit
<1>3. CASE StartSeed \/ SeedWork
  BY <1>3, Kinds DEF StartSeed, SeedWork
<1>4. CASE StartMigration \/ MigrateAnswer
  BY <1>4, Kinds DEF StartMigration, MigrateAnswer
<1>5. CASE StartWarmer \/ WarmerWork
  BY <1>5, Kinds DEF StartWarmer, WarmerWork, WarmNext, WarmCheck
<1>6. CASE \E p \in Processes : AwaitRaises(p)
  BY <1>6
<1> QED BY <1>1, <1>2, <1>3, <1>4, <1>5, <1>6 DEF Next

LEMMA EditorPlaces ==
  ASSUME StoreInv, NEW e \in Editors,
         \/ Store(e) \/ Load(e) \/ AwaitRaises(e) \/ OpenForm(e)
         \/ \E l \in Langs, s \in Statuses : SubmitForm(e, l, s)
  PROVE  proc'[e].at \in Places
<1>1. ShapeOK /\ e \in Processes /\ e \notin Visitors /\ e # Warmer
  BY Kinds DEF StoreInv
<1>2. ASSUME NEW c, Become(e, c), c.at \in Places, "at" \in DOMAIN c PROVE proc'[e].at \in Places
  BY <1>1, <1>2, BecomeChanges
<1>3. ASSUME NEW how, End(e, how) PROVE proc'[e].at \in Places
  BY <1>1, <1>3, EndChanges DEF Places
<1>4. ASSUME NEW after, WriteNext(e, after) PROVE proc'[e].at \in Places
  <2>1. PICK c : Become(e, c) /\ "at" \in DOMAIN c /\ c.at \in {"loadFaqs", "upsert"}
    BY <1>4 DEF WriteNext, GoThrough
  <2> QED BY <1>2, <2>1 DEF Places, Storing, Loading
<1>5. CASE Store(e)
  <2>1. \/ \E after : WriteNext(e, after)
        \/ \E c : Become(e, c) /\ "at" \in DOMAIN c /\ c.at \in Storing
    BY <1>1, <1>5 DEF Store, Upsert, PurgeSelect, PurgeDelete, PurgeFiles, WriteForm, Storing
  <2> QED BY <1>2, <1>4, <2>1 DEF Places
<1>6. CASE Load(e)
  <2>1. \/ \E how : End(e, how)
        \/ \E c : Become(e, c) /\ "at" \in DOMAIN c /\ c.at \in Loading
    BY <1>1, <1>6 DEF Load, LoadFaqs, LoadKeywords, LoadAnswers, Assign, Loading
  <2> QED BY <1>2, <1>3, <2>1 DEF Places
<1>7. CASE AwaitRaises(e)
  BY <1>3, <1>7 DEF AwaitRaises
<1>8. CASE OpenForm(e) \/ \E l \in Langs, s \in Statuses : SubmitForm(e, l, s)
  <2>1. CASE OpenForm(e)
    BY <1>1, <2>1, BecomeChanges DEF OpenForm, Places
  <2>2. ASSUME NEW l \in Langs, NEW s \in Statuses, SubmitForm(e, l, s)
        PROVE  proc'[e].at \in Places
    BY <1>1, <2>2, BecomeChanges DEF SubmitForm, Places
  <2> QED BY <1>8, <2>1, <2>2
<1> QED BY <1>5, <1>6, <1>7, <1>8

LEMMA AloneInit == MCInit => AloneInv
<1> SUFFICES ASSUME MCInit PROVE AloneInv
  OBVIOUS
<1>1. \A p \in Processes : proc[p].at = "idle"
  BY DEF MCInit, Init
<1> QED BY <1>1, Kinds DEF AloneInv, AloneOK, LoadOK, OthersRest, Places, Storing, Loading

LEMMA AloneStep ==
  StoreInv /\ StoreInv' /\ AnsweredInv /\ AloneInv /\ [MCNext]_<<vars, history>> => AloneInv'
<1> SUFFICES ASSUME StoreInv, StoreInv', AnsweredInv, AloneInv, MCNext PROVE AloneInv'
  <2>1. UNCHANGED <<vars, history>> /\ AloneInv => AloneInv'
    BY DEF vars, db, history, AloneInv, AloneOK, LoadOK, OthersRest
  <2> QED BY <2>1
<1> SUFFICES ASSUME NEW e \in Editors
             PROVE  /\ proc'[e].at \in Places
                    /\ alone'[e] => OthersRest(e)' /\ AloneOK(e)'
  BY DEF AloneInv
<1>1. /\ ShapeOK /\ e \in Processes /\ Next
      /\ proc[e].at \in Places
      /\ alone[e] => OthersRest(e) /\ AloneOK(e)
  BY Kinds DEF StoreInv, AloneInv, MCNext
<1>2. alone'[e] => OthersRest(e)' /\ (alone[e] \/ proc[e].at = "idle")
  BY DEF MCNext, OthersRest, Handlers, Begins
<1>3. /\ proc[e].at = "idle" => AloneOK(e)
      /\ proc'[e].at = "idle" => AloneOK(e)'
  BY DEF AloneOK, LoadOK, Storing, Loading
<1>4. SUFFICES /\ proc'[e].at \in Places
               /\ alone'[e] /\ AloneOK(e) => AloneOK(e)'
  BY <1>1, <1>2, <1>3
<1>5. CASE Restart
  <2>1. /\ proc'[e].at = IF proc[e].at = "form" THEN "form" ELSE "idle"
        /\ proc'[e].form = proc[e].form /\ UNCHANGED answers
    BY <1>1, <1>5, RestartChanges, Kinds DEF Restart, db
  <2> QED BY <2>1 DEF AloneOK, LoadOK, Places, Storing, Loading
<1>6. CASE ~Restart
  <2> DEFINE Step(p) ==
        \/ Store(p) \/ Load(p) \/ Voice(p) \/ TranslateAnswers(p) \/ Show(p) \/ AwaitRaises(p)
        \/ OpenForm(p) \/ \E l \in Langs, o \in Operators : Match(p, l, o)
        \/ \E l \in Langs, s \in Statuses : SubmitForm(p, l, s)
        \/ p = Seed /\ StartSeed
        \/ p = Migration /\ (StartMigration \/ MigrateAnswer)
        \/ p = Warmer /\ (StartWarmer \/ WarmNext \/ WarmCheck)
  <2>1. PICK p \in Processes :
          /\ Step(p)
          /\ p \in Editors =>
               \/ Edit(p) \/ OpenForm(p) \/ AwaitRaises(p)
               \/ \E l \in Langs, s \in Statuses : SubmitForm(p, l, s)
    BY <1>1, <1>6, StepsHaveOwners
  <2>2. \A q \in Processes \ {p} : proc'[q] = proc[q]
    BY <2>1, OnlyOneMoves
  <2>3. /\ proc[p].at \in {"idle", "form"}
        /\ proc'[p].at \in {"idle", "form"}
        => UNCHANGED <<status, answers, row>>
    BY <2>1, RestingLeavesTables
  <2> HIDE DEF Step
  <2>4. CASE p # e
    <3>1. proc'[e] = proc[e]
      BY <1>1, <2>2, <2>4
    <3>2. CASE proc[e].at = "idle"
      BY <1>1, <1>3, <3>1, <3>2
    <3>3. CASE proc[e].at # "idle"
      <4>1. ASSUME alone'[e] PROVE UNCHANGED <<status, answers, row>>
        <5>1. OthersRest(e) /\ OthersRest(e)'
          BY <1>1, <1>2, <3>1, <3>3, <4>1
        <5> QED BY <2>3, <2>4, <5>1 DEF OthersRest
      <4>2. UNCHANGED <<status, answers, row>> /\ AloneOK(e) => AloneOK(e)'
        BY <3>1 DEF AloneOK, LoadOK
      <4> QED BY <1>1, <3>1, <4>1, <4>2
    <3> QED BY <3>2, <3>3
  <2>5. CASE p = e
    <3>1. \/ Store(e) \/ Load(e) \/ AwaitRaises(e)
          \/ OpenForm(e) \/ \E l \in Langs, s \in Statuses : SubmitForm(e, l, s)
      BY <2>1, <2>5 DEF Edit
    <3>2. CASE Store(e)
      BY <3>2, AloneStores, EditorPlaces
    <3>3. CASE Load(e)
      BY <3>3, AloneLoads, EditorPlaces
    <3>4. CASE AwaitRaises(e)
      <4>1. proc'[e].at = "idle"
        BY <1>1, <3>4, EndChanges DEF AwaitRaises
      <4> QED BY <1>3, <3>4, <4>1, EditorPlaces
    <3>5. CASE OpenForm(e) \/ \E l \in Langs, s \in Statuses : SubmitForm(e, l, s)
      BY <3>5, AloneOpens, EditorPlaces
    <3> QED BY <3>1, <3>2, <3>3, <3>4, <3>5
  <2> QED BY <2>4, <2>5
<1> QED BY <1>5, <1>6

LEMMA AloneAlways == MCSpec => [](StoreInv /\ AnsweredInv /\ AloneInv)
<1>1. MCInit => StoreInv /\ AnsweredInv /\ AloneInv
  BY InitIsSound, AnsweredInit, AloneInit DEF MCInit
<1>2. StoreInv /\ AnsweredInv /\ AloneInv /\ [MCNext]_<<vars, history>> =>
        (StoreInv /\ AnsweredInv /\ AloneInv)'
  <2>1. [MCNext]_<<vars, history>> => [Next]_vars
    BY DEF MCNext
  <2> QED BY <2>1, StepIsSound, AnsweredStep, AloneStep
<1> QED BY <1>1, <1>2, PTL DEF MCSpec

\* A form that is saved while nobody else is at work repairs whatever lost
\* races, failed statements, restarts and scripts have left behind, for any
\* languages, forms and faults before it: it ends with the entry as stored in
\* memory and with no voice cached but of the answer as it stands.
THEOREM SavedFormsRepair == MCSpec => SavedFormRepairs
<1>1. StoreInv /\ AnsweredInv /\ AloneInv /\ [MCNext]_<<vars, history>> =>
        [\A e \in Editors :
           /\ alone[e] /\ proc[e].at = "assign"
           /\ proc'[e].at = "idle" /\ proc'[e].outcome = "saved"
           => Current' = Loaded' /\ CacheSpeaksAnswer']_<<vars, history>>
  <2> SUFFICES ASSUME StoreInv, AnsweredInv, AloneInv, MCNext, NEW e \in Editors,
                      alone[e], proc[e].at = "assign",
                      proc'[e].at = "idle", proc'[e].outcome = "saved"
               PROVE  Current' = Loaded' /\ CacheSpeaksAnswer'
    OBVIOUS
  <2>1. /\ ShapeOK /\ DataOK /\ e \in Processes /\ e \notin Visitors /\ e \notin Scripts /\ e # Warmer
        /\ AloneOK(e) /\ Next
    BY Kinds DEF StoreInv, AloneInv, MCNext
  <2>2. ~Restart
    BY <2>1, RestartChanges
  <2>3. Assign(e)
    <3>1. PICK p \in Processes :
            /\ \A q \in Processes \ {p} : proc'[q] = proc[q]
            /\ p \in Editors =>
                 \/ Edit(p) \/ OpenForm(p) \/ AwaitRaises(p)
                 \/ \E l \in Langs, s \in Statuses : SubmitForm(p, l, s)
      BY <2>1, <2>2, StepsHaveOwners, OnlyOneMoves
    <3>2. p = e
      BY <2>1, <3>1
    <3>3. ~AwaitRaises(e)
      BY DEF AwaitRaises, Awaits
    <3> QED BY <3>1, <3>2, <3>3
            DEF Edit, Store, Upsert, PurgeSelect, PurgeDelete, PurgeFiles, WriteForm,
                Load, LoadFaqs, LoadKeywords, LoadAnswers, OpenForm, SubmitForm
  <2>4. Current' = Loaded' /\ UNCHANGED <<answers, row, file>>
    BY <2>1, <2>3, WholeAssign DEF AloneOK
  <2>5. CacheSpeaksAnswer'
    <3>1. \A l \in Langs : ~row[l]
      BY <2>1 DEF AloneOK, Loading
    <3> QED BY <2>4, <3>1 DEF CacheSpeaksAnswer
  <2> QED BY <2>4, <2>5
<1> QED BY <1>1, AloneAlways, PTL DEF MCSpec, SavedFormRepairs

-----------------------------------------------------------------------------
(* A pipeline that has the system to itself and translates an answer.      *)

Purging == {"purgeSelect", "purgeDelete", "purgeFiles"}
Speaking == {"lookup", "readFile", "synthesize", "saveRow"}

\* What is stored of t's language is t, and so is its voice, if there is one.
Clean(t) == answers[t.lang] = t /\ (row[t.lang] => file[t.lang] \in {t, Nothing})

\* The answers it has stored stay clean, the one it is storing is on its way to
\* it; the operator's language is another one than those.
ServedOK(v) ==
  /\ proc[v].at \in {"translate", "upsert"} => \A t \in wrote[v] : t.lang # proc[v].lang
  /\ proc[v].at \in {"translate", "upsert", "show"} \cup Loading => \A t \in wrote[v] : Clean(t)
  /\ proc[v].at \in Purging =>
       /\ answers[proc[v].lang] = proc[v].text
       /\ \A t \in wrote[v] : t = proc[v].text \/ (t.lang # proc[v].lang /\ Clean(t))
  /\ proc[v].at = "purgeFiles" => ~row[proc[v].lang]
  /\ LoadOK(v)
  /\ proc[v].at \in {"translate", "show"} \cup Speaking /\ wrote[v] # {} => Current = Loaded
  /\ proc[v].at = "show" => proc[v].shown = Nothing
  /\ proc[v].at # "idle" /\ proc[v].shown = Nothing /\ proc[v].operator # Nothing =>
       /\ \A t \in wrote[v] : t.lang # proc[v].operator
       /\ proc[v].at \in {"translate", "upsert"} => proc[v].lang # proc[v].operator
  /\ proc[v].at \in Speaking /\ proc[v].text \in wrote[v] =>
       /\ Clean(proc[v].text)
       /\ proc[v].at = "readFile" => proc[v].seen = row[proc[v].lang]
       /\ proc[v].at = "saveRow" => file[proc[v].lang] = proc[v].text

\* What it has come to when the voice has been sent.
Served(v) ==
  proc[v].outcome = "spoken" /\ proc[v].text \in wrote[v] =>
    LET l == proc[v].text.lang
    IN  {proc[v].heard, answers[l], file[l]} = {proc[v].text} /\ row[l] /\ Current = Loaded

ServedInv ==
  \A v \in Visitors :
    /\ wrote[v] \subseteq Texts
    /\ alone[v] => OthersRest(v) /\ ServedOK(v) /\ Served(v)

\* A pipeline under way has not spoken.
LEMMA UnderWay ==
  ASSUME StoreInv, NEW v \in Visitors, proc[v].at # "idle" PROVE Served(v)
BY DEF StoreInv, VisitorOK, Served

LEMMA ServedInit == MCInit => ServedInv
BY DEF MCInit, Handlers, ServedInv

\* The step of the history variables, for one pipeline.
Wrote(v) ==
  wrote'[v] = IF Begins(v) THEN {}
              ELSE IF proc[v].at = "upsert" /\ proc'[v].at \notin {"upsert", "idle"}
              THEN wrote[v] \cup {proc[v].text}
              ELSE wrote[v]

\* It starts with nothing stored of its own.
LEMMA ServedMatch ==
  ASSUME StoreInv, StoreInv', NEW v \in Visitors, Wrote(v),
         NEW l \in Langs, NEW o \in Operators, Match(v, l, o)
  PROVE  Begins(v) => ServedOK(v)'
<1>1. ShapeOK /\ v \in Processes /\ proc[v].at = "idle"
  BY Kinds DEF StoreInv, Match
<1>2. PICK where, s, how :
        /\ Become(v, [at |-> where, held |-> Len(heap), lang |-> l, outcome |-> how,
                      text |-> IF s = Nothing THEN Nothing ELSE Current[s],
                      operator |-> IF o = l THEN Nothing ELSE o, shown |-> Nothing])
        /\ where \in {"show", "translate", "idle"}
  BY DEF Match
<1>3. /\ proc'[v].at = where /\ proc'[v].lang = l /\ proc'[v].shown = Nothing
      /\ proc'[v].operator = IF o = l THEN Nothing ELSE o
  BY <1>1, <1>2, BecomeChanges
<1>4. ASSUME Begins(v) PROVE wrote'[v] = {}
  BY <1>4 DEF Wrote
<1> QED BY <1>2, <1>3, <1>4 DEF ServedOK, LoadOK, Purging, Speaking, Loading

\* What Answered leaves to show or to speak.
LEMMA ServedAnswer ==
  ASSUME StoreInv, StoreInv', NEW v \in Visitors, NEW t \in Texts, Answered(v, t), Wrote(v),
         wrote[v] \subseteq Texts, UNCHANGED <<status, answers, row, file>>,
         proc[v].at \in {"translate", "assign"}, \A w \in wrote[v] : Clean(w),
         wrote[v] # {} => Current' = Loaded',
         proc[v].shown = Nothing /\ proc[v].operator # Nothing =>
           \A w \in wrote[v] : w.lang # proc[v].operator
  PROVE  ServedOK(v)'
<1>1. ShapeOK /\ v \in Processes
  BY Kinds DEF StoreInv
<1>2. /\ proc'[v].at \in {"show", "lookup"} /\ proc'[v].shown = Nothing
      /\ proc'[v].at = "show" => proc[v].shown = Nothing /\ proc'[v].operator = proc[v].operator
      /\ proc'[v].at = "lookup" => proc'[v].operator = Nothing
  <2>1. CASE proc[v].shown = Nothing
    <3>1. Become(v, [at |-> "show", lang |-> t.lang, text |-> t])
      BY <2>1 DEF Answered
    <3> QED BY <1>1, <2>1, <3>1, BecomeChanges
  <2>2. CASE proc[v].shown # Nothing
    <3>1. Become(v, [at |-> "lookup", lang |-> proc[v].shown.lang, text |-> proc[v].shown,
                     shown |-> Nothing, operator |-> Nothing])
      BY <2>2 DEF Answered
    <3> QED BY <1>1, <3>1, BecomeChanges
  <2> QED BY <2>1, <2>2
<1>3. wrote'[v] = wrote[v]
  BY <1>2 DEF Wrote, Begins
<1>4. \A w \in wrote'[v] : Clean(w)'
  BY <1>3 DEF Clean
<1> QED BY <1>2, <1>3, <1>4 DEF ServedOK, LoadOK, Purging, Speaking, Loading

\* From the answer shown to the upsert of a translation.
LEMMA ServedShow ==
  ASSUME StoreInv, StoreInv', NEW v \in Visitors, Wrote(v), ServedOK(v), wrote[v] \subseteq Texts,
         Show(v) \/ TranslateAnswers(v)
  PROVE  ServedOK(v)' /\ Served(v)'
<1>1. /\ ShapeOK /\ v \in Processes /\ ProcessOK(v) /\ VisitorOK(v)
      /\ UNCHANGED <<status, answers, row, file, heap>>
  BY Kinds DEF StoreInv, Show, TranslateAnswers, db
<1>2. wrote'[v] = wrote[v]
  BY DEF Wrote, Begins, Show, TranslateAnswers
<1>3. /\ \A t \in wrote[v] : Clean(t) /\ Clean(t)'
      /\ Current' = Current /\ Loaded' = Loaded
      /\ wrote[v] # {} => Current = Loaded
  BY <1>1 DEF ServedOK, Show, TranslateAnswers, Clean, Current, Loaded
<1>4. CASE Show(v)
  <2> DEFINE o == proc[v].operator
             entry == heap[proc[v].held]
  <2>1. /\ proc[v].at = "show" /\ proc[v].shown = Nothing /\ proc[v].text \in Texts
        /\ o # Nothing => \A t \in wrote[v] : t.lang # o
    BY <1>1, <1>4 DEF Show, ServedOK, ProcessOK, Carries, Carrying
  <2>2. CASE Become(v, [at |-> "lookup", operator |-> Nothing])
    <3>1. /\ proc'[v].at = "lookup" /\ proc'[v].operator = Nothing
          /\ proc'[v].text = proc[v].text
      BY <1>1, <2>2, BecomeChanges
    <3>2. ServedOK(v)'
      BY <1>2, <1>3, <3>1 DEF ServedOK, LoadOK, Purging, Speaking, Loading
    <3> QED BY <3>1, <3>2, UnderWay, <1>1 DEF StoreInv, VisitorOK, Served
  <2>3. ASSUME NEW s, o \in Langs,
               Become(v, [at |-> "translate", lang |-> o, text |-> entry[s], shown |-> proc[v].text])
        PROVE  ServedOK(v)' /\ Served(v)'
    <3>1. /\ proc'[v].at = "translate" /\ proc'[v].lang = o /\ proc'[v].shown = proc[v].text
      BY <1>1, <2>3, BecomeChanges
    <3>2. o # Nothing /\ proc[v].text # Nothing
      BY <2>1, <2>3, StoreAssumption
    <3> HIDE DEF o
    <3>3. ServedOK(v)'
      BY <1>2, <1>3, <2>1, <3>1, <3>2 DEF ServedOK, LoadOK, Purging, Speaking, Loading
    <3> QED BY <3>1, <3>3 DEF StoreInv, VisitorOK, Served
  <2> QED BY <1>4, <2>2, <2>3 DEF Show
<1>5. CASE TranslateAnswers(v)
  <2>1. /\ proc[v].at = "translate" /\ proc[v].text \in Texts
        /\ \A t \in wrote[v] : t.lang # proc[v].lang
        /\ proc[v].shown = Nothing /\ proc[v].operator # Nothing =>
             /\ \A t \in wrote[v] : t.lang # proc[v].operator
             /\ proc[v].lang # proc[v].operator
    BY <1>1, <1>5 DEF TranslateAnswers, ServedOK, ProcessOK
  <2>2. CASE Answered(v, proc[v].text)
    <3>1. ServedOK(v)'
      BY <1>1, <1>3, <2>1, <2>2, ServedAnswer
    <3>2. proc'[v].at # "idle"
      BY <1>1, <2>2, BecomeChanges DEF Answered
    <3> QED BY <3>1, <3>2 DEF StoreInv, VisitorOK, Served
  <2>3. ASSUME NEW m, Become(v, [at |-> "upsert", text |-> Machine(proc[v].lang, proc[v].text, m)])
        PROVE  ServedOK(v)' /\ Served(v)'
    <3>1. /\ proc'[v].at = "upsert" /\ proc'[v].lang = proc[v].lang
          /\ proc'[v].shown = proc[v].shown /\ proc'[v].operator = proc[v].operator
      BY <1>1, <2>3, BecomeChanges
    <3>2. ServedOK(v)'
      BY <1>2, <1>3, <2>1, <3>1 DEF ServedOK, LoadOK, Purging, Speaking, Loading
    <3> QED BY <3>1, <3>2 DEF StoreInv, VisitorOK, Served
  <2> QED BY <1>5, <2>2, <2>3 DEF TranslateAnswers, Translated
<1> QED BY <1>4, <1>5

\* The upsert, the purge of the language's voice and the dict it matched.
LEMMA ServedStore ==
  ASSUME StoreInv, StoreInv', AnsweredInv, NEW v \in Visitors, Wrote(v), ServedOK(v),
         wrote[v] \subseteq Texts, Store(v)
  PROVE  ServedOK(v)' /\ Served(v)'
<1> DEFINE l == proc[v].lang
           t == proc[v].text
<1>1. /\ ShapeOK /\ DataOK /\ v \in Processes /\ row \in [Langs -> BOOLEAN]
      /\ proc[v].at \in {"upsert"} \cup Purging => t \in Texts /\ t.lang = l
      /\ proc[v].at # "write"
  BY Kinds DEF StoreInv, ProcessOK, VisitorOK, Carries, Carrying, Loading, Purging,
               AnsweredInv, AnsweredDataOK
<1>2. l \in Langs
  BY <1>1 DEF StoreInv, ProcessOK
<1>3. ASSUME NEW next \in {"loadFaqs"} \cup Purging, NEW seen,
             Become(v, [at |-> next]) \/ Become(v, [at |-> next, seen |-> seen])
      PROVE  /\ proc'[v].at = next /\ proc'[v].lang = l /\ proc'[v].text = t
             /\ proc'[v].shown = proc[v].shown /\ proc'[v].operator = proc[v].operator
             /\ proc'[v].at # "idle" /\ Served(v)'
  <2>1. /\ proc'[v].at = next /\ proc'[v].lang = l /\ proc'[v].text = t
        /\ proc'[v].shown = proc[v].shown /\ proc'[v].operator = proc[v].operator
    BY <1>1, <1>3, BecomeChanges
  <2>2. proc'[v].at # "idle"
    BY <2>1 DEF Purging
  <2> QED BY <2>1, <2>2 DEF StoreInv, VisitorOK, Served
<1>4. CASE Upsert(v)
  <2>1. /\ proc[v].at = "upsert" /\ UNCHANGED <<row, file>>
        /\ answers' = [answers EXCEPT ![l] = t] /\ Become(v, [at |-> "purgeSelect"])
    BY <1>4 DEF Upsert
  <2>2. /\ proc'[v].at = "purgeSelect" /\ proc'[v].lang = l /\ proc'[v].text = t
        /\ proc'[v].shown = proc[v].shown /\ proc'[v].operator = proc[v].operator /\ Served(v)'
    BY <1>3, <2>1 DEF Purging
  <2>3. wrote'[v] = wrote[v] \cup {t}
    BY <2>1, <2>2 DEF Wrote, Begins
  <2>4. /\ answers'[l] = t /\ t.lang = l
        /\ \A w \in wrote[v] : w.lang # l /\ Clean(w)'
    BY <1>1, <1>2, <2>1 DEF ServedOK, Clean, DataOK, Entries, Texts
  <2>5. proc[v].shown = Nothing /\ proc[v].operator # Nothing =>
          \A w \in wrote'[v] : w.lang # proc[v].operator
    BY <2>1, <2>3, <2>4 DEF ServedOK
  <2> HIDE DEF l, t
  <2> QED BY <2>2, <2>3, <2>4, <2>5 DEF ServedOK, LoadOK, Purging, Speaking, Loading
<1>5. CASE PurgeSelect(v) \/ PurgeDelete(v) \/ PurgeFiles(v)
  <2>1. /\ proc[v].at \in Purging /\ UNCHANGED answers
        /\ answers[l] = t /\ t.lang = l
        /\ \A w \in wrote[v] : w = t \/ (w.lang # l /\ Clean(w))
        /\ proc[v].shown = Nothing /\ proc[v].operator # Nothing =>
             \A w \in wrote[v] : w.lang # proc[v].operator
    BY <1>1, <1>2, <1>5 DEF PurgeSelect, PurgeDelete, PurgeFiles, Purging, ServedOK, db
  <2>2. wrote'[v] = wrote[v]
    BY <2>1 DEF Wrote, Begins, Purging
  <2>3. \A m \in Langs \ {l} : row'[m] = row[m] /\ file'[m] = file[m]
    BY <1>1, <1>5 DEF PurgeSelect, PurgeDelete, PurgeFiles, db, DataOK, Entries
  <2>4. \A w \in wrote[v] : w = t \/ (w.lang # l /\ Clean(w)')
    BY <2>1, <2>3 DEF Clean, Texts
  <2>5. CASE PurgeSelect(v)
    <3>1. /\ proc'[v].at = "purgeDelete" /\ proc'[v].lang = l /\ proc'[v].text = t
          /\ proc'[v].shown = proc[v].shown /\ proc'[v].operator = proc[v].operator /\ Served(v)'
      BY <1>3, <2>5 DEF PurgeSelect, Purging
    <3> HIDE DEF l, t
    <3> QED BY <2>1, <2>2, <2>4, <3>1 DEF ServedOK, LoadOK, Purging, Speaking, Loading
  <2>6. CASE PurgeDelete(v)
    <3>1. /\ proc'[v].at = "purgeFiles" /\ proc'[v].lang = l /\ proc'[v].text = t
          /\ proc'[v].shown = proc[v].shown /\ proc'[v].operator = proc[v].operator /\ Served(v)'
      BY <1>3, <2>6 DEF PurgeDelete, Purging
    <3>2. ~row'[l]
      BY <1>1, <1>2, <2>6 DEF PurgeDelete
    <3> HIDE DEF l, t
    <3> QED BY <2>1, <2>2, <2>4, <3>1, <3>2 DEF ServedOK, LoadOK, Purging, Speaking, Loading
  <2>7. CASE PurgeFiles(v)
    <3>1. /\ proc'[v].at = "loadFaqs" /\ proc'[v].lang = l /\ proc'[v].text = t
          /\ proc'[v].shown = proc[v].shown /\ proc'[v].operator = proc[v].operator /\ Served(v)'
      BY <1>3, <2>7 DEF PurgeFiles
    <3>2. ~row'[l]
      BY <2>7 DEF PurgeFiles, ServedOK, db
    <3>3. \A w \in wrote[v] : Clean(w)'
      BY <2>1, <2>4, <3>2 DEF Clean
    <3> HIDE DEF l, t
    <3> QED BY <2>1, <2>2, <3>1, <3>3 DEF ServedOK, LoadOK, Purging, Speaking, Loading
  <2> QED BY <1>5, <2>5, <2>6, <2>7
<1> QED BY <1>1, <1>4, <1>5 DEF Store, WriteForm

\* The reload: the copy in memory is what is stored when it ends.
LEMMA ServedLoad ==
  ASSUME StoreInv, StoreInv', NEW v \in Visitors, Wrote(v), ServedOK(v), wrote[v] \subseteq Texts,
         Load(v)
  PROVE  ServedOK(v)' /\ Served(v)'
<1>1. /\ ShapeOK /\ v \in Processes /\ v # Warmer /\ LoadOK(v)
      /\ proc[v].at \in Loading /\ proc[v].text \in Texts
  BY Kinds DEF StoreInv, ServedOK, ProcessOK, Carries, Load, LoadFaqs, LoadKeywords, LoadAnswers,
               Assign, Loading
<1>2. /\ \A t \in wrote[v] : Clean(t)
      /\ proc[v].shown = Nothing /\ proc[v].operator # Nothing =>
           \A t \in wrote[v] : t.lang # proc[v].operator
  BY <1>1 DEF ServedOK, Loading
<1>3. CASE LoadFaqs(v) \/ LoadKeywords(v) \/ LoadAnswers(v)
  <2>1. /\ LoadOK(v)' /\ proc'[v].at \in Loading \ {"loadFaqs"}
        /\ proc'[v].shown = proc[v].shown /\ proc'[v].operator = proc[v].operator
        /\ UNCHANGED <<answers, row, file>>
    BY <1>1, <1>3, WholeLoads
  <2>2. wrote'[v] = wrote[v]
    BY <1>1 DEF Wrote, Begins, Loading
  <2>3. \A t \in wrote[v] : Clean(t)'
    BY <1>2, <2>1 DEF Clean
  <2>4. ServedOK(v)'
    BY <1>1, <1>2, <2>1, <2>2, <2>3 DEF ServedOK, Purging, Speaking, Loading
  <2> QED BY <2>1, <2>4 DEF StoreInv, VisitorOK, Served, Loading
<1>4. CASE Assign(v)
  <2>1. /\ Answered(v, proc[v].text) /\ Current' = Loaded'
        /\ UNCHANGED <<status, answers, row, file>> /\ proc[v].at = "assign"
    BY <1>1, <1>4, WholeAssign DEF Assign
  <2>2. ServedOK(v)'
    BY <1>1, <1>2, <2>1, ServedAnswer
  <2>3. proc'[v].at # "idle"
    BY <1>1, <2>1, BecomeChanges DEF Answered
  <2> QED BY <2>2, <2>3 DEF StoreInv, VisitorOK, Served
<1> QED BY <1>3, <1>4 DEF Load

\* The voice: what the cache holds of the answer is what is synthesized of it.
LEMMA ServedVoice ==
  ASSUME StoreInv, StoreInv', AnsweredInv, NEW v \in Visitors, Wrote(v), ServedOK(v),
         wrote[v] \subseteq Texts, Voice(v)
  PROVE  ServedOK(v)' /\ Served(v)'
<1>0. PICK l, t : l = proc[v].lang /\ t = proc[v].text
  OBVIOUS
<1>1. /\ ShapeOK /\ DataOK /\ v \in Processes /\ v # Warmer /\ row \in [Langs -> BOOLEAN]
      /\ proc[v].at \in Speaking /\ l \in Langs /\ t \in Texts /\ t.lang = l
      /\ UNCHANGED <<status, answers, heap>>
  BY <1>0, Kinds DEF StoreInv, ProcessOK, Carries, Carrying, Speaking, AnsweredInv, AnsweredDataOK,
               Voice, LookupRow, ReadFile, SynthesizeAnswers, SaveRow, db
<1>2. wrote'[v] = wrote[v]
  BY <1>0, <1>1 DEF Wrote, Begins, Speaking
<1>3. /\ Current' = Current /\ Loaded' = Loaded
      /\ wrote[v] # {} => Current = Loaded
      /\ t \in wrote[v] => Clean(t)
  BY <1>0, <1>1 DEF ServedOK, Current, Loaded
<1>4. ASSUME NEW next \in Speaking, NEW seen,
             Become(v, [at |-> next]) \/ Become(v, [at |-> next, seen |-> seen]),
             t \in wrote[v] => Clean(t)',
             next = "readFile" => seen = row'[l] /\ Become(v, [at |-> next, seen |-> seen]),
             next = "saveRow" => file'[l] = t
      PROVE  ServedOK(v)' /\ Served(v)'
  <2>1. /\ proc'[v].at = next /\ proc'[v].lang = l /\ proc'[v].text = t
        /\ proc'[v].shown = proc[v].shown /\ proc'[v].operator = proc[v].operator
    BY <1>0, <1>1, <1>4, BecomeChanges
  <2>2. next = "readFile" => proc'[v].seen = row'[l]
    <3>1. ASSUME Become(v, [at |-> next, seen |-> seen]) PROVE proc'[v].seen = seen
      BY <1>1, <3>1 DEF Become, With, ShapeOK, Fields
    <3> QED BY <1>0, <1>4, <3>1
  <2>3. proc[v].shown = Nothing /\ proc[v].operator # Nothing =>
          \A w \in wrote[v] : w.lang # proc[v].operator
    BY <1>0, <1>1 DEF ServedOK, Speaking
  <2>4. ServedOK(v)'
    BY <1>0, <1>2, <1>3, <1>4, <2>1, <2>2, <2>3 DEF ServedOK, LoadOK, Purging, Speaking, Loading
  <2> QED BY <1>0, <2>1, <2>4 DEF StoreInv, VisitorOK, Served, Speaking
<1>5. ASSUME NEW spoken, Speak(v, spoken),
             t \in wrote[v] => spoken = t /\ file'[l] = t /\ row'[l]
      PROVE  ServedOK(v)' /\ Served(v)'
  <2>1. /\ proc'[v].at = "idle" /\ proc'[v].text = t
        /\ proc'[v].heard = spoken /\ proc'[v].shown = Nothing
    BY <1>0, <1>1, <1>5, SpeakChanges
  <2>2. ServedOK(v)'
    BY <1>0, <2>1 DEF ServedOK, LoadOK, Purging, Speaking, Loading
  <2>3. Served(v)'
    BY <1>0, <1>1, <1>2, <1>3, <1>5, <2>1 DEF Served, Clean
  <2> QED BY <1>0, <2>2, <2>3
<1>6. ASSUME NEW how, how # "spoken", End(v, how) PROVE ServedOK(v)' /\ Served(v)'
  BY <1>0, <1>1, <1>6, EndChanges DEF ServedOK, Served, LoadOK, Purging, Speaking, Loading
<1>7. CASE LookupRow(v)
  <2>1. Become(v, [at |-> "readFile", seen |-> row[l]]) /\ UNCHANGED <<row, file>>
    BY <1>0, <1>7 DEF LookupRow, db
  <2>2. t \in wrote[v] => Clean(t)'
    BY <1>0, <1>1, <1>3, <2>1 DEF Clean
  <2> QED BY <1>0, <1>4, <2>1, <2>2 DEF Speaking
<1>8. CASE ReadFile(v)
  <2>1. UNCHANGED <<row, file>> /\ proc[v].at = "readFile"
    BY <1>0, <1>8 DEF ReadFile, db
  <2>2. t \in wrote[v] => Clean(t)' /\ proc[v].seen = row[l]
    BY <1>0, <1>1, <1>3, <2>1 DEF Clean, ServedOK, Speaking
  <2>3. CASE proc[v].seen /\ file[l] # Nothing
    <3>1. Speak(v, file[l])
      BY <1>0, <1>8, <2>3 DEF ReadFile
    <3>2. t \in wrote[v] => file[l] = t /\ row[l]
      BY <1>0, <1>1, <1>3, <2>2, <2>3 DEF Clean
    <3> QED BY <1>0, <1>5, <2>1, <3>1, <3>2
  <2>4. CASE ~(proc[v].seen /\ file[l] # Nothing)
    <3>1. Become(v, [at |-> "synthesize"])
      BY <1>0, <1>8, <2>4 DEF ReadFile
    <3> QED BY <1>0, <1>4, <2>2, <3>1 DEF Speaking
  <2> QED BY <1>0, <2>3, <2>4
<1>9. CASE SynthesizeAnswers(v)
  <2>1. CASE file' = [file EXCEPT ![l] = t] /\ Become(v, [at |-> "saveRow"])
    <3>1. file'[l] = t
      BY <1>0, <1>1, <2>1 DEF DataOK, Entries
    <3>2. t \in wrote[v] => Clean(t)'
      BY <1>0, <1>1, <1>3, <3>1 DEF Clean
    <3> QED BY <1>0, <1>4, <2>1, <3>1, <3>2 DEF Speaking
  <2> QED BY <1>0, <1>6, <1>9, <2>1 DEF SynthesizeAnswers
<1>10. CASE SaveRow(v)
  <2>1. /\ proc[v].at = "saveRow" /\ UNCHANGED file /\ row' = [row EXCEPT ![l] = TRUE]
        /\ Speak(v, t)
    BY <1>0, <1>10 DEF SaveRow
  <2>2. row'[l] /\ (t \in wrote[v] => file'[l] = t)
    BY <1>0, <1>1, <2>1 DEF ServedOK, Speaking
  <2> QED BY <1>0, <1>5, <2>1, <2>2
<1> QED BY <1>0, <1>7, <1>8, <1>9, <1>10 DEF Voice

\* A process at rest, before its step and after it, leaves the pipeline's part alone.
LEMMA ServedRests ==
  ASSUME StoreInv, NEW v \in Visitors, Wrote(v), ServedOK(v), Served(v), proc'[v] = proc[v],
         UNCHANGED <<status, answers, row, file, heap>>
  PROVE  wrote'[v] = wrote[v] /\ ServedOK(v)' /\ Served(v)'
<1>1. wrote'[v] = wrote[v] /\ Current' = Current /\ Loaded' = Loaded
  BY DEF Wrote, Begins, Current, Loaded
<1>2. \A t : Clean(t)' = Clean(t)
  BY DEF Clean
<1> QED BY <1>1, <1>2 DEF ServedOK, Served, LoadOK

LEMMA ServedStep ==
  StoreInv /\ StoreInv' /\ AnsweredInv /\ ServedInv /\ [MCNext]_<<vars, history>> => ServedInv'
<1> SUFFICES ASSUME StoreInv, StoreInv', AnsweredInv, ServedInv, MCNext PROVE ServedInv'
  <2>1. ASSUME ServedInv, UNCHANGED <<vars, history>> PROVE ServedInv'
    <3>1. Current' = Current /\ Loaded' = Loaded
      BY <2>1 DEF vars, db, Current, Loaded
    <3>2. \A t : Clean(t)' = Clean(t)
      BY <2>1 DEF vars, db, Clean
    <3>3. UNCHANGED <<alone, wrote, proc, status, answers, row, file>>
      BY <2>1 DEF vars, db, history
    <3> QED BY <2>1, <3>1, <3>2, <3>3 DEF ServedInv, ServedOK, Served, LoadOK, OthersRest
  <2> QED BY <2>1
<1> SUFFICES ASSUME NEW v \in Visitors
             PROVE  /\ wrote'[v] \subseteq Texts
                    /\ alone'[v] => OthersRest(v)' /\ ServedOK(v)' /\ Served(v)'
  BY DEF ServedInv
<1>1. /\ ShapeOK /\ v \in Processes /\ v # Warmer /\ Next /\ Wrote(v) /\ wrote[v] \subseteq Texts
      /\ alone'[v] => OthersRest(v)' /\ (alone[v] \/ Begins(v))
      /\ alone[v] => OthersRest(v) /\ ServedOK(v) /\ Served(v)
  BY Kinds DEF StoreInv, ServedInv, MCNext, Wrote, Handlers, OthersRest
<1>2. wrote'[v] \subseteq Texts
  <2>1. proc[v].at = "upsert" => proc[v].text \in Texts
    BY <1>1 DEF StoreInv, ProcessOK, Carries, Carrying
  <2> QED BY <1>1, <2>1 DEF Wrote
<1>3. CASE Restart
  <2>1. /\ proc'[v].at = "idle" /\ proc'[v].text = proc[v].text /\ proc'[v].heard = proc[v].heard
        /\ proc[v].at # "idle" => proc'[v].outcome = "lost"
        /\ proc[v].at = "idle" => proc'[v].outcome = proc[v].outcome
    BY <1>1, <1>3, RestartChanges, Kinds DEF StoreInv, VisitorOK, Carrying, Loading
  <2>2. /\ UNCHANGED <<answers, row, file>> /\ Current' = Loaded'
    BY <1>3 DEF Restart, db, Current, Loaded
  <2>3. wrote'[v] = wrote[v] /\ ~Begins(v)
    BY <1>1, <2>1 DEF Wrote, Begins
  <2>4. ServedOK(v)'
    BY <2>1 DEF ServedOK, LoadOK, Purging, Speaking, Loading
  <2>5. Served(v) => Served(v)'
    BY <2>1, <2>2, <2>3 DEF Served
  <2> QED BY <1>1, <1>2, <2>3, <2>4, <2>5
<1>4. CASE ~Restart
  <2> DEFINE Step(p) ==
        \/ Store(p) \/ Load(p) \/ Voice(p) \/ TranslateAnswers(p) \/ Show(p) \/ AwaitRaises(p)
        \/ OpenForm(p) \/ \E l \in Langs, o \in Operators : Match(p, l, o)
        \/ \E l \in Langs, s \in Statuses : SubmitForm(p, l, s)
        \/ p = Seed /\ StartSeed
        \/ p = Migration /\ (StartMigration \/ MigrateAnswer)
        \/ p = Warmer /\ (StartWarmer \/ WarmNext \/ WarmCheck)
  <2>1. PICK p \in Processes :
          /\ Step(p)
          /\ p \in Visitors =>
               Visit(p) \/ AwaitRaises(p) \/ \E l \in Langs, o \in Operators : Match(p, l, o)
    BY <1>1, <1>4, StepsHaveOwners
  <2>2. \A q \in Processes \ {p} : proc'[q] = proc[q]
    BY <2>1, OnlyOneMoves
  <2>3. /\ proc[p].at \in {"idle", "form"}
        /\ proc'[p].at \in {"idle", "form"}
        => UNCHANGED <<status, answers, row, file, heap>>
    BY <2>1, RestingLeavesTables
  <2> HIDE DEF Step
  <2>4. CASE p # v
    <3>1. proc'[v] = proc[v] /\ ~Begins(v)
      BY <1>1, <2>2, <2>4 DEF Begins
    <3>2. ASSUME alone'[v] PROVE ServedOK(v)' /\ Served(v)'
      <4>1. OthersRest(v) /\ OthersRest(v)' /\ ServedOK(v) /\ Served(v)
        BY <1>1, <3>1, <3>2
      <4>2. UNCHANGED <<status, answers, row, file, heap>>
        BY <2>3, <2>4, <4>1 DEF OthersRest
      <4> QED BY <1>1, <3>1, <4>1, <4>2, ServedRests
    <3> QED BY <1>1, <1>2, <3>2
  <2>5. CASE p = v
    <3>1. ASSUME Visit(v) PROVE alone'[v] => ServedOK(v)' /\ Served(v)'
      <4>1. ~Begins(v)
        BY <3>1 DEF Visit, Show, TranslateAnswers, Begins,
           Store, Upsert, PurgeSelect, PurgeDelete, PurgeFiles, WriteForm,
           Load, LoadFaqs, LoadKeywords, LoadAnswers, Assign,
           Voice, LookupRow, ReadFile, SynthesizeAnswers, SaveRow
      <4> QED BY <1>1, <3>1, <4>1, ServedShow, ServedStore, ServedLoad, ServedVoice DEF Visit
    <3>2. ASSUME NEW l \in Langs, NEW o \in Operators, Match(v, l, o)
          PROVE  alone'[v] => ServedOK(v)' /\ Served(v)'
      <4>1. CASE Begins(v)
        <5>1. Served(v)'
          BY <4>1 DEF Begins, StoreInv, VisitorOK, Served
        <5> QED BY <1>1, <3>2, <4>1, <5>1, ServedMatch
      <4>2. CASE ~Begins(v)
        <5>1. proc[v].at = "idle" /\ proc'[v].at = "idle"
          BY <3>2, <4>2 DEF Match, Begins
        <5>2. PICK s, how :
                /\ how \in {"none", "raised"}
                /\ \E where :
                     Become(v, [at |-> where, held |-> Len(heap), lang |-> l, outcome |-> how,
                                text |-> s, operator |-> IF o = l THEN Nothing ELSE o,
                                shown |-> Nothing])
          BY <3>2 DEF Match
        <5>3. proc'[v].outcome # "spoken"
          BY <1>1, <5>2, BecomeChanges
        <5> QED BY <5>1, <5>3 DEF ServedOK, Served, LoadOK, Purging, Speaking, Loading
      <4> QED BY <4>1, <4>2
    <3>3. ASSUME AwaitRaises(v) PROVE ServedOK(v)' /\ Served(v)'
      <4>1. proc'[v].at = "idle" /\ proc'[v].outcome = "raised"
        BY <1>1, <3>3, EndChanges DEF AwaitRaises
      <4> QED BY <4>1 DEF ServedOK, Served, LoadOK, Purging, Speaking, Loading
    <3> QED BY <1>1, <1>2, <2>1, <2>5, <3>1, <3>2, <3>3
  <2> QED BY <2>4, <2>5
<1> QED BY <1>3, <1>4

\* Whatever wordings and voices races, faults, edits and scripts have left behind,
\* for any languages, providers and pipelines: whoever's answer is translated while
\* nobody else is at work hears what they are shown, and it is what the table, the
\* cache and the memory hold for the next one.
THEOREM TranslationsAreServed == MCSpec => []TranslationIsServed
<1>1. MCInit => StoreInv /\ AnsweredInv /\ ServedInv
  BY InitIsSound, AnsweredInit, ServedInit DEF MCInit
<1>2. StoreInv /\ AnsweredInv /\ ServedInv /\ [MCNext]_<<vars, history>> =>
        (StoreInv /\ AnsweredInv /\ ServedInv)'
  <2>1. [MCNext]_<<vars, history>> => [Next]_vars
    BY DEF MCNext
  <2> QED BY <2>1, StepIsSound, AnsweredStep, ServedStep
<1>3. ServedInv => TranslationIsServed
  BY DEF ServedInv, Served, TranslationIsServed
<1> QED BY <1>1, <1>2, <1>3, PTL DEF MCSpec

-----------------------------------------------------------------------------
(* Whatever is carried, kept or spoken was an answer in the table once.    *)

WereStored(entry) == \A l \in Langs : entry[l] # Nothing => entry[l] \in stored

StoredDataOK ==
  /\ \A l \in Langs : answers[l] # Nothing => answers[l] \in stored
  /\ \A l \in Langs : file[l] # Nothing => file[l] \in stored
  /\ \A i \in 1 .. Len(heap) : heap[i] # Nothing => WereStored(heap[i])

\* Only a process that is about to store a text may carry one that was never stored.
StoredProcessOK(p) ==
  /\ WereStored(proc[p].loaded.answers)
  /\ p = Warmer => WereStored(proc[p].form)
  /\ proc[p].at = "translate" => proc[p].text \in stored
  /\ Carries(p) /\ proc[p].at \notin {"upsert", "migrate"} => proc[p].text \in stored
  /\ p \in Visitors =>
       /\ proc[p].shown # Nothing => proc[p].shown \in stored
       /\ proc[p].outcome = "spoken" => proc[p].heard \in stored

StoredInv ==
  /\ StoredDataOK
  /\ \A p \in Processes : StoredProcessOK(p)

\* What a step adds to the answers that were ever stored.
StoredGrows == stored' = stored \cup {answers'[l] : l \in Authored(answers')}

LEMMA StoredInit == MCInit => StoredInv
<1> SUFFICES ASSUME MCInit PROVE StoredInv
  OBVIOUS
<1>1. /\ \A l \in Langs : answers[l] = IF FirstAnswers[l] = 0 THEN Typed(l, 0) ELSE Nothing
      /\ \A l \in Langs : answers[l] # Nothing => answers[l] \in stored
  BY DEF MCInit, Init, Authored
<1>2. ASSUME NEW l \in Langs, file[l] # Nothing PROVE file[l] \in stored
  <2>1. file[l] = IF l \in FirstVoices THEN Typed(l, 0) ELSE Nothing
    BY DEF MCInit, Init
  <2>2. FirstAnswers[l] = 0
    BY <1>2, <2>1, StoreAssumption
  <2> QED BY <1>1, <1>2, <2>1, <2>2
<1>3. StoredDataOK
  <2>1. heap = <<Loaded>>
    BY DEF MCInit, Init
  <2>2. \A i \in 1 .. Len(heap) : heap[i] # Nothing => heap[i] = answers
    BY <2>1 DEF Loaded
  <2> QED BY <1>1, <1>2, <2>2 DEF StoredDataOK, WereStored
<1>4. ASSUME NEW p \in Processes PROVE StoredProcessOK(p)
  <2>1. /\ proc[p].at = "idle" /\ proc[p].shown = Nothing /\ proc[p].outcome = "none"
        /\ proc[p].form = NoAnswers /\ proc[p].loaded = NothingLoaded
    BY DEF MCInit, Init
  <2> QED BY <2>1, NothingIsAnswered DEF StoredProcessOK, WereStored, Carries, Carrying, Loading
<1> QED BY <1>3, <1>4 DEF StoredInv

\* A step of one process: what was stored before stays so.
LEMMA OneProcessStaysStored ==
  ASSUME StoredInv, StoredGrows, NEW p \in Processes,
         \A q \in Processes \ {p} : proc'[q] = proc[q],
         StoredDataOK', StoredProcessOK(p)'
  PROVE  StoredInv'
<1>1. \A q \in Processes \ {p} : StoredProcessOK(q)'
  BY DEF StoredInv, StoredGrows, StoredProcessOK, WereStored, Carries
<1> QED BY <1>1 DEF StoredInv

\* An answer in the table has been stored; files and copies in memory may not change.
LEMMA QuietDataStaysStored ==
  ASSUME StoredDataOK, StoredGrows, UNCHANGED <<file, heap>>
  PROVE  StoredDataOK'
<1>1. \A l \in Langs : answers'[l] # Nothing => answers'[l] \in stored'
  BY DEF StoredGrows, Authored
<1> QED BY <1>1 DEF StoredDataOK, StoredGrows, WereStored

LEMMA EndStaysStored ==
  ASSUME StoreInv, StoredInv, StoredGrows, StoredDataOK', NEW p \in Processes,
         NEW how, how # "spoken", End(p, how)
  PROVE  StoredInv'
<1>1. /\ \A q \in Processes \ {p} : proc'[q] = proc[q]
      /\ proc'[p].loaded = NothingLoaded /\ proc'[p].form = NoAnswers
      /\ proc'[p].at = "idle" /\ proc'[p].shown = Nothing /\ proc'[p].outcome = how
  BY EndChanges DEF StoreInv
<1>2. StoredProcessOK(p)'
  BY <1>1, NothingIsAnswered DEF StoredProcessOK, WereStored, Carries, Carrying, Loading
<1> QED BY <1>1, <1>2, OneProcessStaysStored

\* What changes of a process is where it is: a text it carries was stored by then.
LEMMA MoveStaysStored ==
  ASSUME StoreInv, StoredInv, StoredGrows, StoredDataOK', NEW p \in Processes,
         NEW next, NEW seen, next # "translate",
         \/ Become(p, [at |-> next])
         \/ Become(p, [at |-> next, seen |-> seen])
         \/ Become(p, [at |-> next, outcome |-> "none"])
         \/ Become(p, [at |-> next, operator |-> seen]),
         \/ proc[p].text \in stored'
         \/ next \notin IF p \in Visitors THEN Carrying \cup Loading ELSE Carrying
  PROVE  StoredInv'
<1>1. /\ \A q \in Processes \ {p} : proc'[q] = proc[q]
      /\ proc'[p].at = next /\ proc'[p].text = proc[p].text /\ proc'[p].shown = proc[p].shown
      /\ proc'[p].loaded = proc[p].loaded /\ proc'[p].form = proc[p].form
      /\ proc'[p].heard = proc[p].heard /\ proc'[p].outcome \in {proc[p].outcome, "none"}
  BY BecomeChanges DEF StoreInv
<1>2. StoredProcessOK(p)
  BY DEF StoredInv
<1>3. StoredProcessOK(p)'
  BY <1>1, <1>2 DEF StoredProcessOK, WereStored, Carries, StoredGrows
<1> QED BY <1>1, <1>3, OneProcessStaysStored

LEMMA AnswerStaysStored ==
  ASSUME StoreInv, StoredInv, StoredGrows, StoredDataOK', NEW v \in Visitors,
         NEW t \in stored, Answered(v, t)
  PROVE  StoredInv'
<1>1. ShapeOK /\ v \in Processes /\ v # Warmer /\ StoredProcessOK(v)
  BY Kinds DEF StoreInv, StoredInv
<1>2. \/ Become(v, [at |-> "show", lang |-> t.lang, text |-> t])
      \/ /\ proc[v].shown # Nothing
         /\ Become(v, [at |-> "lookup", lang |-> proc[v].shown.lang, text |-> proc[v].shown,
                       shown |-> Nothing, operator |-> Nothing])
  BY DEF Answered
<1>3. /\ \A q \in Processes \ {v} : proc'[q] = proc[q]
      /\ proc'[v].at \in {"show", "lookup"} /\ proc'[v].loaded = proc[v].loaded
      /\ proc'[v].text \in stored /\ proc'[v].shown \in {proc[v].shown, Nothing}
      /\ proc'[v].heard = proc[v].heard /\ proc'[v].outcome = proc[v].outcome
  BY <1>1, <1>2, BecomeChanges DEF StoredProcessOK
<1>4. StoredProcessOK(v)'
  BY <1>1, <1>3 DEF StoredProcessOK, WereStored, StoredGrows
<1> QED BY <1>1, <1>3, <1>4, OneProcessStaysStored

LEMMA StoredVisit ==
  ASSUME StoreInv, StoredInv, StoredGrows, NEW v \in Visitors,
         TranslateAnswers(v) \/ Show(v) \/ \E l \in Langs, o \in Operators : Match(v, l, o)
  PROVE  StoredInv'
<1>1. /\ ShapeOK /\ DataOK /\ ProcessOK(v) /\ VisitorOK(v) /\ v \in Processes /\ v # Warmer
      /\ StoredDataOK /\ StoredProcessOK(v)
  BY Kinds DEF StoreInv, StoredInv
<1>2. StoredDataOK'
  BY <1>1, QuietDataStaysStored DEF TranslateAnswers, Show, Match
<1>3. ASSUME NEW l \in Langs, NEW o \in Operators, Match(v, l, o) PROVE StoredInv'
  <2>1. /\ Current # Nothing
        /\ Len(heap) \in 1 .. Len(heap) /\ Current = heap[Len(heap)]
    BY <1>1, <1>3, CurrentIsEntry DEF Match
  <2>2. \A t \in Langs : Current[t] # Nothing => Current[t] \in stored
    BY <1>1, <2>1 DEF StoredDataOK, WereStored
  <2>3. PICK where, s, how :
          /\ Become(v, [at |-> where, held |-> Len(heap), lang |-> l, outcome |-> how,
                        text |-> IF s = Nothing THEN Nothing ELSE Current[s],
                        operator |-> IF o = l THEN Nothing ELSE o, shown |-> Nothing])
          /\ how # "spoken"
          /\ \/ where = "show" /\ s = l /\ Current[l] # Nothing
             \/ where = "translate" /\ s \in Sources(Current)
             \/ where = "idle"
    BY <1>3 DEF Match
  <2>4. where # "idle" => s \in Langs /\ s # Nothing /\ Current[s] # Nothing
    BY <2>3, StoreAssumption, SourcesAreAuthored
  <2>5. /\ \A q \in Processes \ {v} : proc'[q] = proc[q]
        /\ proc'[v].at = where /\ proc'[v].shown = Nothing /\ proc'[v].outcome = how
        /\ proc'[v].text = IF s = Nothing THEN Nothing ELSE Current[s]
        /\ proc'[v].loaded = proc[v].loaded
    BY <1>1, <2>3, BecomeChanges
  <2>6. where # "idle" => proc'[v].text \in stored
    BY <2>2, <2>4, <2>5
  <2>7. StoredProcessOK(v)'
    BY <1>1, <2>3, <2>5, <2>6
       DEF StoredProcessOK, WereStored, StoredGrows, Carries, Carrying, Loading
  <2> QED BY <1>1, <1>2, <2>5, <2>7, OneProcessStaysStored
<1>4. CASE Show(v)
  <2> DEFINE entry == heap[proc[v].held]
  <2>1. /\ proc[v].held \in 1 .. Len(heap) /\ entry # Nothing
        /\ proc[v].at = "show" /\ proc[v].text \in stored
    BY <1>1, <1>4, NothingIsNoEntry
       DEF Show, VisitorOK, StoredProcessOK, Carries, Carrying
  <2>2. CASE Become(v, [at |-> "lookup", operator |-> Nothing])
    <3>1. proc[v].text \in stored'
      BY <2>1 DEF StoredGrows
    <3> QED BY <1>1, <1>2, <2>2, <3>1, MoveStaysStored
  <2>3. ASSUME NEW s \in Sources(entry),
               Become(v, [at |-> "translate", lang |-> proc[v].operator, text |-> entry[s],
                          shown |-> proc[v].text])
        PROVE  StoredInv'
    <3>1. s \in Langs /\ entry[s] # Nothing
      BY SourcesAreAuthored
    <3>2. entry[s] \in stored
      BY <1>1, <2>1, <3>1 DEF StoredDataOK, WereStored
    <3>3. /\ \A q \in Processes \ {v} : proc'[q] = proc[q]
          /\ proc'[v].at = "translate" /\ proc'[v].text = entry[s]
          /\ proc'[v].shown = proc[v].text /\ proc'[v].loaded = proc[v].loaded
          /\ proc'[v].heard = proc[v].heard /\ proc'[v].outcome = proc[v].outcome
      BY <1>1, <2>3, BecomeChanges
    <3> HIDE DEF entry
    <3>4. StoredProcessOK(v)'
      BY <1>1, <2>1, <3>2, <3>3 DEF StoredProcessOK, WereStored, StoredGrows, Carries, Carrying, Loading
    <3> QED BY <1>1, <1>2, <3>3, <3>4, OneProcessStaysStored
  <2> QED BY <1>4, <2>2, <2>3 DEF Show
<1>5. CASE TranslateAnswers(v)
  <2>1. proc[v].text \in stored
    BY <1>1, <1>5 DEF TranslateAnswers, StoredProcessOK
  <2>2. CASE Answered(v, proc[v].text)
    BY <1>2, <2>1, <2>2, AnswerStaysStored
  <2>3. ASSUME NEW m, Become(v, [at |-> "upsert", text |-> Machine(proc[v].lang, proc[v].text, m)])
        PROVE  StoredInv'
    <3>1. /\ \A q \in Processes \ {v} : proc'[q] = proc[q]
          /\ proc'[v].at = "upsert" /\ proc'[v].shown = proc[v].shown
          /\ proc'[v].loaded = proc[v].loaded
          /\ proc'[v].heard = proc[v].heard /\ proc'[v].outcome = proc[v].outcome
      BY <1>1, <2>3, BecomeChanges
    <3>2. StoredProcessOK(v)'
      BY <1>1, <3>1 DEF StoredProcessOK, WereStored, StoredGrows
    <3> QED BY <1>1, <1>2, <3>1, <3>2, OneProcessStaysStored
  <2> QED BY <1>5, <2>2, <2>3 DEF TranslateAnswers, Translated
<1> QED BY <1>3, <1>4, <1>5

\* Going through a form, the next text is still to be stored.
LEMMA StoredGoThrough ==
  ASSUME StoreInv, StoredInv, StoredGrows, StoredDataOK', NEW p \in Processes, p \notin Visitors,
         NEW after, NEW step \in {"upsert", "migrate"},
         \/ GoThrough(p, after, step, Ended("saved"))
         \/ GoThrough(p, after, step, [at |-> "loadFaqs"])
  PROVE  StoredInv'
<1>1. CASE End(p, "saved")
  BY <1>1, EndStaysStored
<1>2. CASE Become(p, [at |-> "loadFaqs"])
  BY <1>2, MoveStaysStored DEF Carrying
<1>3. ASSUME NEW l, NEW text, Become(p, [at |-> step, lang |-> l, text |-> text])
      PROVE  StoredInv'
  <2>1. /\ \A q \in Processes \ {p} : proc'[q] = proc[q]
        /\ proc'[p].at = step
        /\ proc'[p].loaded = proc[p].loaded /\ proc'[p].form = proc[p].form
    BY <1>3, BecomeChanges DEF StoreInv
  <2>2. StoredProcessOK(p)
    BY DEF StoredInv
  <2>3. StoredProcessOK(p)'
    BY <2>1, <2>2 DEF StoredProcessOK, WereStored, StoredGrows
  <2> QED BY <2>1, <2>3, OneProcessStaysStored
<1> QED BY <1>1, <1>2, <1>3 DEF GoThrough, End

LEMMA StoredStore ==
  ASSUME StoreInv, StoredInv, StoredGrows, NEW p \in Processes, Store(p)
  PROVE  StoredInv'
<1>1. ShapeOK /\ DataOK /\ ProcessOK(p) /\ StoredDataOK /\ StoredProcessOK(p)
  BY DEF StoreInv, StoredInv
<1>2. p \in Visitors => VisitorOK(p)
  BY DEF StoreInv
<1>3. proc[p].at \in {"purgeSelect", "purgeDelete", "purgeFiles"} => proc[p].text \in stored
  BY <1>1 DEF StoredProcessOK, Carries, Carrying
<1>4. CASE Upsert(p)
  <2>1. /\ UNCHANGED <<file, heap>> /\ proc[p].lang \in Langs /\ proc[p].text \in Texts
        /\ answers' = [answers EXCEPT ![proc[p].lang] = proc[p].text]
        /\ Become(p, [at |-> "purgeSelect"])
    BY <1>1, <1>4 DEF Upsert, ProcessOK, Carries, Carrying
  <2>2. proc[p].text \in stored'
    <3>1. answers'[proc[p].lang] = proc[p].text /\ proc[p].text # Nothing
      BY <1>1, <2>1, StoreAssumption DEF DataOK, Entries
    <3>2. proc[p].lang \in Authored(answers')
      BY <2>1, <3>1 DEF Authored
    <3> QED BY <3>1, <3>2 DEF StoredGrows
  <2>3. StoredDataOK'
    BY <1>1, <2>1, QuietDataStaysStored
  <2> QED BY <2>1, <2>2, <2>3, MoveStaysStored
<1>5. CASE PurgeSelect(p) \/ PurgeDelete(p)
  <2>1. PICK next : /\ next \in {"purgeDelete", "purgeFiles"}
                    /\ \/ Become(p, [at |-> next])
                       \/ Become(p, [at |-> next, seen |-> row[proc[p].lang]])
    BY <1>5 DEF PurgeSelect, PurgeDelete
  <2>2. proc[p].text \in stored' /\ UNCHANGED <<file, heap>>
    BY <1>3, <1>5 DEF PurgeSelect, PurgeDelete, StoredGrows
  <2>3. StoredDataOK'
    BY <1>1, <2>2, QuietDataStaysStored
  <2> QED BY <2>1, <2>2, <2>3, MoveStaysStored
<1>6. CASE PurgeFiles(p)
  <2>1. /\ proc[p].text \in stored /\ proc[p].text \in stored' /\ proc[p].at = "purgeFiles"
        /\ \A l \in Langs : file'[l] \in {file[l], Nothing}
    BY <1>1, <1>3, <1>6 DEF PurgeFiles, StoredGrows, DataOK, Entries
  <2>2. CASE p \in Visitors
    <3>1. /\ heap' = [heap EXCEPT ![proc[p].held][proc[p].lang] = proc[p].text]
          /\ Become(p, [at |-> "loadFaqs"])
      BY <1>6, <2>2 DEF PurgeFiles
    <3>2. /\ proc[p].held \in 1 .. Len(heap) /\ heap[proc[p].held] \in Entries
          /\ heap[proc[p].held] # Nothing
      BY <1>2, <2>1, <2>2, NothingIsNoEntry DEF VisitorOK
    <3> DEFINE new == [heap[proc[p].held] EXCEPT ![proc[p].lang] = proc[p].text]
    <3>3. WereStored(new)
      BY <1>1, <2>1, <3>2 DEF StoredDataOK, WereStored, Entries
    <3>4. heap' = [heap EXCEPT ![proc[p].held] = new]
      BY <3>1
    <3> HIDE DEF new
    <3>5. \A i \in 1 .. Len(heap') : heap'[i] # Nothing => WereStored(heap'[i])
      BY <1>1, <3>2, <3>3, <3>4 DEF DataOK, StoredDataOK
    <3>6. StoredDataOK'
      BY <1>1, <2>1, <3>5 DEF StoredDataOK, WereStored, StoredGrows, Authored
    <3> QED BY <2>1, <3>1, <3>6, MoveStaysStored
  <2>3. CASE p \notin Visitors
    <3>1. WriteNext(p, Index(proc[p].lang)) /\ UNCHANGED heap
      BY <1>6, <2>3 DEF PurgeFiles
    <3>2. StoredDataOK'
      BY <1>1, <2>1, <3>1 DEF StoredDataOK, WereStored, StoredGrows, Authored
    <3> QED BY <2>3, <3>1, <3>2, StoredGoThrough DEF WriteNext
  <2> QED BY <2>2, <2>3
<1>7. CASE WriteForm(p)
  <2>1. UNCHANGED <<file, heap>> /\ proc[p].at = "write" /\ WriteNext(p, 0)
    BY <1>7 DEF WriteForm
  <2>2. p \notin Visitors
    BY <1>2, <2>1 DEF VisitorOK, Carrying, Loading
  <2>3. StoredDataOK'
    BY <1>1, <2>1, QuietDataStaysStored
  <2> QED BY <2>1, <2>2, <2>3, StoredGoThrough DEF WriteNext
<1> QED BY <1>4, <1>5, <1>6, <1>7 DEF Store

LEMMA StoredLoad ==
  ASSUME StoreInv, StoredInv, StoredGrows, NEW p \in Processes, Load(p)
  PROVE  StoredInv'
<1>1. ShapeOK /\ DataOK /\ ProcessOK(p) /\ StoredDataOK /\ StoredProcessOK(p)
  BY DEF StoreInv, StoredInv
<1>2. UNCHANGED <<answers, file>> /\ proc[p].at \in Loading
  BY DEF Load, LoadFaqs, LoadKeywords, LoadAnswers, Assign, db, Loading
<1>3. p \in Visitors => proc[p].text \in stored
  BY <1>1, <1>2 DEF StoredProcessOK, Carries, Loading
<1>4. CASE LoadFaqs(p) \/ LoadKeywords(p) \/ LoadAnswers(p)
  <2>1. StoredDataOK'
    BY <1>1, <1>2, <1>4, QuietDataStaysStored DEF LoadFaqs, LoadKeywords, LoadAnswers
  <2>2. ASSUME NEW next \in {"loadKeywords", "loadAnswers", "assign"}, NEW load,
               Become(p, [at |-> next, loaded |-> load]), WereStored(load.answers)
        PROVE  StoredInv'
    <3>1. /\ \A q \in Processes \ {p} : proc'[q] = proc[q]
          /\ proc'[p].at = next /\ proc'[p].text = proc[p].text
          /\ proc'[p].loaded = load /\ proc'[p].form = proc[p].form
          /\ proc'[p].shown = proc[p].shown
          /\ proc'[p].heard = proc[p].heard /\ proc'[p].outcome = proc[p].outcome
      BY <1>1, <2>2, BecomeChanges
    <3>2. StoredProcessOK(p)'
      BY <1>1, <1>3, <2>2, <3>1
         DEF StoredProcessOK, WereStored, StoredGrows, Carries, Carrying, Loading
    <3> QED BY <2>1, <3>1, <3>2, OneProcessStaysStored
  <2>3. /\ proc[p].loaded \in [first : BOOLEAN, late : BOOLEAN, answers : Entries]
        /\ WereStored(proc[p].loaded.answers) /\ WereStored(answers)
    BY <1>1 DEF ProcessOK, StoredProcessOK, StoredDataOK, WereStored
  <2>4. CASE LoadFaqs(p)
    <3> DEFINE load == [NothingLoaded EXCEPT !.first = status = "approved"]
    <3>1. WereStored(load.answers)
      <4>1. load.answers = NoAnswers
        BY DEF NothingLoaded
      <4> QED BY <4>1, NothingIsAnswered DEF WereStored
    <3>2. Become(p, [at |-> "loadKeywords", loaded |-> load])
      BY <2>4 DEF LoadFaqs
    <3> HIDE DEF load
    <3> QED BY <2>2, <3>1, <3>2
  <2>5. CASE LoadKeywords(p)
    <3> DEFINE load == [proc[p].loaded EXCEPT !.late = status = "approved" /\ ~proc[p].loaded.first]
    <3>1. load.answers = proc[p].loaded.answers
      BY <2>3
    <3>2. Become(p, [at |-> "loadAnswers", loaded |-> load])
      BY <2>5 DEF LoadKeywords
    <3> HIDE DEF load
    <3> QED BY <2>2, <2>3, <3>1, <3>2
  <2>6. CASE LoadAnswers(p)
    <3> DEFINE load(b) == [proc[p].loaded EXCEPT !.late = b, !.answers = answers]
    <3>1. \A b \in BOOLEAN : load(b).answers = answers
      BY <2>3
    <3>2. PICK b \in BOOLEAN :
            Become(p, [at |-> "assign",
                       loaded |-> IF status # "approved" THEN proc[p].loaded ELSE load(b)])
      BY <2>6 DEF LoadAnswers
    <3> HIDE DEF load
    <3>3. CASE status # "approved"
      <4>1. Become(p, [at |-> "assign", loaded |-> proc[p].loaded])
        BY <3>2, <3>3
      <4> QED BY <2>2, <2>3, <4>1
    <3>4. CASE status = "approved"
      <4>1. Become(p, [at |-> "assign", loaded |-> load(b)])
        BY <3>2, <3>4
      <4>2. WereStored(load(b).answers)
        BY <2>3, <3>1
      <4> QED BY <2>2, <4>1, <4>2
    <3> QED BY <3>3, <3>4
  <2> QED BY <1>4, <2>4, <2>5, <2>6
<1>5. CASE Assign(p)
  <2> DEFINE found == IF proc[p].loaded.first THEN proc[p].loaded.answers ELSE Nothing
  <2>1. found \in Entries \cup {Nothing} /\ (found # Nothing => WereStored(found))
    BY <1>1 DEF ProcessOK, StoredProcessOK
  <2>2. \/ (End(p, "raised") \/ End(p, "saved")) /\ (UNCHANGED heap \/ heap' = Append(heap, found))
        \/ /\ p = Warmer /\ UNCHANGED heap
           /\ Become(p, [at |-> "warm", form |-> IF found = Nothing THEN NoAnswers ELSE found])
        \/ /\ p \in Visitors /\ heap' = Append(heap, found)
           /\ Answered(p, proc[p].text)
    BY <1>5 DEF Assign
  <2> HIDE DEF found
  <2>3. \A i \in 1 .. Len(heap') : heap'[i] # Nothing => WereStored(heap'[i])
    <3>1. CASE heap' = Append(heap, found)
      <4>1. heap \in Seq(Entries \cup {Nothing})
        BY <1>1 DEF DataOK
      <4>2. \A i \in 1 .. Len(heap') : heap'[i] = IF i <= Len(heap) THEN heap[i] ELSE found
        BY <2>1, <3>1, <4>1
      <4>3. \A i \in 1 .. Len(heap') : i <= Len(heap) => i \in 1 .. Len(heap)
        BY <4>1
      <4> QED BY <1>1, <2>1, <4>2, <4>3 DEF StoredDataOK
    <3> QED BY <1>1, <2>2, <3>1 DEF StoredDataOK
  <2>4. StoredDataOK'
    BY <1>1, <1>2, <2>3 DEF StoredDataOK, StoredGrows, WereStored
  <2>5. CASE End(p, "raised") \/ End(p, "saved")
    BY <2>4, <2>5, EndStaysStored
  <2>6. CASE p = Warmer /\ Become(p, [at |-> "warm", form |-> IF found = Nothing THEN NoAnswers ELSE found])
    <3>1. /\ \A q \in Processes \ {p} : proc'[q] = proc[q]
          /\ proc'[p].at = "warm" /\ proc'[p].loaded = proc[p].loaded
          /\ proc'[p].form = IF found = Nothing THEN NoAnswers ELSE found
          /\ p \notin Visitors
      BY <1>1, <2>6, Kinds, BecomeChanges
    <3>2. WereStored(proc'[p].form)
      BY <2>1, <3>1, NothingIsAnswered DEF WereStored
    <3>3. ~Carries(p)'
      BY <3>1 DEF Carries, Carrying
    <3>4. StoredProcessOK(p)'
      BY <1>1, <3>1, <3>2, <3>3 DEF StoredProcessOK, WereStored, StoredGrows
    <3> QED BY <2>4, <3>1, <3>4, OneProcessStaysStored
  <2>7. CASE p \in Visitors /\ Answered(p, proc[p].text)
    BY <1>3, <2>4, <2>7, AnswerStaysStored
  <2> QED BY <2>2, <2>5, <2>6, <2>7
<1> QED BY <1>4, <1>5 DEF Load

LEMMA StoredVoice ==
  ASSUME StoreInv, StoredInv, StoredGrows, NEW p \in Processes, Voice(p)
  PROVE  StoredInv'
<1>1. ShapeOK /\ DataOK /\ ProcessOK(p) /\ StoredDataOK /\ StoredProcessOK(p)
  BY DEF StoreInv, StoredInv
<1>2. /\ proc[p].at \in {"lookup", "readFile", "synthesize", "saveRow"} /\ UNCHANGED heap
      /\ UNCHANGED file \/ file' = [file EXCEPT ![proc[p].lang] = proc[p].text]
  BY DEF Voice, LookupRow, ReadFile, SynthesizeAnswers, SaveRow
<1>3. proc[p].text \in stored /\ proc[p].text \in stored' /\ proc[p].lang \in Langs
  BY <1>1, <1>2 DEF ProcessOK, StoredProcessOK, Carries, Carrying, StoredGrows
<1>4. StoredDataOK'
  <2>1. \A l \in Langs : file'[l] \in {file[l], proc[p].text}
    BY <1>1, <1>2 DEF DataOK, Entries
  <2> QED BY <1>1, <1>2, <1>3, <2>1 DEF StoredDataOK, WereStored, StoredGrows, Authored
<1>5. ASSUME NEW spoken \in stored, Speak(p, spoken) PROVE StoredInv'
  <2>1. /\ \A q \in Processes \ {p} : proc'[q] = proc[q]
        /\ \/ /\ proc'[p].at = "warm" /\ p \notin Visitors
              /\ proc'[p].loaded = proc[p].loaded /\ proc'[p].form = proc[p].form
           \/ /\ proc'[p].at = "idle" /\ proc'[p].shown = Nothing /\ proc'[p].heard = spoken
              /\ proc'[p].loaded = NothingLoaded /\ proc'[p].form = NoAnswers
    BY <1>1, <1>5, Kinds, SpeakChanges
  <2>2. StoredProcessOK(p)'
    BY <1>1, <1>5, <2>1, NothingIsAnswered
       DEF StoredProcessOK, WereStored, StoredGrows, Carries, Carrying, Loading
  <2> QED BY <1>4, <2>1, <2>2, OneProcessStaysStored
<1>6. CASE \/ \E next \in {"readFile", "synthesize", "saveRow"} :
                \/ Become(p, [at |-> next])
                \/ Become(p, [at |-> next, seen |-> row[proc[p].lang]])
  BY <1>3, <1>4, <1>6, MoveStaysStored
<1>7. CASE End(p, "voiceless")
  BY <1>4, <1>7, EndStaysStored
<1>8. CASE ReadFile(p)
  <2>1. CASE Speak(p, file[proc[p].lang]) /\ file[proc[p].lang] # Nothing
    BY <1>1, <1>3, <1>5, <2>1 DEF StoredDataOK
  <2> QED BY <1>6, <1>8, <2>1 DEF ReadFile
<1>9. CASE SaveRow(p)
  BY <1>3, <1>5, <1>9 DEF SaveRow
<1> QED BY <1>6, <1>7, <1>8, <1>9 DEF Voice, LookupRow, SynthesizeAnswers

LEMMA StoredEditor ==
  ASSUME StoreInv, StoredInv, StoredGrows, NEW e \in Editors,
         OpenForm(e) \/ \E l \in Langs, s \in Statuses : SubmitForm(e, l, s)
  PROVE  StoredInv'
<1>1. /\ ShapeOK /\ StoredDataOK /\ StoredProcessOK(e)
      /\ e \in Processes /\ e # Warmer /\ e \notin Visitors
  BY Kinds DEF StoreInv, StoredInv
<1>2. StoredDataOK'
  BY <1>1, QuietDataStaysStored DEF OpenForm, SubmitForm
<1>3. PICK next \in {"form", "write"} :
        \E form : \/ Become(e, [at |-> next, form |-> form])
                  \/ Become(e, [at |-> next, form |-> form, outcome |-> "none"])
  BY DEF OpenForm, SubmitForm
<1>4. /\ \A q \in Processes \ {e} : proc'[q] = proc[q]
      /\ proc'[e].at = next /\ proc'[e].loaded = proc[e].loaded
  BY <1>1, <1>3, BecomeChanges
<1>5. StoredProcessOK(e)'
  BY <1>1, <1>4 DEF StoredProcessOK, WereStored, StoredGrows, Carries, Carrying
<1> QED BY <1>1, <1>2, <1>4, <1>5, OneProcessStaysStored

LEMMA StoredScripts ==
  ASSUME StoreInv, StoredInv, StoredGrows,
         StartSeed \/ StartMigration \/ MigrateAnswer \/ StartWarmer \/ WarmNext \/ WarmCheck
  PROVE  StoredInv'
<1>1. ShapeOK /\ StoredDataOK
  BY DEF StoreInv, StoredInv
<1>2. StoredDataOK'
  BY <1>1, QuietDataStaysStored
     DEF StartSeed, StartMigration, MigrateAnswer, StartWarmer, WarmNext, WarmCheck
<1>3. ASSUME NEW s \in Scripts
      PROVE  s \in Processes /\ s \notin Visitors /\ ProcessOK(s) /\ StoredProcessOK(s)
  BY <1>3, Kinds DEF StoreInv, StoredInv
<1>4. CASE StartSeed \/ StartMigration
  <2>1. PICK s \in Scripts \ {Warmer} :
          \E form, l, text :
            \/ Become(s, [at |-> "write", outcome |-> "none", form |-> form])
            \/ Become(s, [at |-> "migrate", form |-> form, lang |-> l, text |-> text,
                          outcome |-> "none"])
    BY <1>4 DEF StartSeed, StartMigration, Seed, Migration, Warmer
  <2>2. /\ \A q \in Processes \ {s} : proc'[q] = proc[q]
        /\ proc'[s].at \in {"write", "migrate"} /\ proc'[s].loaded = proc[s].loaded
    BY <1>1, <1>3, <2>1, BecomeChanges
  <2>3. StoredProcessOK(s)'
    BY <1>3, <2>2 DEF StoredProcessOK, WereStored, StoredGrows, Carries, Carrying
  <2> QED BY <1>2, <1>3, <2>2, <2>3, OneProcessStaysStored
<1>5. CASE MigrateAnswer
  <2>1. Migration \in Scripts
        /\ GoThrough(Migration, Index(proc[Migration].lang), "migrate", Ended("saved"))
    BY <1>5 DEF MigrateAnswer
  <2> QED BY <1>2, <1>3, <2>1, StoredGoThrough
<1>6. CASE StartWarmer
  BY <1>2, <1>3, <1>6, MoveStaysStored DEF StartWarmer, Carrying
<1>7. CASE WarmNext
  <2>1. CASE End(Warmer, "warmed")
    BY <1>2, <1>3, <1>7, <2>1, EndStaysStored DEF WarmNext
  <2>2. ASSUME NEW l \in Authored(proc[Warmer].form),
               Become(Warmer, [at |-> "warmCheck", lang |-> l, text |-> proc[Warmer].form[l],
                               form |-> [proc[Warmer].form EXCEPT ![l] = Nothing]])
        PROVE  StoredInv'
    <3>1. /\ StoredProcessOK(Warmer) /\ proc[Warmer].form \in Entries
          /\ Warmer \in Processes /\ Warmer \notin Visitors
      BY <1>3, <1>7 DEF WarmNext, ProcessOK
    <3>2. l \in Langs /\ proc[Warmer].form[l] \in stored
      BY <3>1 DEF StoredProcessOK, WereStored, Authored
    <3>3. WereStored([proc[Warmer].form EXCEPT ![l] = Nothing])
      BY <3>1 DEF StoredProcessOK, WereStored, Entries
    <3>4. /\ \A q \in Processes \ {Warmer} : proc'[q] = proc[q]
          /\ proc'[Warmer].at = "warmCheck" /\ proc'[Warmer].text = proc[Warmer].form[l]
          /\ proc'[Warmer].form = [proc[Warmer].form EXCEPT ![l] = Nothing]
          /\ proc'[Warmer].loaded = proc[Warmer].loaded
      BY <1>1, <2>2, <3>1, BecomeChanges
    <3>5. StoredProcessOK(Warmer)'
      BY <3>1, <3>2, <3>3, <3>4 DEF StoredProcessOK, WereStored, StoredGrows
    <3> QED BY <1>2, <3>1, <3>4, <3>5, OneProcessStaysStored
  <2> QED BY <1>7, <2>1, <2>2 DEF WarmNext
<1>8. CASE WarmCheck
  <2>1. PICK next \in {"warm", "lookup"} : Become(Warmer, [at |-> next])
    BY <1>8 DEF WarmCheck
  <2>2. Warmer \in Scripts /\ proc[Warmer].text \in stored'
    BY <1>3, <1>8 DEF WarmCheck, StoredProcessOK, StoredGrows, Carries, Carrying
  <2> QED BY <1>2, <1>3, <2>1, <2>2, MoveStaysStored
<1> QED BY <1>4, <1>5, <1>6, <1>7, <1>8

LEMMA StoredFault ==
  ASSUME StoreInv, StoredInv, StoredGrows, Restart \/ \E p \in Processes : AwaitRaises(p)
  PROVE  StoredInv'
<1>1. ShapeOK /\ StoredDataOK
  BY DEF StoreInv, StoredInv
<1>2. ASSUME NEW p \in Processes, AwaitRaises(p) PROVE StoredInv'
  <2>1. UNCHANGED <<file, heap>> /\ End(p, "raised")
    BY <1>2 DEF AwaitRaises
  <2> QED BY <1>1, <2>1, QuietDataStaysStored, EndStaysStored
<1>3. CASE Restart
  <2>1. UNCHANGED <<status, answers, file>> /\ heap' = <<Loaded>>
    BY <1>3 DEF Restart, db
  <2>2. StoredDataOK'
    <3>1. \A i \in 1 .. Len(heap') : heap'[i] # Nothing => heap'[i] = answers
      BY <2>1 DEF Loaded
    <3> QED BY <1>1, <2>1, <3>1 DEF StoredDataOK, StoredGrows, WereStored
  <2>3. ASSUME NEW q \in Processes PROVE StoredProcessOK(q)'
    <3>1. /\ StoredProcessOK(q)
          /\ proc'[q].text = proc[q].text
          /\ proc'[q].form = proc[q].form /\ proc'[q].loaded = proc[q].loaded
          /\ proc'[q].shown = proc[q].shown /\ proc'[q].heard = proc[q].heard
          /\ proc'[q].at = proc[q].at \/ proc'[q].at = "idle"
          /\ q \in Visitors => proc'[q].outcome \in {proc[q].outcome, "lost"}
      BY <1>1, <1>3, Kinds, RestartChanges DEF StoredInv
    <3> QED BY <3>1 DEF StoredProcessOK, WereStored, StoredGrows, Carries, Carrying, Loading
  <2> QED BY <2>2, <2>3 DEF StoredInv
<1> QED BY <1>2, <1>3

LEMMA StoredStep == StoreInv /\ StoredInv /\ [MCNext]_<<vars, history>> => StoredInv'
<1> SUFFICES ASSUME StoreInv, StoredInv, MCNext PROVE StoredInv'
  BY DEF vars, db, history, StoredInv, StoredDataOK, StoredProcessOK, WereStored, Carries
<1>1. StoredGrows /\ Next
  BY DEF MCNext, StoredGrows
<1>2. CASE \E v \in Visitors : Visit(v) \/ \E l \in Langs, o \in Operators : Match(v, l, o)
  BY <1>1, <1>2, Kinds, StoredVisit, StoredStore, StoredLoad, StoredVoice DEF Visit
<1>3. CASE \E e \in Editors :
             Edit(e) \/ OpenForm(e) \/ \E l \in Langs, s \in Statuses : SubmitForm(e, l, s)
  BY <1>1, <1>3, Kinds, StoredEditor, StoredStore, StoredLoad DEF Edit
<1>4. CASE SeedWork
  BY <1>1, <1>4, Kinds, StoredStore DEF SeedWork
<1>5. CASE WarmerWork
  BY <1>1, <1>5, Kinds, StoredScripts, StoredLoad, StoredVoice DEF WarmerWork
<1>6. CASE StartSeed \/ StartMigration \/ MigrateAnswer \/ StartWarmer
  BY <1>1, <1>6, StoredScripts
<1>7. CASE Restart \/ \E p \in Processes : AwaitRaises(p)
  BY <1>1, <1>7, StoredFault
<1> QED BY <1>1, <1>2, <1>3, <1>4, <1>5, <1>6, <1>7 DEF Next

\* Whatever pipelines, providers' wordings, forms, scripts, faults and restarts do
\* in whatever order, what a pilgrim is shown or hears and what a file speaks was
\* once an answer of the table.
THEOREM SpokenAlwaysWasStored == MCSpec => []SpokenWasStored
<1>1. MCInit => StoreInv /\ StoredInv
  BY InitIsSound, StoredInit DEF MCInit
<1>2. StoreInv /\ StoredInv /\ [MCNext]_<<vars, history>> => (StoreInv /\ StoredInv)'
  <2>1. [MCNext]_<<vars, history>> => [Next]_vars
    BY DEF MCNext
  <2> QED BY <2>1, StepIsSound, StoredStep
<1>3. StoreInv /\ StoredInv => SpokenWasStored
  BY Kinds DEF StoreInv, StoredInv, StoredDataOK, StoredProcessOK, SpokenWasStored, Carries, Carrying
<1> QED BY <1>1, <1>2, <1>3, PTL DEF MCSpec
=============================================================================
