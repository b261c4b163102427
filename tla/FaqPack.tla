------------------------------ MODULE FaqPack ------------------------------
(***************************************************************************)
(* The keywords of a knowledge pack, from the tables to the list that      *)
(* match_faq scans: db.create_faq, upsert_faq, replace_faq_keywords and    *)
(* load_pack (src/db.py), the keyword part of the administrator's forms    *)
(* (src/admin.py 197-248) and of src/migrate_faq.py.  Answers are FaqStore's.*)
(*                                                                         *)
(* load_pack asks for no order, and the database moves the rows it updates:*)
(* a load may find the entries in any order.                               *)
(***************************************************************************)
EXTENDS FaqMatch

CONSTANTS
  Admins,       \* the browser tabs an administrator saves entries from
  Ids,          \* the entries that may exist
  LangOrder,    \* the order the form and the script go through the languages in
  Wordings,     \* the keywords that may be posted for an entry, by language
  Questions,    \* what pilgrims may ask
  MaxSaves, MaxMigrations, MaxErrors,   \* bounds
  MaxEvents                             \* and of the three together

Script == "script"
Processes == Admins \cup {Script}

ASSUME PackAssumption ==
  /\ Script \notin Admins
  /\ IsFiniteSet(Ids)
  /\ LangOrder \in Seq(Langs) /\ LangOrder # << >>
  /\ \A l \in Langs : \E n \in DOMAIN LangOrder : LangOrder[n] = l
  /\ Wordings \in [Ids -> SUBSET [Langs -> SUBSET Texts]]
  /\ \A i \in Ids : \A w \in Wordings[i] : \A l \in Langs :
       \A k \in w[l] : k = Strip(k) /\ k # << >>
  /\ Questions \subseteq Texts
  /\ NoMatch \notin [id : Ids, tier : {"exact", "fuzzy"}]

VARIABLES
  status,     \* faq_knowledge.status; "absent" without a row
  keywords,   \* faq_keywords, as committed
  pack,       \* FAQ_ENTRIES
  pc,         \* of each process: the statement it is at
  job,        \* the entry, its language and the keywords it is writing
  doomed,     \* of each form: the rows its open transaction deletes
  loading,    \* of each form: what its load_pack has read so far
  outcome,    \* of each form: how it ended
  current,    \* the forms whose load began after the last write (history)
  saves, migrations, errors

vars == <<status, keywords, pack, pc, job, doomed, loading, outcome, current,
          saves, migrations, errors>>
tables == <<status, keywords>>
bounds == <<saves, migrations, errors>>

NoKeywords == [l \in Langs |-> {}]
Nowhere == [i \in Ids |-> NoKeywords]
NoJob == [id |-> "none", at |-> 1, words |-> NoKeywords]

Approved == {i \in Ids : status[i] = "approved"}
Entry(id, words) == [id |-> id, keywords |-> words[id]]

\* The lists of some entries, in any order.
Lists(ids, words) ==
  {[n \in DOMAIN order |-> Entry(order[n], words)] :
     order \in Bijection(1 .. Cardinality(ids), ids)}

Init ==
  /\ status = [i \in Ids |-> "absent"]
  /\ keywords = Nowhere
  /\ pack = << >>
  /\ pc = [p \in Processes |-> "idle"]
  /\ job = [p \in Processes |-> NoJob]
  /\ doomed = [f \in Admins |-> {}]
  /\ loading = [f \in Admins |-> << >>]
  /\ outcome = [f \in Admins |-> "none"]
  /\ current = {}
  /\ saves = 0 /\ migrations = 0 /\ errors = 0

Another == saves + migrations + errors < MaxEvents

Goto(p, where) == pc' = [pc EXCEPT ![p] = where]

\* A write commits: no load has seen it, but those that are yet to begin.
Written == current' = {}

-----------------------------------------------------------------------------
(* The administrator's forms.                                              *)

\* A plain INSERT, approved from the start, and no reload; an id that exists
\* violates the primary key.
CreateFaq(f, id) ==
  /\ pc[f] = "idle" /\ saves < MaxSaves /\ Another /\ status[id] = "absent"
  /\ saves' = saves + 1
  /\ status' = [status EXCEPT ![id] = "approved"]
  /\ outcome' = [outcome EXCEPT ![f] = "created"]
  /\ Written
  /\ UNCHANGED <<keywords, pack, pc, job, doomed, loading, migrations, errors>>

SubmitForm(f, id, s, words) ==
  /\ pc[f] = "idle" /\ saves < MaxSaves /\ Another
  /\ saves' = saves + 1
  /\ status' = [status EXCEPT ![id] = s]
  /\ job' = [job EXCEPT ![f] = [id |-> id, at |-> 1, words |-> words]]
  /\ outcome' = [outcome EXCEPT ![f] = "open"]
  /\ Goto(f, "keywords")
  /\ Written
  /\ UNCHANGED <<keywords, pack, doomed, loading, migrations, errors>>

NextLanguage(p, then) ==
  LET more == job[p].at < Len(LangOrder)
      next == [job[p] EXCEPT !.at = job[p].at + 1]
  IN  /\ job' = [job EXCEPT ![p] = IF more THEN next ELSE NoJob]
      /\ Goto(p, IF more THEN "keywords" ELSE then)

\* replace_faq_keywords, a transaction for each language in turn.  READ
\* COMMITTED: DELETE finds the rows that are committed when it starts and waits
\* for whoever is deleting them too; a row with the same keyword that is
\* committed later is another row, and stays.
Lang(p) == LangOrder[job[p].at]
Found(p) == keywords[job[p].id][Lang(p)]
DeleteKeywords(f) ==
  /\ pc[f] = "keywords"
  /\ doomed' = [doomed EXCEPT ![f] = Found(f)]
  /\ Goto(f, "commit")
  /\ UNCHANGED <<tables, pack, job, loading, outcome, current, bounds>>

SameRows(p, q) == job[p].id = job[q].id /\ Lang(p) = Lang(q)
Stores(p, kept, new) ==
  /\ keywords' = [keywords EXCEPT ![job[p].id][Lang(p)] = kept \cup new]
  /\ doomed' = [f \in Admins |->
       IF f = p THEN {} ELSE IF SameRows(f, p) THEN doomed[f] \ new ELSE doomed[f]]

\* Mutant of ReplaceKeywords: every INSERT commits by itself.
InsertOneByOne(f) ==
  LET kept == Found(f) \ doomed[f]
      fresh == job[f].words[Lang(f)] \ kept
  IN  /\ pc[f] = "commit"
      /\ \/ \E k \in fresh : Stores(f, kept, {k}) /\ UNCHANGED <<job, pc>>
         \/ fresh = {} /\ Stores(f, kept, {}) /\ NextLanguage(f, "loadFaqs")
      /\ Written
      /\ UNCHANGED <<status, pack, loading, outcome, bounds>>

\* The INSERTs and the commit.
ReplaceKeywords(f) ==
  /\ pc[f] = "commit"
  /\ Stores(f, Found(f) \ doomed[f], job[f].words[Lang(f)])
  /\ NextLanguage(f, "loadFaqs")
  /\ Written
  /\ UNCHANGED <<status, pack, loading, outcome, bounds>>

\* The handler ends; what it has committed stays.
Finish(f, how) ==
  /\ Goto(f, "idle")
  /\ job' = [job EXCEPT ![f] = NoJob]
  /\ doomed' = [doomed EXCEPT ![f] = {}]
  /\ loading' = [loading EXCEPT ![f] = << >>]
  /\ outcome' = [outcome EXCEPT ![f] = how]

StatementFails(f) ==
  /\ pc[f] # "idle" /\ errors < MaxErrors /\ Another
  /\ errors' = errors + 1
  /\ Finish(f, "failed")
  /\ UNCHANGED <<tables, pack, current, saves, migrations>>

-----------------------------------------------------------------------------
(* faq_state.reload: three SELECTs, each of which sees what is committed.  *)

LoadFaqs(f) ==
  /\ pc[f] = "loadFaqs"
  /\ \E list \in Lists(Approved, Nowhere) : loading' = [loading EXCEPT ![f] = list]
  /\ current' = current \cup {f}
  /\ Goto(f, "loadKeywords")
  /\ UNCHANGED <<tables, pack, job, doomed, outcome, bounds>>

Listed(f) == {loading[f][n].id : n \in DOMAIN loading[f]}

\* The rows of the entries that are approved when the statement runs; those of
\* an entry that was not when LoadFaqs ran raise KeyError.
LoadKeywords(f) ==
  LET found == [i \in Ids |-> IF i \in Approved THEN keywords[i] ELSE NoKeywords]
  IN  /\ pc[f] = "loadKeywords"
      /\ IF \E i \in Ids \ Listed(f) : found[i] # NoKeywords
         THEN Finish(f, "failed")
         ELSE /\ loading' = [loading EXCEPT ![f] =
                               [n \in DOMAIN @ |-> Entry(@[n].id, found)]]
              /\ Goto(f, "loadAnswers")
              /\ UNCHANGED <<job, doomed, outcome>>
      /\ UNCHANGED <<tables, pack, current, bounds>>

\* An entry approved since LoadFaqs may have answers, and raises then.
LoadAnswers(f) ==
  /\ pc[f] = "loadAnswers"
  /\ \/ Goto(f, "assign") /\ UNCHANGED <<job, doomed, loading, outcome>>
     \/ ~ (Approved \subseteq Listed(f)) /\ Finish(f, "failed")
  /\ UNCHANGED <<tables, pack, current, bounds>>

\* A list that was read before the last write takes the place of one that was
\* not.
Overtakes(f) ==
  current' = IF f \in current THEN current ELSE {g \in current : pc[g] # "idle"}

\* Mutant of Assign: the list is updated, and keeps what was not found again.
UpdateList(f) ==
  LET Gone(entry) == entry.id \notin Listed(f)
  IN  /\ pc[f] = "assign"
      /\ pack' = SelectSeq(pack, Gone) \o loading[f]
      /\ Finish(f, "saved")
      /\ Overtakes(f)
      /\ UNCHANGED <<tables, bounds>>

Assign(f) ==
  /\ pc[f] = "assign"
  /\ pack' = loading[f]
  /\ Finish(f, "saved")
  /\ Overtakes(f)
  /\ UNCHANGED <<tables, bounds>>

\* Startup loads the pack before the first request.
Restart ==
  LET cut == {f \in Admins : pc[f] # "idle"}
  IN  /\ errors < MaxErrors /\ Another
      /\ errors' = errors + 1
      /\ pack' \in Lists(Approved, keywords)
      /\ pc' = [p \in Processes |-> IF p \in cut THEN "idle" ELSE pc[p]]
      /\ job' = [p \in Processes |-> IF p \in cut THEN NoJob ELSE job[p]]
      /\ doomed' = [f \in Admins |-> {}]
      /\ loading' = [f \in Admins |-> << >>]
      /\ outcome' = [f \in Admins |-> IF f \in cut THEN "failed" ELSE outcome[f]]
      /\ UNCHANGED <<tables, current, saves, migrations>>

-----------------------------------------------------------------------------
(* migrate_faq.py, entry by entry: every statement commits by itself, and  *)
(* the server is not told.                                                 *)

MigrateEntry(id, words) ==
  /\ pc[Script] = "idle" /\ migrations < MaxMigrations /\ Another
  /\ migrations' = migrations + 1
  /\ status' = [status EXCEPT ![id] = IF @ = "absent" THEN "approved" ELSE @]
  /\ job' = [job EXCEPT ![Script] = [id |-> id, at |-> 1, words |-> words]]
  /\ Goto(Script, "keywords")
  /\ Written
  /\ UNCHANGED <<keywords, pack, doomed, loading, outcome, saves, errors>>

MigrateDelete ==
  /\ pc[Script] = "keywords"
  /\ Stores(Script, {}, {})
  /\ Goto(Script, "insert")
  /\ Written
  /\ UNCHANGED <<status, pack, job, loading, outcome, bounds>>

MigrateInsert ==
  LET left == job[Script].words[Lang(Script)] \ Found(Script)
  IN  /\ pc[Script] = "insert"
      /\ \/ /\ \E k \in left : Stores(Script, Found(Script), {k})
            /\ Written
            /\ UNCHANGED <<job, pc>>
         \/ /\ left = {}
            /\ NextLanguage(Script, "idle")
            /\ UNCHANGED <<keywords, doomed, current>>
      /\ UNCHANGED <<status, pack, loading, outcome, bounds>>

Form(f) ==
  \/ DeleteKeywords(f) \/ ReplaceKeywords(f)
  \/ LoadFaqs(f) \/ LoadKeywords(f) \/ LoadAnswers(f) \/ Assign(f)
  \/ StatementFails(f)

Next ==
  \/ \E f \in Admins, id \in Ids : CreateFaq(f, id)
  \/ \E f \in Admins, id \in Ids, s \in {"approved", "draft"} :
       \E w \in Wordings[id] : SubmitForm(f, id, s, w)
  \/ \E f \in Admins : Form(f)
  \/ Restart
  \/ \E id \in Ids : \E w \in Wordings[id] : MigrateEntry(id, w)
  \/ MigrateDelete \/ MigrateInsert

Spec == Init /\ [][Next]_vars

-----------------------------------------------------------------------------
(* What a list has to offer.                                               *)

\* A question no keyword of which is heard verbatim gets the same entry, or
\* none, whatever order a load happens to find the rows in: ties and near ties
\* go to nobody.
FuzzyIgnoresOrder ==
  [][pack' # pack /\ Range(pack') = Range(pack) =>
      \A l \in Langs, q \in Questions :
        Exact(pack, l, q) = {} => MatchFaq(pack', l, q) = MatchFaq(pack, l, q)]_vars

\* A keyword more never takes a question away from its entry: near-synonyms of
\* one entry do not make each other ambiguous.
WithKeyword(list, i, l, k) == [list EXCEPT ![i].keywords[l] = @ \cup {k}]
Postable == UNION {w[l] : w \in UNION {Wordings[i] : i \in Ids}, l \in Langs}
KeepsQuestions(list) ==
  \A l \in Langs, q \in Questions :
    LET found == MatchFaq(list, l, q)
    IN  found # NoMatch => \A i \in {n \in DOMAIN list : list[n].id = found.id} :
          \A k \in Postable \ list[i].keywords[l] :
            LET more == MatchFaq(WithKeyword(list, i, l, k), l, q)
            IN  more # NoMatch /\ more.id = found.id
MoreKeywordsKeepQuestions == [][pack' # pack => KeepsQuestions(pack')]_vars

\* Forms that overlap may leave the keywords of both, but never a part of one:
\* as long as the migration script does not run, what is served of an entry in a
\* language is put together of whole posted sets, whichever forms overlap, fail
\* or are cut, and whatever a load or a restart reads in the middle of them.
Posted(id, l) == {w[l] : w \in Wordings[id]}
Whole(entry) ==
  \A l \in Langs : \E forms \in SUBSET Posted(entry.id, l) :
    entry.keywords[l] = UNION forms
WholeWordings == migrations = 0 => \A i \in DOMAIN pack : Whole(pack[i])

\* When the administrator reads "Saved", the list in memory holds what the tables
\* hold, whatever forms overlapped, merged or failed before, unless something was
\* written after that form's load began, or a list read before the last write was
\* assigned after it.
SavedMeansServed ==
  \A f \in current : outcome[f] = "saved" =>
    Range(pack) = {Entry(i, keywords) : i \in Approved}
=============================================================================
