----------------------------- MODULE MCFaqPack -----------------------------
(***************************************************************************)
(* Instances of FaqPack for TLC and the properties checked on them.        *)
(***************************************************************************)
EXTENDS FaqPack

CONSTANTS hi, ta, cost, time, a, b, c, d, e, mark, tab1, tab2

Tabs == Permutations(Admins)
Order == <<hi, ta>>
Gap == <<Blank>>

\* Keywords: two words, the same two apart, five words; c is heard as cd.
AB == <<a>> \o Gap \o <<b>>
CB == <<c>> \o Gap \o <<b>>
Five == AB \o Gap \o <<c>> \o Gap \o <<d>> \o Gap \o <<e>>

\* Questions: reordered, one word missing, a near miss inside other words, a
\* keyword within longer words, one word with a question mark, and silence.
Reordered == Gap \o <<b>> \o Gap \o <<c>> \o <<mark>> \o Gap \o <<a>>
OneMissing == <<a>> \o Gap \o <<c>> \o Gap \o <<d>> \o Gap \o <<e>>
NearMiss == <<e>> \o Gap \o <<b>> \o Gap \o <<c, d>>
Asked == {Reordered, OneMissing, NearMiss, <<d>> \o AB \o <<c>>, <<a, mark>>, Gap}
AllTexts == Asked \cup {AB, CB, Five}
Alike == {<<<<c>>, <<c, d>>>>}

Fields(inHindi, inTamil) == (hi :> inHindi) @@ (ta :> inTamil)
Posts == (cost :> {Fields({AB, CB}, {Five}), Fields({Five}, {AB, CB})})
       @@ (time :> {Fields({AB}, {CB, Five})})

\* replace_faq_keywords replaces: like WholeWordings, what is served of an entry
\* in a language is one posted set, never what two forms left together.
WordingsAsPosted ==
  migrations = 0 =>
    \A i \in DOMAIN pack, l \in Langs :
      pack[i].keywords[l] \in Posted(pack[i].id, l) \cup {{}}

\* "Saved": whenever a form has been saved and nobody is at work, the list in
\* memory holds what the tables hold.
SavedIsServed ==
  (\A p \in Processes : pc[p] = "idle") /\ migrations = 0 =>
    \A f \in Admins : outcome[f] = "saved" =>
      \/ Range(pack) = {Entry(i, keywords) : i \in Approved}
      \/ \E g \in Admins : outcome[g] \in {"created", "failed"}

\* The migration is "safe to re-run (upserts)": like WholeWordings, with it.
RerunIsSafe == \A i \in DOMAIN pack : Whole(pack[i])

\* "Confidence is always 1.0 -- deterministic, unambiguous" (of an exact match):
\* with the same entries and keywords in memory, every question keeps its entry.
AnswersFollowKeywords ==
  [][pack' # pack /\ Range(pack') = Range(pack) =>
      \A l \in Langs, q \in Questions : MatchFaq(pack', l, q) = MatchFaq(pack, l, q)]_vars
=============================================================================
