------------------------------ MODULE FaqMatch ------------------------------
(***************************************************************************)
(* Which approved entry a question gets: match_faq of src/faq_state.py.    *)
(*                                                                         *)
(* A text is a sequence of letters (syllables, in the instances), blanks   *)
(* and marks, already in lower case.  A score, a ratio in the code, is in  *)
(* units of 1/2520, the least common denominator of the ratios of keywords *)
(* of at most nine words.  Among those no two scores that can be compared  *)
(* differ by exactly the margin, so floats decide as fractions do; with ten*)
(* words they would not (1.0 - 0.9 < 0.10 in floats).                      *)
(***************************************************************************)
EXTENDS SpokenText

CONSTANTS
  Letters,
  Texts,        \* the keywords and questions considered
  Similar,      \* pairs of words that difflib finds at least 0.80 alike
  Langs,
  NoMatch

Unit == 2520
FuzzyThreshold == (Unit * 78 + 99) \div 100
FuzzyMargin == Unit \div 10

\* keyword in normalized
Occurs(k, t) == \E i \in 0 .. Len(t) - Len(k) : \A j \in DOMAIN k : t[i + j] = k[j]

\* The maximal runs of letters.
Tokenize(t) ==
  {SubSeq(t, r[1], r[2]) : r \in
    {r \in (DOMAIN t) \X (DOMAIN t) :
      /\ r[1] <= r[2]
      /\ \A i \in r[1] .. r[2] : t[i] \in Letters
      /\ r[1] = 1 \/ t[r[1] - 1] \notin Letters
      /\ r[2] = Len(t) \/ t[r[2] + 1] \notin Letters}}

ASSUME MatchAssumption ==
  /\ ({Blank} \cup Marks) \cap Letters = {}
  /\ Texts \subseteq Seq(Letters \cup {Blank} \cup Marks)
  /\ \A t \in Texts : Cardinality(Tokenize(t)) <= 9
  /\ IsFiniteSet(Texts)

-----------------------------------------------------------------------------
\* Tables of what texts have in common (a definition without parameters is
\* evaluated once).  The words of a keyword that were heard, exactly or nearly:
Words == [t \in Texts |-> Tokenize(t)]
Heard(k, t) == {w \in Words[k] : \E h \in Words[t] : w = h \/ <<w, h>> \in Similar}

Score == [k \in Texts |-> [t \in Texts |->
  IF Words[k] = {} THEN 0 ELSE (Cardinality(Heard(k, t)) * Unit) \div Cardinality(Words[k])]]

Verbatim == [k \in Texts |-> [t \in Texts |-> Occurs(k, Strip(t))]]

\* Mutant of EntryScore: some keyword's score, not the best one's.
AnyScore(entry, l, t) ==
  IF entry.keywords[l] = {} THEN 0 ELSE Score[CHOOSE k \in entry.keywords[l] : TRUE][t]

EntryScore(entry, l, t) == Max({0} \cup {Score[k][t] : k \in entry.keywords[l]})

\* Tier 1: the places in the list of the entries with a keyword in the text.
Exact(pack, l, t) ==
  {i \in DOMAIN pack : \E k \in pack[i].keywords[l] : Verbatim[k][t]}

\* Mutants of Fuzzy: the margin is not asked for; every keyword's score
\* competes, those of the entry itself included.
FuzzyWithoutMargin(pack, l, t) ==
  LET score == [i \in DOMAIN pack |-> EntryScore(pack[i], l, t)]
      Leads(i) == \A j \in DOMAIN pack : score[j] < score[i] \/ (score[j] = score[i] /\ i <= j)
  IN  {i \in DOMAIN pack : Leads(i) /\ score[i] >= FuzzyThreshold}

FuzzyAmongKeywords(pack, l, t) ==
  LET Clear(i, k) == \A j \in DOMAIN pack : \A other \in pack[j].keywords[l] :
        <<i, k>> # <<j, other>> => Score[k][t] - Score[other][t] >= FuzzyMargin
  IN  {i \in DOMAIN pack : \E k \in pack[i].keywords[l] :
        Score[k][t] >= FuzzyThreshold /\ Clear(i, k)}

\* Tier 2: the first of the best entries, if it is good and the next one is
\* clearly worse.
Fuzzy(pack, l, t) ==
  LET score == [i \in DOMAIN pack |-> EntryScore(pack[i], l, t)]
      Leads(i) == \A j \in DOMAIN pack : score[j] < score[i] \/ (score[j] = score[i] /\ i <= j)
      second(i) == Max({0} \cup {score[j] : j \in DOMAIN pack \ {i}})
  IN  {i \in DOMAIN pack :
        Leads(i) /\ score[i] >= FuzzyThreshold /\ score[i] - second(i) >= FuzzyMargin}

\* The id of the entry and the tier it was found in.
MatchFaq(pack, l, t) ==
  LET exact == Exact(pack, l, t)
      fuzzy == Fuzzy(pack, l, t)
  IN  IF Strip(t) = << >> THEN NoMatch
      ELSE IF exact # {} THEN [id |-> pack[Min(exact)].id, tier |-> "exact"]
      ELSE IF fuzzy # {} THEN [id |-> pack[Min(fuzzy)].id, tier |-> "fuzzy"]
      ELSE NoMatch
=============================================================================
