--------------------------- MODULE FaqMatchProofs ---------------------------
(***************************************************************************)
(* Proofs about match_faq and the pack it scans (FaqMatch, FaqPack): which *)
(* entry a question gets depends neither on the order a load finds the rows*)
(* in nor on keywords added to that entry, and the list that is scanned    *)
(* holds what was posted and, once saved, what is stored.                  *)
(***************************************************************************)
EXTENDS FaqPack, FiniteSetTheorems, WellFoundedInduction, TLAPS

-----------------------------------------------------------------------------
(* Scores.                                                                 *)

LEMMA MinExists ==
  ASSUME NEW S, S \subseteq Nat, S # {}
  PROVE  \E x \in S : \A y \in S : x <= y
<1> DEFINE R == {p \in Nat \X Nat : p[1] < p[2]}
<1>1. OpToRel(<, Nat) = R
  BY Zenon DEF OpToRel
<1>2. IsWellFoundedOn(R, Nat)
  BY <1>1, NatLessThanWellFounded, Zenon
<1>3. \E x \in S : \A y \in S : ~ (<<y, x>> \in R)
  <2> HIDE DEF R
  <2> QED BY <1>2, WFMin
<1>4. ASSUME NEW x \in S, NEW y \in S, ~ (<<y, x>> \in R) PROVE x <= y
  BY <1>4
<1> QED
  BY <1>3, <1>4

\* A nonempty set of numbers up to n has a greatest element, and Max is it.
LEMMA MaxOfBounded ==
  ASSUME NEW n \in Nat, NEW S, S \subseteq 0 .. n, S # {}
  PROVE  /\ Max(S) \in S
         /\ \A y \in S : y <= Max(S)
<1> DEFINE Below == {n - x : x \in S}
<1>1. Below \subseteq Nat /\ Below # {}
  OBVIOUS
<1>2. PICK low \in Below : \A y \in Below : low <= y
  BY <1>1, MinExists
<1>3. PICK top \in S : low = n - top
  OBVIOUS
<1>4. ASSUME NEW y \in S PROVE top >= y
  <2>1. n - y \in Below
    OBVIOUS
  <2>2. n - top <= n - y
    BY <1>2, <1>3, <2>1
  <2>3. y \in Int /\ top \in Int
    OBVIOUS
  <2> QED
    BY <2>2, <2>3
<1>5. \E x \in S : \A y \in S : x >= y
  BY <1>4
<1> QED
  BY <1>5 DEF Max

LEMMA WordsAreFinite ==
  ASSUME NEW t \in Texts
  PROVE  IsFiniteSet(Words[t])
<1> DEFINE All == (DOMAIN t) \X (DOMAIN t)
           Runs == {r \in All :
                     /\ r[1] <= r[2]
                     /\ \A i \in r[1] .. r[2] : t[i] \in Letters
                     /\ r[1] = 1 \/ t[r[1] - 1] \notin Letters
                     /\ r[2] = Len(t) \/ t[r[2] + 1] \notin Letters}
           Word == [r \in Runs |-> SubSeq(t, r[1], r[2])]
<1>1. IsFiniteSet(DOMAIN t)
  <2>1. DOMAIN t = 1 .. Len(t) /\ Len(t) \in Int
    BY MatchAssumption, t \in Seq(Letters \cup {Blank} \cup Marks) DEF MatchAssumption
  <2>2. IsFiniteSet(1 .. Len(t))
    BY <2>1, FS_Interval
  <2> QED
    BY <2>1, <2>2
<1>2. IsFiniteSet(All)
  BY <1>1, FS_Product
<1>3. IsFiniteSet(Runs)
  BY <1>2, FS_Subset
<1>4. Tokenize(t) = {SubSeq(t, r[1], r[2]) : r \in Runs}
  BY DEF Tokenize
<1>5. Word \in Surjection(Runs, Tokenize(t))
  BY <1>4 DEF Surjection
<1>6. IsFiniteSet(Tokenize(t))
  <2> HIDE DEF Word, Runs
  <2> QED BY <1>3, <1>5, FS_Surjection
<1> QED
  BY <1>6 DEF Words

LEMMA ScoreInRange ==
  ASSUME NEW k \in Texts, NEW t \in Texts
  PROVE  Score[k][t] \in 0 .. Unit
<1>1. Score[k][t] = IF Words[k] = {} THEN 0
                    ELSE (Cardinality(Heard(k, t)) * Unit) \div Cardinality(Words[k])
  BY DEF Score
<1>2. CASE Words[k] = {}
  BY <1>1, <1>2 DEF Unit
<1>3. CASE Words[k] # {}
  <2>1. IsFiniteSet(Words[k])
    BY WordsAreFinite
  <2>2. Heard(k, t) \in SUBSET Words[k]
    BY DEF Heard
  <2> DEFINE h == Cardinality(Heard(k, t))
             n == Cardinality(Words[k])
  <2>3. IsFiniteSet(Heard(k, t)) /\ h <= n
    BY <2>1, <2>2, FS_Subset
  <2>4. h \in Nat /\ n \in Nat
    BY <2>1, <2>3, FS_CardinalityType
  <2>5. n # 0
    BY <2>1, <1>3, FS_EmptySet
  <2>6. Score[k][t] = (h * Unit) \div n
    BY <1>1, <1>3
  <2> HIDE DEF h, n
  <2>7. ASSUME NEW q \in Nat, q = (h * 2520) \div n PROVE q <= 2520
    <3>1. q * n <= h * 2520
      BY <2>4, <2>5, <2>7
    <3>2. h * 2520 <= n * 2520
      BY <2>3, <2>4
    <3> QED
      BY <3>1, <3>2, <2>4, <2>5, <2>7
  <2>8. (h * 2520) \div n \in Nat
    BY <2>4, <2>5
  <2> QED
    BY <2>6, <2>7, <2>8, SMTT(30) DEF Unit
<1> QED
  BY <1>2, <1>3

-----------------------------------------------------------------------------
(* Lists of entries.                                                       *)

LEMMA UnitFacts ==
  Unit \in Nat /\ Unit = 2520 /\ FuzzyMargin = 252 /\ FuzzyThreshold = 1966
<1> QED
  BY DEF FuzzyMargin, FuzzyThreshold, Unit

LEMMA MaxOfScores ==
  ASSUME NEW S, S \subseteq 0 .. Unit, S # {}
  PROVE  /\ Max(S) \in S
         /\ \A y \in S : y <= Max(S)
<1>1. Unit \in Nat
  BY UnitFacts
<1> QED
  BY <1>1, MaxOfBounded, Zenon

\* What is apart by the margin, and what then is not.
LEMMA Margins ==
  ASSUME NEW a \in 0 .. Unit, NEW b \in 0 .. Unit
  PROVE  /\ a - b >= FuzzyMargin => b < a
         /\ \A c \in 0 .. Unit : b <= c /\ a - c >= FuzzyMargin => a - b >= FuzzyMargin
         /\ a >= FuzzyThreshold => a - 0 >= FuzzyMargin
<1>1. \A x \in 0 .. Unit : x \in Int /\ 0 <= x
  BY UnitFacts
<1>2. a \in Int /\ b \in Int /\ 0 <= a /\ 0 <= b
  BY <1>1
<1>3. FuzzyMargin \in Int /\ FuzzyMargin = 252 /\ FuzzyThreshold = 1966
  BY UnitFacts
<1>4. a - b >= FuzzyMargin => b < a
  BY <1>2, <1>3
<1>5. ASSUME NEW c \in 0 .. Unit, b <= c, a - c >= FuzzyMargin PROVE a - b >= FuzzyMargin
  <2>1. c \in Int
    BY <1>1
  <2> QED BY <1>2, <1>3, <1>5, <2>1
<1>6. a >= FuzzyThreshold => a - 0 >= FuzzyMargin
  BY <1>2, <1>3
<1> QED
  BY <1>4, <1>5, <1>6

Entries == [id : Ids, keywords : [Langs -> SUBSET Texts]]
IsList(list) ==
  /\ \E n \in Nat : list \in [1 .. n -> Entries]
  /\ \A i, j \in DOMAIN list : list[i].id = list[j].id => i = j

LEMMA EntryScoreIsBest ==
  ASSUME NEW e \in Entries, NEW l \in Langs, NEW t \in Texts
  PROVE  /\ EntryScore(e, l, t) \in 0 .. Unit
         /\ \A k \in e.keywords[l] : Score[k][t] <= EntryScore(e, l, t)
         /\ EntryScore(e, l, t) = 0 \/ \E k \in e.keywords[l] : EntryScore(e, l, t) = Score[k][t]
<1> DEFINE S == {0} \cup {Score[k][t] : k \in e.keywords[l]}
<1>1. e.keywords[l] \subseteq Texts
  BY DEF Entries
<1>2. S \subseteq 0 .. Unit
  <2>1. 0 \in 0 .. Unit
    BY DEF Unit
  <2>2. \A k \in e.keywords[l] : Score[k][t] \in 0 .. Unit
    BY <1>1, ScoreInRange, Zenon
  <2> QED BY <2>1, <2>2, Zenon
<1>3. Max(S) \in S /\ \A y \in S : y <= Max(S)
  <2> HIDE DEF S
  <2>1. S # {}
    BY DEF S
  <2> QED BY <1>2, <2>1, MaxOfScores
<1>4. EntryScore(e, l, t) = Max(S)
  BY DEF EntryScore
<1> QED
  BY <1>2, <1>3, <1>4

LEMMA EntryScoreIsInt ==
  ASSUME NEW e \in Entries, NEW l \in Langs, NEW t \in Texts
  PROVE  EntryScore(e, l, t) \in Int /\ 0 <= EntryScore(e, l, t)
<1>1. EntryScore(e, l, t) \in 0 .. Unit
  BY EntryScoreIsBest
<1>2. \A x \in 0 .. Unit : x \in Int /\ 0 <= x
  BY UnitFacts
<1> QED BY <1>1, <1>2

\* What the second tier accepts, without the sort: an entry that is good, and
\* better by the margin than every other.
LEMMA FuzzyMeans ==
  ASSUME NEW list, IsList(list), NEW l \in Langs, NEW t \in Texts, NEW i \in DOMAIN list
  PROVE  i \in Fuzzy(list, l, t) <=>
           /\ EntryScore(list[i], l, t) >= FuzzyThreshold
           /\ \A j \in DOMAIN list \ {i} :
                EntryScore(list[i], l, t) - EntryScore(list[j], l, t) >= FuzzyMargin
<1> DEFINE score == [n \in DOMAIN list |-> EntryScore(list[n], l, t)]
           Leads(n) == \A j \in DOMAIN list : score[j] < score[n] \/ (score[j] = score[n] /\ n <= j)
           others == {0} \cup {score[j] : j \in DOMAIN list \ {i}}
<1>1. \A n \in DOMAIN list : score[n] \in 0 .. Unit
  BY EntryScoreIsBest DEF IsList
<1>2. others \subseteq 0 .. Unit /\ others # {}
  BY <1>1 DEF Unit
<1>3. Max(others) \in others /\ \A y \in others : y <= Max(others)
  <2> HIDE DEF others
  <2> QED BY <1>2, MaxOfScores
<1>4. i \in Fuzzy(list, l, t) <=>
        Leads(i) /\ score[i] >= FuzzyThreshold /\ score[i] - Max(others) >= FuzzyMargin
  BY DEF Fuzzy
<1>5. DOMAIN list \subseteq Int
  BY DEF IsList
<1>6. i \in Fuzzy(list, l, t) <=>
        /\ \A j \in DOMAIN list : score[j] < score[i] \/ (score[j] = score[i] /\ i <= j)
        /\ score[i] >= FuzzyThreshold
        /\ score[i] - Max(others) >= FuzzyMargin
  BY <1>4
<1>7. \A j \in DOMAIN list : score[j] = EntryScore(list[j], l, t)
  OBVIOUS
<1>8. /\ \A j \in DOMAIN list \ {i} : score[j] \in others
      /\ \A y \in others : y = 0 \/ \E j \in DOMAIN list \ {i} : y = score[j]
  OBVIOUS
<1> HIDE DEF score, others
<1>9. Max(others) \in 0 .. Unit
  BY <1>2, <1>3
<1>10. ASSUME score[i] - Max(others) >= FuzzyMargin, NEW j \in DOMAIN list \ {i}
       PROVE  score[i] - score[j] >= FuzzyMargin
  <2>1. score[j] <= Max(others)
    BY <1>3, <1>8
  <2> QED
    BY <1>1, <1>9, <1>10, <2>1, Margins
<1>11. ASSUME score[i] >= FuzzyThreshold,
              \A j \in DOMAIN list \ {i} : score[i] - score[j] >= FuzzyMargin
       PROVE  /\ \A j \in DOMAIN list : score[j] < score[i] \/ (score[j] = score[i] /\ i <= j)
              /\ score[i] - Max(others) >= FuzzyMargin
  <2>1. ASSUME NEW j \in DOMAIN list
        PROVE  score[j] < score[i] \/ (score[j] = score[i] /\ i <= j)
    <3>1. CASE j = i
      BY <3>1, <1>5
    <3>2. CASE j # i
      BY <3>2, <1>1, <1>11, Margins
    <3> QED
      BY <3>1, <3>2
  <2>2. score[i] - Max(others) >= FuzzyMargin
    <3>1. CASE Max(others) = 0
      BY <3>1, <1>1, <1>11, Margins
    <3>2. CASE \E j \in DOMAIN list \ {i} : Max(others) = score[j]
      BY <3>2, <1>11
    <3> QED
      BY <1>3, <1>8, <3>1, <3>2
  <2> QED
    BY <2>1, <2>2
<1> QED
  BY <1>6, <1>7, <1>10, <1>11

LEMMA OneFuzzyEntry ==
  ASSUME NEW list, IsList(list), NEW l \in Langs, NEW t \in Texts,
         NEW i \in Fuzzy(list, l, t)
  PROVE  i \in DOMAIN list /\ Min(Fuzzy(list, l, t)) = i
<1>1. \A n \in Fuzzy(list, l, t) : n \in DOMAIN list
  BY DEF Fuzzy
<1>2. ASSUME NEW j \in Fuzzy(list, l, t), j # i PROVE FALSE
  <2> DEFINE si == EntryScore(list[i], l, t)
             sj == EntryScore(list[j], l, t)
  <2>1. si - sj >= FuzzyMargin /\ sj - si >= FuzzyMargin
    BY <1>1, <1>2, FuzzyMeans
  <2>2. si \in 0 .. Unit /\ sj \in 0 .. Unit
    BY <1>1, EntryScoreIsBest DEF IsList
  <2> HIDE DEF si, sj
  <2> QED
    <3>1. si - sj >= FuzzyMargin => sj < si
      BY <2>2, Margins
    <3>2. sj - si >= FuzzyMargin => si < sj
      BY <2>2, Margins
    <3>3. si \in Int /\ sj \in Int
      BY <2>2, UnitFacts
    <3> QED BY <2>1, <3>1, <3>2, <3>3
<1>3. Fuzzy(list, l, t) = {i}
  BY <1>2
<1>4. i \in Int
  BY <1>1 DEF IsList
<1> QED
  BY <1>1, <1>3, <1>4 DEF Min

\* The entries of two lists of the same entries that the second tier accepts.
LEMMA FuzzyIsAboutEntries ==
  ASSUME NEW A, IsList(A), NEW B, IsList(B), Range(A) = Range(B),
         NEW l \in Langs, NEW t \in Texts, NEW i \in Fuzzy(A, l, t)
  PROVE  \E m \in Fuzzy(B, l, t) : B[m] = A[i]
<1>1. i \in DOMAIN A
  BY OneFuzzyEntry
<1>2. PICK m \in DOMAIN B : B[m] = A[i]
  BY <1>1 DEF Range
<1>3. EntryScore(B[m], l, t) >= FuzzyThreshold
  BY <1>1, <1>2, FuzzyMeans
<1>4. ASSUME NEW j \in DOMAIN B \ {m}
      PROVE  EntryScore(B[m], l, t) - EntryScore(B[j], l, t) >= FuzzyMargin
  <2>1. PICK n \in DOMAIN A : A[n] = B[j]
    BY DEF Range
  <2>2. B[j].id # B[m].id
    BY DEF IsList
  <2>3. n # i
    BY <1>2, <2>1, <2>2
  <2> QED
    BY <1>1, <1>2, <2>1, <2>3, FuzzyMeans
<1> QED
  BY <1>2, <1>3, <1>4, FuzzyMeans

\* A question the second tier decides is decided alike by any two lists of
\* the same entries.
LEMMA OrderDoesNotMatter ==
  ASSUME NEW A, IsList(A), NEW B, IsList(B), Range(A) = Range(B),
         NEW l \in Langs, NEW t \in Texts, Exact(A, l, t) = {}
  PROVE  MatchFaq(B, l, t) = MatchFaq(A, l, t)
<1>1. Exact(B, l, t) = {}
  <2>1. ASSUME NEW m \in Exact(B, l, t) PROVE FALSE
    <3>1. m \in DOMAIN B /\ \E k \in B[m].keywords[l] : Verbatim[k][t]
      BY DEF Exact
    <3>2. PICK i \in DOMAIN A : A[i] = B[m]
      BY <3>1 DEF Range
    <3> QED BY <3>1, <3>2 DEF Exact
  <2> QED BY <2>1
<1>2. CASE Fuzzy(A, l, t) = {}
  <2>1. Fuzzy(B, l, t) = {}
    BY <1>2, FuzzyIsAboutEntries
  <2> QED BY <1>1, <1>2, <2>1 DEF MatchFaq
<1>3. CASE Fuzzy(A, l, t) # {}
  <2>1. PICK i \in Fuzzy(A, l, t) : TRUE
    BY <1>3
  <2>2. PICK m \in Fuzzy(B, l, t) : B[m] = A[i]
    BY <2>1, FuzzyIsAboutEntries
  <2>3. Min(Fuzzy(A, l, t)) = i /\ Min(Fuzzy(B, l, t)) = m
    BY OneFuzzyEntry
  <2> QED BY <1>1, <1>3, <2>2, <2>3 DEF MatchFaq
<1> QED BY <1>2, <1>3

-----------------------------------------------------------------------------
(* A keyword more.                                                         *)

LEMMA MinOfPlaces ==
  ASSUME NEW S, S \subseteq Nat, S # {}
  PROVE  Min(S) \in S
BY MinExists DEF Min

LEMMA WithKeywordIsList ==
  ASSUME NEW list, IsList(list), NEW i \in DOMAIN list, NEW l \in Langs, NEW k \in Texts
  PROVE  LET more == WithKeyword(list, i, l, k)
         IN  /\ IsList(more) /\ DOMAIN more = DOMAIN list
             /\ \A j \in DOMAIN list : more[j].id = list[j].id
             /\ \A j \in DOMAIN list \ {i} : more[j] = list[j]
             /\ more[i].keywords[l] = list[i].keywords[l] \cup {k}
<1> DEFINE more == WithKeyword(list, i, l, k)
<1>1. PICK n \in Nat : list \in [1 .. n -> Entries]
  BY DEF IsList
<1>2. list[i] \in Entries /\ list[i].keywords \in [Langs -> SUBSET Texts]
  BY <1>1 DEF Entries
<1> DEFINE words == [list[i].keywords EXCEPT ![l] = list[i].keywords[l] \cup {k}]
           entry == [list[i] EXCEPT !.keywords = words]
<1>3. more = [list EXCEPT ![i] = entry]
  BY <1>1, <1>2 DEF WithKeyword, Entries
<1>4. words \in [Langs -> SUBSET Texts] /\ words[l] = list[i].keywords[l] \cup {k}
  BY <1>2
<1>5. entry \in Entries /\ entry.id = list[i].id /\ entry.keywords = words
  <2> HIDE DEF words
  <2> QED BY <1>2, <1>4 DEF Entries
<1> HIDE DEF more, words, entry
<1>6. /\ DOMAIN more = DOMAIN list /\ more[i] = entry
      /\ \A j \in DOMAIN list \ {i} : more[j] = list[j]
      /\ more \in [1 .. n -> Entries]
  BY <1>1, <1>3, <1>5
<1>7. \A j \in DOMAIN list : more[j].id = list[j].id
  BY <1>5, <1>6
<1>8. IsList(more)
  BY <1>6, <1>7 DEF IsList
<1> QED
  BY <1>4, <1>5, <1>6, <1>7, <1>8 DEF more

LEMMA ScoreGrows ==
  ASSUME NEW e \in Entries, NEW f \in Entries, NEW l \in Langs, NEW t \in Texts,
         e.keywords[l] \subseteq f.keywords[l]
  PROVE  EntryScore(e, l, t) <= EntryScore(f, l, t)
<1>1. EntryScore(e, l, t) \in Int /\ EntryScore(f, l, t) \in Int /\ 0 <= EntryScore(f, l, t)
  BY EntryScoreIsInt
<1>2. CASE EntryScore(e, l, t) = 0
  BY <1>1, <1>2
<1>3. CASE \E k \in e.keywords[l] : EntryScore(e, l, t) = Score[k][t]
  BY <1>3, EntryScoreIsBest
<1> QED
  BY <1>2, <1>3, EntryScoreIsBest

\* The keyword is heard verbatim, or it can only raise its entry's score:
\* whatever the entry was found for, it still is.
LEMMA KeywordKeepsQuestion ==
  ASSUME NEW list, IsList(list), NEW i \in DOMAIN list, NEW l \in Langs,
         NEW k \in Texts, NEW t \in Texts,
         MatchFaq(list, l, t) # NoMatch, MatchFaq(list, l, t).id = list[i].id,
         NoMatch \notin [id : Ids, tier : {"exact", "fuzzy"}]
  PROVE  LET found == MatchFaq(WithKeyword(list, i, l, k), l, t)
         IN  found # NoMatch /\ found.id = list[i].id
<1> DEFINE more == WithKeyword(list, i, l, k)
<1>1. /\ IsList(more) /\ DOMAIN more = DOMAIN list
      /\ \A j \in DOMAIN list : more[j].id = list[j].id
      /\ \A j \in DOMAIN list \ {i} : more[j] = list[j]
      /\ more[i].keywords[l] = list[i].keywords[l] \cup {k}
  BY WithKeywordIsList
<1>2. DOMAIN list \subseteq Nat /\ \A j \in DOMAIN list : list[j] \in Entries
  BY DEF IsList
<1>3. more[i] \in Entries
  BY <1>1 DEF IsList
<1>4. list[i].id \in Ids /\ more[i].id = list[i].id
  BY <1>1, <1>2 DEF Entries
<1> HIDE DEF more
<1> SUFFICES MatchFaq(more, l, t) # NoMatch /\ MatchFaq(more, l, t).id = list[i].id
  BY DEF more
<1>5. Strip(t) # << >>
  BY DEF MatchFaq
<1>6. ASSUME Exact(more, l, t) = {i}
      PROVE  MatchFaq(more, l, t) # NoMatch /\ MatchFaq(more, l, t).id = list[i].id
  <2>1. Min({i}) = i
    BY <1>2 DEF Min
  <2>2. MatchFaq(more, l, t) = [id |-> list[i].id, tier |-> "exact"]
    <3>1. MatchFaq(more, l, t) = [id |-> more[Min(Exact(more, l, t))].id, tier |-> "exact"]
      BY <1>5, <1>6 DEF MatchFaq
    <3>2. Min(Exact(more, l, t)) = i
      BY <1>6, <2>1
    <3> QED BY <1>4, <3>1, <3>2
  <2> QED BY <1>4, <2>2
<1>7. CASE Exact(list, l, t) # {}
  <2> DEFINE m == Min(Exact(list, l, t))
  <2>1. m \in Exact(list, l, t) /\ m \in DOMAIN list
    BY <1>2, <1>7, MinOfPlaces DEF Exact
  <2>2. MatchFaq(list, l, t).id = list[m].id
    BY <1>5, <1>7 DEF MatchFaq
  <2>3. m = i
    BY <2>1, <2>2 DEF IsList
  <2>4. Exact(more, l, t) = Exact(list, l, t)
    <3>1. ASSUME NEW j \in DOMAIN list \ {i}
          PROVE  j \in Exact(more, l, t) <=> j \in Exact(list, l, t)
      BY <1>1 DEF Exact
    <3>2. i \in Exact(more, l, t)
      BY <1>1, <2>1, <2>3 DEF Exact
    <3>3. Exact(more, l, t) \subseteq DOMAIN list /\ Exact(list, l, t) \subseteq DOMAIN list
      BY <1>1 DEF Exact
    <3> QED BY <2>1, <2>3, <3>1, <3>2, <3>3
  <2>5. MatchFaq(more, l, t) = [id |-> list[i].id, tier |-> "exact"]
    BY <1>4, <1>5, <1>7, <2>3, <2>4 DEF MatchFaq
  <2> QED BY <1>4, <2>5
<1>8. CASE Exact(list, l, t) = {}
  <2>1. Fuzzy(list, l, t) # {}
    BY <1>5, <1>8 DEF MatchFaq
  <2>2. PICK m \in Fuzzy(list, l, t) : TRUE
    BY <2>1
  <2>3. m \in DOMAIN list /\ Min(Fuzzy(list, l, t)) = m
    BY OneFuzzyEntry
  <2>4. MatchFaq(list, l, t).id = list[m].id
    BY <1>5, <1>8, <2>1, <2>3 DEF MatchFaq
  <2>5. m = i
    BY <2>3, <2>4 DEF IsList
  <2>6. Exact(more, l, t) \subseteq {i}
    BY <1>1, <1>8 DEF Exact
  <2>7. CASE Exact(more, l, t) = {}
    <3>1. EntryScore(list[i], l, t) <= EntryScore(more[i], l, t)
      BY <1>1, <1>2, <1>3, ScoreGrows
    <3>2. ASSUME NEW j \in DOMAIN more \ {i}
          PROVE  EntryScore(more[i], l, t) - EntryScore(more[j], l, t) >= FuzzyMargin
      <4>1. EntryScore(list[i], l, t) - EntryScore(list[j], l, t) >= FuzzyMargin
        BY <1>1, <2>5, FuzzyMeans
      <4>2. more[j] = list[j] /\ list[j] \in Entries /\ list[i] \in Entries
        BY <1>1, <1>2
      <4>3. /\ EntryScore(list[i], l, t) \in Int /\ EntryScore(list[j], l, t) \in Int
            /\ EntryScore(more[i], l, t) \in Int
        BY <1>3, <4>2, EntryScoreIsInt
      <4> QED BY <3>1, <4>1, <4>2, <4>3, UnitFacts
    <3>3. EntryScore(list[i], l, t) >= FuzzyThreshold
      BY <2>5, FuzzyMeans
    <3>4. EntryScore(more[i], l, t) >= FuzzyThreshold
      <4>1. EntryScore(list[i], l, t) \in Int /\ EntryScore(more[i], l, t) \in Int
        BY <1>2, <1>3, EntryScoreIsInt
      <4> QED BY <3>1, <3>3, <4>1, UnitFacts
    <3>5. i \in Fuzzy(more, l, t)
      BY <1>1, <3>2, <3>4, FuzzyMeans
    <3>6. Min(Fuzzy(more, l, t)) = i
      BY <1>1, <3>5, OneFuzzyEntry
    <3>7. MatchFaq(more, l, t) = [id |-> list[i].id, tier |-> "fuzzy"]
      BY <1>4, <1>5, <2>7, <3>5, <3>6 DEF MatchFaq
    <3> QED BY <1>4, <3>7
  <2> QED BY <1>6, <2>6, <2>7
<1> QED BY <1>7, <1>8

-----------------------------------------------------------------------------
(* The lists that the system builds.                                       *)

Locations == {"idle", "keywords", "commit", "loadFaqs", "loadKeywords", "loadAnswers",
              "assign", "insert"}
Writing == {"keywords", "commit", "insert"}
Jobs == [id : Ids \cup {"none"}, at : Nat, words : [Langs -> SUBSET Texts]]

\* What a process writes while it writes: an entry, one of its languages, and
\* keywords that may be posted.
JobsInv ==
  /\ pc \in [Processes -> Locations]
  /\ job \in [Processes -> Jobs]
  /\ \A p \in Processes : pc[p] \in Writing =>
       /\ job[p].id \in Ids
       /\ job[p].at \in DOMAIN LangOrder
       /\ job[p].words \in Wordings[job[p].id]

PackInv ==
  /\ JobsInv
  /\ keywords \in [Ids -> [Langs -> SUBSET Texts]]
  /\ doomed \in [Admins -> SUBSET Texts]
  /\ loading = [f \in Admins |-> loading[f]]
  /\ \A f \in Admins : IsList(loading[f])
  /\ IsList(pack)

LEMMA NoEntriesIsList == IsList(<< >>)
<1>1. << >> \in [1 .. 0 -> Entries] /\ DOMAIN << >> = {}
  OBVIOUS
<1> QED
  BY <1>1 DEF IsList

\* Whatever order a load finds the rows in, it builds a list.
LEMMA LoadsAreLists ==
  ASSUME NEW ids \in SUBSET Ids, NEW words \in [Ids -> [Langs -> SUBSET Texts]],
         NEW list \in Lists(ids, words)
  PROVE  IsList(list)
<1>1. PICK order \in Bijection(1 .. Cardinality(ids), ids) :
        list = [n \in DOMAIN order |-> Entry(order[n], words)]
  BY DEF Lists
<1>2. Cardinality(ids) \in Nat
  BY PackAssumption, FS_Subset, FS_CardinalityType DEF PackAssumption
<1>3. /\ order \in [1 .. Cardinality(ids) -> ids]
      /\ \A m, n \in 1 .. Cardinality(ids) : order[m] = order[n] => m = n
  BY DEF Bijection, Injection, IsInjective
<1>4. \A n \in 1 .. Cardinality(ids) : Entry(order[n], words) \in Entries
  BY <1>3 DEF Entry, Entries
<1>5. list \in [1 .. Cardinality(ids) -> Entries]
  BY <1>1, <1>3, <1>4
<1>6. \A n \in DOMAIN list : list[n].id = order[n]
  BY <1>1, <1>3 DEF Entry
<1> QED
  BY <1>2, <1>3, <1>5, <1>6 DEF IsList

LEMMA NoJobIsJob == NoJob \in Jobs
BY DEF NoJob, NoKeywords, Jobs

LEMMA WordsArePosted ==
  ASSUME NEW id \in Ids, NEW w \in Wordings[id]
  PROVE  w \in [Langs -> SUBSET Texts]
BY PackAssumption DEF PackAssumption

LEMMA LanguageOfJob ==
  ASSUME PackInv, NEW p \in Processes, pc[p] \in Writing
  PROVE  /\ Lang(p) \in Langs
         /\ job[p].id \in Ids
         /\ job[p].words[Lang(p)] \in SUBSET Texts
         /\ Found(p) \in SUBSET Texts
<1>1. /\ job[p].id \in Ids
      /\ job[p].at \in DOMAIN LangOrder
      /\ job[p].words \in [Langs -> SUBSET Texts]
  BY WordsArePosted DEF PackInv, JobsInv
<1>2. Lang(p) \in Langs
  BY <1>1, PackAssumption DEF PackAssumption, Lang
<1> QED BY <1>1, <1>2 DEF PackInv, Found

LEMMA PackInit == Init => PackInv
<1> SUFFICES ASSUME Init PROVE PackInv
  OBVIOUS
<1>1. JobsInv
  <2>1. /\ pc = [p \in Processes |-> "idle"]
        /\ job = [p \in Processes |-> NoJob]
    BY DEF Init
  <2> QED BY <2>1, NoJobIsJob DEF JobsInv, Locations, Writing
<1>2. keywords \in [Ids -> [Langs -> SUBSET Texts]]
  BY DEF Init, Nowhere, NoKeywords
<1> QED BY <1>1, <1>2, NoEntriesIsList DEF Init, PackInv

LEMMA NextLanguageKeepsJobs ==
  ASSUME NEW p \in Processes, pc[p] \in Writing, NEW then \in Locations \ Writing,
         JobsInv, NextLanguage(p, then)
  PROVE  JobsInv'
<1> DEFINE next == [job[p] EXCEPT !.at = job[p].at + 1]
<1>1. job[p] \in Jobs /\ job[p].at \in 1 .. Len(LangOrder) /\ Len(LangOrder) \in Nat
  BY PackAssumption DEF PackAssumption, JobsInv
<1>2. /\ next \in Jobs
      /\ next.id = job[p].id
      /\ next.at = job[p].at + 1
      /\ next.words = job[p].words
  BY <1>1 DEF Jobs
<1> HIDE DEF next
<1>3. CASE job[p].at < Len(LangOrder)
  <2>1. pc' = [pc EXCEPT ![p] = "keywords"] /\ job' = [job EXCEPT ![p] = next]
    BY <1>3 DEF NextLanguage, Goto, next
  <2>2. next.at \in DOMAIN LangOrder
    BY <1>1, <1>2, <1>3, PackAssumption DEF PackAssumption
  <2> QED BY <1>2, <2>1, <2>2 DEF JobsInv, Locations, Writing
<1>4. CASE ~ (job[p].at < Len(LangOrder))
  <2>1. pc' = [pc EXCEPT ![p] = then] /\ job' = [job EXCEPT ![p] = NoJob]
    BY <1>4 DEF NextLanguage, Goto
  <2> QED BY <2>1, NoJobIsJob DEF JobsInv
<1> QED BY <1>3, <1>4

LEMMA GotoKeepsJobs ==
  ASSUME NEW p \in Processes, NEW where \in Locations,
         pc[p] \in Writing \/ where \notin Writing,
         JobsInv, Goto(p, where), UNCHANGED job
  PROVE  JobsInv'
BY DEF JobsInv, Goto, Locations, Writing

LEMMA StartKeepsJobs ==
  ASSUME NEW p \in Processes, NEW id \in Ids, NEW w \in Wordings[id], JobsInv,
         job' = [job EXCEPT ![p] = [id |-> id, at |-> 1, words |-> w]],
         Goto(p, "keywords")
  PROVE  JobsInv'
<1> DEFINE new == [id |-> id, at |-> 1, words |-> w]
<1>1. /\ new \in Jobs /\ new.id = id /\ new.words = w
      /\ new.at = 1 /\ 1 \in DOMAIN LangOrder
  BY WordsArePosted, PackAssumption DEF Jobs, PackAssumption
<1> HIDE DEF new
<1>2. job' = [job EXCEPT ![p] = new]
  BY DEF new
<1> QED BY <1>1, <1>2 DEF JobsInv, Goto, Locations

LEMMA FinishKeeps ==
  ASSUME NEW f \in Admins, NEW how, PackInv, Finish(f, how)
  PROVE  /\ JobsInv'
         /\ doomed' \in [Admins -> SUBSET Texts]
         /\ loading' = [g \in Admins |-> loading'[g]]
         /\ \A g \in Admins : IsList(loading'[g])
<1>1. JobsInv'
  BY NoJobIsJob DEF PackInv, JobsInv, Finish, Goto, Locations, Writing, Processes
<1>2. \A g \in Admins : loading'[g] = IF g = f THEN << >> ELSE loading[g]
  BY DEF PackInv, Finish
<1> QED BY <1>1, <1>2, NoEntriesIsList DEF PackInv, Finish

LEMMA StoresKeeps ==
  ASSUME PackInv, NEW p \in Processes, pc[p] \in Writing,
         NEW kept \in SUBSET Texts, NEW new \in SUBSET Texts, Stores(p, kept, new)
  PROVE  /\ keywords' \in [Ids -> [Langs -> SUBSET Texts]]
         /\ doomed' \in [Admins -> SUBSET Texts]
         /\ \A i \in Ids, l \in Langs :
              keywords'[i][l] = IF i = job[p].id /\ l = Lang(p) THEN kept \cup new
                                ELSE keywords[i][l]
<1>1. Lang(p) \in Langs /\ job[p].id \in Ids /\ kept \cup new \in SUBSET Texts
  BY LanguageOfJob
<1>2. keywords' = [keywords EXCEPT ![job[p].id][Lang(p)] = kept \cup new]
  BY DEF Stores
<1>3. keywords' \in [Ids -> [Langs -> SUBSET Texts]]
  BY <1>1, <1>2 DEF PackInv
<1>4. doomed' \in [Admins -> SUBSET Texts]
  <2>1. \A f \in Admins : doomed[f] \in SUBSET Texts
    BY DEF PackInv
  <2> QED BY <2>1 DEF Stores
<1>5. \A i \in Ids, l \in Langs :
        keywords'[i][l] = IF i = job[p].id /\ l = Lang(p) THEN kept \cup new
                          ELSE keywords[i][l]
  BY <1>1, <1>2 DEF PackInv
<1> QED BY <1>3, <1>4, <1>5

LEMMA PackStep ==
  ASSUME PackInv, [Next]_vars
  PROVE  PackInv'
<1> USE DEF tables, bounds
<1>0. Admins \subseteq Processes /\ Script \in Processes
  BY DEF Processes
<1>1. ASSUME NEW f \in Admins, NEW id \in Ids, CreateFaq(f, id) PROVE PackInv'
  BY <1>1 DEF CreateFaq, PackInv, JobsInv
<1>2. ASSUME NEW f \in Admins, NEW id \in Ids, NEW s, NEW w \in Wordings[id],
             SubmitForm(f, id, s, w)
      PROVE  PackInv'
  <2>1. JobsInv'
    BY <1>0, <1>2, StartKeepsJobs DEF SubmitForm, PackInv
  <2> QED BY <1>2, <2>1 DEF SubmitForm, PackInv
<1>3. ASSUME NEW f \in Admins, DeleteKeywords(f) PROVE PackInv'
  <2>1. JobsInv'
    BY <1>0, <1>3, GotoKeepsJobs DEF DeleteKeywords, PackInv, Locations, Writing
  <2>2. Found(f) \in SUBSET Texts
    BY <1>0, <1>3, LanguageOfJob DEF DeleteKeywords, Writing
  <2> QED BY <1>3, <2>1, <2>2 DEF DeleteKeywords, PackInv
<1>4. ASSUME NEW f \in Admins, ReplaceKeywords(f) PROVE PackInv'
  <2>1. f \in Processes /\ pc[f] \in Writing /\ PackInv /\ JobsInv
    BY <1>0, <1>4 DEF ReplaceKeywords, Writing, PackInv
  <2>2. JobsInv'
    BY <1>4, <2>1, NextLanguageKeepsJobs DEF ReplaceKeywords, Locations, Writing
  <2>3. /\ keywords' \in [Ids -> [Langs -> SUBSET Texts]]
        /\ doomed' \in [Admins -> SUBSET Texts]
    <3>1. Found(f) \ doomed[f] \in SUBSET Texts /\ job[f].words[Lang(f)] \in SUBSET Texts
      BY <2>1, LanguageOfJob
    <3> QED BY <1>4, <2>1, <3>1, StoresKeeps DEF ReplaceKeywords
  <2> QED BY <1>4, <2>2, <2>3 DEF ReplaceKeywords, PackInv
<1>5. ASSUME NEW f \in Admins, LoadFaqs(f) PROVE PackInv'
  <2>1. Approved \in SUBSET Ids /\ Nowhere \in [Ids -> [Langs -> SUBSET Texts]]
    BY DEF Approved, Nowhere, NoKeywords
  <2>2. PICK list \in Lists(Approved, Nowhere) : loading' = [loading EXCEPT ![f] = list]
    BY <1>5 DEF LoadFaqs
  <2>3. IsList(list)
    BY <2>1, LoadsAreLists
  <2>4. /\ loading' = [g \in Admins |-> loading'[g]]
        /\ \A g \in Admins : IsList(loading'[g])
    BY <2>2, <2>3 DEF PackInv
  <2>5. JobsInv'
    BY <1>0, <1>5, GotoKeepsJobs DEF LoadFaqs, PackInv, Locations, Writing
  <2> QED BY <1>5, <2>4, <2>5 DEF LoadFaqs, PackInv
<1>6. ASSUME NEW f \in Admins, LoadKeywords(f) PROVE PackInv'
  <2> DEFINE found == [i \in Ids |-> IF i \in Approved THEN keywords[i] ELSE NoKeywords]
             with == [n \in DOMAIN loading[f] |-> Entry(loading[f][n].id, found)]
  <2>1. CASE Finish(f, "failed")
    BY <1>6, <2>1, FinishKeeps DEF LoadKeywords, PackInv
  <2>2. CASE ~ Finish(f, "failed")
    <3>1. /\ loading' = [loading EXCEPT ![f] = with]
          /\ Goto(f, "loadAnswers") /\ UNCHANGED <<job, doomed>>
      BY <1>6, <2>2 DEF LoadKeywords, PackInv
    <3>2. found \in [Ids -> [Langs -> SUBSET Texts]]
      BY DEF NoKeywords, PackInv
    <3> HIDE DEF found
    <3>3. IsList(with)
      <4>1. PICK n \in Nat : loading[f] \in [1 .. n -> Entries]
        BY DEF PackInv, IsList
      <4>2. with \in [1 .. n -> Entries]
        BY <3>2, <4>1 DEF Entry, Entries
      <4>3. \A m \in DOMAIN with : m \in DOMAIN loading[f] /\ with[m].id = loading[f][m].id
        BY DEF Entry
      <4> HIDE DEF with
      <4> QED BY <4>2, <4>3 DEF PackInv, IsList
    <3> HIDE DEF with
    <3>4. /\ loading' = [g \in Admins |-> loading'[g]]
          /\ \A g \in Admins : IsList(loading'[g])
      BY <3>1, <3>3 DEF PackInv
    <3>5. JobsInv'
      BY <1>0, <3>1, GotoKeepsJobs DEF PackInv, Locations, Writing
    <3> QED BY <1>6, <3>1, <3>4, <3>5 DEF LoadKeywords, PackInv
  <2> QED BY <2>1, <2>2
<1>7. ASSUME NEW f \in Admins, LoadAnswers(f) PROVE PackInv'
  <2>1. CASE Finish(f, "failed")
    BY <1>7, <2>1, FinishKeeps DEF LoadAnswers, PackInv
  <2>2. CASE Goto(f, "assign") /\ UNCHANGED <<job, doomed, loading, outcome>>
    <3>1. JobsInv'
      BY <1>0, <2>2, GotoKeepsJobs DEF PackInv, Locations, Writing
    <3> QED BY <1>7, <2>2, <3>1 DEF LoadAnswers, PackInv
  <2> QED BY <1>7, <2>1, <2>2 DEF LoadAnswers
<1>8. ASSUME NEW f \in Admins, Assign(f) PROVE PackInv'
  BY <1>8, FinishKeeps DEF Assign, PackInv
<1>9. ASSUME NEW f \in Admins, StatementFails(f) PROVE PackInv'
  BY <1>9, FinishKeeps DEF StatementFails, PackInv
<1>10. CASE Restart
  <2>1. Approved \in SUBSET Ids /\ IsList(pack')
    BY <1>10, LoadsAreLists DEF Restart, Approved, PackInv
  <2>2. /\ doomed' = [f \in Admins |-> {}] /\ loading' = [f \in Admins |-> << >>]
        /\ UNCHANGED keywords
    BY <1>10 DEF Restart
  <2>3. JobsInv'
    BY <1>10, NoJobIsJob DEF Restart, PackInv, JobsInv, Locations, Writing
  <2> QED BY <2>1, <2>2, <2>3, NoEntriesIsList DEF PackInv
<1>11. ASSUME NEW id \in Ids, NEW w \in Wordings[id], MigrateEntry(id, w) PROVE PackInv'
  <2>1. JobsInv'
    BY <1>0, <1>11, StartKeepsJobs DEF MigrateEntry, PackInv
  <2> QED BY <1>11, <2>1 DEF MigrateEntry, PackInv
<1>12. CASE MigrateDelete
  <2>1. Script \in Processes /\ pc[Script] \in Writing
    BY <1>0, <1>12 DEF MigrateDelete, Writing
  <2>2. JobsInv'
    BY <1>12, <2>1, GotoKeepsJobs DEF MigrateDelete, PackInv, Locations
  <2>3. /\ keywords' \in [Ids -> [Langs -> SUBSET Texts]]
        /\ doomed' \in [Admins -> SUBSET Texts]
    BY <1>12, <2>1, StoresKeeps DEF MigrateDelete
  <2> QED BY <1>12, <2>2, <2>3 DEF MigrateDelete, PackInv
<1>13. CASE MigrateInsert
  <2>1. Script \in Processes /\ pc[Script] \in Writing
    BY <1>0, <1>13 DEF MigrateInsert, Writing
  <2>2. CASE NextLanguage(Script, "idle") /\ UNCHANGED <<keywords, doomed>>
    <3>1. JobsInv'
      BY <2>1, <2>2, NextLanguageKeepsJobs DEF PackInv, Locations, Writing
    <3> QED BY <1>13, <2>2, <3>1 DEF MigrateInsert, PackInv
  <2>3. ASSUME NEW k \in job[Script].words[Lang(Script)] \ Found(Script),
               Stores(Script, Found(Script), {k}), UNCHANGED <<job, pc>>
        PROVE  PackInv'
    <3>1. Found(Script) \in SUBSET Texts /\ {k} \in SUBSET Texts
      BY <2>1, LanguageOfJob
    <3>2. /\ keywords' \in [Ids -> [Langs -> SUBSET Texts]]
          /\ doomed' \in [Admins -> SUBSET Texts]
      BY <2>1, <2>3, <3>1, StoresKeeps
    <3> QED BY <1>13, <2>3, <3>2 DEF MigrateInsert, PackInv, JobsInv
  <2> QED BY <1>13, <2>2, <2>3 DEF MigrateInsert
<1>14. CASE UNCHANGED vars
  BY <1>14 DEF vars, PackInv, JobsInv
<1> QED
  BY <1>1, <1>2, <1>3, <1>4, <1>5, <1>6, <1>7, <1>8, <1>9, <1>10, <1>11, <1>12, <1>13, <1>14
  DEF Next, Form

\* Every list that is built, read or served is a list of known entries, each
\* once, with texts for keywords.
THEOREM PacksAreLists == Spec => []PackInv
<1> QED BY PackInit, PackStep, PTL DEF Spec

\* A reload that finds the same entries in another order changes no answer of
\* the second tier: match_faq's margin leaves ties and near ties to nobody.
THEOREM ReloadsKeepFuzzyAnswers == Spec => FuzzyIgnoresOrder
<1> DEFINE Same ==
      pack' # pack /\ Range(pack') = Range(pack) =>
        \A l \in Langs, q \in Questions :
          Exact(pack, l, q) = {} => MatchFaq(pack', l, q) = MatchFaq(pack, l, q)
<1>1. ASSUME PackInv, PackInv' PROVE Same
  <2>1. Questions \subseteq Texts
    BY PackAssumption DEF PackAssumption
  <2> QED BY <1>1, <2>1, OrderDoesNotMatter DEF PackInv
<1> QED BY <1>1, PacksAreLists, PTL DEF Spec, FuzzyIgnoresOrder

\* Whatever list a reload has just begun to serve, a keyword that the form may
\* post for an entry takes no question away from that entry.
THEOREM SynonymsNeverHurt == Spec => MoreKeywordsKeepQuestions
<1> DEFINE Keeps == pack' # pack => KeepsQuestions(pack')
<1>1. Postable \subseteq Texts
  BY PackAssumption DEF Postable, PackAssumption
<1>2. ASSUME PackInv' PROVE Keeps
  <2>1. SUFFICES ASSUME NEW l \in Langs, NEW q \in Questions,
                        MatchFaq(pack', l, q) # NoMatch,
                        NEW i \in DOMAIN pack',
                        NEW k \in Postable \ pack'[i].keywords[l],
                        pack'[i].id = MatchFaq(pack', l, q).id
                 PROVE  LET more == MatchFaq(WithKeyword(pack', i, l, k), l, q)
                        IN  more # NoMatch /\ more.id = MatchFaq(pack', l, q).id
    BY DEF KeepsQuestions
  <2>2. q \in Texts /\ k \in Texts /\ IsList(pack')
        /\ NoMatch \notin [id : Ids, tier : {"exact", "fuzzy"}]
    BY <1>1, <1>2, PackAssumption DEF PackAssumption, PackInv
  <2> QED BY <2>1, <2>2, KeywordKeepsQuestion
<1> QED BY <1>2, PacksAreLists, PTL DEF Spec, MoreKeywordsKeepQuestions

-----------------------------------------------------------------------------
(* What the list in memory holds when a form has been saved.               *)

Outcomes == {"none", "created", "open", "saved", "failed"}
Stored(words) == {Entry(i, words) : i \in Approved}

\* Of the forms whose load began after the last write: what they have read is
\* what is stored, and so is what is served once one of them has ended.
CurrentInv ==
  /\ current \subseteq Admins
  /\ outcome \in [Admins -> Outcomes]
  /\ \A f \in Admins : pc[f] # "idle" => outcome[f] # "saved"
  /\ \A f \in current :
       /\ pc[f] = "loadKeywords" => Listed(f) = Approved
       /\ pc[f] \in {"loadAnswers", "assign"} => Range(loading[f]) = Stored(keywords)
       /\ outcome[f] = "saved" => Range(pack) = Stored(keywords)

LEMMA PackOf ==
  ASSUME NEW ids \in SUBSET Ids, NEW words, NEW list \in Lists(ids, words)
  PROVE  /\ \A n \in DOMAIN list : \E i \in ids : list[n] = Entry(i, words)
         /\ \A i \in ids : \E n \in DOMAIN list : list[n] = Entry(i, words)
         /\ \A n \in DOMAIN list : list[n].id \in ids
         /\ \A i \in ids : \E n \in DOMAIN list : list[n].id = i
<1>1. PICK order \in Bijection(1 .. Cardinality(ids), ids) :
        list = [n \in DOMAIN order |-> Entry(order[n], words)]
  BY DEF Lists
<1>2. /\ order \in [1 .. Cardinality(ids) -> ids]
      /\ \A i \in ids : \E n \in 1 .. Cardinality(ids) : order[n] = i
  BY DEF Bijection, Surjection
<1>3. DOMAIN list = DOMAIN order /\ \A n \in DOMAIN list : list[n] = Entry(order[n], words)
  BY <1>1
<1>4. DOMAIN order = 1 .. Cardinality(ids)
  BY <1>2
<1>5. \A n \in DOMAIN list : order[n] \in ids /\ list[n] = Entry(order[n], words)
  BY <1>2, <1>3, <1>4
<1>6. \A i \in ids : \E n \in DOMAIN list : list[n] = Entry(i, words)
  BY <1>2, <1>3, <1>4
<1>7. \A i \in ids : Entry(i, words).id = i
  BY DEF Entry
<1>8. \A n \in DOMAIN list : list[n].id \in ids
  BY <1>5, <1>7
<1>9. \A i \in ids : \E n \in DOMAIN list : list[n].id = i
  BY <1>6, <1>7
<1> QED BY <1>5, <1>6, <1>8, <1>9

\* Whatever order the load of a restart finds the rows in.
LEMMA LoadedIsStored ==
  ASSUME NEW list \in Lists(Approved, keywords)
  PROVE  Range(list) = Stored(keywords)
<1>1. Approved \in SUBSET Ids
  BY DEF Approved
<1>2. /\ \A n \in DOMAIN list : \E i \in Approved : list[n] = Entry(i, keywords)
      /\ \A i \in Approved : \E n \in DOMAIN list : list[n] = Entry(i, keywords)
  BY <1>1, PackOf, ZenonT(60)
<1> QED BY <1>2 DEF Stored, Range

LEMMA FinishKeepsCurrent ==
  ASSUME PackInv, CurrentInv, NEW f \in Admins, Finish(f, "failed"),
         UNCHANGED <<status, keywords, pack, current>>
  PROVE  CurrentInv'
<1>1. /\ \A g \in Admins : pc'[g] = IF g = f THEN "idle" ELSE pc[g]
      /\ \A g \in Admins : outcome'[g] = IF g = f THEN "failed" ELSE outcome[g]
      /\ \A g \in Admins : g # f => loading'[g] = loading[g]
      /\ outcome' \in [Admins -> Outcomes]
  BY DEF PackInv, JobsInv, CurrentInv, Processes, Finish, Goto, Outcomes
<1>2. /\ Approved' = Approved /\ Stored(keywords)' = Stored(keywords)
      /\ \A g \in Admins : g # f => Listed(g)' = Listed(g)
  BY <1>1 DEF Approved, Stored, Entry, Listed
<1> QED BY <1>1, <1>2 DEF CurrentInv

LEMMA CurrentInit == Init => CurrentInv
BY DEF Init, CurrentInv, Outcomes, Processes

LEMMA CurrentStep ==
  ASSUME PackInv, CurrentInv, [Next]_vars
  PROVE  CurrentInv'
<1> USE DEF tables, bounds
<1>0. /\ Admins \subseteq Processes /\ Script \in Processes /\ Script \notin Admins
      /\ pc \in [Processes -> Locations]
      /\ outcome \in [Admins -> Outcomes]
  BY PackAssumption DEF Processes, PackAssumption, PackInv, JobsInv, CurrentInv
<1>1. ASSUME NEW f \in Admins, NEW id \in Ids, CreateFaq(f, id) PROVE CurrentInv'
  BY <1>0, <1>1 DEF CreateFaq, Written, CurrentInv, Outcomes
<1>2. ASSUME NEW f \in Admins, NEW id \in Ids, NEW s, NEW w \in Wordings[id],
             SubmitForm(f, id, s, w)
      PROVE  CurrentInv'
  BY <1>0, <1>2 DEF SubmitForm, Goto, Written, CurrentInv, Outcomes
<1>3. ASSUME NEW f \in Admins, DeleteKeywords(f) PROVE CurrentInv'
  <2>1. /\ \A g \in Admins : pc'[g] = IF g = f THEN "commit" ELSE pc[g]
        /\ pc[f] = "keywords"
        /\ UNCHANGED <<status, keywords, pack, loading, outcome, current>>
    BY <1>0, <1>3 DEF DeleteKeywords, Goto
  <2>2. /\ Approved' = Approved /\ Stored(keywords)' = Stored(keywords)
        /\ \A g \in Admins : Listed(g)' = Listed(g)
    BY <2>1 DEF Approved, Stored, Entry, Listed
  <2> QED BY <2>1, <2>2 DEF CurrentInv
<1>4. ASSUME NEW f \in Admins, ReplaceKeywords(f) PROVE CurrentInv'
  <2>1. \A g \in Admins : pc'[g] # "idle" => pc[g] # "idle"
    BY <1>0, <1>4 DEF ReplaceKeywords, NextLanguage, Goto
  <2> QED BY <1>4, <2>1 DEF ReplaceKeywords, Written, CurrentInv
<1>5. ASSUME NEW f \in Admins, LoadFaqs(f) PROVE CurrentInv'
  <2>1. PICK list \in Lists(Approved, Nowhere) : loading' = [loading EXCEPT ![f] = list]
    BY <1>5 DEF LoadFaqs
  <2>2. /\ \A g \in Admins : pc'[g] = IF g = f THEN "loadKeywords" ELSE pc[g]
        /\ pc[f] = "loadFaqs"
        /\ \A g \in Admins : loading'[g] = IF g = f THEN list ELSE loading[g]
        /\ UNCHANGED <<status, keywords, pack, outcome>> /\ current' = current \cup {f}
    BY <1>0, <1>5, <2>1 DEF LoadFaqs, Goto, PackInv
  <2>3. {list[n].id : n \in DOMAIN list} = Approved
    <3>1. Approved \in SUBSET Ids
      BY DEF Approved
    <3>2. /\ \A n \in DOMAIN list : list[n].id \in Approved
          /\ \A i \in Approved : \E n \in DOMAIN list : list[n].id = i
      BY <3>1, PackOf
    <3> QED BY <3>2
  <2>4. /\ Approved' = Approved /\ Stored(keywords)' = Stored(keywords)
        /\ \A g \in Admins : Listed(g)' = IF g = f THEN Approved ELSE Listed(g)
    BY <2>2, <2>3 DEF Approved, Stored, Entry, Listed
  <2> QED BY <1>0, <2>2, <2>4 DEF CurrentInv
<1>6. ASSUME NEW f \in Admins, LoadKeywords(f) PROVE CurrentInv'
  <2> DEFINE found == [i \in Ids |-> IF i \in Approved THEN keywords[i] ELSE NoKeywords]
             with == [n \in DOMAIN loading[f] |-> Entry(loading[f][n].id, found)]
  <2>1. CASE Finish(f, "failed")
    BY <1>6, <2>1, FinishKeepsCurrent DEF LoadKeywords
  <2>2. CASE ~ Finish(f, "failed")
    <3>1. /\ loading' = [loading EXCEPT ![f] = with] /\ Goto(f, "loadAnswers")
          /\ UNCHANGED <<status, keywords, pack, outcome, current>>
          /\ pc[f] = "loadKeywords"
      BY <1>6, <2>2 DEF LoadKeywords, PackInv
    <3>2. /\ \A g \in Admins : pc'[g] = IF g = f THEN "loadAnswers" ELSE pc[g]
          /\ \A g \in Admins : loading'[g] = IF g = f THEN with ELSE loading[g]
      BY <1>0, <3>1 DEF PackInv, Goto
    <3>3. ASSUME f \in current PROVE Range(with) = Stored(keywords)
      <4>1. {loading[f][n].id : n \in DOMAIN loading[f]} = Approved
        BY <3>1, <3>3 DEF CurrentInv, Listed
      <4>2. \A i \in Approved : Entry(i, found) = Entry(i, keywords)
        BY DEF Entry, Approved
      <4> HIDE DEF found
      <4>3. DOMAIN with = DOMAIN loading[f]
            /\ \A n \in DOMAIN loading[f] : with[n] = Entry(loading[f][n].id, found)
        OBVIOUS
      <4> HIDE DEF with
      <4>4. \A n \in DOMAIN with : \E i \in Approved : with[n] = Entry(i, keywords)
        BY <4>1, <4>2, <4>3
      <4>5. \A i \in Approved : \E n \in DOMAIN with : with[n] = Entry(i, keywords)
        BY <4>1, <4>2, <4>3
      <4> QED BY <4>4, <4>5 DEF Range, Stored
    <3> HIDE DEF with
    <3>4. /\ Approved' = Approved /\ Stored(keywords)' = Stored(keywords)
          /\ \A g \in Admins : g # f => Listed(g)' = Listed(g)
      BY <3>1, <3>2 DEF Approved, Stored, Entry, Listed
    <3> QED BY <3>1, <3>2, <3>3, <3>4 DEF CurrentInv
  <2> QED BY <2>1, <2>2
<1>7. ASSUME NEW f \in Admins, LoadAnswers(f) PROVE CurrentInv'
  <2>1. CASE Finish(f, "failed")
    BY <1>7, <2>1, FinishKeepsCurrent DEF LoadAnswers
  <2>2. CASE Goto(f, "assign") /\ UNCHANGED <<job, doomed, loading, outcome>>
    <3>1. /\ \A g \in Admins : pc'[g] = IF g = f THEN "assign" ELSE pc[g]
          /\ pc[f] = "loadAnswers"
          /\ UNCHANGED <<status, keywords, pack, loading, outcome, current>>
      BY <1>0, <1>7, <2>2 DEF LoadAnswers, Goto
    <3>2. /\ Approved' = Approved /\ Stored(keywords)' = Stored(keywords)
          /\ \A g \in Admins : Listed(g)' = Listed(g)
      BY <3>1 DEF Approved, Stored, Entry, Listed
    <3> QED BY <3>1, <3>2 DEF CurrentInv
  <2> QED BY <1>7, <2>1, <2>2 DEF LoadAnswers
<1>8. ASSUME NEW f \in Admins, Assign(f) PROVE CurrentInv'
  <2>1. /\ \A g \in Admins : pc'[g] = IF g = f THEN "idle" ELSE pc[g]
        /\ \A g \in Admins : outcome'[g] = IF g = f THEN "saved" ELSE outcome[g]
        /\ \A g \in Admins : g # f => loading'[g] = loading[g]
        /\ outcome' \in [Admins -> Outcomes]
        /\ pc[f] = "assign" /\ pack' = loading[f] /\ UNCHANGED <<status, keywords>>
    BY <1>0, <1>8 DEF Assign, Finish, Goto, Outcomes, PackInv
  <2>2. /\ Approved' = Approved /\ Stored(keywords)' = Stored(keywords)
        /\ \A g \in Admins : g # f => Listed(g)' = Listed(g)
    BY <2>1 DEF Approved, Stored, Entry, Listed
  <2>3. CASE f \in current
    <3>1. current' = current /\ Range(pack') = Stored(keywords)
      BY <1>8, <2>1, <2>3 DEF Assign, Overtakes, CurrentInv
    <3> QED BY <2>1, <2>2, <3>1 DEF CurrentInv
  <2>4. CASE f \notin current
    <3>1. current' = {g \in current : pc[g] # "idle"}
      BY <1>8, <2>4 DEF Assign, Overtakes
    <3> QED BY <2>1, <2>2, <2>4, <3>1 DEF CurrentInv
  <2> QED BY <2>3, <2>4
<1>9. ASSUME NEW f \in Admins, StatementFails(f) PROVE CurrentInv'
  BY <1>9, FinishKeepsCurrent DEF StatementFails
<1>10. CASE Restart
  <2>1. /\ pack' \in Lists(Approved, keywords)
        /\ UNCHANGED <<status, keywords, current>>
        /\ \A g \in Admins : pc'[g] = "idle"
    BY <1>0, <1>10 DEF Restart
  <2>2. /\ outcome' \in [Admins -> Outcomes]
        /\ \A g \in Admins : outcome'[g] \in {"failed", outcome[g]}
    BY <1>0, <1>10 DEF Restart, Outcomes
  <2>3. Range(pack') = Stored(keywords)
    BY <2>1, LoadedIsStored
  <2>4. Stored(keywords)' = Stored(keywords)
    BY <2>1 DEF Approved, Stored, Entry
  <2> QED BY <2>1, <2>2, <2>3, <2>4 DEF CurrentInv
<1>11. ASSUME NEW id \in Ids, NEW w \in Wordings[id], MigrateEntry(id, w) PROVE CurrentInv'
  <2>1. \A g \in Admins : pc'[g] = pc[g]
    BY <1>0, <1>11 DEF MigrateEntry, Goto
  <2> QED BY <1>11, <2>1 DEF MigrateEntry, Written, CurrentInv
<1>12. CASE MigrateDelete
  <2>1. \A g \in Admins : pc'[g] = pc[g]
    BY <1>0, <1>12 DEF MigrateDelete, Goto
  <2> QED BY <1>12, <2>1 DEF MigrateDelete, Written, CurrentInv
<1>13. CASE MigrateInsert
  <2>1. \A g \in Admins : pc'[g] = pc[g]
    BY <1>0, <1>13 DEF MigrateInsert, NextLanguage, Goto
  <2>2. CASE Written
    BY <1>13, <2>1, <2>2 DEF MigrateInsert, Written, CurrentInv
  <2>3. CASE UNCHANGED <<keywords, doomed, current>>
    <3>1. UNCHANGED <<status, keywords, pack, loading, outcome, current>>
      BY <1>13, <2>3 DEF MigrateInsert
    <3>2. /\ Approved' = Approved /\ Stored(keywords)' = Stored(keywords)
          /\ \A g \in Admins : Listed(g)' = Listed(g)
      BY <3>1 DEF Approved, Stored, Entry, Listed
    <3> QED BY <2>1, <3>1, <3>2 DEF CurrentInv
  <2> QED BY <1>13, <2>2, <2>3 DEF MigrateInsert
<1>14. CASE UNCHANGED vars
  BY <1>14 DEF vars, CurrentInv, Approved, Stored, Entry, Listed
<1> QED
  BY <1>1, <1>2, <1>3, <1>4, <1>5, <1>6, <1>7, <1>8, <1>9, <1>10, <1>11, <1>12, <1>13, <1>14
  DEF Next, Form

\* An administrator who reads "Saved" is served what the tables hold, whatever
\* number of forms overlapped, merged or failed before, with or without the
\* script, until something is written after that form's load began or a list
\* read before the last write is assigned after it.
THEOREM SavedIsAlwaysServed == Spec => []SavedMeansServed
<1>1. CurrentInv => SavedMeansServed
  BY DEF CurrentInv, SavedMeansServed, Stored
<1> QED BY <1>1, PackInit, PackStep, CurrentInit, CurrentStep, PTL DEF Spec

-----------------------------------------------------------------------------
(* What forms that overlap leave.                                          *)

At(i, l) == {f \in Admins : pc[f] = "commit" /\ job[f].id = i /\ Lang(f) = l}

\* The rows of an entry in a language are those of some posted sets, F.  An open
\* transaction deletes those of some of them, D[p]: one that began later has seen
\* all of those that are left of one that began earlier.  A keyword that both a
\* deleted and another set have is stored twice, and stays.
Held(i, l, F, D) ==
  /\ keywords[i][l] = UNION F
  /\ \A p, q \in Admins : D[p] \subseteq D[q] \/ D[q] \subseteq D[p]
  /\ \A p \in At(i, l), k \in keywords[i][l] :
       k \in doomed[p] <=> \A S \in F \ D[p] : k \notin S
HoldsWhole(i, l) ==
  \E F \in SUBSET Posted(i, l) : \E D \in [Admins -> SUBSET Posted(i, l)] : Held(i, l, F, D)

\* Before the script has run.
WholeInv ==
  /\ migrations \in Nat
  /\ migrations = 0 =>
       /\ pc[Script] = "idle"
       /\ \A i \in Ids, l \in Langs : HoldsWhole(i, l)
       /\ \A f \in Admins : \A n \in DOMAIN loading[f] : Whole(loading[f][n])
       /\ WholeWordings

\* Nothing written, and no transaction begun: some may have ended.
LEMMA HeldStays ==
  ASSUME NEW i \in Ids, NEW l \in Langs, HoldsWhole(i, l),
         keywords'[i][l] = keywords[i][l],
         \A f \in At(i, l)' : f \in At(i, l) /\ doomed'[f] = doomed[f]
  PROVE  HoldsWhole(i, l)'
<1>1. PICK F \in SUBSET Posted(i, l), D \in [Admins -> SUBSET Posted(i, l)] : Held(i, l, F, D)
  BY DEF HoldsWhole
<1>2. Held(i, l, F, D)'
  BY <1>1 DEF Held
<1> QED BY <1>2 DEF HoldsWhole, Posted

\* DELETE: every row there is, whoever else is deleting it too.
LEMMA HeldByDelete ==
  ASSUME NEW i \in Ids, NEW l \in Langs, HoldsWhole(i, l), NEW f \in Admins,
         keywords' = keywords, doomed'[f] = keywords[i][l],
         \A g \in At(i, l)' \ {f} : g \in At(i, l) /\ doomed'[g] = doomed[g]
  PROVE  HoldsWhole(i, l)'
<1>1. PICK F \in SUBSET Posted(i, l), D \in [Admins -> SUBSET Posted(i, l)] : Held(i, l, F, D)
  BY DEF HoldsWhole
<1> DEFINE E == [g \in Admins |-> IF g = f THEN F ELSE D[g] \cap F]
<1>2. E \in [Admins -> SUBSET Posted(i, l)]
  BY <1>1
<1>3. \A p, q \in Admins : E[p] \subseteq E[q] \/ E[q] \subseteq E[p]
  BY <1>1 DEF Held
<1>4. ASSUME NEW p \in At(i, l)', NEW k \in keywords[i][l]
      PROVE  k \in doomed'[p] <=> \A S \in F \ E[p] : k \notin S
  <2>1. p \in Admins
    BY DEF At
  <2>2. CASE p = f
    BY <2>1, <2>2
  <2>3. CASE p # f
    <3>1. p \in At(i, l) /\ doomed'[p] = doomed[p] /\ F \ E[p] = F \ D[p]
      BY <2>1, <2>3
    <3> QED BY <1>1, <3>1 DEF Held
  <2> QED BY <2>2, <2>3
<1> HIDE DEF E
<1>5. Held(i, l, F, E)'
  BY <1>1, <1>3, <1>4 DEF Held
<1> QED BY <1>2, <1>5 DEF HoldsWhole, Posted

\* INSERTs and commit: the rows that the transaction saw are gone, those of the
\* posted set are new, and no other transaction deletes them.
LEMMA HeldByCommit ==
  ASSUME NEW i \in Ids, NEW l \in Langs, HoldsWhole(i, l), NEW f \in At(i, l),
         NEW W \in Posted(i, l),
         keywords'[i][l] = (keywords[i][l] \ doomed[f]) \cup W,
         \A g \in At(i, l)' : g # f /\ g \in At(i, l) /\ doomed'[g] = doomed[g] \ W
  PROVE  HoldsWhole(i, l)'
<1>1. PICK F \in SUBSET Posted(i, l), D \in [Admins -> SUBSET Posted(i, l)] : Held(i, l, F, D)
  BY DEF HoldsWhole
<1> DEFINE G == (F \ D[f]) \cup {W}
           E == [g \in Admins |-> (D[g] \ D[f]) \ {W}]
<1>0. f \in Admins
  BY DEF At
<1>2. G \in SUBSET Posted(i, l) /\ E \in [Admins -> SUBSET Posted(i, l)]
  BY <1>1
<1>3. \A p, q \in Admins : E[p] \subseteq E[q] \/ E[q] \subseteq E[p]
  BY <1>1 DEF Held
<1>4. keywords'[i][l] = UNION G
  <2>1. ASSUME NEW k PROVE k \in keywords[i][l] \ doomed[f] <=> \E S \in F \ D[f] : k \in S
    BY <1>1 DEF Held
  <2>2. ASSUME NEW k PROVE k \in keywords'[i][l] <=> k \in UNION G
    BY <2>1
  <2> QED BY <2>2
<1>5. ASSUME NEW p \in At(i, l)', NEW k \in keywords'[i][l]
      PROVE  k \in doomed'[p] <=> \A S \in G \ E[p] : k \notin S
  <2>1. p \in Admins /\ p \in At(i, l) /\ doomed'[p] = doomed[p] \ W
    BY DEF At
  <2>2. W \in G \ E[p] /\ \A S : S \in G \ E[p] <=> S = W \/ S \in (F \ D[f]) \ D[p]
    BY <2>1
  <2>3. CASE k \in W
    BY <2>1, <2>2, <2>3
  <2>4. CASE k \notin W
    <3>1. k \in keywords[i][l] /\ k \notin doomed[f]
      BY <2>4
    <3>2. PICK T \in F \ D[f] : k \in T
      BY <1>1, <3>1 DEF Held
    <3>3. k \in doomed[p] <=> \A S \in F \ D[p] : k \notin S
      BY <1>1, <2>1, <3>1 DEF Held
    <3>4. D[p] \subseteq D[f] \/ D[f] \subseteq D[p]
      BY <1>0, <1>1, <2>1 DEF Held
    <3>5. (\A S \in F \ D[p] : k \notin S) <=> \A S \in (F \ D[f]) \ D[p] : k \notin S
      <4>1. CASE D[f] \subseteq D[p]
        BY <4>1
      <4>2. CASE D[p] \subseteq D[f]
        <5>1. T \in (F \ D[f]) \ D[p] /\ T \in F \ D[p]
          BY <3>2, <4>2
        <5> QED BY <3>2, <5>1
      <4> QED BY <3>4, <4>1, <4>2
    <3> QED BY <2>1, <2>2, <2>4, <3>3, <3>5
  <2> QED BY <2>3, <2>4
<1> HIDE DEF E, G
<1>6. Held(i, l, G, E)'
  BY <1>3, <1>4, <1>5 DEF Held
<1> QED BY <1>2, <1>6 DEF HoldsWhole, Posted

\* An entry as it is stored, and one whose keywords are still to be read.
LEMMA StoredAreWhole ==
  ASSUME NEW i \in Ids, NEW words, \A l \in Langs : HoldsWhole(i, l),
         words[i] = keywords[i] \/ words[i] = NoKeywords
  PROVE  Whole(Entry(i, words))
<1>1. Entry(i, words).id = i /\ Entry(i, words).keywords = words[i]
  BY DEF Entry
<1>2. ASSUME NEW l \in Langs PROVE \E F \in SUBSET Posted(i, l) : words[i][l] = UNION F
  <2>1. CASE words[i] = keywords[i]
    BY <2>1 DEF HoldsWhole, Held
  <2>2. CASE words[i] = NoKeywords
    <3>1. words[i][l] = UNION {} /\ {} \in SUBSET Posted(i, l)
      BY <2>2 DEF NoKeywords
    <3> QED BY <3>1
  <2> QED BY <2>1, <2>2
<1> QED BY <1>1, <1>2 DEF Whole

LEMMA WordingsStay ==
  ASSUME WholeInv, UNCHANGED <<pack, migrations>>
  PROVE  migrations' = 0 => WholeWordings'
<1>1. \A n \in DOMAIN pack : Whole(pack[n]) => Whole(pack[n])'
  BY DEF Whole, Posted
<1> QED BY <1>1 DEF WholeInv, WholeWordings

LEMMA EntryOfList ==
  ASSUME NEW ids \in SUBSET Ids, NEW words, NEW list \in Lists(ids, words),
         NEW n \in DOMAIN list
  PROVE  \E i \in ids : list[n] = Entry(i, words)
<1>1. \A m \in DOMAIN list : \E i \in ids : list[m] = Entry(i, words)
  BY PackOf, ZenonT(60)
<1> QED BY <1>1

LEMMA WholeInit == Init => WholeInv
<1> SUFFICES ASSUME Init PROVE WholeInv
  OBVIOUS
<1>1. pc[Script] = "idle" /\ \A f \in Admins : pc[f] = "idle"
  BY DEF Init, Processes
<1>2. ASSUME NEW i \in Ids, NEW l \in Langs PROVE HoldsWhole(i, l)
  <2> DEFINE D == [f \in Admins |-> {}]
  <2>1. At(i, l) = {} /\ D \in [Admins -> SUBSET Posted(i, l)] /\ {} \in SUBSET Posted(i, l)
    BY <1>1 DEF At
  <2>2. keywords[i][l] = UNION {}
    BY DEF Init, Nowhere, NoKeywords
  <2>3. Held(i, l, {}, D)
    BY <2>1, <2>2 DEF Held
  <2> HIDE DEF D
  <2> QED BY <2>1, <2>3 DEF HoldsWhole
<1>3. \A f \in Admins : \A n \in DOMAIN loading[f] : Whole(loading[f][n])
  <2>1. \A f \in Admins : loading[f] = << >>
    BY DEF Init
  <2>2. DOMAIN << >> = {}
    OBVIOUS
  <2> QED BY <2>1, <2>2
<1>4. pack = << >> /\ DOMAIN pack = {}
  BY DEF Init
<1> QED BY <1>1, <1>2, <1>3, <1>4 DEF WholeInv, WholeWordings, Init

\* Neither the tables nor a list in memory change, and no transaction begins.
LEMMA WholeStays ==
  ASSUME WholeInv, UNCHANGED <<keywords, migrations, pack>>, pc'[Script] = pc[Script],
         \A f \in Admins : pc'[f] = "commit" =>
           pc[f] = "commit" /\ UNCHANGED <<job[f], doomed[f]>>,
         \A f \in Admins : loading'[f] = loading[f] \/ loading'[f] = << >>
  PROVE  WholeInv'
<1>1. ASSUME migrations = 0, NEW i \in Ids, NEW l \in Langs PROVE HoldsWhole(i, l)'
  <2>1. \A f \in At(i, l)' : f \in At(i, l) /\ doomed'[f] = doomed[f]
    BY DEF At, Lang
  <2>2. HoldsWhole(i, l)
    BY <1>1 DEF WholeInv
  <2> QED BY <2>1, <2>2, HeldStays
<1>2. DOMAIN << >> = {}
  OBVIOUS
<1>3. ASSUME migrations = 0, NEW f \in Admins, NEW n \in DOMAIN loading'[f]
      PROVE  Whole(loading[f][n])'
  <2>1. loading'[f] = loading[f]
    BY <1>2, <1>3
  <2>2. Whole(loading[f][n])
    BY <1>3, <2>1 DEF WholeInv
  <2> QED BY <2>1, <2>2 DEF Whole, Posted
<1>4. migrations' = 0 => WholeWordings'
  BY WordingsStay
<1> QED BY <1>1, <1>3, <1>4 DEF WholeInv

LEMMA FinishKeepsWhole ==
  ASSUME PackInv, WholeInv, NEW f \in Admins, NEW how, Finish(f, how),
         UNCHANGED <<keywords, migrations, pack>>
  PROVE  WholeInv'
<1>1. /\ pc'[Script] = pc[Script]
      /\ \A g \in Admins : pc'[g] = IF g = f THEN "idle" ELSE pc[g]
      /\ \A g \in Admins : g # f => UNCHANGED <<job[g], doomed[g]>>
      /\ \A g \in Admins : loading'[g] = loading[g] \/ loading'[g] = << >>
  BY PackAssumption DEF PackAssumption, Processes, PackInv, JobsInv, Finish, Goto
<1> QED BY <1>1, WholeStays

LEMMA WholeStep ==
  ASSUME PackInv, WholeInv, [Next]_vars
  PROVE  WholeInv'
<1> USE DEF tables, bounds
<1>0. /\ Admins \subseteq Processes /\ Script \in Processes /\ Script \notin Admins
      /\ pc \in [Processes -> Locations] /\ job \in [Processes -> Jobs]
      /\ doomed \in [Admins -> SUBSET Texts] /\ migrations \in Nat
  BY PackAssumption DEF Processes, PackAssumption, PackInv, JobsInv, WholeInv
<1>1. ASSUME NEW f \in Admins, NEW id \in Ids, CreateFaq(f, id) PROVE WholeInv'
  BY <1>1, WholeStays DEF CreateFaq
<1>2. ASSUME NEW f \in Admins, NEW id \in Ids, NEW s, NEW w \in Wordings[id],
             SubmitForm(f, id, s, w)
      PROVE  WholeInv'
  <2>1. /\ pc'[Script] = pc[Script]
        /\ \A g \in Admins : pc'[g] = IF g = f THEN "keywords" ELSE pc[g]
        /\ \A g \in Admins : g # f => UNCHANGED job[g]
    BY <1>0, <1>2 DEF SubmitForm, Goto
  <2>2. UNCHANGED <<keywords, migrations, pack, doomed, loading>>
    BY <1>2 DEF SubmitForm
  <2> QED BY <2>1, <2>2, WholeStays
<1>3. ASSUME NEW f \in Admins, DeleteKeywords(f) PROVE WholeInv'
  <2>1. /\ pc'[Script] = pc[Script] /\ pc[f] = "keywords"
        /\ \A g \in Admins : pc'[g] = IF g = f THEN "commit" ELSE pc[g]
        /\ \A g \in Admins : doomed'[g] = IF g = f THEN Found(f) ELSE doomed[g]
        /\ UNCHANGED <<keywords, migrations, pack, job, loading>>
    BY <1>0, <1>3 DEF DeleteKeywords, Goto
  <2>2. ASSUME migrations = 0, NEW i \in Ids, NEW l \in Langs PROVE HoldsWhole(i, l)'
    <3>1. HoldsWhole(i, l)
      BY <2>2 DEF WholeInv
    <3>2. \A g \in At(i, l)' \ {f} : g \in At(i, l) /\ doomed'[g] = doomed[g]
      BY <2>1 DEF At, Lang
    <3>3. CASE f \in At(i, l)'
      <4>1. doomed'[f] = keywords[i][l]
        BY <2>1, <3>3 DEF At, Lang, Found
      <4> QED BY <2>1, <3>1, <3>2, <4>1, HeldByDelete
    <3>4. CASE f \notin At(i, l)'
      BY <2>1, <3>1, <3>2, <3>4, HeldStays
    <3> QED BY <3>3, <3>4
  <2>3. \A g \in Admins : \A n \in DOMAIN loading'[g] : Whole(loading[g][n]) => Whole(loading[g][n])'
    BY <2>1 DEF Whole, Posted
  <2> QED BY <2>1, <2>2, <2>3, WordingsStay DEF WholeInv
<1>4. ASSUME NEW f \in Admins, ReplaceKeywords(f) PROVE WholeInv'
  <2> DEFINE W == job[f].words[Lang(f)]
  <2>1. f \in Processes /\ pc[f] = "commit" /\ pc[f] \in Writing /\ JobsInv
    BY <1>0, <1>4 DEF ReplaceKeywords, Writing, PackInv
  <2>2. /\ pc'[Script] = pc[Script] /\ pc'[f] # "commit"
        /\ \A g \in Admins : g # f => UNCHANGED <<pc[g], job[g]>>
        /\ UNCHANGED <<migrations, pack, loading>>
    BY <1>0, <1>4 DEF ReplaceKeywords, NextLanguage, Goto
  <2>3. Found(f) \ doomed[f] \in SUBSET Texts /\ W \in SUBSET Texts
    BY <2>1, LanguageOfJob
  <2>4. \A i \in Ids, l \in Langs :
          keywords'[i][l] = IF i = job[f].id /\ l = Lang(f)
                            THEN (Found(f) \ doomed[f]) \cup W ELSE keywords[i][l]
    BY <1>4, <2>1, <2>3, StoresKeeps DEF ReplaceKeywords
  <2>5. \A g \in Admins \ {f} :
          doomed'[g] = IF SameRows(g, f) THEN doomed[g] \ W ELSE doomed[g]
    BY <1>4 DEF ReplaceKeywords, Stores
  <2>6. W \in Posted(job[f].id, Lang(f))
    BY <2>1 DEF JobsInv, Posted
  <2> HIDE DEF W
  <2>7. ASSUME migrations = 0, NEW i \in Ids, NEW l \in Langs PROVE HoldsWhole(i, l)'
    <3>1. HoldsWhole(i, l)
      BY <2>7 DEF WholeInv
    <3>2. \A g \in At(i, l)' : g # f /\ g \in At(i, l)
      BY <2>2 DEF At, Lang
    <3>3. CASE i = job[f].id /\ l = Lang(f)
      <4>1. f \in At(i, l) /\ Found(f) = keywords[i][l] /\ W \in Posted(i, l)
        BY <2>1, <2>6, <3>3 DEF At, Found
      <4>2. \A g \in At(i, l) : SameRows(g, f)
        BY <3>3 DEF At, SameRows
      <4>3. \A g \in At(i, l)' : doomed'[g] = doomed[g] \ W
        BY <2>5, <3>2, <4>2 DEF At
      <4>4. keywords'[i][l] = (keywords[i][l] \ doomed[f]) \cup W
        BY <2>4, <3>3, <4>1
      <4> QED BY <3>1, <3>2, <4>1, <4>3, <4>4, HeldByCommit
    <3>4. CASE ~ (i = job[f].id /\ l = Lang(f))
      <4>1. \A g \in At(i, l) : ~ SameRows(g, f)
        BY <3>4 DEF At, SameRows
      <4>2. \A g \in At(i, l)' : g \in At(i, l) /\ doomed'[g] = doomed[g]
        BY <2>5, <3>2, <4>1 DEF At
      <4>3. keywords'[i][l] = keywords[i][l]
        BY <2>4, <3>4
      <4> QED BY <3>1, <4>2, <4>3, HeldStays
    <3> QED BY <3>3, <3>4
  <2>8. \A g \in Admins : \A n \in DOMAIN loading'[g] : Whole(loading[g][n]) => Whole(loading[g][n])'
    BY <2>2 DEF Whole, Posted
  <2> QED BY <2>2, <2>7, <2>8, WordingsStay DEF WholeInv
<1>5. ASSUME NEW f \in Admins, LoadFaqs(f) PROVE WholeInv'
  <2>1. PICK list \in Lists(Approved, Nowhere) : loading' = [loading EXCEPT ![f] = list]
    BY <1>5 DEF LoadFaqs
  <2>2. /\ pc'[Script] = pc[Script]
        /\ \A g \in Admins : pc'[g] = IF g = f THEN "loadKeywords" ELSE pc[g]
        /\ \A g \in Admins : loading'[g] = IF g = f THEN list ELSE loading[g]
        /\ UNCHANGED <<keywords, migrations, pack, job, doomed>>
    BY <1>0, <1>5, <2>1 DEF LoadFaqs, Goto, PackInv
  <2>3. ASSUME migrations = 0, NEW i \in Ids, NEW l \in Langs PROVE HoldsWhole(i, l)'
    <3>1. HoldsWhole(i, l)
      BY <2>3 DEF WholeInv
    <3>2. \A g \in At(i, l)' : g \in At(i, l) /\ doomed'[g] = doomed[g]
      BY <2>2 DEF At, Lang
    <3> QED BY <2>2, <3>1, <3>2, HeldStays
  <2>4. ASSUME migrations = 0, NEW g \in Admins, NEW n \in DOMAIN loading'[g]
        PROVE  Whole(loading'[g][n])
    <3>1. CASE g # f
      BY <2>2, <2>4, <3>1 DEF WholeInv
    <3>2. CASE g = f
      <4>1. Approved \in SUBSET Ids
        BY DEF Approved
      <4>2. PICK i \in Approved : list[n] = Entry(i, Nowhere)
        BY <2>2, <2>4, <3>2, <4>1, EntryOfList
      <4>3. i \in Ids /\ Nowhere[i] = NoKeywords
        BY DEF Approved, Nowhere
      <4>4. \A l \in Langs : HoldsWhole(i, l)
        BY <2>4, <4>3 DEF WholeInv
      <4> QED BY <2>2, <3>2, <4>2, <4>3, <4>4, StoredAreWhole
    <3> QED BY <3>1, <3>2
  <2>5. \A g \in Admins : \A n \in DOMAIN loading'[g] : Whole(loading'[g][n]) => Whole(loading[g][n])'
    BY DEF Whole, Posted
  <2> QED BY <2>2, <2>3, <2>4, <2>5, WordingsStay DEF WholeInv
<1>6. ASSUME NEW f \in Admins, LoadKeywords(f) PROVE WholeInv'
  <2> DEFINE found == [i \in Ids |-> IF i \in Approved THEN keywords[i] ELSE NoKeywords]
             with == [n \in DOMAIN loading[f] |-> Entry(loading[f][n].id, found)]
  <2>1. CASE Finish(f, "failed")
    BY <1>6, <2>1, FinishKeepsWhole DEF LoadKeywords
  <2>2. CASE ~ Finish(f, "failed")
    <3>1. loading' = [loading EXCEPT ![f] = with] /\ Goto(f, "loadAnswers")
      BY <1>6, <2>2 DEF LoadKeywords, PackInv
    <3>2. /\ pc'[Script] = pc[Script]
          /\ \A g \in Admins : pc'[g] = IF g = f THEN "loadAnswers" ELSE pc[g]
          /\ \A g \in Admins : loading'[g] = IF g = f THEN with ELSE loading[g]
          /\ UNCHANGED <<keywords, migrations, pack, job, doomed>>
      BY <1>0, <1>6, <2>2, <3>1 DEF LoadKeywords, Goto, PackInv
    <3>3. ASSUME migrations = 0, NEW i \in Ids, NEW l \in Langs PROVE HoldsWhole(i, l)'
      <4>1. HoldsWhole(i, l)
        BY <3>3 DEF WholeInv
      <4>2. \A g \in At(i, l)' : g \in At(i, l) /\ doomed'[g] = doomed[g]
        BY <3>2 DEF At, Lang
      <4> QED BY <3>2, <4>1, <4>2, HeldStays
    <3>4. ASSUME migrations = 0, NEW g \in Admins, NEW n \in DOMAIN loading'[g]
          PROVE  Whole(loading'[g][n])
      <4>1. CASE g # f
        BY <3>2, <3>4, <4>1 DEF WholeInv
      <4>2. CASE g = f
        <5>1. n \in DOMAIN loading[f] /\ loading'[f][n] = Entry(loading[f][n].id, found)
          BY <3>2, <3>4, <4>2
        <5>2. loading[f][n].id \in Ids
          BY <5>1 DEF PackInv, IsList, Entries
        <5>3. \/ found[loading[f][n].id] = keywords[loading[f][n].id]
              \/ found[loading[f][n].id] = NoKeywords
          BY <5>2
        <5>4. \A l \in Langs : HoldsWhole(loading[f][n].id, l)
          BY <3>4, <5>2 DEF WholeInv
        <5> HIDE DEF found
        <5> QED BY <4>2, <5>1, <5>2, <5>3, <5>4, StoredAreWhole
      <4> QED BY <4>1, <4>2
    <3> HIDE DEF with
    <3>5. \A g \in Admins : \A n \in DOMAIN loading'[g] :
            Whole(loading'[g][n]) => Whole(loading[g][n])'
      BY DEF Whole, Posted
    <3> QED BY <3>2, <3>3, <3>4, <3>5, WordingsStay DEF WholeInv
  <2> QED BY <2>1, <2>2
<1>7. ASSUME NEW f \in Admins, LoadAnswers(f) PROVE WholeInv'
  <2>1. CASE Finish(f, "failed")
    BY <1>7, <2>1, FinishKeepsWhole DEF LoadAnswers
  <2>2. CASE Goto(f, "assign") /\ UNCHANGED <<job, doomed, loading, outcome>>
    <3>1. /\ pc'[Script] = pc[Script]
          /\ \A g \in Admins : pc'[g] = IF g = f THEN "assign" ELSE pc[g]
          /\ UNCHANGED <<keywords, migrations, pack>>
      BY <1>0, <1>7, <2>2 DEF LoadAnswers, Goto
    <3> QED BY <2>2, <3>1, WholeStays
  <2> QED BY <1>7, <2>1, <2>2 DEF LoadAnswers
<1>8. ASSUME NEW f \in Admins, Assign(f) PROVE WholeInv'
  <2>1. /\ pc'[Script] = pc[Script]
        /\ \A g \in Admins : pc'[g] = IF g = f THEN "idle" ELSE pc[g]
        /\ \A g \in Admins : g # f => UNCHANGED <<job[g], doomed[g], loading[g]>>
        /\ loading'[f] = << >> /\ pack' = loading[f] /\ UNCHANGED <<keywords, migrations>>
    BY <1>0, <1>8 DEF Assign, Finish, Goto, PackInv
  <2>2. ASSUME migrations = 0, NEW i \in Ids, NEW l \in Langs PROVE HoldsWhole(i, l)'
    <3>1. HoldsWhole(i, l)
      BY <2>2 DEF WholeInv
    <3>2. \A g \in At(i, l)' : g \in At(i, l) /\ doomed'[g] = doomed[g]
      BY <2>1 DEF At, Lang
    <3> QED BY <2>1, <3>1, <3>2, HeldStays
  <2>3. ASSUME migrations = 0, NEW g \in Admins, NEW n \in DOMAIN loading'[g]
        PROVE  Whole(loading[g][n])'
    <3>1. g # f /\ loading'[g] = loading[g]
      <4>1. DOMAIN << >> = {}
        OBVIOUS
      <4> QED BY <2>1, <2>3, <4>1
    <3>2. Whole(loading[g][n])
      BY <2>3, <3>1 DEF WholeInv
    <3> QED BY <3>1, <3>2 DEF Whole, Posted
  <2>4. WholeWordings'
    <3>1. ASSUME migrations = 0, NEW n \in DOMAIN pack' PROVE Whole(pack'[n])
      BY <2>1, <3>1 DEF WholeInv
    <3> QED BY <2>1, <3>1 DEF WholeWordings, Whole, Posted
  <2> QED BY <2>1, <2>2, <2>3, <2>4 DEF WholeInv
<1>9. ASSUME NEW f \in Admins, StatementFails(f) PROVE WholeInv'
  BY <1>9, FinishKeepsWhole DEF StatementFails
<1>10. CASE Restart
  <2>1. /\ pack' \in Lists(Approved, keywords)
        /\ UNCHANGED <<keywords, migrations>>
        /\ \A g \in Admins : pc'[g] = "idle" /\ loading'[g] = << >>
        /\ pc'[Script] = pc[Script]
    BY <1>0, <1>10 DEF Restart
  <2>2. ASSUME migrations = 0, NEW i \in Ids, NEW l \in Langs PROVE HoldsWhole(i, l)'
    <3>1. HoldsWhole(i, l)
      BY <2>2 DEF WholeInv
    <3>2. \A g \in At(i, l)' : g \in At(i, l) /\ doomed'[g] = doomed[g]
      BY <2>1 DEF At
    <3> QED BY <2>1, <3>1, <3>2, HeldStays
  <2>3. WholeWordings'
    <3>1. ASSUME migrations = 0, NEW n \in DOMAIN pack' PROVE Whole(pack'[n])
      <4>1. Approved \in SUBSET Ids
        BY DEF Approved
      <4>2. PICK i \in Approved : pack'[n] = Entry(i, keywords)
        BY <2>1, <3>1, <4>1, EntryOfList
      <4>3. i \in Ids /\ \A l \in Langs : HoldsWhole(i, l)
        BY <3>1 DEF Approved, WholeInv
      <4> QED BY <4>2, <4>3, StoredAreWhole
    <3> QED BY <2>1, <3>1 DEF WholeWordings, Whole, Posted
  <2>4. DOMAIN << >> = {}
    OBVIOUS
  <2> QED BY <2>1, <2>2, <2>3, <2>4 DEF WholeInv
<1>11. ASSUME NEW id \in Ids, NEW w \in Wordings[id], MigrateEntry(id, w) PROVE WholeInv'
  <2>1. migrations' \in Nat /\ migrations' # 0
    BY <1>0, <1>11 DEF MigrateEntry
  <2> QED BY <2>1 DEF WholeInv, WholeWordings
<1>12. CASE MigrateDelete
  <2>1. migrations # 0 /\ migrations' = migrations
    BY <1>12 DEF MigrateDelete, WholeInv
  <2> QED BY <1>0, <2>1 DEF WholeInv, WholeWordings
<1>13. CASE MigrateInsert
  <2>1. migrations # 0 /\ migrations' = migrations
    BY <1>13 DEF MigrateInsert, WholeInv
  <2> QED BY <1>0, <2>1 DEF WholeInv, WholeWordings
<1>14. CASE UNCHANGED vars
  BY <1>14, WholeStays DEF vars
<1> QED
  BY <1>1, <1>2, <1>3, <1>4, <1>5, <1>6, <1>7, <1>8, <1>9, <1>10, <1>11, <1>12, <1>13, <1>14
  DEF Next, Form

\* Until the script runs, whatever number of forms overlap on an entry, fail or
\* are cut, and whenever a load or a restart reads it, no list in memory holds a
\* part of a posted keyword set: DELETE and INSERTs of replace_faq_keywords are
\* one transaction, and a transaction sees all of the rows of another, or none.
THEOREM ListsHoldWholeWordings == Spec => []WholeWordings
<1>1. WholeInv => WholeWordings
  BY DEF WholeInv, WholeWordings
<1> QED BY <1>1, PackInit, PackStep, WholeInit, WholeStep, PTL DEF Spec
=============================================================================
