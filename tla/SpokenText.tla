----------------------------- MODULE SpokenText -----------------------------
(***************************************************************************)
(* What the live server does to texts: normalize_for_cache and             *)
(* split_sentences of src/sarvam_server.py, and Python's str.strip.  A text*)
(* is a sequence of symbols: blanks, the marks that end a sentence and     *)
(* others.  Case is left out.                                              *)
(***************************************************************************)
EXTENDS Integers, Sequences, FiniteSets, FiniteSetsExt, SequencesExt

CONSTANTS Blank, Marks

\* Numbers in their order.
InOrder(S) ==
  [n \in 1 .. Cardinality(S) |-> CHOOSE i \in S : Cardinality({j \in S : j < i}) = n - 1]

Solid(t) == {i \in DOMAIN t : t[i] # Blank}

Strip(t) ==
  IF Solid(t) = {} THEN << >> ELSE SubSeq(t, Min(Solid(t)), Max(Solid(t)))

\* Mutant of NormalizeForCache: the marks at the end count.
MarksCount(t) == Strip(t)

\* Marks and blanks at the end do not count, nor blanks at the beginning.
Counting(t) == {i \in Solid(t) : \E j \in Solid(t) : i <= j /\ t[j] \notin Marks}

\* A run of blanks counts as one, the first.
NormalizeForCache(t) ==
  LET runs == {i \in DOMAIN t \ Solid(t) :
                 i - 1 \in Counting(t) /\ \E j \in Counting(t) : i < j}
      place == InOrder(Counting(t) \cup runs)
  IN  [n \in DOMAIN place |-> t[place[n]]]

\* A sentence begins with the text, and where blanks follow a mark.
SplitSentences(t) ==
  LET Begins(i) == LET before == {j \in Solid(t) : j < i}
                   IN  before = {} \/ (t[Max(before)] \in Marks /\ Max(before) < i - 1)
      starts == InOrder({i \in Solid(t) : Begins(i)})
      End(n) == IF n = Len(starts) THEN Len(t) ELSE starts[n + 1] - 1
  IN  IF Solid(t) = {} THEN << << >> >>
      ELSE [n \in DOMAIN starts |-> Strip(SubSeq(t, starts[n], End(n)))]
=============================================================================
