------------------------------ MODULE MCSpeech ------------------------------
(***************************************************************************)
(* Instances of SpeechCache for TLC and the properties checked on them.    *)
(***************************************************************************)
EXTENDS SpeechCache, TLC

CONSTANTS p1, p2, sp, dot, ask,
  wait, five,     \* words of the language that is heard
  stay, six       \* and of the one it is translated to

\* "wait.", the same asked, the same padded and without a mark; two sentences,
\* the second a number with a point in it.
Told   == <<wait, dot>>
Asked  == <<wait, ask>>
Padded == <<sp, wait, sp>>
Long   == <<wait, dot, sp, sp, five, dot, five, dot>>

Few  == {Told, Asked, Padded}
Many == {Told, Padded, Long}

\* What two providers make of them: one ends the sentence otherwise, one says
\* the first sentence twice.
Worded == (Told :> {<<stay, dot>>, <<stay, ask>>}) @@ (Asked :> {<<stay, ask>>})
       @@ (Padded :> {<<stay>>})
       @@ (Long :> {<<stay, dot, sp, six, dot, six, dot>>, <<stay, ask, sp, stay, dot, sp>>})

\* Each sentence has samples of its own, a question other ones than a statement.
Samples_ ==
  (<<wait, dot>> :> <<8, -6, 4>>) @@ (<<wait, ask>> :> <<6, -8, 4>>) @@ (<<wait>> :> <<5, 5>>)
  @@ (<<stay, dot>> :> <<9, 7, 5, -3, 1>>) @@ (<<stay, ask>> :> <<7, 5, -3, 9, 1>>)
  @@ (<<stay>> :> <<3, 8, -8, 3>>)
  @@ (<<five, dot, five, dot>> :> <<4, 4, 4, 4>>) @@ (<<six, dot, six, dot>> :> <<2, 2, 2>>)

PipelineSymmetry == Permutations(Pipelines)

Faded == [s \in Sentences |-> ApplyEdgeFade(Bytes(Voice[s]))]
Done(p) == job[p].at = "done"

\* A text cut up where blanks follow a mark, there only, and nothing but blanks lost.
IsCutUp(t, parts) ==
  IF Solid(t) = {} THEN parts = << << >> >>
  ELSE \E from, to \in [DOMAIN parts -> Solid(t)] :
    /\ \A n \in DOMAIN parts : from[n] <= to[n] /\ parts[n] = SubSeq(t, from[n], to[n])
    /\ \A i \in Solid(t) : \E n \in DOMAIN parts : i \in from[n] .. to[n]
    /\ \A n \in DOMAIN parts \ {1} : to[n - 1] + 1 < from[n] /\ t[to[n - 1]] \in Marks
    /\ \A n \in DOMAIN parts : \A i \in from[n] .. to[n] - 1 : t[i] \in Marks => t[i + 1] # Blank

Whole == [t \in Shown |-> IsCutUp(t, Said[t])]

\* The reply that is heard is the one that is shown: its sentences are the
\* text cut up, and each was spoken once, whole and in its turn, wherever
\* its sound came from (a fresh synthesis in whatever WAV layout, or a clip that
\* another pipeline saved meanwhile).  Only the mark at a sentence's end may be
\* another one's, and a torn file is sent as it is.
SaysWhatItShows ==
  \A p \in Pipelines : Done(p) =>
    LET said == Said[job[p].shown]
    IN  /\ Whole[job[p].shown]
        /\ Len(job[p].heard) = Len(said)
        /\ \A i \in DOMAIN said :
             \/ job[p].heard[i] = Torn
             \/ \E s \in Sentences : Key[s] = Key[said[i]] /\ job[p].heard[i] = Faded[s]

\* Two clips one after the other never click: each begins and ends in silence,
\* and none ends in half a sample, which would shift all that follows.
SeamsAreSilent ==
  \A p \in Pipelines : \A i \in DOMAIN job[p].heard :
    LET clip == job[p].heard[i]
        s == Samples(clip)
    IN  clip # Torn => Len(clip) % 2 = 0 /\ Head(s) = 0 /\ s[Len(s)] = 0

\* Texts in which the same symbols count, with blanks at the same places.
Alike(t, u) ==
  LET a == InOrder(Counting(t))
      b == InOrder(Counting(u))
  IN  /\ DOMAIN a = DOMAIN b
      /\ \A n \in DOMAIN a : t[a[n]] = u[b[n]]
      /\ \A n \in DOMAIN a \ {1} : a[n] = a[n - 1] + 1 <=> b[n] = b[n - 1] + 1
Renderings ==
  [t \in Questions \cup Sentences |-> {u \in Questions \cup Sentences : Alike(t, u)}]

\* "trivially-different renderings of the same utterance still hit": what was
\* cached when a pipeline began, in whatever rendering, it does not pay for.
SavedIsNotPaidAgain ==
  \A p \in Pipelines : \A t \in job[p].paid, k \in job[p].saved :
    t[1] = k[1] => \A u \in Renderings[t[2]] : Key[u] # k[2]

\* "it only ever fires on a real repeat, not a guess": what is shown is a
\* translation of what was asked.
OnlyRealRepeats ==
  \A p \in Pipelines : Done(p) => job[p].shown \in Translations[job[p].asked] \cup {job[p].asked}

\* No torn file is ever played.
WholeClips == \A p \in Pipelines : \A i \in DOMAIN job[p].heard : job[p].heard[i] # Torn

=============================================================================
