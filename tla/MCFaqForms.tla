----------------------------- MODULE MCFaqForms -----------------------------
(***************************************************************************)
(* FaqStore with what its properties need to know of the past: whether a   *)
(* form or a pipeline had the system to itself since it began, the answers *)
(* a pipeline has stored, and every answer that was ever stored.           *)
(***************************************************************************)
EXTENDS MCFaq

VARIABLES alone, wrote, stored
history == <<alone, wrote, stored>>

Handlers == Visitors \cup Editors
OthersRest(p) == \A q \in Processes \ {p} : proc[q].at \in {"idle", "form"}
Begins(p) == proc[p].at = "idle" /\ proc'[p].at # "idle"

MCInit ==
  /\ Init
  /\ alone = [p \in Handlers |-> FALSE]
  /\ wrote = [v \in Visitors |-> {}]
  /\ stored = {answers[l] : l \in Authored(answers)}
MCNext ==
  /\ Next
  /\ alone' = [p \in Handlers |-> OthersRest(p)' /\ (alone[p] \/ Begins(p))]
  /\ wrote' = [v \in Visitors |->
       IF Begins(v) THEN {}
       ELSE IF proc[v].at = "upsert" /\ proc'[v].at \notin {"upsert", "idle"}
       THEN wrote[v] \cup {proc[v].text}
       ELSE wrote[v]]
  /\ stored' = stored \cup {answers'[l] : l \in Authored(answers')}
MCSpec == MCInit /\ [][MCNext]_<<vars, history>>

\* A form that is saved while nobody else is at work repairs whatever lost
\* races, failed statements, restarts and scripts have left behind: the copy in
\* memory is what the database holds and every cached voice speaks its answer.
SavedFormRepairs ==
  [][\A e \in Editors :
       /\ alone[e] /\ proc[e].at = "assign"
       /\ proc'[e].at = "idle" /\ proc'[e].outcome = "saved"
       => Current' = Loaded' /\ CacheSpeaksAnswer']_<<vars, history>>

\* Whatever wordings and voices races, faults and edits have left behind, a
\* pilgrim whose answer is translated while nobody else is at work hears what
\* they are shown, and it is what the table, the cache and the memory hold for
\* the next one.
TranslationIsServed ==
  \A v \in Visitors :
    alone[v] /\ proc[v].outcome = "spoken" /\ proc[v].text \in wrote[v] =>
      LET l == proc[v].text.lang
      IN  /\ {proc[v].heard, answers[l], file[l]} = {proc[v].text}
          /\ row[l]
          /\ Current = Loaded

\* Whatever is shown, spoken or kept as a voice was an answer in faq_answers once,
\* where an administrator can find it: no pilgrim is told a wording of a
\* translation that lost its race, was cut or failed before it was stored.
SpokenWasStored ==
  /\ \A l \in Langs : file[l] # Nothing => file[l] \in stored
  /\ \A v \in Visitors :
       /\ proc[v].at = "show" => proc[v].text \in stored
       /\ proc[v].outcome = "spoken" => proc[v].heard \in stored
=============================================================================
