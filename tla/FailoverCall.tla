---------------------------- MODULE FailoverCall ----------------------------
(***************************************************************************)
(* What the registry promises the pipeline about one call, without health, *)
(* ranking or logging (the module docstring of src/providers/registry.py,  *)
(* 6-40): a call promises itself a set of providers when it starts, never  *)
(* an empty one if some provider is eligible; it asks them one at a time,  *)
(* none twice; it reports failure only when all of them have refused; and  *)
(* it always comes back.                                                   *)
(***************************************************************************)
EXTENDS Integers, FiniteSets

CONSTANTS Providers, Callers, EligibleSets

VARIABLES running, promised, refused, answer

vars == <<running, promised, refused, answer>>

Init ==
  /\ running = [c \in Callers |-> FALSE]
  /\ promised = [c \in Callers |-> {}]
  /\ refused = [c \in Callers |-> {}]
  /\ answer = [c \in Callers |-> "none"]

\* An override promises its one provider, whatever the request needs.
Promises(eligible) ==
  {S \in SUBSET eligible : eligible # {} => S # {}} \cup {{p} : p \in Providers}

Call(c, eligible) ==
  /\ ~running[c]
  /\ \E S \in Promises(eligible) :
       /\ promised' = [promised EXCEPT ![c] = S]
       /\ running' = [running EXCEPT ![c] = S # {}]
       /\ answer' = [answer EXCEPT ![c] = IF S = {} THEN "error" ELSE "none"]
  /\ refused' = [refused EXCEPT ![c] = {}]

Refuse(c) ==
  /\ running[c]
  /\ \E p \in promised[c] \ refused[c] : refused' = [refused EXCEPT ![c] = @ \cup {p}]
  /\ UNCHANGED <<running, promised, answer>>

\* A provider that has not refused answers.
Accept(c) ==
  /\ running[c]
  /\ promised[c] \ refused[c] # {}
  /\ running' = [running EXCEPT ![c] = FALSE]
  /\ answer' = [answer EXCEPT ![c] = "ok"]
  /\ UNCHANGED <<promised, refused>>

\* The last provider left may refuse and end the call in the same step.
GiveUp(c) ==
  /\ running[c]
  /\ Cardinality(promised[c] \ refused[c]) <= 1
  /\ refused' = [refused EXCEPT ![c] = promised[c]]
  /\ running' = [running EXCEPT ![c] = FALSE]
  /\ answer' = [answer EXCEPT ![c] = "error"]
  /\ UNCHANGED promised

\* An exception of another kind, a cancellation or a restart.
Abandon(c) ==
  /\ running[c]
  /\ running' = [running EXCEPT ![c] = FALSE]
  /\ answer' = [answer EXCEPT ![c] = "abandoned"]
  /\ UNCHANGED <<promised, refused>>

AbandonAll ==
  /\ running' = [c \in Callers |-> FALSE]
  /\ answer' = [c \in Callers |-> IF running[c] THEN "abandoned" ELSE answer[c]]
  /\ UNCHANGED <<promised, refused>>

Answer(c) == Refuse(c) \/ Accept(c) \/ GiveUp(c) \/ Abandon(c)

Next ==
  \/ \E c \in Callers : Answer(c) \/ \E eligible \in EligibleSets : Call(c, eligible)
  \/ AbandonAll

Spec == Init /\ [][Next]_vars /\ \A c \in Callers : WF_vars(Answer(c))
=============================================================================
