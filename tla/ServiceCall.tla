---------------------------- MODULE ServiceCall ----------------------------
(* What a caller sees of a service call (src/pipeline/orchestrator.py): one *)
(* await that returns or raises.                                           *)
VARIABLE outcome

Init == outcome = "pending"
Return == outcome = "pending" /\ outcome' = "answered"
Throw == outcome = "pending" /\ outcome' = "raised"
Next == Return \/ Throw

FairSpec == Init /\ [][Next]_outcome /\ WF_outcome(Next)
=============================================================================
