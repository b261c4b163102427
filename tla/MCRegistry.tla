----------------------------- MODULE MCRegistry -----------------------------
(***************************************************************************)
(* Instances of ProviderRegistry for TLC and the properties checked on     *)
(* them.                                                                   *)
(***************************************************************************)
EXTENDS ProviderRegistry, TLC

CONSTANTS bhashini, azure, sarvam, c1, c2, a1, a2

\* Registration order and relative prices: Bhashini is free, Azure's translation
\* costs a sixth of Sarvam's and its speech a little less than half.
FreeAndPaidPosition == (bhashini :> 1) @@ (azure :> 2)
FreeAndPaidCost     == (bhashini :> 0) @@ (azure :> 1)
PaidPosition        == (sarvam :> 1) @@ (azure :> 2)
PaidCost            == (sarvam :> 11) @@ (azure :> 5)
ThreePositions      == (sarvam :> 1) @@ (bhashini :> 2) @@ (azure :> 3)
ThreeCosts          == (sarvam :> 5) @@ (bhashini :> 0) @@ (azure :> 1)
OnePosition         == (sarvam :> 1)
OneCost             == (sarvam :> 1)

\* Every provider can serve the request; or only one of them, or none.
Everything == [eligible |-> Configured, target |-> Providers]
EveryRequest == {Everything}
\* Every override there is; or a provider without credentials and auto.
EveryChoice  == Overrides
UnableOrAuto == {bhashini, NoProvider}
CallerSymmetry == Permutations(Callers)

MixedRequests == {[eligible |-> E, target |-> T] :
                    E \in {Configured, {}}, T \in {Providers, {azure}}}

-----------------------------------------------------------------------------
(* The registry implements what FailoverCall promises.                     *)

RefusedSoFar(c) ==
  LET done == IF result[c] = "error" THEN at[c] ELSE at[c] - 1
  IN  {candidates[c][i] : i \in 1 .. done}

Promise == INSTANCE FailoverCall WITH
  EligibleSets <- {req.eligible : req \in Requests},
  running  <- [c \in Callers |-> pc[c] # "idle"],
  promised <- [c \in Callers |-> ToSet(candidates[c])],
  refused  <- [c \in Callers |-> RefusedSoFar(c)],
  answer   <- [c \in Callers |->
                IF result[c] \in {"escaped", "cancelled"} THEN "abandoned" ELSE result[c]]

\* Every call works through distinct providers, reports failure only after the
\* last of them, has at least one whenever a provider is eligible, and ends.
KeepsPromise == Promise!Spec

-----------------------------------------------------------------------------
(* What the module docstring says and the code does not do.  Each of these *)
(* is the property of one run that shows a counterexample.                 *)

\* "The circuit's cooldown starts at 30s and doubles ... each time a
\* post-cooldown retry immediately fails again": a cooldown grows only by a
\* failure that comes after the circuit's cooldown has elapsed.
DoublesOnlyAfterCooldown ==
  [][\A p \in Providers :
       health'[p].cooldown > health[p].cooldown => ~Open(p)]_vars

LastTen(s) == SubSeq(s, IF Len(s) > 10 THEN Len(s) - 9 ELSE 1, Len(s))

\* "tripped (3 consecutive failures, or >50% failure rate over its last 10
\* calls)": a circuit leaves the closed state only on one of the two.
TripsOnLastTenCalls ==
  [][\A p \in Providers :
       health[p].openFor = Never /\ health'[p].openFor # Never =>
         \/ health'[p].consecutiveFailures >= 3
         \/ LET recent == LastTen(health'[p].outcomes)
            IN  2 * Cardinality(Failed(recent)) > Len(recent)]_vars

\* Time since the last failure of a circuit-open provider: every failure on a
\* set circuit starts its cooldown anew (FailedTrialReopens).
SinceFailure(p) == health[p].cooldown - health[p].openFor

\* "UNLESS every candidate is currently circuit-open, in which case the
\* least-recently-failed one is tried anyway".
LastResortIsLeastRecentlyFailed ==
  [][\A c \in Callers :
       Starts(c) /\ forced = NoProvider /\ (\A p \in Configured : Open(p)) =>
         \A q \in Configured : SinceFailure(q) <= SinceFailure(candidates'[c][1])]_vars

\* "a provider that's been failing or producing flagged-quality output recently
\* gets pushed down the list even if it's nominally cheaper": recent failures
\* raise the effective score.
FailuresRaiseScore ==
  \A p \in Providers :
    Failed(health[p].outcomes) # {} =>
      ScoreNumerator(health[p], RawCost[p]) > RawCost[p] * Samples(health[p])

\* "is skipped entirely while its circuit is open, UNLESS every candidate is
\* currently circuit-open": no attempt of a call in auto mode goes to an open
\* provider while another eligible one is healthy.
OpenIsSkipped ==
  [][\A c \in Callers :
       (/\ pc'[c] = "calling" /\ (pc[c] # "calling" \/ at'[c] # at[c])
        /\ forced = NoProvider
        /\ Open(candidates'[c][at'[c]]))
       => \A q \in Configured : Open(q)]_vars

\* "if the top-ranked candidate's call actually fails, the next-ranked
\* candidate is tried immediately ... up to every remaining candidate before
\* the call is reported as failed".
FailureTriesEveryCandidate ==
  \A c \in Callers :
    pc[c] = "idle" /\ result[c] \in {"error", "escaped"} => at[c] = Len(candidates[c])

\* "Loads admin-forced provider overrides from Postgres into memory. Call at
\* startup and whenever an admin changes the setting": once no save is in
\* progress and none was refused, the override in memory is the one in
\* provider_config.  Two saves that overlap break it.
OverrideInEffect == (\A a \in Admins : adminPc[a] = "idle") => forced = dbForced
=============================================================================
