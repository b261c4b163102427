--------------------------- MODULE CircuitBreaker ---------------------------
(***************************************************************************)
(* The health record the provider registry keeps for one provider of one   *)
(* capability, and the pure functions on it (src/providers/registry.py     *)
(* 69-132): the sliding windows, the circuit breaker with its doubling     *)
(* cooldown, and the effective score that ranks healthy providers.         *)
(*                                                                         *)
(* The code stores circuit_open_until as an absolute monotonic time and    *)
(* only ever compares it with the present and with another one.  Here it   *)
(* is the time still to run, openFor: 0 once it has elapsed, Never where   *)
(* the code has None.                                                      *)
(***************************************************************************)
EXTENDS Integers, Sequences, FiniteSets

CONSTANTS
  Window,            \* WINDOW_SIZE, the length both deques are bounded to
  TripConsecutive,   \* CIRCUIT_TRIP_CONSECUTIVE
  TripMinSamples,    \* CIRCUIT_TRIP_MIN_SAMPLES
  BaseCooldown,      \* BASE_COOLDOWN_S
  MaxCooldown        \* MAX_COOLDOWN_S

ASSUME BreakerAssumption ==
  /\ Window \in Nat \ {0}
  /\ TripConsecutive \in Nat \ {0}
  /\ TripMinSamples \in Nat \ {0}
  /\ BaseCooldown \in Nat \ {0}
  /\ MaxCooldown \in Nat
  /\ BaseCooldown <= MaxCooldown

Never == -1

Outcomes == {"success", "failure"}
Quality  == {"fine", "flagged"}

Deques(S) == {s \in Seq(S) : Len(s) <= Window}

Health == [outcomes : Deques(Outcomes),
           qualityFlags : Deques(Quality),
           consecutiveFailures : Nat,
           openFor : 0 .. MaxCooldown \cup {Never},
           cooldown : BaseCooldown .. MaxCooldown]

\* What _health_state creates the first time it is asked for a provider.
Healthy == [outcomes |-> << >>,
            qualityFlags |-> << >>,
            consecutiveFailures |-> 0,
            openFor |-> Never,
            cooldown |-> BaseCooldown]

\* deque(maxlen=Window).append(x)
Push(s, x) == Append(IF Len(s) < Window THEN s ELSE Tail(s), x)

Where(s, x) == {i \in DOMAIN s : s[i] = x}
Failed(s)  == Where(s, "failure")
Flagged(s) == Where(s, "flagged")

-----------------------------------------------------------------------------
\* The failure rate is compared with one half, so "rate > 0.5" is written
\* without a division.
ShouldTrip(consecutive, outcomes) ==
  \/ consecutive >= TripConsecutive
  \/ /\ Len(outcomes) >= TripMinSamples
     /\ 2 * Cardinality(Failed(outcomes)) > Len(outcomes)

\* Mutant of Doubled: the cap is forgotten.
DoubledUncapped(cooldown) == 2 * cooldown

Doubled(cooldown) == IF 2 * cooldown < MaxCooldown THEN 2 * cooldown ELSE MaxCooldown

\* Mutants of RecordSuccess: one field is not reset.
SuccessKeepsCounter(h, flag) ==
  [h EXCEPT !.outcomes = Push(@, "success"), !.qualityFlags = Push(@, flag),
            !.openFor = Never, !.cooldown = BaseCooldown]
SuccessKeepsCircuit(h, flag) ==
  [h EXCEPT !.outcomes = Push(@, "success"), !.qualityFlags = Push(@, flag),
            !.consecutiveFailures = 0, !.cooldown = BaseCooldown]
SuccessKeepsCooldown(h, flag) ==
  [h EXCEPT !.outcomes = Push(@, "success"), !.qualityFlags = Push(@, flag),
            !.consecutiveFailures = 0, !.openFor = Never]

RecordSuccess(h, flag) ==
  [outcomes |-> Push(h.outcomes, "success"),
   qualityFlags |-> Push(h.qualityFlags, flag),
   consecutiveFailures |-> 0,
   openFor |-> Never,
   cooldown |-> BaseCooldown]

\* Mutant of RecordFailure: only a circuit still open doubles its cooldown.
FailureDoublesOnlyOpen(h) ==
  LET outcomes == Push(h.outcomes, "failure")
      trip     == ShouldTrip(h.consecutiveFailures + 1, outcomes)
      cooldown == IF trip /\ h.openFor > 0 THEN Doubled(h.cooldown) ELSE h.cooldown
  IN  [h EXCEPT !.outcomes = outcomes, !.qualityFlags = Push(@, "fine"),
                !.consecutiveFailures = @ + 1, !.cooldown = cooldown,
                !.openFor = IF trip THEN cooldown ELSE @]

RecordFailure(h) ==
  LET outcomes == Push(h.outcomes, "failure")
      trip     == ShouldTrip(h.consecutiveFailures + 1, outcomes)
      cooldown == IF trip /\ h.openFor # Never THEN Doubled(h.cooldown) ELSE h.cooldown
  IN  [outcomes |-> outcomes,
       qualityFlags |-> Push(h.qualityFlags, "fine"),
       consecutiveFailures |-> h.consecutiveFailures + 1,
       openFor |-> IF trip THEN cooldown ELSE h.openFor,
       cooldown |-> cooldown]

\* One unit of time passes.
Elapse(h) == [h EXCEPT !.openFor = IF @ > 0 THEN @ - 1 ELSE @]

\* An elapsed cooldown (openFor = 0) counts as not open: the next call through
\* is the half-open trial.
IsCircuitOpen(h) == h.openFor > 0

\* raw_cost * (1 + 2 * failure_rate + quality_flag_rate), as the numerator over
\* Samples(h): both windows always have the same length.
Samples(h) == IF h.outcomes = << >> THEN 1 ELSE Len(h.outcomes)

\* Mutant of ScoreNumerator: successes are counted instead of failures.
ScoreOfSuccesses(h, rawCost) ==
  rawCost * (Samples(h) + 2 * Cardinality(Where(h.outcomes, "success"))
                        + Cardinality(Flagged(h.qualityFlags)))

ScoreNumerator(h, rawCost) ==
  rawCost * (Samples(h) + 2 * Cardinality(Failed(h.outcomes))
                        + Cardinality(Flagged(h.qualityFlags)))

ScoreLess(h1, cost1, h2, cost2) ==
  ScoreNumerator(h1, cost1) * Samples(h2) < ScoreNumerator(h2, cost2) * Samples(h1)

-----------------------------------------------------------------------------
\* The invariant of a health record, one conjunct per relation between its
\* fields that the registry relies on without stating it.

\* The counter of consecutive failures is the length of the run of failures at
\* the end of the outcome window, as long as the run fits in the window
\* (_record_outcome keeps the two separately).
CounterMatchesWindow(h) ==
  LET n == Len(h.outcomes)
      k == h.consecutiveFailures
  IN  /\ \A i \in 1 .. n : i > n - k => h.outcomes[i] = "failure"
      /\ k < n => h.outcomes[n - k] = "success"

\* A circuit whose open-until is set is one whose trip condition still holds on
\* the record as it is now: however late the next failure comes, it trips again.
OpenIsStillEarned(h) ==
  h.openFor # Never =>
    /\ h.consecutiveFailures > 0
    /\ ShouldTrip(h.consecutiveFailures, h.outcomes)

\* Only a circuit that tripped and has had no success since has a raised
\* cooldown, and no circuit stays open longer than its cooldown.
CooldownMatchesCircuit(h) ==
  /\ h.cooldown > BaseCooldown => h.openFor # Never
  /\ h.openFor <= h.cooldown

BreakerInv(h) ==
  /\ Len(h.outcomes) = Len(h.qualityFlags)
  /\ CounterMatchesWindow(h)
  /\ OpenIsStillEarned(h)
  /\ CooldownMatchesCircuit(h)
=============================================================================
