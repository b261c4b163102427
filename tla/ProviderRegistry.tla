-------------------------- MODULE ProviderRegistry --------------------------
(***************************************************************************)
(* The provider registry for one capability (stt, translate or tts):       *)
(* src/providers/registry.py.  Concurrent calls rank the providers, attempt*)
(* them one after another, record every outcome in the providers' health   *)
(* and fail over; administrators force a provider; time passes; the server *)
(* restarts.  The process is a single asyncio loop, so each action below   *)
(* runs from one await to the next.                                        *)
(*                                                                         *)
(* The three capabilities run the same loop on disjoint health records and *)
(* disjoint rows of provider_config, so one of them is modelled.           *)
(***************************************************************************)
EXTENDS CircuitBreaker, SequencesExt

CONSTANTS
  Providers,       \* the adapters registered for the capability
  Configured,      \* those that have credentials
  Position,        \* their place in the registration dict, which breaks ties
  RawCost,         \* COST_TABLE, in any unit
  Requests,        \* the requests callers make, see RequestType
  Callers,         \* the concurrent invocations of transcribe/translate/synthesize
  Admins,          \* the concurrent POST /admin/providers/{capability} handlers
  NoProvider,      \* forced_provider = None
  OnOffer,         \* the overrides that are stored and saved
  MaxConsecutive   \* bound: failures in a row of one provider

\* eligible: the configured providers that declare the request's language (and
\* auto-detection, where needed); target: those that declare the target
\* language, which only translate looks at.
RequestType == [eligible : SUBSET Configured, target : SUBSET Providers]

ASSUME RegistryAssumption ==
  /\ IsFiniteSet(Providers)
  /\ Configured \subseteq Providers
  /\ Position \in [Providers -> Nat]
  /\ \A p, q \in Providers : Position[p] = Position[q] => p = q
  /\ RawCost \in [Providers -> Nat]
  /\ Requests \subseteq RequestType
  /\ NoProvider \notin Providers
  /\ OnOffer \subseteq Providers \cup {NoProvider}
  /\ MaxConsecutive \in Nat

VARIABLES
  health,       \* _health, one record per provider
  forced,       \* _forced_provider
  dbForced,     \* the row of provider_config
  pc,           \* where each call is: idle, or at one of its two awaits
  candidates,   \* the ranking a call works through
  at,           \* the index of the candidate it is at
  result,       \* how its last invocation ended
  adminPc,      \* where each admin save is
  choice,       \* the provider the save carries
  snapshot,     \* the row its reload_config read
  since         \* not in the code: the overrides stored since the save wrote its own

callVars  == <<pc, candidates, at, result>>
adminVars == <<adminPc, choice, snapshot, since>>
vars == <<health, forced, dbForced, callVars, adminVars>>

Overrides == Providers \cup {NoProvider}

TypeOK ==
  /\ health \in [Providers -> Health]
  /\ forced \in Overrides
  /\ dbForced \in Overrides
  /\ pc \in [Callers -> {"idle", "calling", "logSuccess", "logFailure"}]
  /\ candidates \in [Callers -> Seq(Providers)]
  /\ at \in [Callers -> Nat]
  /\ \A c \in Callers : pc[c] # "idle" => at[c] \in DOMAIN candidates[c]
  /\ result \in [Callers -> {"none", "ok", "error", "escaped", "cancelled"}]
  /\ adminPc \in [Admins -> {"idle", "writing", "reading", "applying", "failed"}]
  /\ choice \in [Admins -> Overrides]
  /\ snapshot \in [Admins -> Overrides]
  /\ since \in [Admins -> SUBSET Overrides]

Init ==
  /\ health = [p \in Providers |-> Healthy]
  /\ dbForced \in OnOffer
  /\ forced = dbForced
  /\ pc = [c \in Callers |-> "idle"]
  /\ candidates = [c \in Callers |-> << >>]
  /\ at = [c \in Callers |-> 0]
  /\ result = [c \in Callers |-> "none"]
  /\ adminPc = [a \in Admins |-> "idle"]
  /\ choice = [a \in Admins |-> NoProvider]
  /\ snapshot = [a \in Admins |-> NoProvider]
  /\ since = [a \in Admins |-> {}]

-----------------------------------------------------------------------------
(* Ranking.  The code sorts and then filters by target language; sorting   *)
(* the filtered set gives the same list.                                   *)

Open(p) == IsCircuitOpen(health[p])

Pool(req) ==
  IF forced # NoProvider THEN {forced}
  ELSE LET closed == {p \in req.eligible : ~Open(p)}
       IN  IF closed # {} THEN closed ELSE req.eligible

Capable(pool, target) == IF pool \cap target # {} THEN pool \cap target ELSE pool

\* Healthy candidates by effective score, circuit-open ones by the cooldown
\* that ends soonest; both sorts are stable.
Better(p, q) ==
  IF Open(p) THEN health[p].openFor < health[q].openFor
             ELSE ScoreLess(health[p], RawCost[p], health[q], RawCost[q])

Before(p, q) == Better(p, q) \/ (~Better(q, p) /\ Position[p] < Position[q])

Rankings(pool) ==
  {s \in SetToSeqs(pool) : \A i, j \in 1 .. Cardinality(pool) : i < j => Before(s[i], s[j])}

-----------------------------------------------------------------------------
(* One call.  "calling" is the await of the adapter, "logSuccess" and      *)
(* "logFailure" the await of _log_call after the outcome was recorded.     *)

Attempted(c) == candidates[c][at[c]]

\* A call with no candidate raises at once.
Begin(c, req) ==
  /\ pc[c] = "idle"
  /\ \E ranking \in Rankings(Capable(Pool(req), req.target)) :
       /\ candidates' = [candidates EXCEPT ![c] = ranking]
       /\ IF ranking = << >>
          THEN /\ at' = [at EXCEPT ![c] = 0]
               /\ result' = [result EXCEPT ![c] = "error"]
               /\ UNCHANGED pc
          ELSE /\ at' = [at EXCEPT ![c] = 1]
               /\ result' = [result EXCEPT ![c] = "none"]
               /\ pc' = [pc EXCEPT ![c] = "calling"]
  /\ UNCHANGED <<health, forced, dbForced, adminVars>>

Succeed(c, flag) ==
  /\ pc[c] = "calling"
  /\ Attempted(c) \in Configured
  /\ health' = [health EXCEPT ![Attempted(c)] = RecordSuccess(@, flag)]
  /\ pc' = [pc EXCEPT ![c] = "logSuccess"]
  /\ UNCHANGED <<forced, dbForced, candidates, at, result, adminVars>>

Fail(c) ==
  /\ pc[c] = "calling"
  /\ health[Attempted(c)].consecutiveFailures < MaxConsecutive
  /\ health' = [health EXCEPT ![Attempted(c)] = RecordFailure(@)]
  /\ pc' = [pc EXCEPT ![c] = "logFailure"]
  /\ UNCHANGED <<forced, dbForced, candidates, at, result, adminVars>>

\* Mutant of TryNext: the loop stops one candidate early.
TryNextStopsEarly(c) ==
  IF at[c] + 1 < Len(candidates[c])
  THEN /\ at' = [at EXCEPT ![c] = @ + 1]
       /\ pc' = [pc EXCEPT ![c] = "calling"]
       /\ UNCHANGED result
  ELSE /\ pc' = [pc EXCEPT ![c] = "idle"]
       /\ result' = [result EXCEPT ![c] = "error"]
       /\ UNCHANGED at

\* The for loop goes on to the next candidate, or ends and raises last_error.
TryNext(c) ==
  IF at[c] < Len(candidates[c])
  THEN /\ at' = [at EXCEPT ![c] = @ + 1]
       /\ pc' = [pc EXCEPT ![c] = "calling"]
       /\ UNCHANGED result
  ELSE /\ pc' = [pc EXCEPT ![c] = "idle"]
       /\ result' = [result EXCEPT ![c] = "error"]
       /\ UNCHANGED at

\* ProviderNotConfigured: nothing is recorded or logged.
SkipUnconfigured(c) ==
  /\ pc[c] = "calling"
  /\ Attempted(c) \notin Configured
  /\ TryNext(c)
  /\ UNCHANGED <<health, forced, dbForced, candidates, adminVars>>

FinishSuccess(c) ==
  /\ pc[c] = "logSuccess"
  /\ pc' = [pc EXCEPT ![c] = "idle"]
  /\ result' = [result EXCEPT ![c] = "ok"]
  /\ UNCHANGED <<health, forced, dbForced, candidates, at, adminVars>>

FailOver(c) ==
  /\ pc[c] = "logFailure"
  /\ TryNext(c)
  /\ UNCHANGED <<health, forced, dbForced, candidates, adminVars>>

Drop(c, how) ==
  /\ pc' = [pc EXCEPT ![c] = "idle"]
  /\ result' = [result EXCEPT ![c] = how]
  /\ UNCHANGED <<health, forced, dbForced, candidates, at, adminVars>>

\* The adapter raises something other than ProviderError (Azure: a body that
\* is not JSON), which the loop does not catch.
AdapterRaises(c) == pc[c] = "calling" /\ Drop(c, "escaped")

\* The task is cancelled at either await (run_sarvam_pipeline cancels the TTS
\* tasks it no longer needs).
Cancel(c) == pc[c] # "idle" /\ Drop(c, "cancelled")

-----------------------------------------------------------------------------
(* The admin override: write the row, read it back, put it in memory.      *)
(* Several administrators save at once; since is a history variable that no*)
(* guard reads.                                                            *)

SubmitOverride(a, v) ==
  /\ adminPc[a] \in {"idle", "failed"}
  /\ adminPc' = [adminPc EXCEPT ![a] = "writing"]
  /\ choice' = [choice EXCEPT ![a] = v]
  /\ UNCHANGED <<health, forced, dbForced, callVars, snapshot, since>>

\* The saves that have written and not yet put an override in memory.
Reloading == {a \in Admins : adminPc[a] \in {"reading", "applying"}}

\* Mutant of WriteConfig: reload_config has read before the row is written.
WriteAfterReading(a) ==
  /\ adminPc[a] = "writing"
  /\ dbForced' = choice[a]
  /\ snapshot' = [snapshot EXCEPT ![a] = dbForced]
  /\ adminPc' = [adminPc EXCEPT ![a] = "applying"]
  /\ since' = [b \in Admins |-> IF b = a THEN {choice[a]}
                                ELSE IF b \in Reloading THEN since[b] \cup {choice[a]}
                                ELSE since[b]]
  /\ UNCHANGED <<health, forced, callVars, choice>>

WriteConfig(a) ==
  /\ adminPc[a] = "writing"
  /\ dbForced' = choice[a]
  /\ adminPc' = [adminPc EXCEPT ![a] = "reading"]
  /\ since' = [b \in Admins |-> IF b = a THEN {choice[a]}
                                ELSE IF b \in Reloading THEN since[b] \cup {choice[a]}
                                ELSE since[b]]
  /\ UNCHANGED <<health, forced, callVars, choice, snapshot>>

ReadConfig(a) ==
  /\ adminPc[a] = "reading"
  /\ snapshot' = [snapshot EXCEPT ![a] = dbForced]
  /\ adminPc' = [adminPc EXCEPT ![a] = "applying"]
  /\ UNCHANGED <<health, forced, dbForced, callVars, choice, since>>

\* What the handler knew goes with it.
Forget(a) ==
  /\ choice' = [choice EXCEPT ![a] = NoProvider]
  /\ snapshot' = [snapshot EXCEPT ![a] = NoProvider]
  /\ since' = [since EXCEPT ![a] = {}]

ApplyConfig(a) ==
  /\ adminPc[a] = "applying"
  /\ forced' = snapshot[a]
  /\ adminPc' = [adminPc EXCEPT ![a] = "idle"]
  /\ Forget(a)
  /\ UNCHANGED <<health, dbForced, callVars>>

\* Either database call raises: the administrator gets an error page.
AdminError(a) ==
  /\ adminPc[a] \in {"writing", "reading"}
  /\ adminPc' = [adminPc EXCEPT ![a] = "failed"]
  /\ Forget(a)
  /\ UNCHANGED <<health, forced, dbForced, callVars>>

-----------------------------------------------------------------------------
Tick ==
  /\ \E p \in Providers : Open(p)
  /\ health' = [p \in Providers |-> Elapse(health[p])]
  /\ UNCHANGED <<forced, dbForced, callVars, adminVars>>

\* The process restarts: everything in memory goes, and startup calls
\* reload_config before the first request is served.
Restart ==
  /\ health' = [p \in Providers |-> Healthy]
  /\ forced' = dbForced
  /\ pc' = [c \in Callers |-> "idle"]
  /\ result' = [c \in Callers |-> IF pc[c] = "idle" THEN result[c] ELSE "cancelled"]
  /\ adminPc' = [a \in Admins |-> IF adminPc[a] = "idle" THEN "idle" ELSE "failed"]
  /\ choice' = [a \in Admins |-> NoProvider]
  /\ snapshot' = [a \in Admins |-> NoProvider]
  /\ since' = [a \in Admins |-> {}]
  /\ UNCHANGED <<dbForced, candidates, at>>

Settle(c) ==
  \/ \E flag \in Quality : Succeed(c, flag)
  \/ Fail(c)
  \/ SkipUnconfigured(c)
  \/ FinishSuccess(c)
  \/ FailOver(c)
  \/ AdapterRaises(c)
  \/ Cancel(c)

Save(a) ==
  \/ \E v \in OnOffer : SubmitOverride(a, v)
  \/ WriteConfig(a)
  \/ ReadConfig(a)
  \/ ApplyConfig(a)
  \/ AdminError(a)

Next ==
  \/ \E c \in Callers : Settle(c) \/ \E req \in Requests : Begin(c, req)
  \/ \E a \in Admins : Save(a)
  \/ Tick
  \/ Restart

Spec == Init /\ [][Next]_vars

\* Every adapter's HTTP client has a timeout (20 s or 30 s) and _log_call
\* swallows what the database does, so an await of a call always ends.
FairSpec == Spec /\ \A c \in Callers : WF_vars(Settle(c))

-----------------------------------------------------------------------------
(* Safety of the breaker, held by every provider's record.                 *)

\* The counter of consecutive failures always agrees with the outcome window
\* that _record_outcome maintains beside it.
CountersMatchWindows == \A p \in Providers : CounterMatchesWindow(health[p])

\* A set circuit_open_until always stands on a trip condition that still holds:
\* no interleaving of successes and failures leaves a circuit open (or waiting
\* for its trial) on a record that would not trip.
OpenCircuitsAreEarned == \A p \in Providers : OpenIsStillEarned(health[p])

\* A raised cooldown belongs to a circuit that has not healed, and no circuit
\* stays open longer than its current cooldown.
CooldownsMatchCircuits == \A p \in Providers : CooldownMatchesCircuit(health[p])

\* A failure on a circuit whose cooldown has elapsed always reopens it, for
\* twice as long up to the cap: a half-open trial can never fail and leave the
\* provider in rotation.
FailedTrialReopens ==
  [][\A p \in Providers :
       (/\ health[p].openFor = 0
        /\ health'[p].consecutiveFailures > health[p].consecutiveFailures)
       => health'[p].openFor = Doubled(health[p].cooldown)]_vars

-----------------------------------------------------------------------------
(* Ranking.                                                                *)

Starts(c) == pc[c] = "idle" /\ pc'[c] = "calling"

\* Rates of two deques compared without a division.
NoHigherRate(n1, len1, n2, len2) == n1 * len2 <= n2 * len1

\* q is strictly cheaper than p and neither fails nor is flagged more often.
Dominates(q, p) ==
  /\ RawCost[q] < RawCost[p]
  /\ NoHigherRate(Cardinality(Failed(health[q].outcomes)), Samples(health[q]),
                  Cardinality(Failed(health[p].outcomes)), Samples(health[p]))
  /\ NoHigherRate(Cardinality(Flagged(health[q].qualityFlags)), Samples(health[q]),
                  Cardinality(Flagged(health[p].qualityFlags)), Samples(health[p]))

\* No call asks a healthy provider before another healthy one that is cheaper
\* and, over the recent window, no worse in either respect.
NoDominatedChoice ==
  [][\A c \in Callers : Starts(c) =>
       \A i, j \in DOMAIN candidates'[c] :
         LET p == candidates'[c][i]
             q == candidates'[c][j]
         IN  i < j /\ ~Open(p) /\ ~Open(q) => ~Dominates(q, p)]_vars

-----------------------------------------------------------------------------
(* The admin override.                                                     *)

\* However many saves overlap, and in whatever order their writes, reads and
\* assignments fall: what a save puts in memory is its own override or one that
\* was stored after it, never one its own write has replaced (reload_config
\* "whenever an admin changes the setting").
SavesPutNothingOlder ==
  [][\A a \in Admins :
       adminPc[a] = "applying" /\ adminPc'[a] = "idle" => forced' \in since[a]]_vars

=============================================================================
