--------------------------- MODULE RegistryProofs ---------------------------
(***************************************************************************)
(* Proofs about ProviderRegistry for every set of providers, callers and   *)
(* admins, every window, threshold and cooldown: type correctness, the     *)
(* breaker invariants of every provider under every interleaving, the      *)
(* reopening of a circuit whose trial fails, the order candidates are asked*)
(* in, the administrators' overrides, and the refinement of FailoverCall.  *)
(***************************************************************************)
EXTENDS MCRegistry, SequenceTheorems, FiniteSetTheorems, TLAPS

-----------------------------------------------------------------------------
(* The health record of one provider: every operation of CircuitBreaker    *)
(* keeps its type and its invariant.                                       *)

(* A bounded deque stays a bounded deque; appending makes it one longer    *)
(* until it is full, and then drops the oldest element.                    *)
LEMMA PushFacts ==
  ASSUME NEW S, NEW s \in Deques(S), NEW x \in S
  PROVE  /\ Push(s, x) \in Deques(S)
         /\ Len(Push(s, x)) = IF Len(s) < Window THEN Len(s) + 1 ELSE Len(s)
         /\ Len(Push(s, x)) > 0
         /\ \A i \in 1 .. Len(Push(s, x)) :
              Push(s, x)[i] = IF i = Len(Push(s, x)) THEN x
                              ELSE IF Len(s) < Window THEN s[i] ELSE s[i + 1]
<1>1. /\ s \in Seq(S)
      /\ Len(s) \in Nat
      /\ Len(s) <= Window
      /\ Window \in Nat \ {0}
  BY BreakerAssumption DEF Deques
<1>2. CASE Len(s) < Window
  <2>1. Push(s, x) = Append(s, x)
    BY <1>2 DEF Push
  <2> QED BY <1>1, <1>2, <2>1 DEF Deques
<1>3. CASE ~(Len(s) < Window)
  <2>1. Push(s, x) = Append(Tail(s), x)
    BY <1>3 DEF Push
  <2>2. Len(s) = Window /\ s # << >>
    BY <1>1, <1>3
  <2>3. /\ Tail(s) \in Seq(S)
        /\ Len(Tail(s)) = Len(s) - 1
        /\ \A i \in 1 .. Len(Tail(s)) : Tail(s)[i] = s[i + 1]
    BY <1>1, <2>2
  <2> QED BY <1>1, <2>1, <2>2, <2>3 DEF Deques
<1> QED BY <1>2, <1>3

(* The element appended last is the last one.                              *)
LEMMA PushLast ==
  ASSUME NEW S, NEW s \in Deques(S), NEW x \in S, NEW t, t = Push(s, x)
  PROVE  t \in Deques(S) /\ Len(t) \in Nat /\ Len(t) > 0 /\ t[Len(t)] = x
<1>1. t \in Deques(S) /\ Len(t) > 0
  BY PushFacts
<1>2. Len(t) \in Nat /\ Len(t) \in 1 .. Len(t)
  BY <1>1 DEF Deques
<1>3. t[Len(t)] = x
  BY <1>2, PushFacts
<1> QED BY <1>1, <1>2, <1>3

(* The failures of a window are a finite set of its indices.               *)
LEMMA FailedFacts ==
  ASSUME NEW s \in Deques(Outcomes)
  PROVE  /\ Failed(s) \subseteq 1 .. Len(s)
         /\ IsFiniteSet(Failed(s))
         /\ Cardinality(Failed(s)) \in Nat
<1>1. Failed(s) \subseteq 1 .. Len(s) /\ Len(s) \in Nat
  BY DEF Failed, Where, Deques
<1>2. IsFiniteSet(1 .. Len(s))
  BY <1>1, FS_Interval
<1> QED BY <1>1, <1>2, FS_Subset, FS_CardinalityType

(* Recording a failure never lowers the number of failures in the window:  *)
(* it adds one while the window grows, and replaces one at worst once it   *)
(* is full.                                                                *)
LEMMA PushFailureCount ==
  ASSUME NEW s \in Deques(Outcomes), NEW t, t = Push(s, "failure")
  PROVE  Cardinality(Failed(t)) >= Cardinality(Failed(s)) + (Len(t) - Len(s))
<1>1. /\ t \in Deques(Outcomes)
      /\ Len(t) = IF Len(s) < Window THEN Len(s) + 1 ELSE Len(s)
      /\ Len(t) > 0
      /\ \A i \in 1 .. Len(t) : t[i] = IF i = Len(t) THEN "failure" ELSE IF Len(s) < Window THEN s[i] ELSE s[i + 1]
  BY PushFacts DEF Outcomes
<1>2. /\ Len(s) \in Nat /\ DOMAIN s = 1 .. Len(s) /\ \A i \in DOMAIN s : s[i] \in Outcomes
      /\ Len(t) \in Nat /\ DOMAIN t = 1 .. Len(t) /\ \A i \in DOMAIN t : t[i] \in Outcomes
  <2>1. s \in Seq(Outcomes) /\ t \in Seq(Outcomes)
    BY <1>1 DEF Deques
  <2> QED BY <2>1
<1>3. /\ IsFiniteSet(Failed(s)) /\ Cardinality(Failed(s)) \in Nat
      /\ IsFiniteSet(Failed(t)) /\ Cardinality(Failed(t)) \in Nat
  BY <1>1, FailedFacts
<1>4. CASE Len(s) < Window
  <2>1. Len(t) = Len(s) + 1 /\ Len(t) \in 1 .. Len(t)
    BY <1>1, <1>2, <1>4
  <2>2. Len(t) \notin Failed(s)
    BY <1>2, <2>1 DEF Failed, Where
  <2>3. ASSUME NEW i \in 1 .. Len(t)
        PROVE  t[i] = "failure" <=> i \in Failed(s) \cup {Len(t)}
    <3>1. CASE i = Len(t)
      <4>1. t[i] = "failure"
        BY <1>1, <3>1
      <4> QED BY <3>1, <4>1
    <3>2. CASE i # Len(t)
      <4>1. t[i] = s[i]
        BY <1>1, <1>4, <3>2
      <4>2. i \in DOMAIN s
        BY <1>2, <2>1, <3>2
      <4> QED BY <3>2, <4>1, <4>2 DEF Failed, Where
    <3> QED BY <3>1, <3>2
  <2>4. Failed(s) \subseteq 1 .. Len(t)
    BY <1>2, <2>1 DEF Failed, Where
  <2>5. Failed(t) = Failed(s) \cup {Len(t)}
    BY <1>2, <2>1, <2>3, <2>4 DEF Failed, Where
  <2>6. Cardinality(Failed(t)) = Cardinality(Failed(s)) + 1
    BY <1>3, <2>2, <2>5, FS_AddElement
  <2> QED BY <1>2, <1>3, <2>1, <2>6
<1>5. CASE ~(Len(s) < Window)
  <2> DEFINE f == [i \in Failed(s) |-> IF i = 1 THEN Len(t) ELSE i - 1]
  <2>1. Len(t) = Len(s)
    BY <1>1, <1>5
  <2>2. ASSUME NEW i \in Failed(s) PROVE f[i] \in Failed(t)
    <3>1. i \in 1 .. Len(s) /\ s[i] = "failure"
      BY <1>2 DEF Failed, Where
    <3>2. CASE i = 1
      <4>1. Len(t) \in 1 .. Len(t) /\ t[Len(t)] = "failure"
        BY <1>1, <1>2
      <4> QED BY <1>2, <3>2, <4>1 DEF Failed, Where
    <3>3. CASE i # 1
      <4>1. i - 1 \in 1 .. Len(t) /\ i - 1 # Len(t) /\ (i - 1) + 1 = i
        BY <1>2, <2>1, <3>1, <3>3
      <4>2. t[i - 1] = s[i]
        BY <1>1, <1>5, <4>1
      <4> QED BY <1>2, <3>1, <3>3, <4>1, <4>2 DEF Failed, Where
    <3> QED BY <3>2, <3>3
  <2>3. ASSUME NEW i \in Failed(s), NEW j \in Failed(s), f[i] = f[j] PROVE i = j
    <3>1. i \in 1 .. Len(s) /\ j \in 1 .. Len(s)
      BY <1>2 DEF Failed, Where
    <3> QED BY <1>2, <2>1, <2>3, <3>1
  <2>4. f \in Injection(Failed(s), Failed(t))
    BY <2>2, <2>3 DEF Injection, IsInjective
  <2>5. Cardinality(Failed(s)) <= Cardinality(Failed(t))
    BY <1>3, <2>4, FS_Injection
  <2> QED BY <1>2, <1>3, <2>1, <2>5
<1> QED BY <1>4, <1>5

-----------------------------------------------------------------------------
(* A fresh record is well-typed and satisfies the invariant.               *)
LEMMA HealthyIsSound == Healthy \in Health /\ BreakerInv(Healthy)
<1>1. Healthy \in Health
  BY BreakerAssumption DEF Healthy, Health, Deques, Never
<1>2. BreakerInv(Healthy)
  BY BreakerAssumption DEF Healthy, BreakerInv, CounterMatchesWindow, OpenIsStillEarned,
     CooldownMatchesCircuit, Never
<1> QED BY <1>1, <1>2

(* Time only brings an open circuit nearer to its trial.                   *)
LEMMA ElapseIsSound ==
  ASSUME NEW h \in Health
  PROVE  /\ Elapse(h) \in Health
         /\ BreakerInv(h) => BreakerInv(Elapse(h))
<1> DEFINE e == IF h.openFor > 0 THEN h.openFor - 1 ELSE h.openFor
<1>1. /\ h.openFor \in Int /\ e \in 0 .. MaxCooldown \cup {Never}
      /\ e <= h.openFor /\ (e = Never <=> h.openFor = Never)
  BY BreakerAssumption DEF Health, Never
<1>2. Elapse(h) = [h EXCEPT !.openFor = e]
  BY DEF Elapse
<1>3. Elapse(h) \in Health
  BY <1>1, <1>2 DEF Health
<1>4. /\ Elapse(h).outcomes = h.outcomes
      /\ Elapse(h).qualityFlags = h.qualityFlags
      /\ Elapse(h).consecutiveFailures = h.consecutiveFailures
      /\ Elapse(h).cooldown = h.cooldown /\ Elapse(h).cooldown \in Int
      /\ Elapse(h).openFor = e
  BY <1>1, <1>2, BreakerAssumption DEF Health
<1> HIDE DEF e
<1>5. ASSUME BreakerInv(h) PROVE BreakerInv(Elapse(h))
  <2>1. CounterMatchesWindow(Elapse(h))
    BY <1>4, <1>5 DEF BreakerInv, CounterMatchesWindow
  <2>2. OpenIsStillEarned(Elapse(h))
    BY <1>1, <1>4, <1>5 DEF BreakerInv, OpenIsStillEarned
  <2>3. CooldownMatchesCircuit(Elapse(h))
    BY <1>1, <1>4, <1>5 DEF BreakerInv, CooldownMatchesCircuit
  <2> QED BY <1>4, <1>5, <2>1, <2>2, <2>3 DEF BreakerInv
<1> QED BY <1>3, <1>5

(* One success makes the record healthy again.                             *)
LEMMA RecordSuccessIsSound ==
  ASSUME NEW h \in Health, NEW flag \in Quality
  PROVE  /\ RecordSuccess(h, flag) \in Health
         /\ BreakerInv(h) => BreakerInv(RecordSuccess(h, flag))
<1> DEFINE o == Push(h.outcomes, "success")
           q == Push(h.qualityFlags, flag)
           r == RecordSuccess(h, flag)
<1>1. h.outcomes \in Deques(Outcomes) /\ h.qualityFlags \in Deques(Quality)
  BY DEF Health
<1>2. /\ o \in Deques(Outcomes) /\ Len(o) > 0 /\ o[Len(o)] = "success"
      /\ Len(o) = IF Len(h.outcomes) < Window THEN Len(h.outcomes) + 1 ELSE Len(h.outcomes)
  <2>1. "success" \in Outcomes
    BY DEF Outcomes
  <2>2. Len(o) = IF Len(h.outcomes) < Window THEN Len(h.outcomes) + 1 ELSE Len(h.outcomes)
    BY <1>1, <2>1, PushFacts
  <2> QED BY <1>1, <2>1, <2>2, PushLast
<1>3. /\ q \in Deques(Quality)
      /\ Len(q) = IF Len(h.qualityFlags) < Window THEN Len(h.qualityFlags) + 1
                                                  ELSE Len(h.qualityFlags)
  BY <1>1, PushFacts
<1>4. /\ r.outcomes = o /\ r.qualityFlags = q /\ r.consecutiveFailures = 0
      /\ r.openFor = Never /\ r.cooldown = BaseCooldown
  BY DEF RecordSuccess
<1>5. r \in Health
  BY <1>2, <1>3, BreakerAssumption DEF Health, RecordSuccess
<1>6. ASSUME BreakerInv(h) PROVE BreakerInv(r)
  <2>1. CounterMatchesWindow(r)
    <3>1. Len(o) \in Nat
      BY <1>2 DEF Deques
    <3> HIDE DEF o, q, r
    <3> QED BY <1>2, <1>4, <3>1 DEF CounterMatchesWindow
  <2>2. OpenIsStillEarned(r) /\ CooldownMatchesCircuit(r)
    <3> HIDE DEF o, q, r
    <3> QED BY <1>4, BreakerAssumption DEF OpenIsStillEarned, CooldownMatchesCircuit, Never
  <2>3. Len(r.outcomes) = Len(r.qualityFlags)
    <3>1. Len(h.outcomes) = Len(h.qualityFlags)
      BY <1>6 DEF BreakerInv
    <3> HIDE DEF o, q, r
    <3> QED BY <1>2, <1>3, <1>4, <3>1
  <2> QED BY <2>1, <2>2, <2>3 DEF BreakerInv
<1> QED BY <1>5, <1>6

(* More than half of a window stays more than half when one more failure   *)
(* comes in: a of n before, b of m after.                                  *)
LEMMA MajorityPersists ==
  ASSUME NEW a \in Nat, NEW n \in Nat, NEW b \in Nat, NEW m \in Nat,
         b >= a + (m - n), m = n \/ m = n + 1, 2 * a > n
  PROVE  2 * b > m
OBVIOUS

(* A trip condition that held keeps holding when one more failure is       *)
(* recorded, even if the failure pushes an older outcome out of the window.*)
LEMMA TripPersists ==
  ASSUME NEW h \in Health, ShouldTrip(h.consecutiveFailures, h.outcomes),
         NEW s, s = h.outcomes, NEW t, t = Push(s, "failure")
  PROVE  ShouldTrip(h.consecutiveFailures + 1, t)
<1>1. /\ s \in Deques(Outcomes) /\ h.consecutiveFailures \in Nat /\ Len(s) \in Nat
      /\ "failure" \in Outcomes
  BY DEF Health, Deques, Outcomes
<1>2. /\ t \in Deques(Outcomes) /\ Len(t) \in Nat
      /\ Len(t) = IF Len(s) < Window THEN Len(s) + 1 ELSE Len(s)
  BY <1>1, PushFacts, PushLast
<1>3. /\ Cardinality(Failed(s)) \in Nat /\ Cardinality(Failed(t)) \in Nat
      /\ Cardinality(Failed(t)) >= Cardinality(Failed(s)) + (Len(t) - Len(s))
  BY <1>1, <1>2, FailedFacts, PushFailureCount
<1>4. CASE h.consecutiveFailures >= TripConsecutive
  BY <1>1, <1>4, BreakerAssumption DEF ShouldTrip
<1>5. CASE Len(s) >= TripMinSamples /\ 2 * Cardinality(Failed(s)) > Len(s)
  <2>1. Len(t) >= Len(s) /\ Len(t) <= Len(s) + 1
    BY <1>1, <1>2
  <2>2. Len(t) >= TripMinSamples
    BY <1>1, <1>2, <1>5, <2>1, BreakerAssumption
  <2>3. 2 * Cardinality(Failed(t)) > Len(t)
    <3>1. Len(t) = Len(s) \/ Len(t) = Len(s) + 1
      BY <1>2
    <3> QED BY <1>1, <1>2, <1>3, <1>5, <3>1, MajorityPersists
  <2> QED BY <2>2, <2>3 DEF ShouldTrip
<1> QED BY <1>4, <1>5 DEF ShouldTrip

(* Counting one more failure keeps the counter equal to the run of         *)
(* failures at the end of the window.                                      *)
LEMMA CounterFollowsFailure ==
  ASSUME NEW h \in Health, CounterMatchesWindow(h),
         NEW r, r.outcomes = Push(h.outcomes, "failure"),
         r.consecutiveFailures = h.consecutiveFailures + 1
  PROVE  CounterMatchesWindow(r)
<1> DEFINE n == Len(h.outcomes)
           k == h.consecutiveFailures
           m == Len(r.outcomes)
<1>1. /\ h.outcomes \in Deques(Outcomes) /\ k \in Nat /\ n \in Nat
      /\ "failure" \in Outcomes
  BY DEF Health, Deques, Outcomes
<1>2. /\ m \in Nat
      /\ m = IF n < Window THEN n + 1 ELSE n
      /\ r.outcomes[m] = "failure"
  BY <1>1, PushFacts, PushLast
<1>3. \A i \in 1 .. m :
        i # m => r.outcomes[i] = IF n < Window THEN h.outcomes[i] ELSE h.outcomes[i + 1]
  BY <1>1, PushFacts
<1>4. /\ \A i \in 1 .. n : i > n - k => h.outcomes[i] = "failure"
      /\ k < n => h.outcomes[n - k] = "success"
  BY DEF CounterMatchesWindow
<1> HIDE DEF n, k, m
<1>5. ASSUME NEW i \in 1 .. m, i > m - (k + 1) PROVE r.outcomes[i] = "failure"
  <2>1. CASE i = m
    BY <1>2, <2>1
  <2>2. CASE i # m /\ n < Window
    <3>1. i \in 1 .. n /\ i > n - k
      BY <1>1, <1>2, <1>5, <2>2
    <3> QED BY <1>3, <1>4, <2>2, <3>1
  <2>3. CASE i # m /\ ~(n < Window)
    <3>1. i + 1 \in 1 .. n /\ i + 1 > n - k
      BY <1>1, <1>2, <1>5, <2>3
    <3> QED BY <1>3, <1>4, <2>3, <3>1
  <2> QED BY <2>1, <2>2, <2>3
<1>6. ASSUME k + 1 < m PROVE r.outcomes[m - (k + 1)] = "success"
  <2>1. k < n /\ m - (k + 1) \in 1 .. m /\ m - (k + 1) # m
    BY <1>1, <1>2, <1>6
  <2>2. CASE n < Window
    <3>1. m - (k + 1) = n - k
      BY <1>1, <1>2, <2>2
    <3> QED BY <1>3, <1>4, <2>1, <2>2, <3>1
  <2>3. CASE ~(n < Window)
    <3>1. (m - (k + 1)) + 1 = n - k
      BY <1>1, <1>2, <2>3
    <3> QED BY <1>3, <1>4, <2>1, <2>3, <3>1
  <2> QED BY <2>2, <2>3
<1> QED BY <1>5, <1>6 DEF CounterMatchesWindow, m, k

(* One failure keeps the record's type and invariant; on a circuit that    *)
(* was already set it always trips again, for twice as long up to the cap. *)
LEMMA RecordFailureIsSound ==
  ASSUME NEW h \in Health
  PROVE  /\ RecordFailure(h) \in Health
         /\ BreakerInv(h) => BreakerInv(RecordFailure(h))
         /\ BreakerInv(h) /\ h.openFor # Never =>
              RecordFailure(h).openFor = Doubled(h.cooldown)
<1> DEFINE t == Push(h.outcomes, "failure")
           q == Push(h.qualityFlags, "fine")
           k == h.consecutiveFailures
           trip == ShouldTrip(k + 1, t)
           cd == IF trip /\ h.openFor # Never THEN Doubled(h.cooldown) ELSE h.cooldown
           r == RecordFailure(h)
<1>1. /\ h.outcomes \in Deques(Outcomes) /\ h.qualityFlags \in Deques(Quality)
      /\ k \in Nat /\ "failure" \in Outcomes /\ "fine" \in Quality
      /\ h.openFor \in 0 .. MaxCooldown \cup {Never}
      /\ h.cooldown \in BaseCooldown .. MaxCooldown
  BY DEF Health, Outcomes, Quality
<1>2. /\ t \in Deques(Outcomes) /\ q \in Deques(Quality)
      /\ Len(t) = IF Len(h.outcomes) < Window THEN Len(h.outcomes) + 1 ELSE Len(h.outcomes)
      /\ Len(q) = IF Len(h.qualityFlags) < Window THEN Len(h.qualityFlags) + 1
                                                  ELSE Len(h.qualityFlags)
  <2>1. /\ t \in Deques(Outcomes)
        /\ Len(t) = IF Len(h.outcomes) < Window THEN Len(h.outcomes) + 1 ELSE Len(h.outcomes)
    BY <1>1, PushFacts
  <2>2. /\ q \in Deques(Quality)
        /\ Len(q) = IF Len(h.qualityFlags) < Window THEN Len(h.qualityFlags) + 1
                                                    ELSE Len(h.qualityFlags)
    BY <1>1, PushFacts
  <2> HIDE DEF t, q
  <2> QED BY <2>1, <2>2
<1>3. /\ r.outcomes = t /\ r.qualityFlags = q /\ r.consecutiveFailures = k + 1
      /\ r.openFor = (IF trip THEN cd ELSE h.openFor) /\ r.cooldown = cd
      /\ r = [outcomes |-> t, qualityFlags |-> q, consecutiveFailures |-> k + 1,
              openFor |-> IF trip THEN cd ELSE h.openFor, cooldown |-> cd]
  BY DEF RecordFailure
<1>4. cd \in BaseCooldown .. MaxCooldown /\ cd \in 0 .. MaxCooldown /\ cd >= h.cooldown
  BY <1>1, BreakerAssumption DEF Doubled
<1>5. r \in Health
  <2> HIDE DEF t, q, k, trip, cd, r
  <2> QED BY <1>1, <1>2, <1>3, <1>4 DEF Health, k
<1>6. ASSUME BreakerInv(h), h.openFor # Never PROVE trip
  <2>1. ShouldTrip(h.consecutiveFailures, h.outcomes)
    BY <1>6 DEF BreakerInv, OpenIsStillEarned
  <2> QED BY <2>1, TripPersists
<1>7. ASSUME BreakerInv(h) PROVE BreakerInv(r)
  <2>1. CounterMatchesWindow(r)
    BY <1>3, <1>7, CounterFollowsFailure DEF BreakerInv
  <2>2. OpenIsStillEarned(r)
    <3>1. r.openFor # Never => trip
      BY <1>3, <1>6, <1>7
    <3>2. k + 1 > 0
      BY <1>1
    <3> QED BY <1>3, <3>1, <3>2 DEF OpenIsStillEarned
  <2>3. CooldownMatchesCircuit(r)
    <3>1. /\ h.cooldown > BaseCooldown => h.openFor # Never
          /\ h.openFor <= h.cooldown
      BY <1>7 DEF BreakerInv, CooldownMatchesCircuit
    <3>2. CASE trip
      <4>1. r.openFor = cd /\ r.cooldown = cd /\ cd # Never /\ cd <= cd
        BY <1>3, <1>4, <3>2, BreakerAssumption DEF Never
      <4> QED BY <4>1 DEF CooldownMatchesCircuit
    <3>3. CASE ~trip
      <4>1. r.openFor = h.openFor /\ r.cooldown = h.cooldown
        BY <1>3, <3>3
      <4> QED BY <3>1, <4>1 DEF CooldownMatchesCircuit
    <3> QED BY <3>2, <3>3
  <2>4. Len(r.outcomes) = Len(r.qualityFlags)
    BY <1>2, <1>3, <1>7 DEF BreakerInv
  <2> QED BY <2>1, <2>2, <2>3, <2>4 DEF BreakerInv
<1>8. ASSUME BreakerInv(h), h.openFor # Never PROVE r.openFor = Doubled(h.cooldown)
  BY <1>3, <1>6, <1>8
<1> QED BY <1>5, <1>7, <1>8

-----------------------------------------------------------------------------
(* Types of the registry.                                                  *)

(* The rankings of a set of providers are sequences of providers.          *)
LEMMA RankingsAreSequences ==
  ASSUME NEW pool \in SUBSET Providers, NEW s \in Rankings(pool)
  PROVE  s \in Seq(Providers) /\ (s # << >> => 1 \in DOMAIN s)
<1>1. IsFiniteSet(pool) /\ Cardinality(pool) \in Nat
  BY RegistryAssumption, FS_Subset, FS_CardinalityType
<1>2. s \in [1 .. Cardinality(pool) -> pool]
  BY DEF Rankings, SetToSeqs
<1>3. s \in Seq(Providers)
  BY <1>1, <1>2
<1>4. s # << >> => Len(s) # 0
  BY <1>3, EmptySeq
<1> QED BY <1>3, <1>4

(* Every action chooses among registered providers.                        *)
LEMMA CapableIsRegistered ==
  ASSUME TypeOK, NEW req \in Requests
  PROVE  Capable(Pool(req), req.target) \subseteq Providers
BY RegistryAssumption DEF TypeOK, RequestType, Pool, Capable, Overrides

LEMMA TypeInit == Init => TypeOK
BY HealthyIsSound, RegistryAssumption DEF Init, TypeOK, Overrides

LEMMA TypeStep == TypeOK /\ [Next]_vars => TypeOK'
<1> SUFFICES ASSUME TypeOK, [Next]_vars PROVE TypeOK'
  OBVIOUS
<1> USE DEF TypeOK
<1>1. ASSUME NEW c \in Callers, pc[c] # "idle" PROVE Attempted(c) \in Providers
  BY <1>1 DEF Attempted
<1>2. ASSUME NEW c \in Callers, NEW req \in Requests, Begin(c, req) PROVE TypeOK'
  <2>1. PICK ranking \in Rankings(Capable(Pool(req), req.target)) :
          /\ candidates' = [candidates EXCEPT ![c] = ranking]
          /\ IF ranking = << >>
             THEN /\ at' = [at EXCEPT ![c] = 0]
                  /\ result' = [result EXCEPT ![c] = "error"]
                  /\ UNCHANGED pc
             ELSE /\ at' = [at EXCEPT ![c] = 1]
                  /\ result' = [result EXCEPT ![c] = "none"]
                  /\ pc' = [pc EXCEPT ![c] = "calling"]
    BY <1>2 DEF Begin
  <2>2. ranking \in Seq(Providers) /\ (ranking # << >> => 1 \in DOMAIN ranking)
    BY <2>1, CapableIsRegistered, RankingsAreSequences
  <2>3. pc[c] = "idle" /\ UNCHANGED <<health, forced, dbForced, adminVars>>
    BY <1>2 DEF Begin
  <2>4. \A d \in Callers : pc'[d] # "idle" => at'[d] \in DOMAIN candidates'[d]
    <3>1. CASE ranking = << >>
      BY <2>1, <2>3, <3>1
    <3>2. CASE ranking # << >>
      BY <2>1, <2>2, <3>2
    <3> QED BY <3>1, <3>2
  <2>5. candidates' \in [Callers -> Seq(Providers)]
    BY <2>1, <2>2
  <2>6. /\ at' \in [Callers -> Nat]
        /\ pc' \in [Callers -> {"idle", "calling", "logSuccess", "logFailure"}]
        /\ result' \in [Callers -> {"none", "ok", "error", "escaped", "cancelled"}]
    <3>1. CASE ranking = << >>
      <4>1. /\ at' = [at EXCEPT ![c] = 0] /\ pc' = pc
            /\ result' = [result EXCEPT ![c] = "error"]
        BY <2>1, <3>1
      <4> QED BY <4>1
    <3>2. CASE ranking # << >>
      <4>1. /\ at' = [at EXCEPT ![c] = 1] /\ pc' = [pc EXCEPT ![c] = "calling"]
            /\ result' = [result EXCEPT ![c] = "none"]
        BY <2>1, <3>2
      <4> QED BY <4>1
    <3> QED BY <3>1, <3>2
  <2> QED BY <2>3, <2>4, <2>5, <2>6 DEF adminVars
<1>3. ASSUME NEW c \in Callers, NEW flag \in Quality, Succeed(c, flag) PROVE TypeOK'
  <2>1. RecordSuccess(health[Attempted(c)], flag) \in Health
    BY <1>1, <1>3, RecordSuccessIsSound DEF Succeed
  <2> QED BY <1>3, <2>1 DEF Succeed, adminVars
<1>4. ASSUME NEW c \in Callers, Fail(c) PROVE TypeOK'
  <2>1. RecordFailure(health[Attempted(c)]) \in Health
    BY <1>1, <1>4, RecordFailureIsSound DEF Fail
  <2> QED BY <1>4, <2>1 DEF Fail, adminVars
<1>5. ASSUME NEW c \in Callers, pc[c] # "idle", TryNext(c),
             UNCHANGED <<health, forced, dbForced, candidates, adminVars>>
      PROVE  TypeOK'
  <2>1. candidates[c] \in Seq(Providers) /\ at[c] \in DOMAIN candidates[c]
    BY <1>5
  <2>2. CASE at[c] < Len(candidates[c])
    <3>1. /\ at' = [at EXCEPT ![c] = at[c] + 1]
          /\ pc' = [pc EXCEPT ![c] = "calling"]
          /\ UNCHANGED result
      BY <1>5, <2>2 DEF TryNext
    <3>2. at[c] + 1 \in Nat /\ at[c] + 1 \in DOMAIN candidates[c]
      BY <2>1, <2>2
    <3> QED BY <1>5, <3>1, <3>2 DEF adminVars
  <2>3. CASE ~(at[c] < Len(candidates[c]))
    BY <1>5, <2>1, <2>3 DEF TryNext, adminVars
  <2> QED BY <2>2, <2>3
<1>6. ASSUME NEW c \in Callers, SkipUnconfigured(c) PROVE TypeOK'
  BY <1>5, <1>6 DEF SkipUnconfigured
<1>7. ASSUME NEW c \in Callers, FinishSuccess(c) PROVE TypeOK'
  BY <1>7 DEF FinishSuccess, adminVars
<1>8. ASSUME NEW c \in Callers, FailOver(c) PROVE TypeOK'
  BY <1>5, <1>8 DEF FailOver
<1>9. ASSUME NEW c \in Callers, AdapterRaises(c) \/ Cancel(c) PROVE TypeOK'
  BY <1>9 DEF AdapterRaises, Cancel, Drop, adminVars
<1>10. ASSUME NEW a \in Admins, Save(a) PROVE TypeOK'
  <2>1. ASSUME NEW v \in OnOffer, SubmitOverride(a, v) PROVE TypeOK'
    BY <2>1, RegistryAssumption DEF SubmitOverride, Overrides, callVars
  <2>2. ASSUME WriteConfig(a) PROVE TypeOK'
    BY <2>2 DEF WriteConfig, Overrides, callVars
  <2>3. ASSUME ReadConfig(a) PROVE TypeOK'
    BY <2>3 DEF ReadConfig, callVars
  <2>4. ASSUME ApplyConfig(a) PROVE TypeOK'
    <3>1. NoProvider \in Overrides
      BY DEF Overrides
    <3> QED BY <2>4, <3>1 DEF ApplyConfig, Forget, callVars
  <2>5. ASSUME AdminError(a) PROVE TypeOK'
    <3>1. NoProvider \in Overrides
      BY DEF Overrides
    <3> QED BY <2>5, <3>1 DEF AdminError, Forget, callVars
  <2> QED BY <1>10, <2>1, <2>2, <2>3, <2>4, <2>5 DEF Save
<1>11. ASSUME Tick PROVE TypeOK'
  BY <1>11, ElapseIsSound DEF Tick, callVars, adminVars
<1>12. ASSUME Restart PROVE TypeOK'
  <2>1. NoProvider \in Overrides
    BY DEF Overrides
  <2> QED BY <1>12, <2>1, HealthyIsSound DEF Restart
<1>13. ASSUME UNCHANGED vars PROVE TypeOK'
  BY <1>13 DEF vars, callVars, adminVars
<1> QED
  BY <1>2, <1>3, <1>4, <1>6, <1>7, <1>8, <1>9, <1>10, <1>11, <1>12, <1>13 DEF Next, Settle

(* Every reachable state is well-typed.                                    *)
THEOREM RegistryTypeCorrect == Spec => []TypeOK
BY TypeInit, TypeStep, PTL DEF Spec

-----------------------------------------------------------------------------
(* The inductive invariant: every provider's record satisfies BreakerInv.  *)
(* CounterMatchesWindow and OpenIsStillEarned need each other's company    *)
(* only through the equal lengths of the two deques and the type; the      *)
(* reopening of a circuit needs OpenIsStillEarned.                         *)
BreakersInv == TypeOK /\ \A p \in Providers : BreakerInv(health[p])

(* What one step can do to the health of the providers.                    *)
LEMMA HealthStep ==
  ASSUME TypeOK, [Next]_vars
  PROVE  \/ UNCHANGED health
         \/ \E p \in Providers, flag \in Quality :
              health' = [health EXCEPT ![p] = RecordSuccess(@, flag)]
         \/ \E p \in Providers : health' = [health EXCEPT ![p] = RecordFailure(@)]
         \/ health' = [p \in Providers |-> Elapse(health[p])]
         \/ health' = [p \in Providers |-> Healthy]
<1>1. ASSUME NEW c \in Callers, pc[c] # "idle" PROVE Attempted(c) \in Providers
  BY <1>1 DEF Attempted, TypeOK
<1>2. ASSUME NEW c \in Callers, NEW flag \in Quality, Succeed(c, flag)
      PROVE  \E p \in Providers, fl \in Quality :
               health' = [health EXCEPT ![p] = RecordSuccess(@, fl)]
  BY <1>1, <1>2 DEF Succeed
<1>3. ASSUME NEW c \in Callers, Fail(c)
      PROVE  \E p \in Providers : health' = [health EXCEPT ![p] = RecordFailure(@)]
  BY <1>1, <1>3 DEF Fail
<1>4. ASSUME NEW c \in Callers, Settle(c), ~Fail(c),
             \A flag \in Quality : ~Succeed(c, flag)
      PROVE  UNCHANGED health
  BY <1>4 DEF Settle, SkipUnconfigured, FinishSuccess, FailOver, AdapterRaises, Cancel, Drop
<1>5. ASSUME NEW c \in Callers, NEW req \in Requests, Begin(c, req) PROVE UNCHANGED health
  BY <1>5 DEF Begin
<1>6. ASSUME NEW a \in Admins, Save(a) PROVE UNCHANGED health
  BY <1>6 DEF Save, SubmitOverride, WriteConfig, ReadConfig, ApplyConfig, AdminError
<1>7. ASSUME UNCHANGED vars PROVE UNCHANGED health
  BY <1>7 DEF vars
<1> QED BY <1>2, <1>3, <1>4, <1>5, <1>6, <1>7 DEF Next, Tick, Restart

LEMMA BreakersStep == BreakersInv /\ [Next]_vars => BreakersInv'
<1> SUFFICES ASSUME BreakersInv, [Next]_vars PROVE BreakersInv'
  OBVIOUS
<1>1. TypeOK /\ TypeOK' /\ health \in [Providers -> Health]
  BY TypeStep DEF BreakersInv, TypeOK
<1>2. ASSUME NEW p \in Providers PROVE BreakerInv(health[p])'
  <2>1. BreakerInv(health[p]) /\ health[p] \in Health
    BY <1>1 DEF BreakersInv
  <2>2. CASE UNCHANGED health
    BY <2>1, <2>2
  <2>3. ASSUME NEW q \in Providers, NEW flag \in Quality,
               health' = [health EXCEPT ![q] = RecordSuccess(@, flag)]
        PROVE  BreakerInv(health'[p])
    BY <1>1, <2>1, <2>3, RecordSuccessIsSound
  <2>4. ASSUME NEW q \in Providers, health' = [health EXCEPT ![q] = RecordFailure(@)]
        PROVE  BreakerInv(health'[p])
    BY <1>1, <2>1, <2>4, RecordFailureIsSound
  <2>5. CASE health' = [q \in Providers |-> Elapse(health[q])]
    BY <1>1, <2>1, <2>5, ElapseIsSound
  <2>6. CASE health' = [q \in Providers |-> Healthy]
    BY <2>6, HealthyIsSound
  <2> QED BY <1>1, <2>2, <2>3, <2>4, <2>5, <2>6, HealthStep
<1> QED BY <1>1, <1>2 DEF BreakersInv

LEMMA BreakersInit == Init => BreakersInv
BY TypeInit, HealthyIsSound DEF Init, BreakersInv

LEMMA BreakersAlways == Spec => []BreakersInv
BY BreakersInit, BreakersStep, PTL DEF Spec

(* In every reachable state every provider's counter of consecutive        *)
(* failures agrees with its outcome window.                                *)
THEOREM CountersAlwaysMatch == Spec => []CountersMatchWindows
<1>1. BreakersInv => CountersMatchWindows
  BY DEF BreakersInv, BreakerInv, CountersMatchWindows
<1> QED BY <1>1, BreakersAlways, PTL

(* In every reachable state a set circuit stands on a trip condition that  *)
(* still holds, so no success is outstanding on an open circuit.           *)
THEOREM OpenCircuitsAlwaysEarned == Spec => []OpenCircuitsAreEarned
<1>1. BreakersInv => OpenCircuitsAreEarned
  BY DEF BreakersInv, BreakerInv, OpenCircuitsAreEarned
<1> QED BY <1>1, BreakersAlways, PTL

(* In every reachable state a raised cooldown belongs to a set circuit and *)
(* bounds the time it stays open.                                          *)
THEOREM CooldownsAlwaysMatch == Spec => []CooldownsMatchCircuits
<1>1. BreakersInv => CooldownsMatchCircuits
  BY DEF BreakersInv, BreakerInv, CooldownsMatchCircuits
<1> QED BY <1>1, BreakersAlways, PTL

(* A failure recorded on a circuit whose cooldown has elapsed always       *)
(* reopens it for twice as long, up to the cap.                            *)
THEOREM FailedTrialsReopen == Spec => FailedTrialReopens
<1> DEFINE Reopens ==
      \A p \in Providers :
        (/\ health[p].openFor = 0
         /\ health'[p].consecutiveFailures > health[p].consecutiveFailures)
        => health'[p].openFor = Doubled(health[p].cooldown)
<1>1. ASSUME BreakersInv, [Next]_vars PROVE Reopens
  <2>1. SUFFICES ASSUME NEW p \in Providers, health[p].openFor = 0,
                        health'[p].consecutiveFailures > health[p].consecutiveFailures
                 PROVE  health'[p].openFor = Doubled(health[p].cooldown)
    OBVIOUS
  <2>2. /\ TypeOK /\ health \in [Providers -> Health]
        /\ BreakerInv(health[p]) /\ health[p] \in Health
        /\ health[p].consecutiveFailures \in Nat
    BY <1>1 DEF BreakersInv, TypeOK, Health
  <2>3. CASE UNCHANGED health
    BY <2>1, <2>2, <2>3
  <2>4. ASSUME NEW q \in Providers, NEW flag \in Quality,
               health' = [health EXCEPT ![q] = RecordSuccess(@, flag)]
        PROVE  FALSE
    BY <2>1, <2>2, <2>4 DEF RecordSuccess
  <2>5. ASSUME NEW q \in Providers, health' = [health EXCEPT ![q] = RecordFailure(@)]
        PROVE  health'[p].openFor = Doubled(health[p].cooldown)
    <3>1. q = p
      BY <2>1, <2>2, <2>5
    <3>2. RecordFailure(health[p]).openFor = Doubled(health[p].cooldown)
      BY <2>1, <2>2, RecordFailureIsSound DEF Never
    <3> QED BY <2>2, <2>5, <3>1, <3>2
  <2>6. CASE health' = [r \in Providers |-> Elapse(health[r])]
    BY <2>1, <2>2, <2>6 DEF Elapse, Health
  <2>7. CASE health' = [r \in Providers |-> Healthy]
    BY <2>1, <2>2, <2>7 DEF Healthy
  <2> QED BY <1>1, <2>2, <2>3, <2>4, <2>5, <2>6, <2>7, HealthStep
<1>2. BreakersInv /\ [Next]_vars => [Reopens]_vars
  BY <1>1
<1> QED BY <1>2, BreakersAlways, PTL DEF Spec, FailedTrialReopens

-----------------------------------------------------------------------------
(* Ranking.                                                                *)

\* The numbers a score is made of.
LEMMA ScoreTerms ==
  ASSUME NEW h \in Health
  PROVE  /\ Samples(h) \in Nat \ {0}
         /\ Cardinality(Failed(h.outcomes)) \in Nat
         /\ Cardinality(Flagged(h.qualityFlags)) \in Nat
<1>1. ASSUME NEW S, NEW s \in Seq(S), NEW x PROVE Cardinality(Where(s, x)) \in Nat
  <2>1. IsFiniteSet(1 .. Len(s)) /\ Where(s, x) \subseteq 1 .. Len(s)
    BY FS_Interval DEF Where
  <2> QED BY <2>1, FS_Subset, FS_CardinalityType
<1>2. h.outcomes \in Seq(Outcomes) /\ h.qualityFlags \in Seq(Quality)
  BY DEF Health, Deques
<1> QED BY <1>1, <1>2, EmptySeq DEF Samples, Failed, Flagged

\* The cheaper of two, no worse in either rate, has the smaller score.
LEMMA DominatingScoresLess ==
  ASSUME NEW cq \in Nat, NEW cp \in Nat, cq < cp,
         NEW nq \in Nat \ {0}, NEW np \in Nat \ {0},
         NEW fq \in Nat, NEW fp \in Nat, fq * np <= fp * nq,
         NEW gq \in Nat, NEW gp \in Nat, gq * np <= gp * nq
  PROVE  (cq * (nq + 2 * fq + gq)) * np < (cp * (np + 2 * fp + gp)) * nq
<1> DEFINE A == nq * np + 2 * (fq * np) + gq * np
           B == nq * np + 2 * (fp * nq) + gp * nq
<1>1. A \in Nat /\ B \in Nat /\ A <= B /\ A > 0
  <2>1. /\ nq * np \in Nat /\ nq * np > 0 /\ fq * np \in Nat /\ fp * nq \in Nat
        /\ gq * np \in Nat /\ gp * nq \in Nat
    BY SMT
  <2> QED BY <2>1
<1>2. (cq * (nq + 2 * fq + gq)) * np = cq * A
  BY SMT
<1>3. (cp * (np + 2 * fp + gp)) * nq = cp * B
  BY SMT
<1> HIDE DEF A, B
<1>4. cq * A < cp * A /\ cp * A <= cp * B
  BY <1>1, SMT
<1>5. cq * A \in Nat /\ cp * A \in Nat /\ cp * B \in Nat
  BY <1>1
<1> QED BY <1>2, <1>3, <1>4, <1>5

LEMMA DominatedIsNotBefore ==
  ASSUME TypeOK, NEW p \in Providers, NEW q \in Providers,
         ~Open(p), ~Open(q), Dominates(q, p)
  PROVE  ~Before(p, q)
<1> DEFINE np == Samples(health[p])   nq == Samples(health[q])
           fp == Cardinality(Failed(health[p].outcomes))
           fq == Cardinality(Failed(health[q].outcomes))
           gp == Cardinality(Flagged(health[p].qualityFlags))
           gq == Cardinality(Flagged(health[q].qualityFlags))
<1>1. /\ np \in Nat \ {0} /\ nq \in Nat \ {0} /\ fp \in Nat /\ fq \in Nat /\ gp \in Nat /\ gq \in Nat
      /\ RawCost[p] \in Nat /\ RawCost[q] \in Nat
  BY ScoreTerms, RegistryAssumption DEF TypeOK
<1>2. RawCost[q] < RawCost[p] /\ fq * np <= fp * nq /\ gq * np <= gp * nq
  BY DEF Dominates, NoHigherRate
<1>3. (RawCost[q] * (nq + 2 * fq + gq)) * np < (RawCost[p] * (np + 2 * fp + gp)) * nq
  <2> HIDE DEF np, nq, fp, fq, gp, gq
  <2> QED BY <1>1, <1>2, DominatingScoresLess
<1>4. /\ Better(q, p) <=> (RawCost[q] * (nq + 2 * fq + gq)) * np < (RawCost[p] * (np + 2 * fp + gp)) * nq
      /\ Better(p, q) <=> (RawCost[p] * (np + 2 * fp + gp)) * nq < (RawCost[q] * (nq + 2 * fq + gq)) * np
  BY DEF Better, ScoreLess, ScoreNumerator
<1>5. /\ (RawCost[q] * (nq + 2 * fq + gq)) * np \in Int
      /\ (RawCost[p] * (np + 2 * fp + gp)) * nq \in Int
  <2> HIDE DEF np, nq, fp, fq, gp, gq
  <2> QED BY <1>1
<1>6. Better(q, p) /\ ~Better(p, q)
  <2> DEFINE sq == (RawCost[q] * (nq + 2 * fq + gq)) * np
             sp == (RawCost[p] * (np + 2 * fp + gp)) * nq
  <2>1. sq \in Int /\ sp \in Int /\ sq < sp /\ (Better(q, p) <=> sq < sp) /\ (Better(p, q) <=> sp < sq)
    BY <1>3, <1>4, <1>5
  <2> HIDE DEF sq, sp
  <2> QED BY <2>1
<1> QED BY <1>6 DEF Before

\* A call starts only in Begin, with a ranking.
LEMMA StartsInBegin ==
  ASSUME TypeOK, [Next]_vars, NEW c \in Callers, Starts(c)
  PROVE  \E req \in Requests :
           candidates'[c] \in Rankings(Capable(Pool(req), req.target))
<1>1. pc[c] = "idle" /\ pc'[c] = "calling" /\ pc \in [Callers -> {"idle", "calling", "logSuccess", "logFailure"}]
  BY DEF Starts, TypeOK
<1>2. ASSUME NEW d \in Callers, Settle(d) PROVE FALSE
  <2>1. pc[d] # "idle" /\ \A e \in Callers \ {d} : pc'[e] = pc[e]
    BY <1>1, <1>2 DEF Settle, Succeed, Fail, SkipUnconfigured, FinishSuccess, FailOver, AdapterRaises,
       Cancel, Drop, TryNext
  <2> QED BY <1>1, <2>1
<1>3. ASSUME NEW d \in Callers, NEW req \in Requests, Begin(d, req)
      PROVE  candidates'[c] \in Rankings(Capable(Pool(req), req.target))
  <2>1. d = c
    BY <1>1, <1>3 DEF Begin
  <2> QED BY <1>3, <2>1 DEF Begin, TypeOK
<1>4. ~\E a \in Admins : Save(a)
  BY <1>1 DEF Save, SubmitOverride, WriteConfig, ReadConfig, ApplyConfig, AdminError, callVars
<1>5. ~Tick /\ ~Restart /\ ~UNCHANGED vars
  BY <1>1 DEF Tick, Restart, vars, callVars
<1> QED BY <1>2, <1>3, <1>4, <1>5 DEF Next

(* No call ranks a healthy provider before another healthy one that is     *)
(* cheaper and over the window no worse in either rate, whatever the costs,*)
(* the window and the outcomes.                                            *)
THEOREM NeverDominated == Spec => NoDominatedChoice
<1> DEFINE Fair ==
      \A c \in Callers : Starts(c) =>
        \A i, j \in DOMAIN candidates'[c] :
          LET p == candidates'[c][i]
              q == candidates'[c][j]
          IN  i < j /\ ~Open(p) /\ ~Open(q) => ~Dominates(q, p)
<1>1. ASSUME TypeOK, [Next]_vars PROVE Fair
  <2>1. SUFFICES ASSUME NEW c \in Callers, Starts(c),
                        NEW i \in DOMAIN candidates'[c], NEW j \in DOMAIN candidates'[c], i < j,
                        ~Open(candidates'[c][i]), ~Open(candidates'[c][j]),
                        Dominates(candidates'[c][j], candidates'[c][i])
                 PROVE  FALSE
    OBVIOUS
  <2>2. PICK req \in Requests : candidates'[c] \in Rankings(Capable(Pool(req), req.target))
    BY <1>1, <2>1, StartsInBegin
  <2> DEFINE pool == Capable(Pool(req), req.target)
  <2>3. pool \subseteq Providers
    BY <1>1, CapableIsRegistered
  <2>4. candidates'[c] \in [1 .. Cardinality(pool) -> pool]
    BY <2>2 DEF Rankings, SetToSeqs
  <2>5. Before(candidates'[c][i], candidates'[c][j])
    BY <2>1, <2>2, <2>4 DEF Rankings
  <2>6. candidates'[c][i] \in Providers /\ candidates'[c][j] \in Providers
    BY <2>3, <2>4
  <2> QED BY <1>1, <2>1, <2>5, <2>6, DominatedIsNotBefore
<1>2. TypeOK /\ [Next]_vars => [Fair]_vars
  BY <1>1
<1> QED BY <1>2, RegistryTypeCorrect, PTL DEF Spec, NoDominatedChoice

-----------------------------------------------------------------------------
(* The admin override.                                                     *)

\* Every save that has written keeps hold of what it wrote or of something
\* newer: the row has it until the save reads, its snapshot has it from then on.
SavesInv ==
  \A a \in Admins :
    /\ adminPc[a] = "reading"  => dbForced \in since[a]
    /\ adminPc[a] = "applying" => snapshot[a] \in since[a]

LEMMA SavesInit == Init => SavesInv
BY DEF Init, SavesInv

\* The actions that are no save leave what SavesInv is about alone.
LEMMA OthersLeaveSaves ==
  /\ \A c \in Callers : Settle(c) => UNCHANGED <<forced, dbForced, adminVars>>
  /\ \A c \in Callers, req \in Requests : Begin(c, req) => UNCHANGED <<forced, dbForced, adminVars>>
  /\ Tick \/ UNCHANGED vars => UNCHANGED <<forced, dbForced, adminVars>>
BY DEF Settle, Succeed, Fail, SkipUnconfigured, FinishSuccess, FailOver, AdapterRaises, Cancel, Drop,
   Begin, Tick, vars

LEMMA SavesStep == TypeOK /\ SavesInv /\ [Next]_vars => SavesInv'
<1> SUFFICES ASSUME TypeOK, SavesInv, [Next]_vars PROVE SavesInv'
  OBVIOUS
<1>1. CASE UNCHANGED <<forced, dbForced, adminVars>>
  BY <1>1 DEF SavesInv, adminVars
<1>2. ASSUME NEW a \in Admins, Save(a) PROVE SavesInv'
  <2>1. ASSUME NEW v \in OnOffer, SubmitOverride(a, v) PROVE SavesInv'
    BY <2>1 DEF SubmitOverride, SavesInv, TypeOK
  <2>2. CASE WriteConfig(a)
    <3>1. since' = [b \in Admins |-> IF b = a THEN {choice[a]}
                                    ELSE IF b \in Reloading THEN since[b] \cup {choice[a]}
                                    ELSE since[b]]
          /\ dbForced' = choice[a] /\ snapshot' = snapshot
          /\ adminPc' = [adminPc EXCEPT ![a] = "reading"]
      BY <2>2 DEF WriteConfig
    <3>2. dbForced' \in since'[a] /\ adminPc'[a] = "reading"
      BY <3>1 DEF TypeOK
    <3>3. ASSUME NEW b \in Admins, b # a
          PROVE  /\ adminPc'[b] = "reading"  => dbForced' \in since'[b]
                 /\ adminPc'[b] = "applying" => snapshot'[b] \in since'[b]
      BY <3>1, <3>3 DEF SavesInv, TypeOK, Reloading
    <3> QED BY <3>2, <3>3 DEF SavesInv
  <2>3. CASE ReadConfig(a)
    BY <2>3 DEF ReadConfig, SavesInv, TypeOK
  <2>4. CASE ApplyConfig(a)
    BY <2>4 DEF ApplyConfig, Forget, SavesInv, TypeOK
  <2>5. CASE AdminError(a)
    BY <2>5 DEF AdminError, Forget, SavesInv, TypeOK
  <2> QED BY <1>2, <2>1, <2>2, <2>3, <2>4, <2>5 DEF Save
<1>3. CASE Restart
  BY <1>3 DEF Restart, SavesInv, TypeOK
<1> QED BY <1>1, <1>2, <1>3, OthersLeaveSaves DEF Next

(* Whatever the number of administrators whose saves overlap, and whatever *)
(* errors and restarts fall between a write, a read and an assignment, a   *)
(* save that takes effect puts in memory its own override or one stored    *)
(* after it.  That the override then stays the one in the database needs   *)
(* the saves not to overlap (RegistryOverrideRace).                        *)
THEOREM SavesAlwaysPutNothingOlder == Spec => SavesPutNothingOlder
<1> DEFINE NothingOlder ==
      \A a \in Admins : adminPc[a] = "applying" /\ adminPc'[a] = "idle" => forced' \in since[a]
<1>1. TypeOK /\ SavesInv /\ [Next]_vars => [NothingOlder]_vars
  <2> SUFFICES ASSUME TypeOK, SavesInv, [Next]_vars,
                      NEW a \in Admins, adminPc[a] = "applying", adminPc'[a] = "idle"
               PROVE  forced' \in since[a]
    OBVIOUS
  <2>1. CASE UNCHANGED <<forced, dbForced, adminVars>>
    BY <2>1 DEF adminVars
  <2>2. ASSUME NEW b \in Admins, Save(b) PROVE forced' \in since[a]
    <3>1. CASE ApplyConfig(b) /\ b = a
      BY <3>1 DEF ApplyConfig, SavesInv
    <3>2. CASE b # a \/ ~ApplyConfig(b)
      BY <2>2, <3>2 DEF Save, SubmitOverride, WriteConfig, ReadConfig, ApplyConfig, AdminError, TypeOK
    <3> QED BY <3>1, <3>2
  <2>3. CASE Restart
    BY <2>3 DEF Restart
  <2> QED BY <2>1, <2>2, <2>3, OthersLeaveSaves DEF Next
<1> QED BY <1>1, SavesInit, SavesStep, RegistryTypeCorrect, PTL DEF Spec, SavesPutNothingOlder

-----------------------------------------------------------------------------
(* The registry implements FailoverCall.                                   *)

\* A call asks distinct providers, and has no result until it ends.
CallInv(c) ==
  /\ \A i, j \in DOMAIN candidates[c] : candidates[c][i] = candidates[c][j] => i = j
  /\ pc[c] # "idle" => result[c] = "none"

CallsInv == \A c \in Callers : CallInv(c)

\* The calls other than c are left as they are.
OthersKept(c) ==
  \A d \in Callers \ {c} :
    pc'[d] = pc[d] /\ candidates'[d] = candidates[d] /\ at'[d] = at[d] /\ result'[d] = result[d]

LEMMA OneCallMoves ==
  ASSUME TypeOK, NEW c \in Callers, Settle(c) \/ \E req \in Requests : Begin(c, req)
  PROVE  OthersKept(c)
BY DEF TypeOK, OthersKept, Settle, Begin, Succeed, Fail, SkipUnconfigured, FinishSuccess, FailOver,
   AdapterRaises, Cancel, Drop, TryNext

\* A ranking has every provider of the pool, once.
LEMMA RankingsAreComplete ==
  ASSUME NEW pool \in SUBSET Providers, NEW s \in Rankings(pool)
  PROVE  /\ \A i, j \in DOMAIN s : s[i] = s[j] => i = j
         /\ ToSet(s) = pool
         /\ s = << >> <=> pool = {}
<1>1. IsFiniteSet(pool) /\ Cardinality(pool) \in Nat
  BY RegistryAssumption, FS_Subset, FS_CardinalityType
<1> DEFINE D == 1 .. Cardinality(pool)
<1>2. s \in [D -> pool] /\ \A i, j \in D : s[i] = s[j] => i = j
  BY DEF Rankings, SetToSeqs
<1>3. IsFiniteSet(D) /\ Cardinality(D) = Cardinality(pool)
  BY <1>1, FS_Interval
<1>4. s \in Surjection(D, pool)
  <2>1. s \in Injection(D, pool)
    BY <1>2 DEF Injection, IsInjective
  <2> QED BY <1>1, <1>3, <2>1, FS_Injection
<1>5. ToSet(s) = pool
  BY <1>2, <1>4 DEF ToSet, Surjection
<1>6. s \in Seq(Providers) /\ DOMAIN s = 1 .. Len(s)
  BY RankingsAreSequences
<1>7. s = << >> <=> pool = {}
  <2>1. s = << >> => pool = {}
    BY <1>5 DEF ToSet
  <2>2. s # << >> => pool # {}
    BY <1>2, RankingsAreSequences
  <2> QED BY <2>1, <2>2
<1> QED BY <1>2, <1>5, <1>7

LEMMA CallsInit == Init => CallsInv
BY DEF Init, CallsInv, CallInv

LEMMA CallsStep == TypeOK /\ CallsInv /\ [Next]_vars => CallsInv'
<1> SUFFICES ASSUME TypeOK, CallsInv, [Next]_vars PROVE CallsInv'
  OBVIOUS
<1>1. CASE UNCHANGED callVars
  BY <1>1 DEF CallsInv, CallInv, callVars
<1>2. ASSUME NEW c \in Callers, Settle(c) PROVE CallsInv'
  <2>1. OthersKept(c)
    BY <1>2, OneCallMoves
  <2>2. candidates' = candidates
    BY <1>2 DEF Settle, Succeed, Fail, SkipUnconfigured, FinishSuccess, FailOver, AdapterRaises,
       Cancel, Drop
  <2>3. pc[c] # "idle"
    BY <1>2 DEF Settle, Succeed, Fail, SkipUnconfigured, FinishSuccess, FailOver, AdapterRaises, Cancel
  <2>4. pc'[c] = "idle" \/ result'[c] = result[c]
    BY <1>2 DEF Settle, Succeed, Fail, SkipUnconfigured, FinishSuccess, FailOver, AdapterRaises,
       Cancel, Drop, TryNext, TypeOK
  <2> QED BY <2>1, <2>2, <2>3, <2>4 DEF CallsInv, CallInv, OthersKept
<1>3. ASSUME NEW c \in Callers, NEW req \in Requests, Begin(c, req) PROVE CallsInv'
  <2>1. OthersKept(c)
    BY <1>3, OneCallMoves
  <2>2. PICK s \in Rankings(Capable(Pool(req), req.target)) :
          candidates'[c] = s /\ (pc'[c] # "idle" => result'[c] = "none")
    BY <1>3 DEF Begin, TypeOK
  <2>3. \A i, j \in DOMAIN s : s[i] = s[j] => i = j
    BY CapableIsRegistered, RankingsAreComplete
  <2> QED BY <2>1, <2>2, <2>3 DEF CallsInv, CallInv, OthersKept
<1>4. CASE Restart
  BY <1>4 DEF CallsInv, CallInv, Restart, TypeOK
<1>5. ASSUME NEW a \in Admins, Save(a) PROVE UNCHANGED callVars
  BY <1>5 DEF Save, SubmitOverride, WriteConfig, ReadConfig, ApplyConfig, AdminError
<1>6. Tick \/ UNCHANGED vars => UNCHANGED callVars
  BY DEF Tick, vars
<1> QED BY <1>1, <1>2, <1>3, <1>4, <1>5, <1>6 DEF Next

\* What FailoverCall sees of one call.
Running(c)  == pc[c] # "idle"
Promised(c) == ToSet(candidates[c])
Answered(c) == IF result[c] \in {"escaped", "cancelled"} THEN "abandoned" ELSE result[c]

LEMMA OthersSeenAlike ==
  ASSUME NEW c \in Callers, OthersKept(c)
  PROVE  \A d \in Callers \ {c} :
           /\ (Running(d))' <=> Running(d)
           /\ (Promised(d))' = Promised(d)
           /\ (RefusedSoFar(d))' = RefusedSoFar(d)
           /\ (Answered(d))' = Answered(d)
BY DEF OthersKept, Running, Promised, RefusedSoFar, Answered

LEMMA MapsToRefuse ==
  ASSUME NEW c \in Callers, OthersKept(c), Running(c), (Running(c))',
         (Promised(c))' = Promised(c), (Answered(c))' = Answered(c),
         NEW p \in Promised(c) \ RefusedSoFar(c), (RefusedSoFar(c))' = RefusedSoFar(c) \cup {p}
  PROVE  Promise!Refuse(c)
BY OthersSeenAlike, Zenon DEF Promise!Refuse, Running, Promised, Answered

LEMMA MapsToAccept ==
  ASSUME NEW c \in Callers, OthersKept(c), Running(c), ~(Running(c))',
         (Promised(c))' = Promised(c), (Answered(c))' = "ok",
         Promised(c) \ RefusedSoFar(c) # {}, (RefusedSoFar(c))' = RefusedSoFar(c)
  PROVE  Promise!Accept(c)
BY OthersSeenAlike, Zenon DEF Promise!Accept, Running, Promised, Answered

\* FailoverCall counts with FiniteSets of its own.
LEMMA SameCardinality == \A S : Promise!Cardinality(S) = Cardinality(S)
BY DEF Promise!Cardinality, Cardinality

LEMMA MapsToGiveUp ==
  ASSUME NEW c \in Callers, OthersKept(c), Running(c), ~(Running(c))',
         (Promised(c))' = Promised(c), (Answered(c))' = "error",
         Cardinality(Promised(c) \ RefusedSoFar(c)) <= 1, (RefusedSoFar(c))' = Promised(c)
  PROVE  Promise!GiveUp(c)
BY OthersSeenAlike, SameCardinality, Zenon DEF Promise!GiveUp, Running, Promised, Answered

LEMMA MapsToAbandon ==
  ASSUME NEW c \in Callers, OthersKept(c), Running(c), ~(Running(c))',
         (Promised(c))' = Promised(c), (Answered(c))' = "abandoned",
         (RefusedSoFar(c))' = RefusedSoFar(c)
  PROVE  Promise!Abandon(c)
BY OthersSeenAlike, Zenon DEF Promise!Abandon, Running, Promised, Answered

LEMMA MapsToCall ==
  ASSUME NEW c \in Callers, NEW req \in Requests, OthersKept(c), ~Running(c),
         Promised(c)' \in Promise!Promises(req.eligible),
         (Running(c))' <=> (Promised(c))' # {},
         (Answered(c))' = IF (Promised(c))' = {} THEN "error" ELSE "none",
         (RefusedSoFar(c))' = {}
  PROVE  Promise!Call(c, req.eligible)
<1> DEFINE S == (Promised(c))'
<1>1. [d \in Callers |-> Promised(d)]' = [[d \in Callers |-> Promised(d)] EXCEPT ![c] = S]
  BY OthersSeenAlike, Zenon
<1>2. [d \in Callers |-> pc[d] # "idle"]' = [[d \in Callers |-> pc[d] # "idle"] EXCEPT ![c] = S # {}]
  BY OthersSeenAlike, Zenon DEF Running
<1>3. [d \in Callers |-> Answered(d)]' = [[d \in Callers |-> Answered(d)] EXCEPT ![c] = IF S = {} THEN "error" ELSE "none"]
  BY OthersSeenAlike, Zenon
<1>4. [d \in Callers |-> RefusedSoFar(d)]' = [[d \in Callers |-> RefusedSoFar(d)] EXCEPT ![c] = {}]
  BY OthersSeenAlike, Zenon
<1>5. S \in Promise!Promises(req.eligible)
  OBVIOUS
<1> HIDE DEF S
<1> QED BY <1>1, <1>2, <1>3, <1>4, <1>5, Zenon DEF Promise!Call, Running, Promised, Answered

\* A call that waits for its candidate has been refused by those before it
\* alone, and by none of the others.
LEMMA WaitingForOne ==
  ASSUME TypeOK, CallsInv, NEW c \in Callers, pc[c] # "idle"
  PROVE  /\ at[c] \in 1 .. Len(candidates[c])
         /\ Promised(c) = {candidates[c][i] : i \in 1 .. Len(candidates[c])}
         /\ RefusedSoFar(c) = {candidates[c][i] : i \in 1 .. at[c] - 1}
         /\ Attempted(c) \in Promised(c) \ RefusedSoFar(c)
         /\ Answered(c) = "none"
<1>1. at[c] \in 1 .. Len(candidates[c]) /\ DOMAIN candidates[c] = 1 .. Len(candidates[c])
  BY DEF TypeOK
<1>2. Promised(c) = {candidates[c][i] : i \in 1 .. Len(candidates[c])}
  BY <1>1 DEF Promised, ToSet
<1>3. result[c] = "none"
  BY DEF CallsInv, CallInv
<1>4. RefusedSoFar(c) = {candidates[c][i] : i \in 1 .. at[c] - 1}
  BY <1>3 DEF RefusedSoFar
<1>5. Attempted(c) \in Promised(c)
  BY <1>1, <1>2 DEF Attempted
<1>6. Attempted(c) \notin RefusedSoFar(c)
  <2>1. SUFFICES ASSUME NEW i \in 1 .. at[c] - 1, candidates[c][i] = candidates[c][at[c]] PROVE FALSE
    BY <1>4 DEF Attempted
  <2>2. i \in DOMAIN candidates[c] /\ at[c] \in DOMAIN candidates[c] /\ i # at[c]
    BY <1>1
  <2> QED BY <2>1, <2>2 DEF CallsInv, CallInv
<1> QED BY <1>1, <1>2, <1>3, <1>4, <1>5, <1>6 DEF Answered

\* Going on to the next candidate refuses the current one; giving up leaves
\* none that has not refused.
LEMMA TryingNextIsRefusing ==
  ASSUME TypeOK, CallsInv, NEW c \in Callers, pc[c] # "idle", TryNext(c), candidates' = candidates,
         OthersKept(c)
  PROVE  Promise!Refuse(c) \/ Promise!GiveUp(c)
<1>1. /\ at[c] \in 1 .. Len(candidates[c])
      /\ Promised(c) = {candidates[c][i] : i \in 1 .. Len(candidates[c])}
      /\ RefusedSoFar(c) = {candidates[c][i] : i \in 1 .. at[c] - 1}
      /\ Attempted(c) \in Promised(c) \ RefusedSoFar(c)
      /\ Answered(c) = "none"
  BY WaitingForOne
<1>2. Running(c) /\ (Promised(c))' = Promised(c) /\ result[c] = "none" /\ Len(candidates[c]) \in Nat
  BY DEF Running, Promised, CallsInv, CallInv, TypeOK
<1>3. CASE at[c] < Len(candidates[c])
  <2>1. pc'[c] = "calling" /\ at'[c] = at[c] + 1 /\ result'[c] = "none"
    BY <1>2, <1>3 DEF TryNext, TypeOK
  <2>2. (RefusedSoFar(c))' = {candidates[c][i] : i \in 1 .. at[c]}
    BY <1>1, <2>1 DEF RefusedSoFar
  <2>3. (RefusedSoFar(c))' = RefusedSoFar(c) \cup {Attempted(c)}
    BY <1>1, <2>2 DEF Attempted
  <2>4. (Running(c))' /\ (Answered(c))' = Answered(c)
    BY <1>2, <2>1 DEF Running, Answered
  <2> QED BY <1>1, <1>2, <2>3, <2>4, MapsToRefuse
<1>4. CASE ~(at[c] < Len(candidates[c]))
  <2>1. at[c] = Len(candidates[c]) /\ pc'[c] = "idle" /\ result'[c] = "error" /\ at'[c] = at[c]
    BY <1>1, <1>2, <1>4 DEF TryNext, TypeOK
  <2>2. (RefusedSoFar(c))' = Promised(c)
    BY <1>1, <2>1 DEF RefusedSoFar
  <2>3. ~(Running(c))' /\ (Answered(c))' = "error"
    BY <2>1 DEF Running, Answered
  <2>4. Promised(c) \ RefusedSoFar(c) \subseteq {Attempted(c)}
    BY <1>1, <2>1 DEF Attempted
  <2>5. Cardinality(Promised(c) \ RefusedSoFar(c)) <= 1
    <3>1. IsFiniteSet({Attempted(c)}) /\ Cardinality({Attempted(c)}) = 1
      BY FS_Singleton
    <3> QED BY <2>4, <3>1, FS_Subset
  <2> QED BY <1>2, <2>2, <2>3, <2>5, MapsToGiveUp
<1> QED BY <1>3, <1>4

\* What a call promises itself when it starts.
LEMMA BeginPromises ==
  ASSUME TypeOK, NEW req \in Requests
  PROVE  Capable(Pool(req), req.target) \in Promise!Promises(req.eligible)
<1> DEFINE S == Capable(Pool(req), req.target)
<1>1. S \subseteq Pool(req) /\ (Pool(req) # {} => S # {})
  BY DEF Capable
<1>2. CASE forced # NoProvider
  <2>1. Pool(req) = {forced} /\ forced \in Providers
    BY <1>2 DEF Pool, TypeOK, Overrides
  <2>2. S = {forced}
    BY <1>1, <2>1
  <2> QED BY <2>1, <2>2 DEF Promise!Promises
<1>3. CASE forced = NoProvider
  <2>1. Pool(req) \subseteq req.eligible /\ (req.eligible # {} => Pool(req) # {})
    BY <1>3 DEF Pool
  <2> QED BY <1>1, <2>1 DEF Promise!Promises
<1> QED BY <1>2, <1>3

\* Every step of one call is a step FailoverCall allows, or none.
LEMMA SettlingAnswers ==
  ASSUME TypeOK, CallsInv, NEW c \in Callers, Settle(c)
  PROVE  Promise!Answer(c) \/ UNCHANGED Promise!vars
<1>1. OthersKept(c) /\ pc[c] # "idle" /\ candidates' = candidates
  BY OneCallMoves DEF Settle, Succeed, Fail, SkipUnconfigured, FinishSuccess, FailOver,
     AdapterRaises, Cancel, Drop
<1>2. /\ at[c] \in 1 .. Len(candidates[c])
      /\ RefusedSoFar(c) = {candidates[c][i] : i \in 1 .. at[c] - 1}
      /\ Promised(c) \ RefusedSoFar(c) # {}
      /\ Running(c) /\ (Promised(c))' = Promised(c)
  BY <1>1, WaitingForOne DEF Running, Promised
<1>3. CASE pc'[c] # "idle" /\ result' = result /\ at' = at
  <2>1. \A d \in Callers : Running(d)' <=> Running(d)
    BY <1>1, <1>3, OthersSeenAlike DEF Running
  <2>2. [d \in Callers |-> pc[d] # "idle"]' = [d \in Callers |-> pc[d] # "idle"]
    BY <2>1, Zenon DEF Running
  <2>3. \A d \in Callers : RefusedSoFar(d)' = RefusedSoFar(d)
    BY <1>1, <1>3 DEF RefusedSoFar
  <2> QED BY <1>1, <1>3, <2>2, <2>3, Zenon DEF Promise!vars
<1>4. CASE \/ SkipUnconfigured(c)
           \/ FailOver(c)
  <2>1. TryNext(c)
    BY <1>4 DEF SkipUnconfigured, FailOver
  <2> QED BY <1>1, <2>1, TryingNextIsRefusing DEF Promise!Answer
<1>5. CASE FinishSuccess(c)
  <2>1. pc'[c] = "idle" /\ result'[c] = "ok" /\ at' = at
    BY <1>5 DEF FinishSuccess, TypeOK
  <2>2. (RefusedSoFar(c))' = RefusedSoFar(c)
    BY <1>1, <1>2, <2>1 DEF RefusedSoFar
  <2>3. ~(Running(c))' /\ (Answered(c))' = "ok"
    BY <2>1 DEF Running, Answered
  <2> QED BY <1>1, <1>2, <2>2, <2>3, MapsToAccept DEF Promise!Answer
<1>6. CASE \/ AdapterRaises(c)
           \/ Cancel(c)
  <2>1. pc'[c] = "idle" /\ result'[c] \in {"escaped", "cancelled"} /\ at' = at
    BY <1>6 DEF AdapterRaises, Cancel, Drop, TypeOK
  <2>2. (RefusedSoFar(c))' = RefusedSoFar(c)
    BY <1>1, <1>2, <2>1 DEF RefusedSoFar
  <2>3. ~(Running(c))' /\ (Answered(c))' = "abandoned"
    BY <2>1 DEF Running, Answered
  <2> QED BY <1>1, <1>2, <2>2, <2>3, MapsToAbandon DEF Promise!Answer
<1>7. ASSUME NEW flag \in Quality, Succeed(c, flag)
      PROVE  pc'[c] # "idle" /\ result' = result /\ at' = at
  BY <1>7 DEF Succeed, TypeOK
<1>8. Fail(c) => pc'[c] # "idle" /\ result' = result /\ at' = at
  BY DEF Fail, TypeOK
<1> QED BY <1>3, <1>4, <1>5, <1>6, <1>7, <1>8 DEF Settle

LEMMA BeginningCalls ==
  ASSUME TypeOK, NEW c \in Callers, NEW req \in Requests, Begin(c, req)
  PROVE  Promise!Call(c, req.eligible)
<1> DEFINE pool == Capable(Pool(req), req.target)
<1>1. OthersKept(c) /\ ~Running(c)
  BY OneCallMoves DEF Begin, Running
<1>2. PICK s \in Rankings(pool) :
        /\ candidates'[c] = s
        /\ s = << >> => pc'[c] = "idle" /\ result'[c] = "error" /\ at'[c] = 0
        /\ s # << >> => pc'[c] = "calling" /\ result'[c] = "none" /\ at'[c] = 1
  BY DEF Begin, TypeOK
<1>3. pool \subseteq Providers
  BY CapableIsRegistered
<1>4. (Promised(c))' = pool /\ (s = << >> <=> pool = {})
  BY <1>2, <1>3, RankingsAreComplete DEF Promised
<1>5. (Promised(c))' \in Promise!Promises(req.eligible)
  BY <1>4, BeginPromises
<1>6. (RefusedSoFar(c))' = {}
  BY <1>2 DEF RefusedSoFar
<1>7. (Running(c))' <=> (Promised(c))' # {}
  <2>1. (Running(c))' <=> s # << >>
    BY <1>2 DEF Running
  <2> QED BY <1>4, <2>1
<1>8. (Answered(c))' = IF (Promised(c))' = {} THEN "error" ELSE "none"
  <2>1. (Answered(c))' = IF s = << >> THEN "error" ELSE "none"
    BY <1>2 DEF Answered
  <2> QED BY <1>4, <2>1
<1> QED BY <1>1, <1>5, <1>6, <1>7, <1>8, MapsToCall

LEMMA RestartAbandonsAll ==
  ASSUME TypeOK, CallsInv, Restart
  PROVE  Promise!AbandonAll
<1>1. \A c \in Callers : pc'[c] = "idle" /\ result'[c] = IF pc[c] = "idle" THEN result[c] ELSE "cancelled"
  BY DEF Restart
<1>2. candidates' = candidates /\ at' = at
  BY DEF Restart
<1>3. \A c \in Callers : (RefusedSoFar(c))' = RefusedSoFar(c)
  BY <1>1, <1>2 DEF RefusedSoFar, CallsInv, CallInv
<1>4. \A c \in Callers : (Answered(c))' = IF Running(c) THEN "abandoned" ELSE Answered(c)
  BY <1>1 DEF Answered, Running
<1>5. [c \in Callers |-> pc[c] # "idle"]' = [c \in Callers |-> FALSE]
  BY <1>1
<1> QED BY <1>2, <1>3, <1>4, <1>5 DEF Promise!AbandonAll, Answered, Running

LEMMA UnmovedCallsStutter == UNCHANGED callVars => UNCHANGED Promise!vars
BY DEF callVars, Promise!vars, RefusedSoFar

(* Whatever the providers, the requests and the number of concurrent calls,*)
(* the registry is an implementation of FailoverCall as far as safety goes:*)
(* every call starts on distinct providers, at least one if any is         *)
(* eligible, asks them one at a time and none twice, and reports failure   *)
(* only when every one of them has refused (KeepsPromise without its       *)
(* fairness).                                                              *)
THEOREM CallsKeepTheirPromise ==
  Spec => Promise!Init /\ [][Promise!Next]_(Promise!vars)
<1>1. Init => Promise!Init
  <2> SUFFICES ASSUME Init PROVE Promise!Init
    OBVIOUS
  <2>1. \A c \in Callers : pc[c] = "idle" /\ result[c] = "none" /\ candidates[c] = << >> /\ at[c] = 0
    BY DEF Init
  <2>2. \A c \in Callers : ToSet(candidates[c]) = {} /\ RefusedSoFar(c) = {}
    BY <2>1 DEF ToSet, RefusedSoFar
  <2> QED BY <2>1, <2>2 DEF Promise!Init
<1>2. TypeOK /\ CallsInv /\ [Next]_vars => [Promise!Next]_(Promise!vars)
  <2> SUFFICES ASSUME TypeOK, CallsInv, [Next]_vars PROVE Promise!Next \/ UNCHANGED Promise!vars
    OBVIOUS
  <2>1. ASSUME NEW c \in Callers, Settle(c) PROVE Promise!Next \/ UNCHANGED Promise!vars
    BY <2>1, SettlingAnswers DEF Promise!Next
  <2>2. ASSUME NEW c \in Callers, NEW req \in Requests, Begin(c, req) PROVE Promise!Next
    BY <2>2, BeginningCalls DEF Promise!Next
  <2>3. ASSUME NEW a \in Admins, Save(a) PROVE UNCHANGED callVars
    BY <2>3 DEF Save, SubmitOverride, WriteConfig, ReadConfig, ApplyConfig, AdminError
  <2>4. Tick \/ UNCHANGED vars => UNCHANGED callVars
    BY DEF Tick, vars
  <2>5. Restart => Promise!Next
    BY RestartAbandonsAll DEF Promise!Next
  <2> QED BY <2>1, <2>2, <2>3, <2>4, <2>5, UnmovedCallsStutter DEF Next
<1> QED BY <1>1, <1>2, CallsInit, CallsStep, RegistryTypeCorrect, PTL DEF Spec
=============================================================================
