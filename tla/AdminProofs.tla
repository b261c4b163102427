----------------------------- MODULE AdminProofs -----------------------------
(***************************************************************************)
(* Proofs about the administrator's login and the cost page (AdminPages),  *)
(* for any number of requests, passwords, attempts, ticks and rows.        *)
(***************************************************************************)
EXTENDS AdminPages, FiniteSetTheorems, SequenceTheorems, WellFoundedInduction, TLAPS

-----------------------------------------------------------------------------
(* The window.                                                             *)

Ages == Seq(0 .. Window)
Ordered(ages) == \A i, j \in DOMAIN ages : i <= j => ages[i] >= ages[j]

LEMMA AgesAreNumbers ==
  ASSUME NEW ages \in Ages
  PROVE  /\ DOMAIN ages = 1 .. Len(ages) /\ Len(ages) \in Nat
         /\ \A i \in DOMAIN ages : ages[i] \in 0 .. Window
BY LenProperties, ElementOfSeq DEF Ages

LEMMA StaleIsFinite ==
  ASSUME NEW ages \in Ages
  PROVE  /\ IsFiniteSet(Stale(ages)) /\ Cardinality(Stale(ages)) \in 0 .. Len(ages)
         /\ Stale(ages) \subseteq 1 .. Len(ages)
<1>1. Stale(ages) \subseteq 1 .. Len(ages) /\ Len(ages) \in Nat
  BY DEF Stale, Ages
<1>2. IsFiniteSet(1 .. Len(ages)) /\ Cardinality(1 .. Len(ages)) = Len(ages)
  <2>1. Len(ages) > 0 \/ Len(ages) = 0
    BY <1>1
  <2> QED BY <1>1, <2>1, FS_Interval
<1>3. IsFiniteSet(Stale(ages)) /\ Cardinality(Stale(ages)) <= Len(ages)
  BY <1>1, <1>2, FS_Subset
<1>4. Cardinality(Stale(ages)) \in Nat
  BY <1>3, FS_CardinalityType
<1> QED BY <1>1, <1>3, <1>4

\* What is within the window is as many as there are, less the stale ones.
LEMMA WithinIsTheRest ==
  ASSUME NEW ages \in Ages
  PROVE  /\ Within(ages) \in Ages
         /\ Len(Within(ages)) = Len(ages) - Cardinality(Stale(ages))
         /\ Ordered(ages) => Ordered(Within(ages))
<1> DEFINE n == Cardinality(Stale(ages))
<1>1. n \in 0 .. Len(ages) /\ Len(ages) \in Nat
  BY StaleIsFinite DEF Ages
<1>2. /\ Len(Within(ages)) = Len(ages) - n
      /\ \A i \in 1 .. Len(ages) - n : Within(ages)[i] = ages[i + n]
      /\ Within(ages) \in Ages
  <2> HIDE DEF n
  <2>1. Within(ages) = SubSeq(ages, n + 1, Len(ages))
    BY DEF Within, n
  <2>2. \A i \in n + 1 .. Len(ages) : ages[i] \in 0 .. Window
    BY <1>1, AgesAreNumbers
  <2> QED BY <1>1, <2>1, <2>2, SubSeqProperties DEF Ages
<1>3. DOMAIN Within(ages) = 1 .. Len(ages) - n
  BY <1>1, <1>2 DEF Ages
<1>4. ASSUME Ordered(ages) PROVE Ordered(Within(ages))
  <2> HIDE DEF n
  <2> SUFFICES ASSUME NEW i \in 1 .. Len(ages) - n, NEW j \in 1 .. Len(ages) - n, i <= j
               PROVE  Within(ages)[i] >= Within(ages)[j]
    BY <1>3 DEF Ordered
  <2>1. i + n \in DOMAIN ages /\ j + n \in DOMAIN ages /\ i + n <= j + n
    BY <1>1 DEF Ages
  <2> QED BY <1>2, <1>4, <2>1 DEF Ordered
<1> QED BY <1>2, <1>4

\* No failures more are within the window if no failure gets younger.
LEMMA AgeingOnlyForgets ==
  ASSUME NEW ages \in Ages, NEW older \in Ages, Stale(ages) \subseteq Stale(older)
  PROVE  Len(Within(older)) - Len(older) <= Len(Within(ages)) - Len(ages)
<1>1. Cardinality(Stale(ages)) <= Cardinality(Stale(older))
  BY StaleIsFinite, FS_Subset
<1>2. /\ Cardinality(Stale(ages)) \in Nat /\ Cardinality(Stale(older)) \in Nat
      /\ Len(ages) \in Nat /\ Len(older) \in Nat
  BY StaleIsFinite DEF Ages
<1> QED BY <1>1, <1>2, WithinIsTheRest

LEMMA AppendedToAges ==
  ASSUME NEW ages \in Ages
  PROVE  LET more == Append(ages, 0)
         IN  /\ more \in Ages
             /\ Len(Within(more)) <= Len(Within(ages)) + 1
             /\ Ordered(ages) => Ordered(more)
<1> DEFINE more == Append(ages, 0)
<1>0. Window \in Nat \ {0}
  BY AdminAssumption DEF AdminAssumption
<1>1. /\ more \in Ages /\ Len(more) = Len(ages) + 1 /\ Len(ages) \in Nat
      /\ \A i \in 1 .. Len(ages) : more[i] = ages[i]
      /\ more[Len(ages) + 1] = 0
  BY <1>0 DEF Ages
<1>2. DOMAIN more = 1 .. Len(ages) + 1 /\ DOMAIN ages = 1 .. Len(ages)
  BY <1>1 DEF Ages
<1>3. Stale(ages) \subseteq Stale(more)
  BY <1>1, <1>2 DEF Stale
<1>4. ASSUME Ordered(ages) PROVE Ordered(more)
  <2>1. \A i \in 1 .. Len(ages) : ages[i] \in 0 .. Window
    BY <1>2, AgesAreNumbers
  <2> QED BY <1>0, <1>1, <1>2, <1>4, <2>1 DEF Ordered
<1>5. Len(Within(more)) <= Len(Within(ages)) + 1
  <2> HIDE DEF more
  <2>1. Len(Within(more)) \in Nat /\ Len(Within(ages)) \in Nat
    BY <1>1, WithinIsTheRest DEF Ages
  <2> QED BY <1>1, <1>3, <2>1, AgeingOnlyForgets
<1> QED BY <1>1, <1>4, <1>5

\* A tick: every failure is a tick older, those out of the window stay there.
Older(ages) == [i \in DOMAIN ages |-> IF ages[i] < Window THEN ages[i] + 1 ELSE Window]

LEMMA OlderAges ==
  ASSUME NEW ages \in Ages
  PROVE  /\ Older(ages) \in Ages
         /\ Len(Within(Older(ages))) <= Len(Within(ages))
         /\ Ordered(ages) => Ordered(Older(ages))
<1>0. Window \in Nat \ {0}
  BY AdminAssumption DEF AdminAssumption
<1>1. DOMAIN ages = 1 .. Len(ages) /\ Len(ages) \in Nat /\ \A i \in DOMAIN ages : ages[i] \in 0 .. Window
  BY AgesAreNumbers
<1>2. /\ Older(ages) \in Ages /\ DOMAIN Older(ages) = DOMAIN ages /\ Len(Older(ages)) = Len(ages)
      /\ \A i \in DOMAIN ages : Older(ages)[i] = IF ages[i] < Window THEN ages[i] + 1 ELSE Window
  BY <1>0, <1>1 DEF Older, Ages
<1>3. Stale(ages) \subseteq Stale(Older(ages))
  BY <1>0, <1>1, <1>2 DEF Stale
<1>4. Len(Within(Older(ages))) <= Len(Within(ages))
  <2>1. Len(Within(Older(ages))) \in Nat /\ Len(Within(ages)) \in Nat
    BY <1>2, WithinIsTheRest DEF Ages
  <2> QED BY <1>1, <1>2, <1>3, <2>1, AgeingOnlyForgets
<1>5. ASSUME Ordered(ages) PROVE Ordered(Older(ages))
  BY <1>0, <1>1, <1>2, <1>5 DEF Ordered
<1> QED BY <1>2, <1>4, <1>5

-----------------------------------------------------------------------------
(* The inductive invariant.                                                *)

LoginInv == TypeOK /\ AttemptsAreBounded

LEMMA PendingIsFinite ==
  ASSUME TypeOK
  PROVE  /\ IsFiniteSet(Pending) /\ Cardinality(Pending) \in 0 .. Cardinality(Requests)
         /\ Cardinality(Requests) \in Nat
<1>1. Pending \subseteq Requests /\ IsFiniteSet(Requests)
  BY AdminAssumption DEF Pending, AdminAssumption
<1>2. Cardinality(Requests) \in Nat /\ IsFiniteSet(Pending) /\ Cardinality(Pending) <= Cardinality(Requests)
  BY <1>1, FS_Subset, FS_CardinalityType
<1> QED BY <1>2, FS_CardinalityType

\* What the invariant says of the list of failures.
LEMMA FailuresAreAges ==
  ASSUME TypeOK
  PROVE  /\ failures \in Ages /\ Ordered(failures)
         /\ Len(Within(failures)) \in Nat
         /\ Within(failures) \in Ages /\ Ordered(Within(failures))
         /\ Len(Within(Within(failures))) \in Nat
         /\ Len(Within(Within(failures))) <= Len(Within(failures))
<1>1. failures \in Ages /\ Ordered(failures)
  BY DEF TypeOK, Ages, Ordered
<1>2. Within(failures) \in Ages /\ Ordered(Within(failures))
  BY <1>1, WithinIsTheRest
<1>3. Len(Within(failures)) \in Nat /\ Len(Within(Within(failures))) \in Nat
  BY <1>1, <1>2, WithinIsTheRest DEF Ages
<1>4. Len(Within(Within(failures))) <= Len(Within(failures))
  BY <1>2, <1>3, WithinIsTheRest, StaleIsFinite
<1> QED BY <1>1, <1>2, <1>3, <1>4

LEMMA NoFailures == << >> \in Ages /\ Ordered(<< >>) /\ Len(Within(<< >>)) = 0
<1>1. << >> \in Ages /\ Ordered(<< >>)
  BY DEF Ages, Ordered
<1> QED BY <1>1, WithinIsTheRest, StaleIsFinite

LEMMA LoginInit == Init => LoginInv
<1> SUFFICES ASSUME Init PROVE LoginInv
  OBVIOUS
<1>1. TypeOK
  <2>1. failures \in Ages /\ Ordered(failures)
    BY NoFailures DEF Init
  <2>2. rows \in Seq([hour : 0 .. LastHour, entry : Entries]) /\ Len(rows) <= MaxRows /\ clock \in 0 .. LastHour
    BY AdminAssumption DEF Init, AdminAssumption
  <2>3. DOMAIN page = DOMAIN Closed /\ page.at = "closed"
    BY DEF Init, Closed
  <2> QED BY <2>1, <2>2, <2>3 DEF Init, TypeOK, Ages, Ordered
<1>2. Pending = {}
  BY DEF Init, Pending
<1>3. AttemptsAreBounded
  <2>1. Cardinality(Pending) = 0 /\ Len(Within(failures)) = 0
    BY <1>2, FS_EmptySet, NoFailures DEF Init
  <2> QED BY <1>1, <2>1, PendingIsFinite, AdminAssumption DEF AttemptsAreBounded, AdminAssumption
<1> QED BY <1>1, <1>3 DEF LoginInv

\* The steps of the login change the failures and the attempts ...
LoginTypes ==
  /\ account \in Passwords \cup {None}
  /\ failures \in Ages /\ Ordered(failures)
  /\ attempts \in [Requests -> Passwords \cup {None}]
  /\ signedIn \in BOOLEAN

LEMMA LoginStep ==
  ASSUME LoginInv, UNCHANGED <<clock, reportVars>>, LoginTypes', AttemptsAreBounded'
  PROVE  LoginInv'
BY DEF LoginInv, TypeOK, LoginTypes, Ages, Ordered, reportVars

\* ... and the steps of the cost page neither.
LEMMA ReportStep ==
  ASSUME LoginInv, UNCHANGED loginVars, clock' \in 0 .. LastHour,
         rows' \in Seq([hour : 0 .. LastHour, entry : Entries]) /\ Len(rows') <= MaxRows,
         DOMAIN page' = DOMAIN Closed,
         page'.at \in {"closed", "today", "allTime", "hours", "shown"}
  PROVE  LoginInv'
<1>1. UNCHANGED Pending /\ UNCHANGED Within(failures)
  BY DEF loginVars, Pending, Within, Stale
<1> QED BY <1>1 DEF LoginInv, TypeOK, AttemptsAreBounded, loginVars

LEMMA AttemptEnds ==
  ASSUME LoginInv, NEW r \in Requests, attempts[r] # None,
         attempts' = [attempts EXCEPT ![r] = None]
  PROVE  /\ attempts' \in [Requests -> Passwords \cup {None}]
         /\ Cardinality(Pending') = Cardinality(Pending) - 1
         /\ Cardinality(Pending) \in 1 .. Cardinality(Requests)
<1>1. attempts' \in [Requests -> Passwords \cup {None}]
  BY DEF LoginInv, TypeOK
<1>2. Pending' = Pending \ {r} /\ r \in Pending
  BY DEF LoginInv, TypeOK, Pending
<1>3. IsFiniteSet(Pending) /\ Cardinality(Pending) \in 0 .. Cardinality(Requests)
  BY PendingIsFinite DEF LoginInv
<1>4. Cardinality(Pending') = Cardinality(Pending) - 1
  BY <1>2, <1>3, FS_RemoveElement
<1>5. Cardinality(Pending) # 0
  BY <1>2, <1>3, FS_EmptySet
<1>6. Cardinality(Requests) \in Nat
  BY PendingIsFinite DEF LoginInv
<1> QED BY <1>1, <1>3, <1>4, <1>5, <1>6

\* A form: with fewer failures than allowed, even if every request fails; or the
\* form is refused and nothing is added.
LEMMA SubmitIsSound ==
  ASSUME LoginInv, NEW r \in Requests, Submit(r)
  PROVE  LoginInv'
<1>1. /\ attempts[r] = None /\ failures' = Within(failures)
      /\ UNCHANGED <<account, signedIn, clock, reportVars>>
  BY DEF Submit
<1>2. failures' \in Ages /\ Ordered(failures') /\ Len(Within(failures')) \in Nat
      /\ Len(Within(failures')) <= Len(Within(failures)) /\ Len(Within(failures)) \in Nat
  BY <1>1, FailuresAreAges DEF LoginInv
<1>3. MaxAttempts \in Nat \ {0}
  BY AdminAssumption DEF AdminAssumption
<1>4. CASE Len(Within(failures)) >= MaxAttempts /\ UNCHANGED attempts
  <2>1. UNCHANGED Pending
    BY <1>4 DEF Pending
  <2>2. LoginTypes'
    BY <1>1, <1>2, <1>4 DEF LoginInv, TypeOK, LoginTypes
  <2>3. Cardinality(Pending) \in Nat /\ Cardinality(Requests) \in Nat
    BY PendingIsFinite DEF LoginInv
  <2>4. AttemptsAreBounded'
    BY <1>2, <1>3, <2>1, <2>3 DEF AttemptsAreBounded, LoginInv
  <2> QED BY <1>1, <2>2, <2>4, LoginStep
<1>5. CASE ~ (Len(Within(failures)) >= MaxAttempts)
  <2>1. PICK typed \in Passwords : attempts' = [attempts EXCEPT ![r] = typed]
    BY <1>5 DEF Submit
  <2>2. LoginTypes'
    BY <1>1, <1>2, <2>1 DEF LoginInv, TypeOK, LoginTypes
  <2>3. Pending' \subseteq Requests /\ IsFiniteSet(Requests)
    BY AdminAssumption DEF Pending, AdminAssumption
  <2>4. Cardinality(Pending') \in Nat /\ Cardinality(Requests) \in Nat /\ Cardinality(Pending') <= Cardinality(Requests)
    BY <2>3, FS_Subset, FS_CardinalityType
  <2>5. AttemptsAreBounded'
    BY <1>2, <1>3, <1>5, <2>4 DEF AttemptsAreBounded
  <2> QED BY <1>1, <2>2, <2>5, LoginStep
<1> QED BY <1>4, <1>5 DEF Submit

LEMMA LoginActions == LoginInv /\ [Next]_vars => LoginInv'
<1> SUFFICES ASSUME LoginInv, [Next]_vars PROVE LoginInv'
  OBVIOUS
<1>a. MaxAttempts \in Nat \ {0} /\ LastHour \in Nat /\ MaxRows \in Nat
  BY AdminAssumption DEF AdminAssumption
<1>b. /\ Cardinality(Requests) \in Nat /\ Cardinality(Pending) \in Nat
      /\ failures \in Ages /\ Ordered(failures) /\ Len(Within(failures)) \in Nat
  BY PendingIsFinite, FailuresAreAges DEF LoginInv
<1>c. Len(Within(failures)) + Cardinality(Pending) <= MaxAttempts - 1 + Cardinality(Requests)
  BY DEF LoginInv, AttemptsAreBounded
<1>d. /\ clock \in 0 .. LastHour /\ rows \in Seq([hour : 0 .. LastHour, entry : Entries]) /\ Len(rows) <= MaxRows
      /\ DOMAIN page = DOMAIN Closed /\ page.at \in {"closed", "today", "allTime", "hours", "shown"}
  BY DEF LoginInv, TypeOK
<1>1. ASSUME NEW r \in Requests, Submit(r) PROVE LoginInv'
  BY <1>1, SubmitIsSound
<1>2. ASSUME NEW r \in Requests, Verify(r) PROVE LoginInv'
  <2>1. /\ attempts[r] # None /\ attempts' = [attempts EXCEPT ![r] = None]
        /\ UNCHANGED <<account, clock, reportVars>>
        /\ \/ failures' = << >> /\ signedIn' = TRUE
           \/ failures' = Append(failures, 0) /\ UNCHANGED signedIn
    BY <1>2 DEF Verify
  <2>2. /\ attempts' \in [Requests -> Passwords \cup {None}]
        /\ Cardinality(Pending') = Cardinality(Pending) - 1
        /\ Cardinality(Pending) \in 1 .. Cardinality(Requests)
    BY <2>1, AttemptEnds
  <2>3. failures' \in Ages /\ Ordered(failures') /\ Len(Within(failures')) <= Len(Within(failures)) + 1
    <3>1. CASE failures' = << >>
      BY <3>1, <1>b, NoFailures
    <3>2. CASE failures' = Append(failures, 0)
      <4> DEFINE more == Append(failures, 0)
      <4>1. more \in Ages /\ Len(Within(more)) <= Len(Within(failures)) + 1 /\ Ordered(more)
        BY <1>b, AppendedToAges
      <4>2. failures' = more
        BY <3>2
      <4> HIDE DEF more
      <4> QED BY <4>1, <4>2
    <3> QED BY <2>1, <3>1, <3>2
  <2>4. Len(Within(failures')) \in Nat
    BY <2>3, WithinIsTheRest DEF Ages
  <2>5. LoginTypes'
    BY <2>1, <2>2, <2>3 DEF LoginInv, TypeOK, LoginTypes
  <2>6. AttemptsAreBounded'
    BY <1>a, <1>b, <1>c, <2>2, <2>3, <2>4 DEF AttemptsAreBounded
  <2> QED BY <2>1, <2>5, <2>6, LoginStep
<1>3. ASSUME NEW r \in Requests, LookupFails(r) PROVE LoginInv'
  <2>1. /\ attempts[r] # None /\ attempts' = [attempts EXCEPT ![r] = None]
        /\ UNCHANGED <<account, failures, signedIn, clock, reportVars>>
    BY <1>3 DEF LookupFails
  <2>2. /\ attempts' \in [Requests -> Passwords \cup {None}]
        /\ Cardinality(Pending') = Cardinality(Pending) - 1
        /\ Cardinality(Pending) \in 1 .. Cardinality(Requests)
    BY <2>1, AttemptEnds
  <2>3. UNCHANGED Within(failures)
    BY <2>1 DEF Within, Stale
  <2>4. LoginTypes'
    BY <2>1, <2>2, <1>b DEF LoginInv, TypeOK, LoginTypes, Ordered
  <2>5. AttemptsAreBounded'
    BY <1>a, <1>b, <1>c, <2>2, <2>3 DEF AttemptsAreBounded
  <2> QED BY <2>1, <2>4, <2>5, LoginStep
<1>4. CASE Logout \/ CreateAdmin
  <2>1. UNCHANGED <<failures, attempts, clock, reportVars>> /\ account' \in Passwords \cup {None} /\ signedIn' \in BOOLEAN
    BY <1>4 DEF Logout, CreateAdmin, LoginInv, TypeOK
  <2>2. UNCHANGED Pending /\ UNCHANGED Within(failures)
    BY <2>1 DEF Pending, Within, Stale
  <2>3. LoginTypes'
    BY <2>1, <1>b DEF LoginInv, TypeOK, LoginTypes, Ordered
  <2>4. AttemptsAreBounded'
    BY <1>c, <2>2 DEF AttemptsAreBounded
  <2> QED BY <2>1, <2>3, <2>4, LoginStep
<1>5. CASE Log
  <2>1. PICK e \in Entries : rows' = Append(rows, [hour |-> clock, entry |-> e])
    BY <1>5 DEF Log
  <2>2. Len(rows) < MaxRows /\ UNCHANGED <<loginVars, clock, page>>
    BY <1>5 DEF Log
  <2>3. [hour |-> clock, entry |-> e] \in [hour : 0 .. LastHour, entry : Entries]
    BY <1>d
  <2>4. rows' \in Seq([hour : 0 .. LastHour, entry : Entries]) /\ Len(rows') <= MaxRows
    BY <1>a, <1>d, <2>1, <2>2, <2>3, AppendProperties, LenProperties
  <2> QED BY <1>d, <2>2, <2>4, ReportStep
<1>6. CASE OpenCost \/ ReadToday \/ ReadAllTime \/ ReadHours \/ Leave
  <2>1. UNCHANGED <<loginVars, clock, rows>>
    BY <1>6 DEF OpenCost, ReadToday, ReadAllTime, ReadHours, Leave
  <2> DEFINE Places == {"closed", "today", "allTime", "hours", "shown"}
  <2>2. DOMAIN page' = DOMAIN Closed /\ page'.at \in Places
    <3>1. CASE OpenCost
      <4>1. PICK day \in 0 .. Today : page' = [Closed EXCEPT !.at = "today", !.day = day]
        BY <3>1 DEF OpenCost
      <4> QED BY <4>1 DEF Closed
    <3>2. CASE ReadToday
      <4> DEFINE spent == Spent(rows, RowsOf(rows, Today))
                 hits == Cardinality(Hits(rows, RowsOf(rows, Today)))
      <4>1. page' = [page EXCEPT !.at = "allTime", !.today = spent, !.hits = hits]
        BY <3>2 DEF ReadToday
      <4> HIDE DEF spent, hits
      <4> QED BY <1>d, <4>1 DEF Closed
    <3>3. CASE ReadAllTime
      <4> DEFINE spent == Spent(rows, DOMAIN rows)
      <4>1. page' = [page EXCEPT !.at = "hours", !.allTime = spent]
        BY <3>3 DEF ReadAllTime
      <4> HIDE DEF spent
      <4> QED BY <1>d, <4>1 DEF Closed
    <3>4. CASE ReadHours
      <4> DEFINE spent == Spent(rows, RowsOf(rows, page.day))
                 label == Today
      <4>1. page' = [page EXCEPT !.at = "shown", !.hours = spent, !.label = label]
        BY <3>4 DEF ReadHours
      <4> HIDE DEF spent, label
      <4> QED BY <1>d, <4>1 DEF Closed
    <3>5. CASE Leave
      BY <3>5 DEF Leave, Closed
    <3> QED BY <1>6, <3>1, <3>2, <3>3, <3>4, <3>5
  <2> QED BY <1>d, <2>1, <2>2, ReportStep
<1>7. CASE Tick
  <2>1. /\ failures' = Older(failures) /\ clock' \in 0 .. LastHour
        /\ UNCHANGED <<account, attempts, signedIn, reportVars>>
    BY <1>7, <1>a, <1>d DEF Tick, Older
  <2>2. failures' \in Ages /\ Ordered(failures') /\ Len(Within(failures')) <= Len(Within(failures))
    BY <2>1, <1>b, OlderAges
  <2>3. Len(Within(failures')) \in Nat
    BY <2>2, WithinIsTheRest DEF Ages
  <2>4. UNCHANGED Pending
    BY <2>1 DEF Pending
  <2>5. AttemptsAreBounded'
    BY <1>a, <1>b, <1>c, <2>2, <2>3, <2>4 DEF AttemptsAreBounded
  <2>6. TypeOK'
    BY <2>1, <2>2 DEF LoginInv, TypeOK, Ages, Ordered, reportVars
  <2> QED BY <2>5, <2>6 DEF LoginInv
<1>8. CASE Restart
  <2>1. /\ failures' = << >> /\ attempts' = [r \in Requests |-> None] /\ page' = Closed
        /\ UNCHANGED <<account, signedIn, clock, rows>>
    BY <1>8 DEF Restart
  <2>2. Pending' = {}
    BY <2>1 DEF Pending
  <2>3. Cardinality(Pending') = 0 /\ Len(Within(failures')) = 0
    BY <2>1, <2>2, NoFailures, FS_EmptySet
  <2>4. AttemptsAreBounded'
    BY <1>a, <1>b, <2>3 DEF AttemptsAreBounded
  <2>5. failures' \in Ages /\ Ordered(failures') /\ DOMAIN page' = DOMAIN Closed /\ page'.at = "closed"
    BY <2>1, NoFailures DEF Closed
  <2>6. TypeOK'
    BY <2>1, <2>5, <1>d DEF LoginInv, TypeOK, Ages, Ordered
  <2> QED BY <2>4, <2>6 DEF LoginInv
<1>9. CASE UNCHANGED vars
  <2>1. UNCHANGED Pending /\ UNCHANGED Within(failures)
    BY <1>9 DEF vars, loginVars, Pending, Within, Stale
  <2> QED BY <1>9, <2>1 DEF LoginInv, TypeOK, AttemptsAreBounded, vars, loginVars, reportVars
<1> QED BY <1>1, <1>2, <1>3, <1>4, <1>5, <1>6, <1>7, <1>8, <1>9 DEF Next

LEMMA LoginInvariant == Spec => []LoginInv
<1> QED BY LoginInit, LoginActions, PTL DEF Spec

\* Every reachable state is well-typed; in particular the list of failures stays
\* in the order of time, which is what lets the window be its tail.
THEOREM AdminTypeCorrect == Spec => []TypeOK
<1>1. LoginInv => TypeOK
  BY DEF LoginInv
<1> QED BY <1>1, LoginInvariant, PTL

\* However many requests come in together, and whatever they type: the failures
\* within the window exceed the limit by at most the requests that were already
\* past the check (login_submit counts before an await and records after it).
THEOREM AttemptsAlwaysBounded == Spec => []AttemptsAreBounded
<1>1. LoginInv => AttemptsAreBounded
  BY DEF LoginInv
<1> QED BY <1>1, LoginInvariant, PTL

-----------------------------------------------------------------------------
(* The sums of the cost page.                                              *)

\* Induction over the numbers, said of a set: a number left out would have a least
\* one left out before it.
LEMMA NatInductionSet ==
  ASSUME NEW S, 0 \in S, \A n \in Nat : n \in S => n + 1 \in S
  PROVE  \A n \in Nat : n \in S
<1> DEFINE R == {p \in Nat \X Nat : p[1] < p[2]}
           Left == {n \in Nat : n \notin S}
<1>1. IsWellFoundedOn(R, Nat)
  <2>1. OpToRel(<, Nat) = R
    BY Zenon DEF OpToRel
  <2> QED BY <2>1, NatLessThanWellFounded, Zenon
<1>2. ASSUME Left # {} PROVE FALSE
  <2>1. \E x \in Left : \A y \in Left : ~ (<<y, x>> \in R)
    <3> HIDE DEF R
    <3> QED BY <1>1, <1>2, WFMin
  <2>2. PICK x \in Left : \A y \in Left : ~ (<<y, x>> \in R)
    BY <2>1
  <2>3. x \in Nat \ {0} /\ x - 1 \in Nat /\ <<x - 1, x>> \in R
    OBVIOUS
  <2>4. x - 1 \in S
    BY <2>2, <2>3
  <2> QED BY <2>3, <2>4
<1> QED BY <1>2

Rows == Seq([hour : 0 .. LastHour, entry : Entries])

LEMMA CostsAreNumbers ==
  ASSUME NEW table \in Rows, NEW n \in DOMAIN table
  PROVE  Cost(table[n]) \in Nat
<1>1. table[n] \in [hour : 0 .. LastHour, entry : Entries]
  BY LenProperties, ElementOfSeq DEF Rows
<1>2. table[n].entry.more \in {0, 2}
  BY <1>1, AdminAssumption DEF AdminAssumption, AllEntries
<1> QED BY <1>2 DEF Cost

Adds(table, which, n) == IF n \in which THEN Cost(table[n]) ELSE 0
\* What the recursive function of Sums is to satisfy.
Fits(table, which, sum) ==
  sum[0] = 0 /\ \A n \in 1 .. Len(table) : sum[n] = sum[n - 1] + Adds(table, which, n)

\* There is such a function: the sums over ever longer beginnings of the table.
LEMMA SumsAddUp ==
  ASSUME NEW table \in Rows, NEW which
  PROVE  Sums(table, which) \in [0 .. Len(table) -> Nat] /\ Fits(table, which, Sums(table, which))
<1> DEFINE L == Len(table)
           F(s) == [n \in 0 .. L |-> IF n = 0 THEN 0 ELSE s[n - 1] + Adds(table, which, n)]
           UpTo(k, s) == s \in [0 .. k -> Nat] /\ s[0] = 0 /\ \A n \in 1 .. k : s[n] = s[n - 1] + Adds(table, which, n)
           Built == {k \in Nat : k <= L => \E s : UpTo(k, s)}
<1>0. L \in Nat /\ DOMAIN table = 1 .. L
  BY LenProperties DEF Rows
<1>1. \A n \in 1 .. L : Adds(table, which, n) \in Nat
  BY <1>0, CostsAreNumbers DEF Adds
<1>2. \E s : UpTo(0, s)
  <2>1. UpTo(0, [n \in 0 .. 0 |-> 0])
    OBVIOUS
  <2> QED BY <2>1
<1>3. ASSUME NEW k \in Nat, k + 1 <= L, \E s : UpTo(k, s)
      PROVE  \E s : UpTo(k + 1, s)
  <2>1. PICK s : UpTo(k, s)
    BY <1>3
  <2> DEFINE more == [n \in 0 .. k + 1 |-> IF n <= k THEN s[n] ELSE s[k] + Adds(table, which, k + 1)]
  <2>2. Adds(table, which, k + 1) \in Nat
    BY <1>0, <1>1, <1>3
  <2>3. \A n \in 0 .. k : s[n] \in Nat
    BY <2>1
  <2>4. more \in [0 .. k + 1 -> Nat]
    BY <2>2, <2>3
  <2>5. more[0] = 0
    BY <2>1
  <2>6. \A n \in 1 .. k + 1 : more[n] = more[n - 1] + Adds(table, which, n)
    BY <2>1
  <2>7. UpTo(k + 1, more)
    <3> HIDE DEF more
    <3> QED BY <2>4, <2>5, <2>6
  <2> QED BY <2>7
<1>4. PICK s : UpTo(L, s)
  <2> HIDE DEF UpTo, L
  <2>1. 0 \in Built /\ \A k \in Nat : k \in Built => k + 1 \in Built
    BY <1>0, <1>2, <1>3
  <2>2. \A n \in Nat : n \in Built
    <3> HIDE DEF Built
    <3> QED BY <2>1, NatInductionSet
  <2> QED BY <1>0, <2>2
<1>5. s = F(s)
  BY <1>0, <1>4
<1>6. Sums(table, which) = CHOOSE f : f = F(f)
  BY DEF Sums, Adds
<1>7. Sums(table, which) = F(Sums(table, which))
  <2> HIDE DEF F
  <2> QED BY <1>5, <1>6
<1> DEFINE sum == Sums(table, which)
           Numbers == {k \in Nat : k <= L => sum[k] \in Nat}
<1>8. DOMAIN sum = 0 .. L /\ sum = [n \in 0 .. L |-> sum[n]] /\ Fits(table, which, sum)
  <2> HIDE DEF sum
  <2>1. sum = F(sum)
    BY <1>7 DEF sum
  <2>2. DOMAIN sum = 0 .. L /\ sum = [n \in 0 .. L |-> sum[n]]
    BY <2>1
  <2>3. \A n \in 0 .. L : sum[n] = IF n = 0 THEN 0 ELSE sum[n - 1] + Adds(table, which, n)
    BY <2>1
  <2>4. sum[0] = 0
    BY <1>0, <2>3
  <2>5. \A n \in 1 .. L : sum[n] = sum[n - 1] + Adds(table, which, n)
    BY <1>0, <2>3
  <2> QED BY <2>2, <2>4, <2>5 DEF Fits
<1>9. \A k \in Nat : k \in Numbers
  <2> HIDE DEF sum
  <2>1. sum[0] = 0 /\ \A n \in 1 .. L : sum[n] = sum[n - 1] + Adds(table, which, n)
    BY <1>8 DEF Fits
  <2>2. ASSUME NEW k \in Nat, k + 1 <= L, sum[k] \in Nat PROVE sum[k + 1] \in Nat
    <3>1. k + 1 \in 1 .. L
      BY <1>0, <2>2
    <3> QED BY <1>1, <2>1, <2>2, <3>1
  <2>3. 0 \in Numbers /\ \A k \in Nat : k \in Numbers => k + 1 \in Numbers
    BY <1>0, <2>1, <2>2
  <2> HIDE DEF Numbers
  <2> QED BY <2>3, NatInductionSet
<1> QED
  <2> HIDE DEF sum
  <2>1. \A n \in 0 .. L : sum[n] \in Nat
    BY <1>0, <1>9
  <2>2. sum \in [0 .. L -> Nat]
    BY <1>8, <2>1
  <2> QED BY <1>8, <2>2 DEF sum

\* Rows more, or more of them summed up, and none of those before changed: the sum
\* is no smaller.
LEMMA SumsGrow ==
  ASSUME NEW table \in Rows, NEW longer \in Rows, NEW which, NEW more,
         Len(table) <= Len(longer),
         \A n \in 1 .. Len(table) : longer[n] = table[n],
         \A n \in 1 .. Len(table) : n \in which => n \in more
  PROVE  /\ Spent(table, which) \in Nat /\ Spent(longer, more) \in Nat
         /\ Spent(table, which) <= Spent(longer, more)
<1> DEFINE L == Len(table)
           M == Len(longer)
           s == Sums(table, which)
           t == Sums(longer, more)
           Smaller == {k \in Nat : k <= L => s[k] <= t[k]}
           Growing == {k \in Nat : L + k <= M => t[L] <= t[L + k]}
<1>0. L \in Nat /\ M \in Nat /\ L <= M /\ DOMAIN table = 1 .. L /\ DOMAIN longer = 1 .. M
  BY LenProperties DEF Rows
<1>1. /\ s \in [0 .. L -> Nat] /\ s[0] = 0 /\ \A n \in 1 .. L : s[n] = s[n - 1] + Adds(table, which, n)
      /\ t \in [0 .. M -> Nat] /\ t[0] = 0 /\ \A n \in 1 .. M : t[n] = t[n - 1] + Adds(longer, more, n)
  BY SumsAddUp DEF Fits
<1>2. /\ \A n \in 1 .. L : Adds(table, which, n) \in Nat
      /\ \A n \in 1 .. M : Adds(longer, more, n) \in Nat
  BY <1>0, CostsAreNumbers DEF Adds
<1>3. \A n \in 1 .. L : Adds(table, which, n) <= Adds(longer, more, n)
  BY <1>0, CostsAreNumbers DEF Adds
<1> HIDE DEF s, t, L, M
<1>4. \A k \in Nat : k \in Smaller
  <2>1. 0 \in Smaller
    BY <1>0, <1>1
  <2>2. ASSUME NEW k \in Nat, k \in Smaller PROVE k + 1 \in Smaller
    <3>1. CASE ~ (k + 1 <= L)
      BY <3>1
    <3>2. CASE k + 1 <= L
      <4>1. s[k] <= t[k] /\ s[k] \in Nat /\ t[k] \in Nat /\ k + 1 \in 1 .. L /\ k + 1 \in 1 .. M
        BY <1>0, <1>1, <2>2, <3>2
      <4>2. s[k + 1] = s[k] + Adds(table, which, k + 1) /\ t[k + 1] = t[k] + Adds(longer, more, k + 1)
        BY <1>1, <4>1
      <4>3. Adds(table, which, k + 1) <= Adds(longer, more, k + 1)
            /\ Adds(table, which, k + 1) \in Nat /\ Adds(longer, more, k + 1) \in Nat
        BY <1>2, <1>3, <4>1
      <4> QED BY <4>1, <4>2, <4>3
    <3> QED BY <3>1, <3>2
  <2> HIDE DEF Smaller
  <2> QED BY <2>1, <2>2, NatInductionSet
<1>5. \A k \in Nat : k \in Growing
  <2>1. 0 \in Growing
    BY <1>0, <1>1
  <2>2. ASSUME NEW k \in Nat, k \in Growing PROVE k + 1 \in Growing
    <3>1. CASE ~ (L + (k + 1) <= M)
      BY <3>1
    <3>2. CASE L + (k + 1) <= M
      <4> DEFINE n == L + (k + 1)
      <4>1. t[L] <= t[n - 1] /\ t[L] \in Nat /\ t[n - 1] \in Nat /\ n \in 1 .. M /\ L + k = n - 1
        BY <1>0, <1>1, <2>2, <3>2
      <4>2. t[n] = t[n - 1] + Adds(longer, more, n) /\ Adds(longer, more, n) \in Nat
        BY <1>1, <1>2, <4>1
      <4>3. t[L] <= t[n]
        BY <4>1, <4>2
      <4> QED BY <4>3
    <3> QED BY <3>1, <3>2
  <2> HIDE DEF Growing
  <2> QED BY <2>1, <2>2, NatInductionSet
<1>6. s[L] <= t[L]
  BY <1>0, <1>4
<1>7. M - L \in Nat /\ L + (M - L) = M
  BY <1>0
<1>8. t[L] <= t[M]
  <2>1. M - L \in Growing
    BY <1>5, <1>7
  <2> QED BY <1>0, <1>7, <2>1
<1>9. s[L] \in Nat /\ t[L] \in Nat /\ t[M] \in Nat
  BY <1>0, <1>1
<1>10. Spent(table, which) = s[L] /\ Spent(longer, more) = t[M]
  BY DEF Spent, s, t, L, M
<1> QED BY <1>6, <1>8, <1>9, <1>10

\* Today never goes back.
LEMMA DaysFollowHours ==
  ASSUME NEW h \in Nat, NEW later \in Nat, h <= later
  PROVE  h \div HoursPerDay \in Nat /\ later \div HoursPerDay \in Nat /\ h \div HoursPerDay <= later \div HoursPerDay
<1>1. HoursPerDay \in Nat \ {0}
  BY AdminAssumption DEF AdminAssumption
<1> DEFINE q == h \div HoursPerDay
           p == later \div HoursPerDay
<1>2. /\ q \in Nat /\ HoursPerDay * q <= h /\ h < HoursPerDay * q + HoursPerDay
      /\ p \in Nat /\ HoursPerDay * p <= later /\ later < HoursPerDay * p + HoursPerDay
  <2>1. ASSUME NEW n \in Nat, NEW d \in Nat \ {0}
        PROVE  LET r == n \div d IN r \in Int /\ r \in Nat /\ d * r <= n /\ n < d * r + d
    <3> DEFINE r == n \div d
    <3>1. r \in Int
      OBVIOUS
    <3>2. n = d * r + (n % d) /\ n % d \in 0 .. d - 1
      OBVIOUS
    <3>3. r \in Nat
      OBVIOUS
    <3> QED BY <3>1, <3>2, <3>3
  <2> QED BY <1>1, <2>1
<1> HIDE DEF q, p
<1>3. ASSUME p + 1 <= q PROVE FALSE
  <2>1. HoursPerDay * (p + 1) <= HoursPerDay * q
    BY <1>1, <1>2, <1>3
  <2>2. HoursPerDay * (p + 1) = HoursPerDay * p + HoursPerDay
    BY <1>1, <1>2
  <2>3. HoursPerDay * p \in Int /\ HoursPerDay * q \in Int
    BY <1>1, <1>2
  <2> QED BY <1>1, <1>2, <2>1, <2>2, <2>3
<1> QED BY <1>2, <1>3 DEF p, q

-----------------------------------------------------------------------------
\* What has been read so far, said while the page is being put together: today's
\* total is part of the sum that comes next, and of the sum over the day asked for
\* as long as that day is today.
FiguresInv ==
  /\ page.at # "closed" => page.day \in Nat /\ page.day <= Today
  /\ page.at \in {"allTime", "hours"} =>
       /\ page.today \in Nat
       /\ page.day = Today => page.today <= Spent(rows, RowsOf(rows, Today))
  /\ page.at = "allTime" => page.today <= Spent(rows, DOMAIN rows)
  /\ FiguresAgree

CostInv == TypeOK /\ FiguresInv

\* More rows, a later day: what has been read for the page stays as true as it was.
LEMMA TimePasses ==
  ASSUME CostInv, TypeOK', UNCHANGED page, clock <= clock', Len(rows) <= Len(rows'),
         \A n \in 1 .. Len(rows) : rows'[n] = rows[n]
  PROVE  FiguresInv'
<1>1. rows \in Rows /\ rows' \in Rows /\ clock \in Nat /\ clock' \in Nat
  BY AdminAssumption DEF CostInv, TypeOK, Rows, AdminAssumption
<1>2. Today \in Nat /\ Today' \in Nat /\ Today <= Today'
  BY <1>1, DaysFollowHours DEF Today
<1>3. DOMAIN rows = 1 .. Len(rows) /\ DOMAIN rows' = 1 .. Len(rows')
  BY <1>1, LenProperties DEF Rows
<1>4. /\ Spent(rows, DOMAIN rows) <= Spent(rows', DOMAIN rows')
      /\ Spent(rows, DOMAIN rows) \in Nat /\ Spent(rows', DOMAIN rows') \in Nat
  BY <1>1, <1>3, SumsGrow
<1>5. ASSUME NEW day
      PROVE  /\ Spent(rows, RowsOf(rows, day)) <= Spent(rows', RowsOf(rows', day))
             /\ Spent(rows, RowsOf(rows, day)) \in Nat /\ Spent(rows', RowsOf(rows', day)) \in Nat
  <2>1. \A n \in 1 .. Len(rows) : n \in RowsOf(rows, day) => n \in RowsOf(rows', day)
    BY <1>3 DEF RowsOf, DayOf
  <2> QED BY <1>1, <2>1, SumsGrow
<1>6. ASSUME page.at # "closed" PROVE page'.day \in Nat /\ page'.day <= Today'
  BY <1>2, <1>6 DEF CostInv, FiguresInv
<1>7. ASSUME page.at \in {"allTime", "hours"}, page.day = Today'
      PROVE  page'.today <= Spent(rows', RowsOf(rows', Today'))
  <2>1. page.day = Today /\ Today = Today'
    BY <1>2, <1>7 DEF CostInv, FiguresInv
  <2>2. page.today \in Nat /\ page.today <= Spent(rows, RowsOf(rows, Today))
    BY <1>7, <2>1 DEF CostInv, FiguresInv
  <2>3. Spent(rows, RowsOf(rows, Today)) <= Spent(rows', RowsOf(rows', Today))
        /\ Spent(rows, RowsOf(rows, Today)) \in Nat /\ Spent(rows', RowsOf(rows', Today)) \in Nat
    BY <1>5
  <2>4. page.today <= Spent(rows', RowsOf(rows', Today))
    BY <2>2, <2>3
  <2> QED BY <2>1, <2>4
<1>8. ASSUME page.at = "allTime" PROVE page'.today <= Spent(rows', DOMAIN rows')
  BY <1>4, <1>8 DEF CostInv, FiguresInv
<1>9. ASSUME page.at \in {"allTime", "hours"} PROVE page'.today \in Nat
  BY <1>9 DEF CostInv, FiguresInv
<1>10. FiguresAgree'
  BY DEF CostInv, FiguresInv, FiguresAgree
<1> QED BY <1>6, <1>7, <1>8, <1>9, <1>10 DEF FiguresInv

\* The statements of the page, one by one.
LEMMA PageReads ==
  ASSUME CostInv, OpenCost \/ ReadToday \/ ReadAllTime \/ ReadHours \/ Leave
  PROVE  FiguresInv'
<1> DEFINE all == Spent(rows, DOMAIN rows)
           ofToday == Spent(rows, RowsOf(rows, Today))
           ofDay == Spent(rows, RowsOf(rows, page.day))
           day == Today
           hits == Cardinality(Hits(rows, RowsOf(rows, Today)))
<1>1. rows \in Rows /\ clock \in Nat /\ DOMAIN page = DOMAIN Closed
  BY AdminAssumption DEF CostInv, TypeOK, Rows, AdminAssumption
<1>2. day \in Nat
  BY <1>1, DaysFollowHours DEF Today
<1>3. DOMAIN rows = 1 .. Len(rows) /\ Len(rows) \in Nat
  BY <1>1, LenProperties DEF Rows
<1>4. all \in Nat /\ ofToday \in Nat /\ ofToday <= all /\ ofDay \in Nat
  <2>1. ASSUME NEW d PROVE Spent(rows, RowsOf(rows, d)) \in Nat /\ all \in Nat /\ Spent(rows, RowsOf(rows, d)) <= all
    <3>1. \A n \in 1 .. Len(rows) : n \in RowsOf(rows, d) => n \in DOMAIN rows
      BY <1>3
    <3> QED BY <1>1, <1>3, <3>1, SumsGrow
  <2> QED BY <2>1
<1>5. UNCHANGED <<clock, rows>>
  BY DEF OpenCost, ReadToday, ReadAllTime, ReadHours, Leave
<1>6. Today' = day /\ Spent(rows', DOMAIN rows') = all /\ Spent(rows', RowsOf(rows', Today')) = ofToday
  BY <1>5 DEF Today
<1>7. page.day = day => ofDay = ofToday
  OBVIOUS
<1>8. /\ page.at # "closed" => page.day \in Nat /\ page.day <= day
      /\ page.at \in {"allTime", "hours"} =>
           page.today \in Nat /\ (page.day = day => page.today <= ofToday)
      /\ page.at = "allTime" => page.today <= all
      /\ page.at = "hours" => page.today <= page.allTime
  BY DEF CostInv, FiguresInv, FiguresAgree
<1> SUFFICES /\ page'.at # "closed" => page'.day \in Nat /\ page'.day <= day
             /\ page'.at \in {"allTime", "hours"} =>
                  page'.today \in Nat /\ (page'.day = day => page'.today <= ofToday)
             /\ page'.at = "allTime" => page'.today <= all
             /\ page'.at \in {"hours", "shown"} => page'.today <= page'.allTime
             /\ page'.at = "shown" /\ page'.day = page'.label => page'.today <= page'.hours
  BY <1>6 DEF FiguresInv, FiguresAgree
<1>9. CASE OpenCost
  <2>1. PICK d \in 0 .. day : page' = [Closed EXCEPT !.at = "today", !.day = d]
    BY <1>9 DEF OpenCost
  <2>2. page'.at = "today" /\ page'.day = d
    BY <2>1 DEF Closed
  <2> QED BY <1>2, <2>2
<1>10. CASE ReadToday
  <2>1. page.at = "today" /\ page' = [page EXCEPT !.at = "allTime", !.today = ofToday, !.hits = hits]
    BY <1>10 DEF ReadToday
  <2> HIDE DEF day, all, ofToday, ofDay, hits
  <2>2. page'.at = "allTime" /\ page'.day = page.day /\ page'.today = ofToday
    BY <1>1, <2>1 DEF Closed
  <2> QED BY <1>2, <1>4, <1>8, <2>1, <2>2
<1>11. CASE ReadAllTime
  <2>1. page.at = "allTime" /\ page' = [page EXCEPT !.at = "hours", !.allTime = all]
    BY <1>11 DEF ReadAllTime
  <2> HIDE DEF day, all, ofToday, ofDay, hits
  <2>2. page'.at = "hours" /\ page'.day = page.day /\ page'.today = page.today /\ page'.allTime = all
    BY <1>1, <2>1 DEF Closed
  <2> QED BY <1>2, <1>4, <1>8, <2>1, <2>2
<1>12. CASE ReadHours
  <2>1. page.at = "hours" /\ page' = [page EXCEPT !.at = "shown", !.hours = ofDay, !.label = day]
    BY <1>12 DEF ReadHours
  <2> HIDE DEF day, all, ofToday, ofDay, hits
  <2>2. /\ page'.at = "shown" /\ page'.day = page.day /\ page'.today = page.today
        /\ page'.allTime = page.allTime /\ page'.hours = ofDay /\ page'.label = day
    BY <1>1, <2>1 DEF Closed
  <2> QED BY <1>2, <1>4, <1>7, <1>8, <2>1, <2>2
<1>13. CASE Leave
  BY <1>13 DEF Leave, Closed
<1> QED BY <1>9, <1>10, <1>11, <1>12, <1>13

LEMMA FiguresActions == CostInv /\ TypeOK' /\ [Next]_vars => CostInv'
<1> SUFFICES ASSUME CostInv, TypeOK', [Next]_vars PROVE FiguresInv'
  BY DEF CostInv
<1>1. rows \in Rows /\ clock \in Nat /\ Len(rows) \in Nat
  BY AdminAssumption DEF CostInv, TypeOK, Rows, AdminAssumption
<1>2. CASE UNCHANGED <<clock, reportVars>>
  <2>1. UNCHANGED <<page, clock, rows>>
    BY <1>2 DEF reportVars
  <2> QED BY <1>1, <2>1, TimePasses
<1>3. CASE Log
  <2>1. PICK e \in Entries : rows' = Append(rows, [hour |-> clock, entry |-> e])
    BY <1>3 DEF Log
  <2>2. UNCHANGED <<clock, page>>
    BY <1>3 DEF Log
  <2>3. [hour |-> clock, entry |-> e] \in [hour : 0 .. LastHour, entry : Entries]
    BY DEF CostInv, TypeOK
  <2>4. Len(rows') = Len(rows) + 1 /\ \A n \in 1 .. Len(rows) : rows'[n] = rows[n]
    BY <1>1, <2>1, <2>3, AppendProperties DEF Rows
  <2> QED BY <1>1, <2>2, <2>4, TimePasses
<1>4. CASE OpenCost \/ ReadToday \/ ReadAllTime \/ ReadHours \/ Leave
  BY <1>4, PageReads
<1>5. CASE Tick
  <2>1. UNCHANGED <<page, rows>> /\ clock <= clock'
    BY <1>1, <1>5 DEF Tick, reportVars
  <2> QED BY <1>1, <2>1, TimePasses
<1>6. CASE Restart
  BY <1>6 DEF Restart, Closed, FiguresInv, FiguresAgree
<1>7. ASSUME NEW r \in Requests, Submit(r) \/ Verify(r) \/ LookupFails(r)
      PROVE  UNCHANGED <<clock, reportVars>>
  BY <1>7 DEF Submit, Verify, LookupFails
<1>8. Logout \/ CreateAdmin \/ UNCHANGED vars => UNCHANGED <<clock, reportVars>>
  BY DEF Logout, CreateAdmin, vars
<1> QED BY <1>2, <1>3, <1>4, <1>5, <1>6, <1>7, <1>8 DEF Next

\* For any rows, hours and bounds, whatever pipelines write and however often
\* midnight passes between the four statements (get_cost_summary,
\* get_hourly_usage): what the page says was spent today is part of what it says
\* was ever spent, and no more than the hours of that day add up to.
THEOREM FiguresAlwaysAgree == Spec => []FiguresAgree
<1>1. Init => FiguresInv
  BY DEF Init, Closed, FiguresInv, FiguresAgree
<1>2. CostInv => FiguresAgree
  BY DEF CostInv, FiguresInv
<1>3. Init /\ TypeOK => CostInv
  BY <1>1 DEF CostInv
<1> QED BY <1>2, <1>3, FiguresActions, AdminTypeCorrect, PTL DEF Spec
=============================================================================
