----------------------------- MODULE AdminPages -----------------------------
(***************************************************************************)
(* The administrator's login with its lockout, for the attempts one address *)
(* makes under one name, and the cost page, whose figures are read by four *)
(* statements while pipelines write rows and the day changes (src/admin.py,*)
(* src/db.py).  Requests interleave at their awaits.                       *)
(***************************************************************************)
EXTENDS Integers, Sequences, FiniteSets

CONSTANTS
  Requests,     \* requests to /admin/login that may be under way at a time
  Passwords,    \* what create_admin stores and visitors type
  MaxAttempts,  \* _LOGIN_MAX_ATTEMPTS
  Window,       \* _LOGIN_WINDOW_SECONDS, in ticks
  Entries,      \* the kinds of row that log_analytics is called with
  HoursPerDay,
  LastHour,     \* bound of the clock
  MaxRows,      \* bound of the table
  None

AllEntries ==
  {e \in [cache_hit : {"faq", "text_cache", "no_speech", "none"}, used : BOOLEAN, more : {0, 2}] :
     /\ e.cache_hit = "no_speech" => ~e.used /\ e.more = 0
     /\ e.cache_hit = "text_cache" => ~e.used
     /\ e.cache_hit = "none" /\ ~e.used => e.more = 0}

ASSUME AdminAssumption ==
  /\ IsFiniteSet(Requests) /\ MaxAttempts \in Nat \ {0} /\ Window \in Nat \ {0}
  /\ None \notin Passwords /\ Entries \subseteq AllEntries /\ HoursPerDay \in Nat \ {0}
  /\ LastHour \in Nat /\ MaxRows \in Nat

VARIABLES
  account,    \* the password of the administrator's row, or None
  failures,   \* _failed_logins[key]: the ages of failed attempts, in the order they failed
  attempts,   \* request |-> the password under verification, or None
  signedIn,   \* whether the browser's session names the administrator
  clock,      \* hours since the first midnight
  rows,       \* conversation_analytics: when, and the entry
  page        \* the cost page that is being put together

loginVars == <<account, failures, attempts, signedIn>>
reportVars == <<rows, page>>
vars == <<loginVars, clock, reportVars>>

Today == clock \div HoursPerDay
DayOf(row) == row.hour \div HoursPerDay
Closed == [at |-> "closed", day |-> 0, today |-> 0, hits |-> 0, allTime |-> 0, hours |-> 0,
           label |-> 0]

Init ==
  /\ account \in Passwords \cup {None}
  /\ failures = << >> /\ attempts = [r \in Requests |-> None] /\ signedIn = FALSE
  /\ clock = 0 /\ rows = << >> /\ page = Closed

-----------------------------------------------------------------------------
\* The list is in the order of time: what is still within the window is its tail.
Stale(ages) == {i \in DOMAIN ages : ages[i] >= Window}
Within(ages) == SubSeq(ages, Cardinality(Stale(ages)) + 1, Len(ages))

Pending == {r \in Requests : attempts[r] # None}

\* Mutants of Submit: one attempt too many; a refusal starts the window again.
SubmitOneMore(r) ==
  /\ attempts[r] = None
  /\ failures' = Within(failures)
  /\ IF Len(Within(failures)) > MaxAttempts THEN UNCHANGED attempts
     ELSE \E typed \in Passwords : attempts' = [attempts EXCEPT ![r] = typed]
  /\ UNCHANGED <<account, signedIn, clock, reportVars>>
SubmitExtends(r) ==
  /\ attempts[r] = None
  /\ IF Len(Within(failures)) >= MaxAttempts
     THEN failures' = [i \in DOMAIN Within(failures) |-> 0] /\ UNCHANGED attempts
     ELSE /\ failures' = Within(failures)
          /\ \E typed \in Passwords : attempts' = [attempts EXCEPT ![r] = typed]
  /\ UNCHANGED <<account, signedIn, clock, reportVars>>

\* A form arrives: old failures are dropped, and the attempt is refused, or goes
\* on to read the administrator's row.
Submit(r) ==
  /\ attempts[r] = None
  /\ failures' = Within(failures)
  /\ IF Len(Within(failures)) >= MaxAttempts THEN UNCHANGED attempts
     ELSE \E typed \in Passwords : attempts' = [attempts EXCEPT ![r] = typed]
  /\ UNCHANGED <<account, signedIn, clock, reportVars>>

\* The row is here: a success forgets the failures.
Verify(r) ==
  /\ attempts[r] # None
  /\ attempts' = [attempts EXCEPT ![r] = None]
  /\ IF attempts[r] = account THEN failures' = << >> /\ signedIn' = TRUE
     ELSE failures' = Append(failures, 0) /\ UNCHANGED signedIn
  /\ UNCHANGED <<account, clock, reportVars>>

\* The database does not answer: no failure is recorded.
LookupFails(r) ==
  /\ attempts[r] # None
  /\ attempts' = [attempts EXCEPT ![r] = None]
  /\ UNCHANGED <<account, failures, signedIn, clock, reportVars>>

Logout == signedIn' = FALSE /\ UNCHANGED <<account, failures, attempts, clock, reportVars>>

CreateAdmin ==
  /\ account' \in Passwords
  /\ UNCHANGED <<failures, attempts, signedIn, clock, reportVars>>

-----------------------------------------------------------------------------
Cost(row) == 1 + row.entry.more

\* SUM and WHERE: the rows a statement sums up are given by their numbers.
RowsOf(table, day) == {n \in DOMAIN table : DayOf(table[n]) = day}
Hits(table, which) == {n \in which : table[n].entry.cache_hit \in {"faq", "text_cache"}}
Sums(table, which) ==
  LET sum[n \in 0 .. Len(table)] ==
        IF n = 0 THEN 0 ELSE sum[n - 1] + (IF n \in which THEN Cost(table[n]) ELSE 0)
  IN  sum
Spent(table, which) == Sums(table, which)[Len(table)]

\* One utterance has been handled.
Log ==
  /\ Len(rows) < MaxRows
  /\ \E e \in Entries : rows' = Append(rows, [hour |-> clock, entry |-> e])
  /\ UNCHANGED <<loginVars, clock, page>>

\* The day is the one asked for, or today; the form offers none after today.
OpenCost ==
  /\ signedIn /\ page.at = "closed"
  /\ \E day \in 0 .. Today : page' = [Closed EXCEPT !.at = "today", !.day = day]
  /\ UNCHANGED <<loginVars, clock, rows>>

\* The first statement of get_cost_summary: every utterance costs its transcription.
ReadToday ==
  /\ page.at = "today"
  /\ page' = [page EXCEPT !.at = "allTime", !.today = Spent(rows, RowsOf(rows, Today)),
                          !.hits = Cardinality(Hits(rows, RowsOf(rows, Today)))]
  /\ UNCHANGED <<loginVars, clock, rows>>

\* Mutant of ReadAllTime: the sum stops before today.
ReadEarlier ==
  /\ page.at = "allTime"
  /\ page' = [page EXCEPT !.at = "hours",
                !.allTime = Spent(rows, {n \in DOMAIN rows : DayOf(rows[n]) < Today})]
  /\ UNCHANGED <<loginVars, clock, rows>>

\* The second statement; the third, the average of the requests that were not
\* answered from a cache, only scales the estimate.
ReadAllTime ==
  /\ page.at = "allTime"
  /\ page' = [page EXCEPT !.at = "hours", !.allTime = Spent(rows, DOMAIN rows)]
  /\ UNCHANGED <<loginVars, clock, rows>>

\* get_hourly_usage, and the page with the date it bears.
ReadHours ==
  /\ page.at = "hours"
  /\ page' = [page EXCEPT !.at = "shown", !.hours = Spent(rows, RowsOf(rows, page.day)),
                          !.label = Today]
  /\ UNCHANGED <<loginVars, clock, rows>>

\* A statement fails, or the page has been read: the next one starts afresh.
Leave ==
  /\ page.at # "closed"
  /\ page' = Closed
  /\ UNCHANGED <<loginVars, clock, rows>>

-----------------------------------------------------------------------------
\* A quarter of an hour goes by, and perhaps the hour with it.
Tick ==
  /\ failures' = [i \in DOMAIN failures |-> IF failures[i] < Window THEN failures[i] + 1 ELSE Window]
  /\ clock' \in {clock, clock + 1} /\ clock' <= LastHour
  /\ UNCHANGED <<account, attempts, signedIn, reportVars>>

\* The failures are in memory, the session is in the browser.
Restart ==
  /\ failures' = << >> /\ attempts' = [r \in Requests |-> None] /\ page' = Closed
  /\ UNCHANGED <<account, signedIn, clock, rows>>

Next ==
  \/ \E r \in Requests : Submit(r) \/ Verify(r) \/ LookupFails(r)
  \/ Logout \/ CreateAdmin
  \/ Log \/ OpenCost \/ ReadToday \/ ReadAllTime \/ ReadHours \/ Leave
  \/ Tick \/ Restart

\* Time passes.
Spec == Init /\ [][Next]_vars /\ WF_vars(Tick)

-----------------------------------------------------------------------------
TypeOK ==
  /\ account \in Passwords \cup {None}
  /\ failures \in Seq(0 .. Window)
  /\ \A i, j \in DOMAIN failures : i <= j => failures[i] >= failures[j]
  /\ attempts \in [Requests -> Passwords \cup {None}]
  /\ signedIn \in BOOLEAN /\ clock \in 0 .. LastHour
  /\ rows \in Seq([hour : 0 .. LastHour, entry : Entries]) /\ Len(rows) <= MaxRows
  /\ DOMAIN page = DOMAIN Closed
  /\ page.at \in {"closed", "today", "allTime", "hours", "shown"}

Locked == Len(Within(failures)) >= MaxAttempts

\* The lockout counts what has failed, not what is under way: the requests that
\* came in together may all fail, and no more than these come on top.
AttemptsAreBounded ==
  Len(Within(failures)) + Cardinality(Pending) <= MaxAttempts - 1 + Cardinality(Requests)

\* "Try again in 15 minutes" (login_submit): whoever keeps trying does not stay
\* locked out.
EveryLockoutEnds == Locked ~> ~Locked

\* The figures of one page agree, although they are read one after the other and
\* rows are written and the day changes between them: what is spent today is part
\* of what was ever spent, and the hours of the day that the page calls today add
\* up to today's total, and to what was spent while the page was put together.
FiguresAgree ==
  /\ page.at \in {"hours", "shown"} => page.today <= page.allTime
  /\ page.at = "shown" /\ page.day = page.label => page.today <= page.hours

-----------------------------------------------------------------------------
\* "What today's repeats would have cost without caching" (get_cost_summary): an
\* answer that was translated or spoken for the first time is no repeat.
OnlyRepeatsAreAvoided ==
  page.at = "shown" => page.hits <= Cardinality({n \in Hits(rows, DOMAIN rows) : rows[n].entry.more = 0})
=============================================================================
