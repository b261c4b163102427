---------------------------- MODULE RuntimeState ----------------------------
(***************************************************************************)
(* The kill-switch (src/runtime_state.py): a flag in memory that every     *)
(* connection reads, and the column of knowledge_packs behind it.  The     *)
(* administrator's POST /admin/pause and /admin/resume set the flag at once*)
(* and the column after an await on a connection of their own.  latest and *)
(* contested are history variables that no guard reads.                    *)
(***************************************************************************)
EXTENDS Integers, Sequences, FiniteSets

CONSTANT Toggles     \* the concurrent pause and resume handlers

VARIABLES
  paused,     \* PAUSED
  dbPaused,   \* knowledge_packs.paused
  togglePc,   \* where each handler is; failed: its UPDATE raised
  wanted,     \* the value each handler is storing
  latest,     \* not in the code: the handler, if any, that set the flag last
  contested   \* not in the code: it found another one storing the other value

switchVars == <<paused, dbPaused, togglePc, wanted, latest, contested>>

SwitchTypeOK ==
  /\ paused \in BOOLEAN
  /\ dbPaused \in BOOLEAN
  /\ togglePc \in [Toggles -> {"idle", "storing", "failed"}]
  /\ wanted \in [Toggles -> BOOLEAN]
  /\ latest \in SUBSET Toggles
  /\ contested \in BOOLEAN

SwitchInit ==
  /\ dbPaused \in BOOLEAN
  /\ paused = dbPaused
  /\ togglePc = [t \in Toggles |-> "idle"]
  /\ wanted = [t \in Toggles |-> FALSE]
  /\ latest = {}
  /\ contested = FALSE

SetPaused(t, value) ==
  /\ togglePc[t] # "storing"
  /\ paused' = value
  /\ wanted' = [wanted EXCEPT ![t] = value]
  /\ togglePc' = [togglePc EXCEPT ![t] = "storing"]
  /\ latest' = {t}
  /\ contested' = (\E u \in Toggles : togglePc[u] = "storing" /\ wanted[u] # value)
  /\ UNCHANGED dbPaused

StoringEnds(t, how) ==
  /\ togglePc[t] = "storing"
  /\ togglePc' = [togglePc EXCEPT ![t] = how]
  /\ wanted' = [wanted EXCEPT ![t] = FALSE]
  /\ UNCHANGED <<paused, latest, contested>>

\* Mutant of StorePaused: the UPDATE names another pack.
StoreElsewhere(t) == StoringEnds(t, "idle") /\ UNCHANGED dbPaused

StorePaused(t) == StoringEnds(t, "idle") /\ dbPaused' = wanted[t]

StoreFails(t) == StoringEnds(t, "failed") /\ UNCHANGED dbPaused

\* init, at startup; the handlers of the process before are gone.
ReloadPaused ==
  /\ paused' = dbPaused
  /\ togglePc' = [t \in Toggles |-> IF togglePc[t] = "idle" THEN "idle" ELSE "failed"]
  /\ wanted' = [t \in Toggles |-> FALSE]
  /\ latest' = {}
  /\ contested' = FALSE
  /\ UNCHANGED dbPaused

Toggle(t) ==
  \/ \E value \in BOOLEAN : SetPaused(t, value)
  \/ StorePaused(t)
  \/ StoreFails(t)
=============================================================================
