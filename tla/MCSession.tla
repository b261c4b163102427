----------------------------- MODULE MCSession -----------------------------
(***************************************************************************)
(* Instances of TranslateSession for TLC, and what the code's documentation*)
(* says that these instances refute.                                       *)
(***************************************************************************)
EXTENDS TranslateSession, TLC

CONSTANTS en, hi, ta, a1, a2, a3

ToggleSymmetry == Permutations(Toggles)

\* "Any failure sends an error JSON frame and returns -- never raises out of
\* this function": no exception ends the handler from inside the pipeline.
PipelineNeverRaises == endedAt \in {"none", "accept", "device", "greet", "pong", "refuse"}

\* "never crash the WS loop": while the client is there, only a rejection or a
\* restart ends the connection, not an error in one utterance.
ConnectionSurvivesErrors == endedAt # "none" => gone

\* "Every request logs to analytics regardless of path".
EveryRequestLogged == pc \in {"receive", "closed"} /\ billed > 0 => rows = 1

\* "tts_cost_total = 0.0   # real cost from whichever provider(s) actually
\* handled each sentence".
CostIsReal == pc = "receive" => cost = billed

\* "backed by Postgres so it survives a container restart": with no toggle
\* running and none failed, a restart reads the switch as it is.  Two that
\* overlap may store in another order than they set.
SwitchSurvivesRestart == (\A t \in Toggles : togglePc[t] = "idle") => paused = dbPaused
=============================================================================
