SPECIFICATION Spec
CONSTANTS
  Langs = {hi, ta}
  LangOrder <- Order
  Hindi = hi
  Operators = {hi, ta}
  Visitors = {v1}
  Editors = {e1}
  Scripts = {}
  Translators = {sarvam, azure}
  Nothing = Nothing
  sarvam = sarvam
  azure = azure
  FirstAnswers <- HindiOnly
  FirstVoices = {}
  FirstStatus = "approved"
  Statuses = {"approved"}
  MaxVisits = 3
  MaxEdits = 1
  MaxRuns = 0
  MaxErrors = 0
  MaxRestarts = 0
  hi = hi
  ta = ta
  v1 = v1
  v2 = v2
  e1 = e1
  e2 = e2
INVARIANTS ChangedAnswerChangesVoice
SYMMETRY ProcessSymmetry
CHECK_DEADLOCK FALSE
