SPECIFICATION Spec
CONSTANTS
  Langs = {hi, ta}
  LangOrder <- Order
  Hindi = hi
  Operators = {hi, ta}
  Visitors = {}
  Editors = {e1, e2}
  Scripts = {}
  Translators = {sarvam}
  Nothing = Nothing
  sarvam = sarvam
  azure = azure
  FirstAnswers <- HindiOnly
  FirstVoices = {}
  FirstStatus = "draft"
  Statuses = {"approved", "draft"}
  MaxVisits = 3
  MaxEdits = 2
  MaxRuns = 0
  MaxErrors = 0
  MaxRestarts = 0
  hi = hi
  ta = ta
  v1 = v1
  v2 = v2
  e1 = e1
  e2 = e2
INVARIANTS RowsMatchEntries
SYMMETRY ProcessSymmetry
CHECK_DEADLOCK FALSE
