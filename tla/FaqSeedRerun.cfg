SPECIFICATION Spec
CONSTANTS
  Langs = {hi, ta}
  LangOrder <- Order
  Hindi = hi
  Operators = {hi, ta}
  Visitors = {}
  Editors = {}
  Scripts = {"seed"}
  Translators = {sarvam, azure}
  Nothing = Nothing
  sarvam = sarvam
  azure = azure
  FirstAnswers <- HindiOnly
  FirstVoices = {}
  FirstStatus = "approved"
  Statuses = {"approved"}
  MaxVisits = 0
  MaxEdits = 1
  MaxRuns = 1
  MaxErrors = 0
  MaxRestarts = 0
  hi = hi
  ta = ta
  v1 = v1
  v2 = v2
  e1 = e1
  e2 = e2
PROPERTIES SeedKeepsAnswers
CHECK_DEADLOCK FALSE
