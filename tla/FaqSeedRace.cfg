SPECIFICATION Spec
CONSTANTS
  Langs = {hi, ta}
  LangOrder <- Order
  Hindi = hi
  Operators = {hi, ta}
  Visitors = {v1}
  Editors = {e1}
  Scripts = {"seed"}
  Translators = {sarvam}
  Nothing = Nothing
  sarvam = sarvam
  azure = azure
  FirstAnswers <- None
  FirstVoices = {}
  FirstStatus = "absent"
  Statuses = {"approved"}
  MaxVisits = 1
  MaxEdits = 1
  MaxRuns = 1
  MaxErrors = 0
  MaxRestarts = 0
  hi = hi
  ta = ta
  v1 = v1
  v2 = v2
  e1 = e1
  e2 = e2
INVARIANTS PlaceholdersAreNeverSpoken
CHECK_DEADLOCK FALSE
