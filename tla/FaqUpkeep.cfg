SPECIFICATION FairSpec
CONSTANTS
  Langs = {hi, ta}
  LangOrder <- Order
  Hindi = hi
  Operators = {hi, ta}
  Visitors = {v1}
  Editors = {}
  Scripts = {"seed", "migration", "warmer"}
  Translators = {sarvam}
  Nothing = Nothing
  sarvam = sarvam
  azure = azure
  FirstAnswers <- HindiOnly
  FirstVoices = {}
  FirstStatus = "approved"
  Statuses = {"approved"}
  MaxVisits = 2
  MaxEdits = 0
  MaxRuns = 1
  MaxErrors = 1
  MaxRestarts = 1
  hi = hi
  ta = ta
  v1 = v1
  v2 = v2
  e1 = e1
  e2 = e2
INVARIANTS PlaceholdersAreNeverSpoken
PROPERTIES EveryWorkEnds
CHECK_DEADLOCK FALSE
