SPECIFICATION MCSpec
CONSTANTS
  Langs = {hi, ta}
  LangOrder <- Order
  Hindi = hi
  Operators = {hi}
  Visitors = {v1, v2}
  Editors = {e1}
  Scripts = {}
  Translators = {sarvam, azure}
  Nothing = Nothing
  sarvam = sarvam
  azure = azure
  FirstAnswers <- HindiOnly
  FirstVoices = {}
  FirstStatus = "approved"
  Statuses = {"approved", "draft"}
  MaxVisits = 2
  MaxEdits = 1
  MaxRuns = 0
  MaxErrors = 1
  MaxRestarts = 0
  hi = hi
  ta = ta
  v1 = v1
  v2 = v2
  e1 = e1
  e2 = e2
INVARIANTS VoiceInItsLanguage TranslationIsServed SpokenWasStored
PROPERTIES SavedFormRepairs
CHECK_DEADLOCK FALSE
SYMMETRY ProcessSymmetry
