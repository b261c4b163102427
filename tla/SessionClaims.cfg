SPECIFICATION Spec
CONSTANTS
  en = en
  hi = hi
  ta = ta
  a1 = a1
  a2 = a2
  a3 = a3
  Toggles = {a1, a2}
  Langs = {en, hi, ta}
  Operator = en
  FirstVisitors = {en, hi}
  NoLang = NoLang
  DbMayFail = FALSE
  AdaptersMayRaise = TRUE
  MaxMessages = 1
  MaxSentences = 2
INVARIANTS ConnectionSurvivesErrors PipelineNeverRaises EveryRequestLogged CostIsReal SwitchSurvivesRestart
