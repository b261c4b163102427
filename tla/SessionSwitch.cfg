SPECIFICATION Spec
CONSTANTS
  en = en
  hi = hi
  ta = ta
  a1 = a1
  a2 = a2
  a3 = a3
  Toggles = {a1, a2, a3}
  Langs = {en, hi, ta}
  Operator = en
  FirstVisitors = {en, hi}
  NoLang = NoLang
  DbMayFail = FALSE
  AdaptersMayRaise = FALSE
  MaxMessages = 0
  MaxSentences = 1
INVARIANTS UncontestedSwitchSurvives
SYMMETRY ToggleSymmetry
