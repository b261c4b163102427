SPECIFICATION FairSpec
CONSTANTS
  en = en
  hi = hi
  ta = ta
  a1 = a1
  a2 = a2
  a3 = a3
  Toggles = {a1}
  Langs = {en, hi, ta}
  Operator = en
  FirstVisitors = {en, hi}
  NoLang = NoLang
  DbMayFail = TRUE
  AdaptersMayRaise = TRUE
  MaxMessages = 2
  MaxSentences = 2
INVARIANTS RepliesWellFormed OneRowPerReply NoOrphanedTasks OneUtterancePerPipeline OperatorReachesVisitor
PROPERTIES EveryUtteranceEnds
