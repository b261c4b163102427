SPECIFICATION Spec
CONSTANTS
  tab1 = tab1  tab2 = tab2  Admins = {tab1, tab2}
  hi = hi  ta = ta  cost = cost  time = time
  a = a  b = b  c = c  d = d  e = e
  Blank = blank  mark = mark  Marks = {mark}  NoMatch = none
  Letters = {a, b, c, d, e}
  Texts <- AllTexts
  Similar <- Alike
  Langs = {hi, ta}
  LangOrder <- Order
  Ids = {cost, time}
  Wordings <- Posts
  Questions <- Asked
  MaxSaves = 3
  MaxEvents = 3
  MaxMigrations = 1
  MaxErrors = 1
SYMMETRY Tabs
CHECK_DEADLOCK FALSE
INVARIANTS WholeWordings SavedMeansServed
PROPERTIES FuzzyIgnoresOrder MoreKeywordsKeepQuestions
