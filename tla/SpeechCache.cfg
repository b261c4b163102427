SPECIFICATION Spec
CONSTANTS
  p1 = p1  p2 = p2  sp = sp  wait = wait  five = five  stay = stay  six = six  dot = dot  ask = ask
  Pipelines = {p1, p2}
  Blank = sp
  Marks = {dot, ask}
  FadeSamples = 2
  Questions <- Many
  Translations <- Worded
  Voice <- Samples_
  Missing = missing
  Torn = torn
  MaxTalks = 3
  MaxTears = 1
SYMMETRY PipelineSymmetry
CHECK_DEADLOCK FALSE
INVARIANTS SaysWhatItShows SeamsAreSilent SavedIsNotPaidAgain
