SPECIFICATION Spec
CONSTANTS
  p1 = p1
  p2 = p2
  Owners = {p1, p2}
  ItemCount = 1
  Prompt = TRUE
INVARIANTS FailedMeansNotPublished
