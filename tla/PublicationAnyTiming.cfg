SPECIFICATION FairSpec
CONSTANTS
  p1 = p1
  p2 = p2
  Owners = {p1, p2}
  ItemCount = 2
  Prompt = FALSE
INVARIANTS SucceededIsPublished SuccessReportIsTrue
PROPERTIES SucceededIsFinal WritesAreFenced InvocationsEnd
