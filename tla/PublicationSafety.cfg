SPECIFICATION Spec
CONSTANTS
  p1 = p1
  p2 = p2
  Owners = {p1, p2}
  ItemCount = 2
  Prompt = TRUE
SYMMETRY Symmetry
INVARIANTS TypeOK IInv OneWriter NoDuplicateComments
PROPERTIES ImplementsPublishOnce
