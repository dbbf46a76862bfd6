SPECIFICATION Spec
CONSTANTS
  p1 = p1
  p2 = p2
  Proc <- TwoProcs
  HasNas = FALSE
  Archived = FALSE
  Syncs = TRUE
  Forms <- AllForms
SYMMETRY Symmetry
INVARIANTS TypeOK NoServiceBeforeActivation
