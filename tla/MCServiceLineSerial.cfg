SPECIFICATION Spec
CONSTANTS
  p1 = p1
  p2 = p2
  Proc <- OneProc
  HasNas = TRUE
  Archived = FALSE
  Syncs = TRUE
  Forms <- AllForms
INVARIANTS IdleLineIsDark
