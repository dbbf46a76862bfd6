SPECIFICATION Spec
CONSTANTS
  p1 = p1
  p2 = p2
  Proc <- TwoProcs
  HasNas = TRUE
  Archived = FALSE
  Syncs = FALSE
  Forms <- AllForms
PROPERTY CleanupSparesActive
