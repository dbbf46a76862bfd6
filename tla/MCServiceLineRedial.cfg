SPECIFICATION Spec
CONSTANTS
  p1 = p1
  p2 = p2
  Proc <- OneProc
  HasNas = FALSE
  Archived = FALSE
  Syncs = FALSE
  Forms <- AllForms
PROPERTY ClosedLineRefusesDial
