\* Windows of menus, sliders, toggles and trees, alone and sharing elements.
SPECIFICATION Spec
CONSTANTS
  Windows <- MCWindows
  Type <- MCType
  Loc <- MCLoc
  Readonly <- MCReadonly
  Indices <- MCIndices
  Size <- MCSize
  Values = {0, 1, 2}
  LowValue = 1
  HighValue = 2
INVARIANTS
  FreezesOnlyFor
  EditArrives
CHECK_DEADLOCK FALSE
