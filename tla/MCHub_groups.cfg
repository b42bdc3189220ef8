CONSTANTS
  default = default
  ops = ops
  Dflt = Dflt
  Ops = Ops
  t1 = t1
  q1 = q1
  q2 = q2
  c1 = c1
  c2 = c2
  None = None
  Groups = {default, ops}
  Default = default
  Names = {Dflt, Ops}
  DefaultName = Dflt
  Fold <- FoldCase
  Tools = {t1}
  Requests = {q1, q2}
  Calls = {c1, c2}
  UseStore = TRUE
  MaxRequests = 2
SPECIFICATION HubSpec
INVARIANTS HubTypeOK  
PROPERTIES BindingsRetained
SYMMETRY Symmetric
CHECK_DEADLOCK FALSE
