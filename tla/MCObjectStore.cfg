SPECIFICATION Spec
CONSTANTS
  j1 = j1
  j2 = j2
  h1 = h1
  h2 = h2
  h3 = h3
  c1 = c1
  c2 = c2
  a1 = a1
  v1 = v1
  v2 = v2
  None = None
  Jobs = {j1}
  Writers = {j1}
  Handlers = {h1, h2}
  JobOf <- MCJobOf
  CAS = {c1, c2}
  Containers = {c2}
  Actions = {a1}
  Results = {v1, v2}
  Closure <- MCClosure
INVARIANT ServedStable
PROPERTIES SavedWhilePersistent ImplementsDurableCache
SYMMETRY HandlerSymmetry
