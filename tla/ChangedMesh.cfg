SPECIFICATION Spec
CONSTANTS
  Meshes = {m1, m2, m3, m4, m5}
  MeshVars = {Ta, Tb}
  FESpaces = {Va, Wa, Vb}
  Functions = {ua, va, wa, ub}
  Ta = Ta
  Tb = Tb
  Va = Va
  Vb = Vb
  Wa = Wa
  wa = wa
  ua = ua
  va = va
  ub = ub
  MeshOf <- MCMeshOf
  SpaceOf <- MCSpaceOf
  Problems <- CompositeOnly
  MaxMade = 5
  Recycle = TRUE
  None = None
SYMMETRY Addresses
INVARIANT SolvesThisMesh
CHECK_DEADLOCK FALSE
