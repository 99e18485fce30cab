SPECIFICATION Spec
CONSTANTS
  Meshes = {m1, m2, m3, m4, m5}
  MeshVars = {Ta, Tb}
  FESpaces = {Va, Wa, Vb}
  Functions = {ua, va, wa, ub}
  Ta = Ta
  Tb = Tb
  Va = Va
  Vb = Vb
  Wa = Wa
  wa = wa
  ua = ua
  va = va
  ub = ub
  MeshOf <- MCMeshOf
  SpaceOf <- MCSpaceOf
  Problems <- MCProblems
  MaxMade = 6
  Recycle = FALSE
  None = None
SYMMETRY Addresses
INVARIANTS CountInv SpacesOfCall SolvesThisMesh ValuesFit
CHECK_DEADLOCK FALSE
