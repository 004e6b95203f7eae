SPECIFICATION CiSpec
CONSTANTS
  c1 = c1
  c2 = c2
  a = a
  b = b
  common = common
  fam = fam
  Case = {c1, c2}
  Module = {a, b, common}
  Family = {fam}
  FamilyOf <- MCFamilyOf
  Target <- MCTarget
  Lists <- MCLists
  Imports <- MCImports
  Plain = {"shared", "safe"}
  EditMax = 2
  RequestMax = 1
INVARIANTS
  OneRunPerCommit

