SPECIFICATION Spec
CONSTANTS
  o1 = o1
  o2 = o2
  k1 = k1
  k2 = k2
  r1 = r1
  r2 = r2
  x1 = x1
  x2 = x2
  NoOrg = NoOrg
  NoName = NoName
  Orgs <- MCOrgs
  Keys <- MCKeys
  Requests <- MCRequests
  Externals <- MCExternals
  MaxUsers = 3
  MaxAdmin = 6
SYMMETRY Symmetry
INVARIANTS
  TotalsCountEveryRequest
  CreditedWithinTheOrganization
  AnswersAreCredited
CHECK_DEADLOCK FALSE
