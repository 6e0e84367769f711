SPECIFICATION Spec
CONSTANTS
  None = None
  Packages = {11, 12, 13, 14}
  Artifacts = {1, 2, 3, 4}
  Apps = {21, 22}
  Root = 0
  TypeOf <- MCTypeOf
  IdOf <- MCIdOf
  VersionOf <- MCVersionOf
  Families <- MCFamilies
  Changes = {1, 2}
  WorkOrders <- MCWorkOrders
INVARIANTS PathsArePreferred NothingAffectedIsOmitted AcceptedIsMature
PROPERTIES SearchesProgress
CHECK_DEADLOCK FALSE
