CONSTANTS
  Calls = {c1, c2, c3}
  Scopes = {"point", "name"}
  TextScopes = {"name"}
  Regions = {"r1", "r2"}
  CatalogRegions = {"r1"}
  Needs <- MCNeeds
  Services <- MCServices
SPECIFICATION Spec
INVARIANTS AskedOnlyWhileUnknown SharingIsInvisible
PROPERTIES EveryCallEnds
