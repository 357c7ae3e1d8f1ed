CONSTANTS
  HttpStatuses <- MCHttpStatuses
  Deployments <- MCDeployments
  Requests <- MCRequests
  MaxNames = 2
  MaxCalls = 2
SPECIFICATION Spec
INVARIANTS PassedOverForAReason NotFoundIsAnAnswer
