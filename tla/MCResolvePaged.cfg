CONSTANTS
  None = None
  WorkspaceIDs = {1, 2}
  Products = {"p1", "p2"}
  BaseURLs = {"one", "two"}
  APITokens = {"personal", "product"}
  Files <- PagedFiles
  Bindings <- PagedBindings
  Overrides <- PagedOverrides
  Repositories <- MCRepositories
  Memberships <- PagedMemberships
  Home <- MCHome
  PageSize = 1
SPECIFICATION Spec
INVARIANT E1IsTrue
CHECK_DEADLOCK FALSE
