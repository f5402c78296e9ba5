CONSTANTS
  None = None
  WorkspaceIDs = {1, 2}
  Products = {"p1", "p2"}
  BaseURLs = {"one", "two"}
  APITokens = {"personal", "product"}
  Files <- MCFiles
  Bindings <- MCBindings
  Overrides <- MCOverrides
  Repositories <- MCRepositories
  Memberships <- MCMemberships
  Home <- MCHome
  PageSize = 2
SPECIFICATION Spec
INVARIANT TypeOK
INVARIANT LadderFollowed
INVARIANT CredentialFits
INVARIANT ProductTokenNotProbed
INVARIANT LocalWhenPossible
INVARIANT BoundRepositoryNeverMoves
PROPERTY LadderEnds
CHECK_DEADLOCK FALSE
