CONSTANTS
  post = post
  put = put
  None = None
  Calls = {post, put}
  Method <- MCMethod
  MaxRetries = 1
SPECIFICATION FairSpec
INVARIANT TypeOK
INVARIANT RetryOnlyWhenAllowed
INVARIANT DuplicateOnlyAfterServerError
INVARIANT NoSilentRevert
PROPERTY NothingSentAfterCancel
PROPERTY EveryCallReturns
PROPERTY ImplementsContract
CHECK_DEADLOCK FALSE
