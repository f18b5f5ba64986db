\* A web socket and an HTTP request, two operations, both authorizers.
SPECIFICATION FairSpec
CONSTANTS
    None = None
    NaN = NaN
    Error = Error
    Null = Null
    Empty = Empty
    NoPermissions = NoPermissions
    WebSockets = {ws1}
    HttpRequests = {http1}
    Ops = {p1, p2}
    Ids <- MCIds
    HttpId <- MCHttpId
    Authorizers = {"jwt", "dummy"}
    Keys = {0, 1, 2}
    Known <- MCKnown
    Tokens <- MCTokens
    Token <- MCToken
    Requests <- MCRequests
    Posts <- MCPosts
    Queries <- MCQueries
    Document <- MCDocument
    Fields <- MCFields
    Field <- MCField
    Long <- MCLong
    ULong <- MCULong
    Double <- MCDouble
    LevelType <- MCLevelType
    LevelRange <- MCLevelRange
INVARIANTS
    TypeOK
    GrantedOnly
    AppliedInRange
PROPERTIES
    RefusedIsStopped
\* When every connection has ended nothing more comes.
CHECK_DEADLOCK FALSE
