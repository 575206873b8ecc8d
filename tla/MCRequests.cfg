SPECIFICATION Spec
CONSTANTS
    a = a
    b = b
    Nil = Nil
    None = None
    Down = Down
    Slash = "/"
    Marks = {"-", "."}
    Words <- MCWords
    Alphabet <- MCAlphabet
    Names <- MCNames
    StaticAlias <- MCAlias
    StaticIds <- MCStaticIds
    Pages <- MCPages
    DefaultTokens = 4
    maxUpstreamTokens = 5
    defaultTools <- MCDefaultTools
    Clients <- MCClients
    Messages <- MCMessages
    Items <- MCItems
    Inputs <- MCInputs
INVARIANTS
    ResultsFindTheirCall
    CallsSurvive
    BodyIsAccepted
    LimitIsHonoured
    EveryTurnIsKept
    ResolveIsFaithful
    ListedIsServed
PROPERTIES
    RefreshIsSafe
    TurnsKeepTheThread
    CatchesUp
