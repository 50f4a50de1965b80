\* Two operations, two at a time, on two channels, the search and the skills.
SPECIFICATION Spec
CONSTANTS
    Procs = {p1, p2}
    telegram = telegram
    slack = slack
    search = search
    token = token
    allow = allow
    slackToken = slackToken
    Channels = {telegram, slack}
    Search = search
    Skills = skills
    Telegram = telegram
    Kinds = {token, allow, slackToken}
    Owner <- MCOwner
    AllowFrom = allow
    MaxRequests = 2
    None = None
    NoProc = NoProc
SYMMETRY Symmetry
INVARIANTS
    GatewayFollowsRow
    SecretsReachGateway
    ConnectionFollowsRow
PROPERTIES
    OtherColumnKept
