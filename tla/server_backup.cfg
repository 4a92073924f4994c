\* An upgrade that crashes half-way, and the next start.
SPECIFICATION ServerSpec
CONSTANTS
    Releases <- MCReleases
    MaxCommands = 2
    MaxCrashes = 1
    Browsers = {c1}
    Scripts = {c2}
    Tokens = {t1, t2}
    NoToken = NoToken
    TTL = 2
    MaxTime = 1
PROPERTY GoodBackupsStay
CHECK_DEADLOCK FALSE
