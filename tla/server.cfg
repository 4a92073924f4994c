\* Three commands with at most one crash; requests while one serves. Out of commands: deadlock is an end.
SPECIFICATION ServerSpec
CONSTANTS
    Releases <- MCReleases
    MaxCommands = 3
    MaxCrashes = 1
    Browsers = {c1}
    Scripts = {c2}
    Tokens = {t1, t2}
    NoToken = NoToken
    TTL = 2
    MaxTime = 3
INVARIANTS LoginTypeOK ServesModelsSchema LoginLasts PassedWasLive
PROPERTIES LogoutIsOwn NothingLostUnsaved StartFailsOnlyAfterCrash
CHECK_DEADLOCK FALSE
