SPECIFICATION FairSpec
CONSTANTS
    Calls = {c1, c2}
    Writes = {c2}
    Injects = {"oauth2cc", "static"}
    SecretTtl = 1
    TokenTtl = 2
    Margin = 1
    MaxTime = 2
    MaxVersion = 2
    MaxTokens = 2
    Rotating = {"static"}
INVARIANTS TypeOK CachesFresh AppliedAtMostOnce RecoveryBefore401
PROPERTY EveryCallAnswered
