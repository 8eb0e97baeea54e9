SPECIFICATION Spec
CONSTANTS
    Calls = {c1, c2}
    Window = 2
    Limit = 1
    Ttl = 2
    Margin = 1
    Waits = {0, 3}
    LongestDelay = 2
    None = none
SYMMETRY Sym
INVARIANT PinnedWhileCalling
