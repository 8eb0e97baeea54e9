CONSTANTS
    fin = fin  FIN = FIN  hr = hr  f = f  h = h  a = a  b = b
    ann = ann  cli = cli  staff = staff  odd = odd
    Methods = {"GET", "POST"}
    Segments = {f, h, a, b, empty, dots, preflight}
    Empty = empty
    Dots = dots
    Preflight = preflight
    Roles = {fin, FIN, hr}
    Slugs = {f, h}
    Slug <- MCSlug
    Users = {ann}
    Clients = {cli}
    NoOne = nobody
    Groups = {staff}
    OtherGroups = {odd}
    Routing = TRUE
    RoleMaps <- MCRoleMaps
    GrantDocs <- MCGrantDocs
    Principals <- MCPrincipals
    Paths <- MCPaths
SPECIFICATION Spec
INVARIANTS PreflightAligned
