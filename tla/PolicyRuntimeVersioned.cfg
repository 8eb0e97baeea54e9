CONSTANTS
    k1 = k1  k2 = k2  fin = fin  hr = hr  finId = finId  hrId = hrId
    Roles = {fin}
    Ids = {finId}
    Secrets = {k1}
    Subjects = {ann}
    NoSecret = none
    AdminId <- FinId
    BrokerId <- FinId
    Seeded = FALSE
    Standing <- Vacant
    Held <- Nobody
    MaxVersion = 0
    Requests = {q1, q2}
    Calls = {c1}
    Ttl = 1
    MaxLatency = 1
    MaxTime = 2
SYMMETRY Sym
SPECIFICATION Spec
PROPERTIES QuietGrantAdmits
