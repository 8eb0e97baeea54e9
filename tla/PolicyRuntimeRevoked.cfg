CONSTANTS
    k1 = k1  k2 = k2  fin = fin  hr = hr  finId = finId  hrId = hrId
    Roles = {fin, hr}
    Ids = {finId, hrId}
    Secrets = {k1, k2}
    Subjects = {ann}
    NoSecret = none
    AdminId <- SimpleId
    BrokerId <- SimpleId
    Seeded = TRUE
    Standing <- FinOnly
    Held <- FinHeld
    MaxVersion = 0
    Requests = {q1, q2}
    Calls = {c1, c2}
    Ttl = 1
    MaxLatency = 1
    MaxTime = 2
SYMMETRY Sym
SPECIFICATION Spec
PROPERTIES RevokedOnNextCall
