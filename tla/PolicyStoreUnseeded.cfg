CONSTANTS
    fin = fin  hr = hr  finId = finId  hrId = hrId
    Roles = {fin, hr}
    Ids = {finId, hrId}
    Secrets = {k1, k2}
    Subjects = {ann}
    NoSecret = none
    AdminId <- MCAdminId
    Standing <- Vacant
    Held <- Nobody
    Seeded = FALSE
    Mode = "appconfig"
    MaxVersion = 2
    Requests = {q1, q2, q3}
SYMMETRY SymRequests
SPECIFICATION Spec
PROPERTIES StaleNeverStored
