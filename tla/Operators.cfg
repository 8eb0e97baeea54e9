CONSTANTS
    fin = fin  hr = hr  finId = finId  hrId = hrId
    Roles = {fin, hr}
    Ids = {finId, hrId}
    Secrets = {k1, k2}
    Subjects = {ann}
    NoSecret = none
    AdminId <- MCAdminId
    Standing <- Vacant
    Held <- Nobody
    Seeded = FALSE
    Mode = "table"
    MaxVersion = 2
    Requests = {q1, q2, q3}
    ConsoleRequests = {q1, q2, q3}
    ConsoleStanding = {main}
    ConsoleSubjects = {bob}
    None = nothing
SYMMETRY SymRequests
SPECIFICATION OperatorsSpec
INVARIANTS TypeOK DocumentsAgree ConsoleTypeOK CredentialBeforeConnection ToldAsDone DuplicatesOnlyInRaces
PROPERTIES RotationBacked BookIsAtomic
