SPECIFICATION Spec
CONSTANTS
    AES = AES
    RSA = RSA
    DES = DES
    MD5 = MD5
    KeyFile = KeyFile
    fA = fA
    fB = fB
    fO = fO
    pA = pA
    pB = pB
    pO = pO
    pNowhere = pNowhere
    Algorithms = {AES, RSA, DES}
    Names = {AES, RSA, DES, MD5, KeyFile}
    Compatible <- MCCompatible
    FamilyNames = {AES, RSA, DES, MD5}
    Files = {fA, fB, fO}
    Paths = {pA, pB, pO, pNowhere}
    Resolve <- MCResolve
    Unresolved = Unresolved
    NoPath = NoPath
    NoLine = NoLine
    Allowances <- MCAllowances
    Anywhere = Anywhere
    LineTolerance = 2
    GroundTruths <- MCGroundTruths
    Documents <- MCDocuments
    NoReport = NoReport
INVARIANTS
    TypeOK
    ClaimPrecisionBounded
    CreditedNeverCharged
    DependenciesExempt
    VerdictsOrdered
PROPERTIES
    FirstDetectorStays
    ImplementsVerdicts
CHECK_DEADLOCK FALSE
