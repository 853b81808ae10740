SPECIFICATION Spec
CONSTANTS
    r1 = r1
    r2 = r2
    n1 = n1
    n2 = n2
    n3 = n3
    c1 = c1
    c2 = c2
    c3 = c3
    Runs = {r1, r2}
    Names = {n1, n2}
    Contents = {c1, c2, c3}
    NoFile = NoFile
    Torn = Torn
    Sha256 <- MCSha256
    NoDigest = NoDigest
    Collected <- ClashingCollected
    MaxCrashes = 0
    MaxCopyFaults = 0
INVARIANT
    NoEvidenceLost
CHECK_DEADLOCK FALSE
