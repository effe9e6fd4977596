SPECIFICATION Spec
CONSTANTS
    w1 = w1
    w2 = w2
    root = root
    ann = ann
    bob = bob
    pw = pw
    other = other
    key = key
    s1 = s1
    s2 = s2
    None = none
    Workers <- TwoWorkers
    Names <- ThreeNames
    Passwords <- TwoPasswords
    Keys <- OneKey
    Secrets <- TwoSecrets
    AdminName = root
    AdminPassword = pw
INVARIANTS
    FirstAdminsBounded
    RevokedKeyRefused
PROPERTIES
    RevokedIsFinal
    PasswordKept
