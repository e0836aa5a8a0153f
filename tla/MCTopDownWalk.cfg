SPECIFICATION FairSpec
CONSTANTS
    r = r
    a = a
    b = b
    c = c
    Certificate <- MCCertificate
    Anchors <- MCAnchors
    Links <- MCLinks
INVARIANTS OnlyVouchedKeys WalkIsExact
PROPERTY Ends
CHECK_DEADLOCK FALSE
