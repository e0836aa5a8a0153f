SPECIFICATION VerificationSpec
CONSTANTS
    R = R
    R2 = R2
    Q = Q
    I = I
    X = X
    L = L
    F = F
    N = N
    U = U
    W = W
    J = J
    K = K
    E = E
    C = C
    V = V
    None = None
    Certificate <- MCCertificate
    X509 <- MCX509
    Anchors <- MCAnchors
    Inputs <- MCOrderInputs
    ClockReadings = {15000, 20001}
    JwsInputs = {}
    JwsClockReadings = {9999, 15000, 20001}
    Renderable <- MCRenderable
    MAX_SIGNER_INFOS = 2
    MAX_EMBEDDED_CERTIFICATES = 3
INVARIANT BagOrderDoesNotDecide
