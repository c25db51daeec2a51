SPECIFICATION Spec
CONSTANTS
    Users = {u1}
    Passwords = {w1, w2}
    Handshakes = {h1, h2}
    Tokens = {t1, t2}
    SessionIds = {s1, s2}
    Reqs = {r1, r2, r3}
    None = None
    Faults = TRUE
SYMMETRY Symmetry
INVARIANTS HandshakeOpensOnce ResetAppliedOnce ReplyUnlocks NewLinkEndsOlder
