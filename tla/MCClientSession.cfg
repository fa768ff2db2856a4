SPECIFICATION Spec
CONSTANTS
    ann = ann
    bob = bob
    s1 = s1
    s2 = s2
    Users = {ann, bob}
    Serials = {s1, s2}
    Flows = {"sync", "listener", "login", "oauth", "signout", "api"}
    Null = Null
SYMMETRY Symmetric
INVARIANTS
    OneAccount SlotsAgree
CONSTRAINT Untainted
