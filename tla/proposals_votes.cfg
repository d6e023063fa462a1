CONSTANTS
    Copayers = {c1, c2}
    RequiredSignatures = 2
    Proposals = {t1}
    Utxos = {u1}
    Requests = {r1, r2}
    Free = Free
    Orphan = Orphan
    None = None
SPECIFICATION Spec
CONSTRAINT NothingForgotten
SYMMETRY Interchangeable
INVARIANTS
    VotesDecide
    NeverTied
    NetworkQuorum
PROPERTY DecisionsStand
CHECK_DEADLOCK FALSE
