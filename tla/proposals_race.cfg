CONSTANTS
    Copayers = {c1}
    RequiredSignatures = 1
    Proposals = {t1, t2}
    Utxos = {u1}
    Requests = {r1, r2, r3}
    Free = Free
    Orphan = Orphan
    None = None
SPECIFICATION Spec
CONSTRAINTS
    NothingSpoiled
    OneAccident
SYMMETRY Interchangeable
INVARIANTS
    InputsReserved
    FreshSelection
CHECK_DEADLOCK FALSE
