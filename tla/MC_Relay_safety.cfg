CONSTANTS
    Pars = {p1}
    Links = {l1}
    Assignments = {a1}
    Signers = {root, member, dapp}
    Root = root
    NoSigner = NoSigner
    Versions = {v1, v2}
    NoTemplate = NoTemplate
    Handlers = {h1, h2}
SPECIFICATION Spec
SYMMETRY Symmetry
INVARIANTS
    ExchangeIsSound
    PendingAgrees
    MembershipIsSound
PROPERTIES
    RecordsWhatWasVerified
