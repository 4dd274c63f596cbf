SPECIFICATION Spec
CONSTANTS
    Node = {n1, n2, n3}
    Nil = Nil
    Value = {v1}
    PreVote = FALSE
    CheckQuorum = TRUE
    MaxInflight = 1
    MaxEntsPerMsg = 2
    MaxUncommitted = 1
    SnapCount = 3
    CatchUp = 0
    MaxTerm = 3
    MaxNet = 1
    MaxProposals = 1
    MaxRestarts = 1
    MaxTransfers = 1
    MaxBeats = 1
SYMMETRY Symmetry
INVARIANTS NoFatal
PROPERTIES CommittedIsStable
CHECK_DEADLOCK FALSE
VIEW LogView
