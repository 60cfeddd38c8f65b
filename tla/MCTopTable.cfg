SPECIFICATION TSpec
CONSTANTS
    Name = {1, 2, 3}
    Lower <- LowerCase
    Result <- Results
    Seed <- Two
    Page = {p1}
    Call = {c1, c2}
    None = None
SYMMETRY Symmetry
INVARIANTS
    TTypeOK
    StandingsAddUp
    OwnResultsShown
