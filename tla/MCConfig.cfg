SPECIFICATION Spec
CONSTANTS
    nas = nas
    m1 = m1
    m2 = m2
    m3 = m3
    Missing = Missing
    Broken = Broken
    Blank = Blank
    Names <- MCNames
    MACs <- MCMACs
    Files <- MCFiles
    Environments <- MCEnvironments
    Options <- MCOptions
INVARIANTS
    TypeOK
    Precedence
    RunsWhatIsAsked
    DevicesFromOnePlace
    SwitchedOffWithoutFile
