SPECIFICATION Spec
ACTION_CONSTRAINT WithinBounds
CONSTANTS
    creature = creature
    charmed = charmed
    player = player
    None = None
    Units <- MCUnits
    PlayerControlled <- MCPlayerControlled
    ThreatOwners <- MCThreatOwners
    Threats <- MCThreats
    SampleThreats <- MCSampleThreats
    MaxTaunts = 1
INVARIANTS
    FlagMatchesReferences
    ReferencesMutual
    ThreatImpliesCombat
    VictimAvailable
    SelectionCorrect
PROPERTIES
    NoIdleSwitch
