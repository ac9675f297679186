SPECIFICATION GettersSpec
CONSTANTS
    Versions <- GateVersions
    Targets = {0, 1, 3}
PROPERTY RampEndsAtTheTarget
