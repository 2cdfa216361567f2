\* A whole run: five providers, any four faults, an abort at any moment.
CONSTANTS
    pFull = pFull
    pFree = pFree
    pOff = pOff
    pNoDict = pNoDict
    pNoPur = pNoPur
    Order <- MCOrder
    Enabled = {pFull, pFree, pNoDict, pNoPur}
    WithDict = {pFull, pNoPur}
    WithPurchased = {pFull, pOff, pNoDict}
    FreeOnly = {pFree}
    FaultKinds = {"adapter", "tail", "db", "abort"}
    MaxFaults = 4
SPECIFICATION Spec
INVARIANTS ProgressInOrder OutcomeMatchesStages ProvidersAccounted OneLateStep
CHECK_DEADLOCK FALSE
