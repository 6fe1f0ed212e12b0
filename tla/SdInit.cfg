\* Every card, two disturbances.
SPECIFICATION FairSpec
CONSTANTS
    Trials = 3
    MaxFaults = 2
    Csds <- MCCsds
INVARIANTS SuccessIsTrue HealthyCardWorks DialogueInStep
PROPERTIES InitEnds
