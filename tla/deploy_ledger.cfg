CONSTANTS
    Envs <- const_Envs
    Networks <- const_Networks
    Libraries <- const_Libraries
    DVNSets <- const_DVNSets
    NoValue = NoValue
    Idle = Idle
    MaxPending = 3
    MaxUpgrades = 2
SPECIFICATION FairSpec
PROPERTIES
    GetConfigFinishesConfigured
    RerunsConverge
