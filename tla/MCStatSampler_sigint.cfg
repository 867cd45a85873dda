SPECIFICATION Spec
CONSTANTS
    SysfsOrder <- NfpSysfs
    EthtoolOrder <- NfpEthtool
    ONLY_ETHTOOL = FALSE
    INCL = {}
    EXCL = {}
    MaxVal = 1
    Columns = {80}
    ReadOutcomes = {"ok"}
    ReadTicks = {0}
    SigintPossible = TRUE
PROPERTY InterruptExits
