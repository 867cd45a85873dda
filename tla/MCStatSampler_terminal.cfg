SPECIFICATION Spec
CONSTANTS
    SysfsOrder <- NfpSysfs
    EthtoolOrder <- NfpEthtool
    ONLY_ETHTOOL = FALSE
    INCL = {}
    EXCL = {}
    MaxVal = 1
    Columns = {0, 80}
    ReadOutcomes = {"ok", "noTty"}
    ReadTicks = {0}
    SigintPossible = FALSE
INVARIANT TerminalSizeIsHarmless
