SPECIFICATION Spec
CONSTANTS
    SysfsOrder <- SharedSysfs
    EthtoolOrder <- SharedEthtool
    ONLY_ETHTOOL = FALSE
    INCL = {}
    EXCL = {}
    MaxVal = 1
    Columns = {80}
    ReadOutcomes = {"ok"}
    ReadTicks = {0}
    SigintPossible = FALSE
PROPERTY RowsMatchPolls
