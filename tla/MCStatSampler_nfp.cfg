SPECIFICATION Spec
CONSTANTS
    SysfsOrder <- NfpSysfs
    EthtoolOrder <- NfpEthtool
    ONLY_ETHTOOL = FALSE
    INCL = {}
    EXCL <- ExcludeTx
    MaxVal = 1
    Columns = {0, 80}
    ReadOutcomes <- AllOutcomes
    ReadTicks = {0, 3}
    SigintPossible = TRUE
INVARIANT TypeOK
PROPERTY RowsMatchPolls ImplementsSamplerFrames
