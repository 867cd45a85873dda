CONSTANTS
    Nfps <- TwoCardNfps
    NetsOf <- TwoCardNets
    BdfOf <- TwoCardBdf
    IslandsOf <- TwoCardIslands
    Ifaces <- HostIfaces
    Releases <- HostReleases
    Levels = {0, 1, 2}
    IfaceArgs = {""}
    CppStates = {"skip"}
    FlakyCards = {}
    Gearbox <- NoGearbox
    XpbTargets <- HostXpb
    NbiTargets <- HostNbi
    RtsymListings <- NoFirmwareListing
    DevlinkPorts <- TwoCardDevlink
    CopyMayFail = {}
    SosHosts = {{}}
SPECIFICATION Spec
INVARIANT NdevsLogListsNetdevs
