CONSTANTS
    Nfps <- MultiPfNfps
    NetsOf <- MultiPfNets
    BdfOf <- MultiPfBdf
    IslandsOf <- MultiPfIslands
    Ifaces <- HostIfaces
    Releases <- HostReleases
    Levels = {0}
    IfaceArgs = {"enp4s0np0"}
    CppStates = {"1"}
    FlakyCards = {}
    Gearbox <- NoGearbox
    XpbTargets <- HostXpb
    NbiTargets <- HostNbi
    RtsymListings <- NoFirmwareListing
    DevlinkPorts <- MultiPfDevlink
    CopyMayFail = {}
    SosHosts = {{}}
SPECIFICATION Spec
INVARIANT EveryOutputKept
