CONSTANTS
    Nfps <- MultiPfNfps
    NetsOf <- MultiPfNets
    BdfOf <- MultiPfBdf
    IslandsOf <- MultiPfIslands
    Ifaces <- HostIfaces
    Releases <- HostReleases
    Levels = {0, 1, 2}
    IfaceArgs = {"", "None", "enp4s0np0"}
    CppStates <- AllCpp
    FlakyCards = {"0000:05:00"}
    Gearbox <- HostGearbox
    XpbTargets <- HostXpb
    NbiTargets <- HostNbi
    RtsymListings <- HostListings
    DevlinkPorts <- MultiPfDevlink
    CopyMayFail <- UbuntuMissing
    SosHosts <- AnySos
SPECIFICATION Spec
INVARIANT BspCardsLoggedOnce ClsLogComplete CommonDataComplete
