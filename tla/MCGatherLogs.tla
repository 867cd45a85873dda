---------------------------- MODULE MCGatherLogs ----------------------------
(***************************************************************************)
(* Hosts for GatherLogs.                                                   *)
(***************************************************************************)
EXTENDS GatherLogs

\* A two-port Agilio card whose second PCI function is passed through to
\* a VM (no net/), and a second card whose driver is not bound.
MultiPfNfps == {"0000:04:00.0", "0000:04:00.1", "0000:05:00.0"}
MultiPfNets == ("0000:04:00.0" :> <<"enp4s0np0", "enp4s0np1">>)
               @@ ("0000:04:00.1" :> <<>>) @@ ("0000:05:00.0" :> <<>>)
MultiPfBdf == ("0000:04:00.0" :> "0000:04:00") @@ ("0000:04:00.1" :> "0000:04:00")
              @@ ("0000:05:00.0" :> "0000:05:00")

\* Islands: the chip.island example of get_enabled_islands' comment
\* (0x1001f13000112) for the first card, a smaller chip for the second.
DocIslands == {1, 4, 8, 24, 25, 28, 32, 33, 34, 35, 36, 48}
MultiPfIslands == ("0000:04:00.0" :> DocIslands) @@ ("0000:04:00.1" :> DocIslands)
                  @@ ("0000:05:00.0" :> {1, 4, 8, 32})

\* `nfp-reg -l`: an Nbi target and a repeated plain target.
HostXpb == [xpb |-> <<"xpb:Nbi0IsldXpbMap.", "xpb:ArmIsldXpbMap.", "xpb:ArmIsldXpbMap.">>,
            xpbm |-> <<"xpbm:Nbi0IsldXpbmMap.", "xpbm:ArmIsldXpbmMap.">>]
HostNbi == {"xpb:Nbi0IsldXpbMap.", "xpbm:Nbi0IsldXpbmMap."}
RtsymHeading == <<"Name", "Resource", "Address", "Size">>
\* `nfp-rtsym -L`: nothing (no firmware), the docstring's layout with
\* one symbol of rtsyms_to_dump, two of them, one listed twice, and a
\* line that is no table row.
\* The second card has a gearbox and two NBI ports in its hwinfo.
HostGearbox == "0000:05:00.0" :> 2
NoGearbox == [p \in {} |-> 0]

NoFirmwareListing == {<< <<>> >>}
HostListings ==
    { << <<>> >>,
      << RtsymHeading,
         <<"BLM_0_ISLAND_ID", "<generic>", "0x0000000000", <<0, 0, 0, 1>> >>,
         <<"nfd_in_ring_nums0", "<generic>", "0x0000000000", <<0, 0, 1, 0>> >> >>,
      << RtsymHeading,
         <<"MAP_CMSG_Q_BASE", "emem0", "0x0000001000", <<1, 0>> >>,
         <<"BLM_0_ISLAND_ID", "<generic>", "0x0000000000", <<2>> >>,
         <<"MAP_CMSG_Q_BASE", "emem0", "0x0000002000", <<2, 0>> >> >>,
      << RtsymHeading, <<"nfp-rtsym:", "no", "symbol", "table", "found">> >> }

\* Two bound cards, one port each.
TwoCardNfps == {"0000:04:00.0", "0000:05:00.0"}
TwoCardNets == ("0000:04:00.0" :> <<"enp4s0np0">>) @@ ("0000:05:00.0" :> <<"enp5s0np0">>)
TwoCardBdf == ("0000:04:00.0" :> "0000:04:00") @@ ("0000:05:00.0" :> "0000:05:00")
TwoCardIslands == [p \in TwoCardNfps |-> {1, 32}]

\* devlink lists the bound function only.  boot.log and network-scripts
\* are absent on Ubuntu hosts.
MultiPfDevlink == << <<"pci", "0000:04:00.0">> >>
TwoCardDevlink == << <<"pci", "0000:04:00.0">>, <<"pci", "0000:05:00.0">> >>
UbuntuMissing == {"/var/log/boot.log", "/etc/sysconfig/network-scripts"}

\* No sos tool, the newer `sos` alone, both.
AnySos == {{}, {"sos"}, {"sosreport", "sos"}}

HostIfaces == <<"enp4s0np0", "lo">>
HostReleases == {"CentOS", "Ubuntu", "Debian"}
AllCpp == {"skip", "noModule", "noParam", "0", "1"}
=============================================================================
