--------------------------- MODULE MCStatSampler ---------------------------
(***************************************************************************)
(* Instances of StatSampler for TLC.  An NFP vNIC names its `ethtool -S`  *)
(* counters dev_*, so they never collide with the sysfs file names; many  *)
(* other drivers (ixgbe, mlx5) repeat rx_packets and friends in ethtool.  *)
(***************************************************************************)
EXTENDS StatSampler

\* nfp: disjoint key sets; -x tx excludes tx_packets.
NfpSysfs   == <<"tx_packets", "rx_packets">>
NfpEthtool == <<"dev_rx_errors">>
ExcludeTx  == {{"tx_packets"}}

\* A driver whose ethtool -S repeats a sysfs counter name.
SharedSysfs   == <<"rx_packets">>
SharedEthtool == <<"rx_packets">>

AllOutcomes == {"ok", "sourceError", "noTty"}
=============================================================================
