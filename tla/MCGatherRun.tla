---------------------------- MODULE MCGatherRun ----------------------------
(***************************************************************************)
(* Host environments for GatherRun.                                        *)
(***************************************************************************)
EXTENDS GatherRun

CONSTANTS r1, r2

\* Everything main() can meet on a host: the -i argument, tar, a writable
\* --logdir, root, sos, the BSP tools, the nfp_dev_cpp parameter as
\* check_cpp_access reads it, whether nfp-hwinfo answers and whether the
\* final tar succeeds.
AllHosts == [iface: {"none", "nfp", "missing", "notNfp", "noDevice"},
             tar: BOOLEAN, writable: BOOLEAN, root: BOOLEAN, sos: BOOLEAN,
             bspTools: BOOLEAN,
             cpp: {"moduleMissing", "noParam", "zero", "enabled"},
             hwinfoOk: BOOLEAN, tarOk: BOOLEAN]

\* A root shell on a host with an NFP and the BSP tools, as support asks for.
SupportHost == {h \in AllHosts : h.iface = "nfp" /\ h.tar /\ h.writable /\ h.root
                                 /\ ~h.sos /\ h.bspTools /\ h.cpp = "enabled"
                                 /\ h.tarOk}

\* The same host whether nfp-hwinfo answers or not.
HealthySupportHost == {h \in SupportHost : h.hwinfoOk}
=============================================================================
