----------------------------- MODULE GatherLogs -----------------------------
(***************************************************************************)
(* The log files nfp_troubleshoot_gather.py writes into its output         *)
(* directory: common_data (lines 452-638), self_data                       *)
(* (lines 656-868), check_cpp_access (871-902) and collect_bsp_data        *)
(* (1012-1171), as a sequence of scmd + write_logfile pairs.               *)
(*                                                                         *)
(* A file is a path (a string, as the code builds it) mapped to its        *)
(* content, a sequence of tokens: a netdev name, the newline NL, or the    *)
(* output of a command, represented by the command line itself.            *)
(* write_logfile with 'w' replaces the content, with 'a' appends to it.    *)
(***************************************************************************)
EXTENDS Integers, Sequences, FiniteSets, SequencesExt, TLC

CONSTANTS
    Nfps,       \* PCI addresses get_nfps finds (vendor and device match)
    NetsOf,     \* NFP -> the netdevs listed in its net/ directory, <<>> if unbound
    Ifaces,     \* the names `ls /sys/class/net` prints, in its order
    Releases,   \* what `cat /etc/*release` may print: "CentOS", "Ubuntu", other
    Levels,     \* dump levels an NFP's firmware may have before the run
    BdfOf,      \* NFP -> pci.split('.')[0], the card it is a function of
    IfaceArgs,  \* values args.iface may have: "", "None" (-i alone), a netdev
    CppStates,  \* the BSP gate, see CheckCpp
    FlakyCards, \* cards whose BSP tools may print nothing (hung firmware)
    IslandsOf,  \* NFP -> the island numbers set in its chip.island bitmap
    Gearbox,    \* NFP whose hwinfo has a phy0.mvl5113 key -> its number of
                \* hwinfo keys containing ".nbi"
    XpbTargets, \* "xpb"/"xpbm" -> the words `nfp-reg -l` prints, in order
    NbiTargets, \* those of the words that contain "Nbi"
    RtsymListings,\* what `nfp-rtsym -L` may print, see ParseRtsymTable
    DevlinkPorts, \* `devlink dev list`: the handles, each <<bus, device>>
    CopyMayFail,\* sources of common_data's copies that may be missing
    SosHosts    \* sets of the sos tools ("sosreport", "sos") a host may have

VARIABLES
    phase,      \* where the run is: "firmware" .. "done", or "crashed"
    queue,      \* NFPs the loop of line 471 has yet to visit, in dict order
    files,      \* path -> content
    dumpLevel,  \* NFP -> its ethtool dump level (-W)
    next,       \* index of the next item, eth or kernel command
    release,    \* what `cat /etc/*release` printed
    pcis,       \* get_nfps() in dict order (the same on both calls)
    iface,      \* args.iface
    isls,       \* enabled islands the loop of line 1111 has yet to visit
    ran,        \* ghost: the outputs of the commands run so far
    listing     \* ghost: what `nfp-rtsym -L` printed, <<>> before it ran

vars == <<phase, queue, files, dumpLevel, next, release, pcis, iface, isls, ran,
          listing>>
bspVars == <<pcis, iface, isls, listing>>

NL == "\n"

\* write_logfile(input, path, 'w') and write_logfile(input, path, 'a').
WriteW(fs, p, c) == (p :> c) @@ fs
WriteA(fs, p, c) == (p :> ((IF p \in DOMAIN fs THEN fs[p] ELSE <<>>) \o c)) @@ fs

\* Mutant of Join: the names concatenated without a separator.
JoinNoSep(names) == FlattenSeq([i \in DOMAIN names |-> <<names[i]>>])

\* "\n".join(os.listdir(...)) (lines 481-483).
Join(names) ==
    FoldLeftDomain(LAMBDA acc, i : IF i = 1 THEN <<names[i]>> ELSE acc \o <<NL, names[i]>>,
                   <<>>, names)

\* The lines a reader of a file sees: its content split at NL.
LinesOf(c) ==
    FoldLeft(LAMBDA ls, t : IF t = NL THEN Append(ls, <<>>)
                            ELSE [ls EXCEPT ![Len(ls)] = Append(@, t)],
             << <<>> >>, c)

Content(p) == IF p \in DOMAIN files THEN files[p] ELSE <<>>

\* The text of a line of tokens.
LineText(l) == FoldLeft(LAMBDA a, t : a \o t, "", l)

\* str(get_nfps()) (line 468): the repr of a dict whose values are {}.
PyDictRepr(ps) ==
    "{" \o FoldLeftDomain(LAMBDA a, i : a \o (IF i = 1 THEN "" ELSE ", ")
                                         \o "'" \o ps[i] \o "': {}", "", ps) \o "}"

\* The firmware listings of lines 455-464.
LsFw(d) == "ls -ogR --time-style=+ /" \o d \o "/firmware/netronome/"

\* A devlink handle as `devlink dev list` prints it, <<bus, device>> with
\* the '/' between them a token of its own, and port.replace('/', '-') of
\* a printed line (line 502): bus and device names hold no '/'.
Handle(d) == <<d[1], "/", d[2]>>
PName(l) == LineText([i \in DOMAIN l |-> IF l[i] = "/" THEN "-" ELSE l[i]])

\* The scmd + write_logfile pairs of lines 508-569: command and path.
FixedTable == <<
    <<"sensors -n", "sensors">>, <<"lspci -vvv", "lspci">>,
    <<"lspci -tv", "lspci_tv">>,
    <<"systemctl status firewalld", "systemctl_status_firewalld">>,
    <<"systemctl status irqbalance", "systemctl_status_irqbalance">>,
    <<"lscpu", "lscpu">>, <<"lshw -class network -businfo", "lshw">>,
    <<"ls -l /etc/*release && cat /etc/*release", "etc_release">>,
    <<"numactl --hardware", "numactl_hardware">> >>
\* rpm -qa and dpkg -l (lines 557-569) keep stdout, "\n" and stderr.
PkgTable == << <<"rpm -qa", "rpm_package_list">>, <<"dpkg -l", "deb_package_list">> >>
StdErr(c) == "stderr of " \o c
\* The dmidecode types of lines 572-573.
DmiTypes == <<"bios", "system", "baseboard", "chassis", "processor",
              "memory", "cache", "connector", "slot">>

\* The copies of lines 579-638: source, destination, and for a copytree
\* the name of the error file made inside the destination on failure
\* ("" for a shutil.copy2, whose failure writes the message in place).
CopyTable == <<
    [src |-> "/proc/meminfo", dst |-> "proc_meminfo", err |-> "",
     msg |-> "Error reading /proc/meminfo"],
    [src |-> "/proc/cpuinfo", dst |-> "proc_cpuinfo", err |-> "",
     msg |-> "Error reading /proc/cpuinfo"],
    [src |-> "/var/log/boot.log", dst |-> "boot.log", err |-> "",
     msg |-> "Error reading /var/log/boot.log"],
    [src |-> "~/.bash_history", dst |-> "history", err |-> "",
     msg |-> "~/.bash_history/ not found"],
    [src |-> "/etc/udev/rules.d", dst |-> "etc_udev_rules.d",
     err |-> "udev_rules.d_err", msg |-> "Could not backup /etc/udev/rules.d"],
    [src |-> "/usr/lib/udev/rules.d", dst |-> "usr_lib_udev_rules.d",
     err |-> "usr_udev_rules.d_err", msg |-> "Could not backup /usr/lib/udev/rules.d"],
    [src |-> "/etc/sysconfig/network-scripts", dst |-> "network-scripts",
     err |-> "nscripts_err", msg |-> "Could not backup /etc/sysconfig/network-scripts"] >>

CopyOf(c) == "copy of " \o c.src

\* Mutant of CopyOrNote: the copytree handler makes the directory but
\* writes no error file.
CopyOrNoteNoErrFile(fs, c, failed) ==
    IF ~failed THEN WriteW(fs, c.dst, <<CopyOf(c)>>)
    ELSE IF c.err = "" THEN WriteW(fs, c.dst, <<c.msg>>)
    ELSE fs

\* One try/except of lines 579-638: the copy, or on any exception the
\* message in place of a file, or os.makedirs and the message, with a
\* newline, in the error file inside the destination directory.
CopyOrNote(fs, c, failed) ==
    IF ~failed THEN WriteW(fs, c.dst, <<CopyOf(c)>>)
    ELSE IF c.err = "" THEN WriteW(fs, c.dst, <<c.msg>>)
    ELSE WriteW(fs, c.dst \o "/" \o c.err, <<c.msg, NL>>)

\* The ip/netstat commands of self_data that write into ethtool/ (lines
\* 742-817): command and path, in the code's order.
EthTable == <<
    <<"nstat -zas", "nstat_-zas">>,
    <<"netstat -W -neopa", "netstat_-W_-neopa">>,
    <<"netstat -W -agn", "netstat_-W_-agn">>,
    <<"netstat -s", "netstat_s">>,
    <<"ip -s neigh show", "ip_-s_neigh_show">>,
    <<"ip -s -d link", "ip_-s_-d_link">>,
    <<"ip route show table all", "ip_route_show_table_all">>,
    <<"ip -o addr", "ip_-o_addr">>,
    <<"ip netns", "ip_netns">>,
    <<"ip neigh show nud noarp", "ip_neigh_show_nud_noarp">>,
    <<"ip mroute show", "ip_mroute_show">>,
    <<"ip maddr show", "ip_maddr_show">>,
    <<"ip -d route show cache", "ip_-d_route_show_cache">>,
    <<"ip -d address", "ip_-d_address">>,
    <<"ip -d -6 route show cache", "ip_-d_-6_route_show_cache">>,
    <<"ip -6 rule", "ip_-d_-6_route_show_cache">>,
    <<"ip -6 route show table all", "ip_-6_route_show_table_all">>,
    <<"ip -4 rule", "ip_-4_rule">>,
    <<"ifenslave -a", "ifenslave_-a">> >>

\* The commands of self_data that write into kernel/ (lines 819-857).
KernelTable == <<
    <<"cat /etc/hostname", "etc_hostname.log">>,
    <<"journalctl -k", "journalctl_-k.log">>,
    <<"uname -a", "uname_-a.log">>,
    <<"cat /etc/*release", "etc_release.log">>,
    <<"modinfo nfp", "modinfo_nfp.log">>,
    <<"lsmod", "lsmod.log">>,
    <<"cat /proc/cmdline", "cmdline.log">>,
    <<"ls /sys/bus/pci/drivers/nfp/module/parameters/", "oot_parameters.log">>,
    <<"cat /boot/config-$(uname -r)", "kernel_config.log">> >>

\* The per-interface commands of lines 667-740: the file of interface i
\* is prefix \o i (\o suffix).
ItemFiles == << <<"ethtool", "ethtool_", "">>, <<"ethtool -a", "ethtool_-a_", "">>,
    <<"ethtool -c", "ethtool_-c_", "">>, <<"ethtool -d", "ethtool_-d_", "">>,
    <<"ethtool -k", "ethtool_-k_", "">>, <<"ethtool -i", "ethtool_-i_", "">>,
    <<"ethtool -P", "ethtool_-P_", "">>,
    <<"ethtool --phy-statistics", "ethtool_-phy-statistics_", "">>,
    <<"ethtool -S", "ethtool_-S_", "">>, <<"ethtool -g", "ethtool_-g_", "">>,
    <<"ethtool -T", "ethtool_-T_", "">>, <<"ethtool -m", "ethtool_-m_", "">>,
    <<"ethtool --show-eee", "ethtool_-show-eee_", "">>,
    <<"ethtool --show-fec", "ethtool_-show-fec_", "">>,
    <<"ethtool --show-priv-flags", "ethtool_-show-priv-flags_", "">>,
    <<"tc -s filter show dev", "tc_-s_filter_", "">>,
    <<"tc -s filter show dev", "tc_-s_filter_", "_ingress">> >>

\* ISL_MAP (lines 20-44): island number -> <<name, number of MEs>>.
ISL_MAP ==
    (1 :> <<"ARM", 4>>) @@ (4 :> <<"PCIe0", 4>>) @@ (5 :> <<"PCIe1", 4>>) @@
    (6 :> <<"PCIe2", 4>>) @@ (7 :> <<"PCIe3", 4>>) @@ (8 :> <<"NBI0", 0>>) @@
    (9 :> <<"NBI1", 0>>) @@ (12 :> <<"Crypto0", 8>>) @@ (13 :> <<"Crypto1", 8>>) @@
    (24 :> <<"ExternalMUEng0", 0>>) @@ (25 :> <<"ExternalMUEng1", 0>>) @@
    (26 :> <<"ExternalMUEng2", 0>>) @@ (28 :> <<"InternalMUEng0", 0>>) @@
    (29 :> <<"InternalMUEng1", 0>>) @@ (32 :> <<"MECl0", 12>>) @@
    (33 :> <<"MECl1", 12>>) @@ (34 :> <<"MECl2", 12>>) @@ (35 :> <<"MECl3", 12>>) @@
    (36 :> <<"MECl4", 12>>) @@ (37 :> <<"MECl5", 12>>) @@ (38 :> <<"MECl6", 12>>) @@
    (48 :> <<"Interlaken-LA0", 4>>) @@ (49 :> <<"Interlaken-LA1", 4>>)

\* The generic BSP commands of lines 1024-1034: tool and options.
BspCmds == << <<"nfp-arm", "-D">>, <<"nfp-fis", "-b1 list">>, <<"nfp-hwinfo", "">>,
    <<"nfp-media", "">>, <<"nfp-nsp", "-E">>, <<"nfp-phymod", "">>,
    <<"nfp-res", "-L">>, <<"nfp-temp", "">>, <<"nic-power", "">> >>

\* The first two of NbiXPB_to_dump (lines 288-299) and rtsyms_to_dump.
NbiXPB_to_dump == <<"TrafficManager.SchedulerL1Deficit", "TrafficManager.SchedulerL1Weight">>
RtsymsToDump == <<"BLM_0_ISLAND_ID", "MAP_CMSG_Q_BASE">>

\* The command line bsp_comand (lines 439-443) runs; its output is
\* represented by it.  An island's ten ME CSR reads (lines 1119-1125) are
\* one token.
Bsp(pci, tool, opt) == tool \o " -Z " \o pci \o " " \o opt
Mecsr(pci, isl) == Bsp(pci, "nfp-reg", "mecsr:i" \o ToString(isl))
Cls(pci, isl) == Bsp(pci, "nfp-reg", "cls:i" \o ToString(isl))

\* The file of a generic command (lines 1037-1040).
BspCmdPath(pci, c) ==
    "bsp_logs/" \o pci \o "_" \o c[1] \o (IF c[2] = "" THEN "" ELSE "_" \o c[2])
IslandsPath(pci) == "bsp_logs/" \o pci \o "_islands"
\* The files of the netdev part, named after ndev_pci and the netdev.
NdevPath(pci, n, suffix) == "bsp_logs/" \o pci \o "_" \o n \o "_" \o suffix

\* get_enabled_islands (944-959): the positions of the set bits of the
\* chip.island bitmap, scanning "{:b}" backwards, i.e. lowest bit first.
\* Island numbers are below 64.
EnabledIslands(pci) == SelectSeq([i \in 1..64 |-> i - 1], LAMBDA n : n \in IslandsOf[pci])

\* Mutant of FilterMultiPf: cards told apart by the whole address.
FilterMultiPfByAddress(ps) ==
    FoldLeft(LAMBDA acc, p : IF p \in Range(acc) THEN acc ELSE Append(acc, p), <<>>, ps)

\* filter_multi_pf (905-929): the first function of every card.
FilterMultiPf(ps) ==
    FoldLeft(LAMBDA acc, p : IF BdfOf[p] \in {BdfOf[q] : q \in Range(acc)}
                             THEN acc ELSE Append(acc, p),
             <<>>, ps)

\* netdev_to_pci (932-941) followed by the `in all_nfp_pcis` test of line
\* 1092: the NFP whose net/ lists the netdev, "none" when readlink fails
\* ("None", not a PCI netdev) or the device is no NFP of get_nfps.
NdevPci(n) ==
    IF \E p \in Nfps : n \in Range(NetsOf[p])
    THEN CHOOSE p \in Nfps : n \in Range(NetsOf[p]) ELSE "none"

\* The cmd_list of lines 1142-1154 for the words of `nfp-reg -l x`: Nbi
\* words dropped for xpbm and expanded by filter_xpb_nbi (991-1001) for
\* xpb, other words kept once.
XpbCmdList(words, x) ==
    FoldLeft(LAMBDA acc, w :
                 IF w \in NbiTargets /\ x = "xpbm" THEN acc
                 ELSE IF w \in NbiTargets
                 THEN acc \o [i \in DOMAIN NbiXPB_to_dump |->
                                  w \o "NbiTopXpbMap." \o NbiXPB_to_dump[i]]
                 ELSE IF w \in Range(acc) THEN acc ELSE Append(acc, w),
             <<>>, words)

\* The fail_* file of check_cpp_access (lines 880-895): a missing
\* parameter or a zero value names a file, and a missing module
\* overrides either.
CppFailPath(c) ==
    "bsp_logs/" \o (IF c = "noModule" THEN "fail_module_not_loaded"
                    ELSE IF c = "noParam" THEN "fail_intree_module"
                    ELSE "fail_cpp_not_enabled")

-----------------------------------------------------------------------------

\* `nfp-rtsym -L` output is given after strip().split("\n"), each line
\* as its strip().split() words; the size word is its hex digits.  An
\* empty output is one line without words.

\* int(size, 16) (line 986).
RECURSIVE HexVal(_)
HexVal(ds) == IF ds = <<>> THEN 0 ELSE 16 * HexVal(Front(ds)) + Last(ds)

\* Every line after the heading unpacks into four names (line 982).
RtsymLinesOk(out) == \A i \in 2..Len(out) : Len(out[i]) = 4

\* parse_rtsym_table (960-985): name -> resource, address, size; a name
\* listed twice keeps its last line.
ParseRtsymTable(out) ==
    FoldLeft(LAMBDA d, l : (l[1] :> [res |-> l[2], addr |-> l[3], size |-> HexVal(l[4])]) @@ d,
             [n \in {} |-> 0], Tail(out))

\* The header write_rtsym appends before the value (line 1006).
RtsymHead(sym, size) == "rtsym=" \o sym \o ",size=" \o ToString(size)

\* Mutant of DevPortLines: the file split at "\n", as out.split('\n')
\* would, which yields an empty last line.
DevPortLinesSplit == LinesOf(Content("devlink_dev_list"))

\* `for port in f` over devlink_dev_list (lines 499-501): its lines, without
\* the empty one after a final newline.
DevPortLines ==
    LET ls == LinesOf(Content("devlink_dev_list"))
    IN IF ls[Len(ls)] = <<>> THEN SubSeq(ls, 1, Len(ls) - 1) ELSE ls

Init ==
    /\ phase = "firmware"
    /\ pcis \in SetToSeqs(Nfps)
    /\ queue = pcis
    /\ files = <<>>
    /\ dumpLevel \in [Nfps -> Levels]
    /\ next = 1
    /\ release = ""
    /\ iface \in IfaceArgs
    /\ isls = <<>>
    /\ ran = {}
    /\ listing = <<>>

\* Lines 452-468: both firmware listings, and str(get_nfps()).
Firmware ==
    /\ phase = "firmware"
    /\ files' = WriteW(WriteW(WriteW(files, "lib_firmware.log", <<LsFw("lib")>>),
                              "opt_firmware.log", <<LsFw("opt")>>),
                       "nfp_pcis.log", <<PyDictRepr(pcis)>>)
    /\ ran' = ran \cup {LsFw("lib"), LsFw("opt")}
    /\ phase' = "nfps"
    /\ UNCHANGED <<queue, dumpLevel, next, release>> /\ UNCHANGED bspVars

\* One iteration of the loop of lines 471-492 for the next NFP: an NFP
\* without net/ gets a <pci>_no_netdevs file; otherwise its netdevs are
\* appended to ndevs.log and the first one's dump is taken at level 0 and
\* level 1 (ethtool -W sets the level, ethtool -w writes the dump).
CommonNfp ==
    /\ phase = "nfps" /\ queue # <<>>
    /\ LET pci == Head(queue)
           nets == NetsOf[pci]
           ndev == nets[1]
       IN IF nets = <<>>
          THEN /\ files' = WriteW(files, pci \o "_no_netdevs", <<"no netdevs">>)
               /\ UNCHANGED dumpLevel
          ELSE /\ files' = WriteW(WriteW(WriteA(files, "ndevs.log", Join(nets)),
                                         "ethtool_" \o ndev \o "_debug_L0.dat", <<"ethtool -w " \o ndev \o " data (level 0)">>),
                                  "ethtool_" \o ndev \o "_debug_L1.dat", <<"ethtool -w " \o ndev \o " data (level 1)">>)
               /\ dumpLevel' = [dumpLevel EXCEPT ![pci] = 1]
    /\ queue' = Tail(queue)
    /\ UNCHANGED <<phase, next, release, ran>> /\ UNCHANGED bspVars

\* Lines 494-497: `devlink dev list` into devlink_dev_list, one handle a
\* line.
DevlinkList ==
    /\ phase = "nfps" /\ queue = <<>>
    /\ files' = WriteW(files, "devlink_dev_list",
                       FlattenSeq([i \in DOMAIN DevlinkPorts |-> Handle(DevlinkPorts[i]) \o <<NL>>]))
    /\ phase' = "devinfo" /\ next' = 1
    /\ UNCHANGED <<queue, dumpLevel, release, ran>> /\ UNCHANGED bspVars

\* Lines 499-506: `devlink dev info <port>` for the next line of the file.
DevInfo ==
    /\ phase = "devinfo" /\ next <= Len(DevPortLines)
    /\ LET port == LineText(DevPortLines[next]) IN
       /\ files' = WriteW(files, "devlink_dev_info_" \o PName(DevPortLines[next]),
                          <<"devlink dev info " \o port>>)
       /\ ran' = ran \cup {"devlink dev info " \o port}
    /\ next' = next + 1
    /\ UNCHANGED <<phase, queue, dumpLevel, release>> /\ UNCHANGED bspVars

\* Lines 508-577: the fixed commands, the package lists with their
\* stderr, and the nine dmidecode types, each into its own file.
FixedLogs ==
    /\ phase = "devinfo" /\ next > Len(DevPortLines)
    /\ LET fs1 == FoldLeft(LAMBDA fs, c : WriteW(fs, c[2], <<c[1]>>), files, FixedTable)
           fs2 == FoldLeft(LAMBDA fs, c : WriteW(fs, c[2], <<c[1], NL, StdErr(c[1])>>),
                           fs1, PkgTable)
       IN files' = FoldLeft(LAMBDA fs, t : WriteW(fs, "dmidecode_" \o t,
                                                 <<"dmidecode -t " \o t>>),
                            fs2, DmiTypes)
    /\ ran' = ran \cup {c[1] : c \in Range(FixedTable) \cup Range(PkgTable)}
                  \cup {StdErr(c[1]) : c \in Range(PkgTable)}
                  \cup {"dmidecode -t " \o t : t \in Range(DmiTypes)}
    /\ phase' = "copies"
    /\ UNCHANGED <<queue, dumpLevel, next, release>> /\ UNCHANGED bspVars

\* Lines 579-638: the seven copies, any of those whose source may be
\* missing failing.
Copies ==
    /\ phase = "copies"
    /\ \E failed \in SUBSET CopyMayFail :
          /\ files' = FoldLeft(LAMBDA fs, c : CopyOrNote(fs, c, c.src \in failed),
                               files, CopyTable)
          /\ ran' = ran \cup {CopyOf(c) : c \in {c \in Range(CopyTable) : c.src \notin failed}}
    /\ phase' = "sos"
    /\ UNCHANGED <<queue, dumpLevel, next, release>> /\ UNCHANGED bspVars

\* get_sosreport_cmd (lines 1174-1192): sosreport first, then `sos report`.
SosCmd(tools) ==
    IF "sosreport" \in tools THEN "/usr/sbin/sosreport"
    ELSE IF "sos" \in tools THEN "/usr/sbin/sos report" ELSE ""

LoadedPlugins == "-o networking -o logs -o kernel"

\* main() lines 1232-1236 and sos_data (641-653): with a sos tool, the
\* plugin list goes to loaded_plugins and the report is built in outDir
\* (its directory, named by sos, is one file here), and self_data is
\* skipped; without one, self_data runs.
SosData ==
    /\ phase = "sos"
    /\ \E tools \in SosHosts :
          LET cmd == SosCmd(tools) \o " " \o LoadedPlugins \o " --batch --tmp-dir --build"
          IN IF SosCmd(tools) = ""
             THEN phase' = "netlist" /\ UNCHANGED <<files, ran>>
             ELSE /\ files' = WriteW(WriteW(files, "loaded_plugins", <<LoadedPlugins, NL>>),
                                     "sosreport-build", <<cmd>>)
                  /\ ran' = ran \cup {cmd}
                  /\ phase' = "cpp"
    /\ UNCHANGED <<queue, dumpLevel, next, release>> /\ UNCHANGED bspVars

\* self_data lists /sys/class/net into ethtool/net_list (lines 657-663).
NetList ==
    /\ phase = "netlist"
    /\ files' = WriteW(files, "ethtool/net_list", FlattenSeq([i \in DOMAIN Ifaces |-> <<Ifaces[i], NL>>]))
    /\ phase' = "items" /\ next' = 1
    /\ UNCHANGED <<queue, dumpLevel, release, ran>> /\ UNCHANGED bspVars

\* One line of net_list (lines 665-740): the ethtool and tc outputs of it.
Item ==
    /\ phase = "items" /\ next <= Len(Ifaces)
    /\ LET it == Ifaces[next] IN
       files' = FoldLeft(LAMBDA fs, r : WriteW(fs, "ethtool/" \o r[2] \o it \o r[3],
                                               <<r[1] \o " " \o it>>),
                         files, ItemFiles)
    /\ next' = next + 1
    /\ UNCHANGED <<phase, queue, dumpLevel, release, ran>> /\ UNCHANGED bspVars

ItemsDone ==
    /\ phase = "items" /\ next > Len(Ifaces)
    /\ phase' = "eth" /\ next' = 1
    /\ UNCHANGED <<queue, files, dumpLevel, release, ran>> /\ UNCHANGED bspVars

\* One scmd + write_logfile pair of lines 742-817.
Eth ==
    /\ phase = "eth"
    /\ files' = WriteW(files, "ethtool/" \o EthTable[next][2], <<EthTable[next][1]>>)
    /\ IF next = Len(EthTable) THEN phase' = "kernel" /\ next' = 1
       ELSE next' = next + 1 /\ UNCHANGED phase
    /\ ran' = ran \cup {EthTable[next][1]}
    /\ UNCHANGED <<queue, dumpLevel, release>> /\ UNCHANGED bspVars

\* One scmd + write_logfile pair of lines 819-857; `cat /etc/*release`
\* also keeps what it printed.
Kernel ==
    /\ phase = "kernel"
    /\ files' = WriteW(files, "kernel/" \o KernelTable[next][2], <<KernelTable[next][1]>>)
    /\ IF KernelTable[next][1] = "cat /etc/*release"
       THEN \E r \in Releases : release' = r ELSE UNCHANGED release
    /\ IF next = Len(KernelTable) THEN phase' = "release" /\ next' = 1
       ELSE next' = next + 1 /\ UNCHANGED phase
    /\ ran' = ran \cup {KernelTable[next][1]}
    /\ UNCHANGED <<queue, dumpLevel>> /\ UNCHANGED bspVars

\* Lines 859-868: lsinitrd on CentOS, lsinitramfs on Ubuntu.
Initrd ==
    /\ phase = "release"
    /\ files' = CASE release = "CentOS" -> WriteW(files, "kernel/lsinitrd.log", <<"lsinitrd">>)
                  [] release = "Ubuntu" -> WriteW(files, "kernel/lsinitramfs.log",
                                                  <<"lsinitramfs /boot/initrd.img">>)
                  [] OTHER -> files
    /\ phase' = "cpp"
    /\ UNCHANGED <<queue, dumpLevel, next, release, ran>> /\ UNCHANGED bspVars

\* main() lines 1243-1245 and check_cpp_access (871-902).  CppStates
\* holds "skip" (not root, or check_bsp_tools_installed found no tools),
\* "noModule" (no /sys/bus/pci/drivers/nfp/module), "noParam" (a driver
\* without nfp_dev_cpp), or the parameter's text "0" or "1".  Access off
\* writes one fail_* file and the run goes to tar; on, collect_bsp_data
\* starts with filter_multi_pf(get_nfps()).
CheckCpp ==
    /\ phase = "cpp"
    /\ \E c \in CppStates :
        CASE c = "skip" -> phase' = "done" /\ UNCHANGED <<files, queue>>
          [] c = "1" -> phase' = "cards" /\ queue' = FilterMultiPf(pcis)
                        /\ UNCHANGED files
          [] OTHER -> /\ files' = WriteW(files, CppFailPath(c), <<"cpp access off">>)
                      /\ phase' = "done" /\ UNCHANGED queue
    /\ UNCHANGED <<dumpLevel, next, release, ran>> /\ UNCHANGED bspVars

\* The generic BSP outputs of one card (lines 1035-1041).
CardFiles(pci) ==
    FoldLeft(LAMBDA fs, c : WriteW(fs, BspCmdPath(pci, c), <<Bsp(pci, c[1], c[2])>>),
             files, BspCmds)

\* The mdio registers of lines 1064-1072.
MdioCmds == <<"7.0000", "7.0001", "7.0010", "7.0011", "7.0012", "3.F000", "4.F000">>

\* The data of lines 1059-1082: for each register, for each of the n
\* ports counted by the '.nbi' keys, one `nfp-mdio 2 <port> <reg>` line.
MdioData(pci, n) ==
    FoldLeft(LAMBDA d, c : d \o FlattenSeq([p \in 1..n |->
                 <<Bsp(pci, "nfp-mdio", "2 " \o ToString(p - 1) \o " " \o c), NL>>]),
             <<>>, MdioCmds)

\* One card of the loop of lines 1021-1083: the nine generic outputs, the
\* islands file ("," joined ISL_MAP names) and, with a gearbox, the
\* nfp-mdio registers appended to <pci>_mdio.
BspCard ==
    /\ phase = "cards" /\ queue # <<>>
    /\ LET pci == Head(queue)
           names == [i \in DOMAIN EnabledIslands(pci) |-> ISL_MAP[EnabledIslands(pci)[i]][1]]
           fs == WriteW(CardFiles(pci), IslandsPath(pci), names)
       IN /\ files' = IF pci \in DOMAIN Gearbox
                      THEN WriteA(fs, "bsp_logs/" \o pci \o "_mdio", MdioData(pci, Gearbox[pci]))
                      ELSE fs
          /\ ran' = ran \cup {Bsp(pci, c[1], c[2]) : c \in Range(BspCmds)}
                         \cup (IF pci \in DOMAIN Gearbox
                               THEN Range(MdioData(pci, Gearbox[pci])) \ {NL} ELSE {})
    /\ queue' = Tail(queue)
    /\ UNCHANGED <<phase, dumpLevel, next, release>> /\ UNCHANGED bspVars

\* A card whose tools print nothing: after the nine (empty) outputs,
\* ''.split('=')[1] in get_enabled_islands (line 949) raises IndexError,
\* which nothing catches.
BspCardCrash ==
    /\ phase = "cards" /\ queue # <<>>
    /\ BdfOf[Head(queue)] \in FlakyCards
    /\ files' = CardFiles(Head(queue))
    /\ ran' = ran \cup {Bsp(Head(queue), c[1], c[2]) : c \in Range(BspCmds)}
    /\ phase' = "crashed"
    /\ UNCHANGED <<queue, dumpLevel, next, release>> /\ UNCHANGED bspVars

\* Lines 1087-1110: without an interface, or for one that is no NFP
\* netdev, collect_bsp_data returns; otherwise the islands of ndev_pci.
BspIface ==
    /\ phase = "cards" /\ queue = <<>>
    /\ IF iface = "" \/ NdevPci(iface) = "none"
       THEN phase' = "done" /\ UNCHANGED isls
       ELSE phase' = "islands" /\ isls' = EnabledIslands(NdevPci(iface))
    /\ UNCHANGED <<queue, files, dumpLevel, next, release, ran, pcis, iface, listing>>

\* Mutant of IslandWrites: the cls output written with 'w', as MECSRS is.
IslandWritesClsW(fs, pci, n, isl) ==
    WriteW(WriteW(fs, NdevPath(pci, n, "MECSRS"), <<Mecsr(pci, isl)>>),
           NdevPath(pci, n, "cls"), <<Cls(pci, isl)>>)

\* The two writes of an island with MEs (lines 1118-1133): its ten ME CSRs
\* to <ndev_pci>_<netdev>_MECSRS with 'w', its cls registers appended to
\* <ndev_pci>_<netdev>_cls.
IslandWrites(fs, pci, n, isl) ==
    WriteA(WriteW(fs, NdevPath(pci, n, "MECSRS"), <<Mecsr(pci, isl)>>),
           NdevPath(pci, n, "cls"), <<Cls(pci, isl)>>)

\* One island of the loop of lines 1111-1133; islands without MEs are
\* skipped.
BspIsland ==
    /\ phase = "islands" /\ isls # <<>>
    /\ LET isl == Head(isls) IN
       IF ISL_MAP[isl][2] = 0 THEN UNCHANGED <<files, ran>>
       ELSE /\ files' = IslandWrites(files, NdevPci(iface), iface, isl)
            /\ ran' = ran \cup {Mecsr(NdevPci(iface), isl), Cls(NdevPci(iface), isl)}
    /\ isls' = Tail(isls)
    /\ UNCHANGED <<phase, queue, dumpLevel, next, release, pcis, iface, listing>>

IslandsDone ==
    /\ phase = "islands" /\ isls = <<>>
    /\ phase' = "xpb" /\ next' = 1
    /\ UNCHANGED <<queue, files, dumpLevel, release, ran>> /\ UNCHANGED bspVars

\* One pass of the loop of lines 1136-1161 ("xpb", then "xpbm"): every
\* command of the cmd_list is run and appended to <..>_XPBMap / _XPBMMap.
Xpb ==
    /\ phase = "xpb"
    /\ LET x == <<"xpb", "xpbm">>[next]
           path == NdevPath(NdevPci(iface), iface, IF x = "xpb" THEN "XPBMap" ELSE "XPBMMap")
       IN files' = FoldLeft(LAMBDA fs, c : WriteA(fs, path, <<Bsp(NdevPci(iface), "nfp-reg", c)>>),
                            files, XpbCmdList(XpbTargets[x], x))
    /\ IF next = 2 THEN phase' = "rtsym" /\ next' = 1
       ELSE next' = next + 1 /\ UNCHANGED phase
    /\ UNCHANGED <<queue, dumpLevel, release, ran>> /\ UNCHANGED bspVars

\* Lines 1164-1171: parse `nfp-rtsym -L`; a line that does not split
\* into four words raises ValueError, which nothing catches.  Otherwise
\* write_rtsym (1004-1009) appends the header and the value of every
\* symbol of rtsyms_to_dump the table holds, in that list's order.
Rtsym ==
    /\ phase = "rtsym"
    /\ \E out \in RtsymListings :
          LET pci == NdevPci(iface)
              path == NdevPath(pci, iface, "rtsyms")
              dict == ParseRtsymTable(out)
              dump == SelectSeq(RtsymsToDump, LAMBDA sym : sym \in DOMAIN dict)
          IN /\ listing' = out
             /\ IF RtsymLinesOk(out)
                THEN /\ files' = FoldLeft(LAMBDA fs, sym :
                                            WriteA(fs, path, <<RtsymHead(sym, dict[sym].size), NL,
                                                               Bsp(pci, "nfp-rtsym", "-v " \o sym)>>),
                                        files, dump)
                     /\ ran' = ran \cup {Bsp(pci, "nfp-rtsym", "-v " \o dump[i]) : i \in DOMAIN dump}
                     /\ phase' = "done"
                ELSE /\ phase' = "crashed"
                     /\ UNCHANGED <<files, ran>>
    /\ UNCHANGED <<queue, dumpLevel, next, release, pcis, iface, isls>>

\* The run goes on to tar, or has died.
Done ==
    /\ phase \in {"done", "crashed"}
    /\ UNCHANGED vars

Next ==
    \/ Firmware \/ CommonNfp \/ DevlinkList \/ DevInfo \/ FixedLogs \/ Copies
    \/ SosData \/ NetList \/ Item \/ ItemsDone \/ Eth \/ Kernel \/ Initrd
    \/ CheckCpp \/ BspCard \/ BspCardCrash \/ BspIface \/ BspIsland \/ IslandsDone
    \/ Xpb \/ Rtsym \/ Done

Spec == Init /\ [][Next]_vars

-----------------------------------------------------------------------------

TypeOK ==
    /\ phase \in {"firmware", "nfps", "devinfo", "copies", "sos", "netlist", "items", "eth",
                  "kernel", "release", "cpp", "cards",
                  "islands", "xpb", "rtsym", "done", "crashed"}
    /\ DOMAIN files \subseteq STRING
    /\ dumpLevel \in [Nfps -> Levels \cup {1}]
    /\ phase = "items" => next \in 1..(Len(Ifaces) + 1)
    /\ phase = "eth" => next \in DOMAIN EthTable
    /\ phase = "kernel" => next \in DOMAIN KernelTable
    /\ phase = "xpb" => next \in 1..2
    /\ pcis \in Seq(Nfps) /\ iface \in IfaceArgs
    /\ isls \in Seq(DOMAIN ISL_MAP)

\* NFPs the loop of line 471 has visited.
Visited == IF phase \in {"firmware", "nfps"} THEN {p \in Nfps : ~(\E i \in DOMAIN queue : queue[i] = p)} ELSE Nfps

\* ndevs.log (lines 481-483) lists every netdev of every visited bound NFP
\* on a line of its own, and nothing else: a support engineer reads it as
\* the list of NFP netdevs on the host.
NdevsLogListsNetdevs ==
    LET logged == UNION {Range(NetsOf[p]) : p \in Visited}
        lines == IF "ndevs.log" \in DOMAIN files THEN LinesOf(files["ndevs.log"]) ELSE <<>>
    IN {l \in Range(lines) : l # <<>>} = {<<n>> : n \in logged}

\* Every command output the run collects (common_data, self_data and
\* collect_bsp_data) is kept: once the run is done, each is still in some
\* file of the output directory, none replaced by a later write.
EveryOutputKept ==
    phase = "done" =>
        \A t \in ran : \E p \in DOMAIN files : t \in Range(files[p])

\* The cards get_nfps finds, each once: the first function of every card
\* in get_nfps order, by a definition independent of the loop's.
FirstFunctionPerCard ==
    {pcis[i] : i \in {j \in DOMAIN pcis :
                        \A k \in 1..(j - 1) : BdfOf[pcis[k]] # BdfOf[pcis[j]]}}

\* collect_bsp_data (filter_multi_pf, lines 905-929, and the card loop of
\* lines 1021-1083) dumps the BSP state of each card through one PCI
\* function: never two functions of one card, never a function that is
\* not the card's first, and once the card loop is over, every card.
BspCardsLoggedOnce ==
    LET logged == {p \in Nfps : IslandsPath(p) \in DOMAIN files}
    IN /\ logged \subseteq FirstFunctionPerCard
       /\ phase \in {"islands", "xpb", "rtsym"} => logged = FirstFunctionPerCard

\* The islands of the netdev's NFP that have MEs, lowest first.
MeIslands == SelectSeq(EnabledIslands(NdevPci(iface)), LAMBDA x : ISL_MAP[x][2] > 0)

\* After the island loop of lines 1111-1133, the netdev's cls log holds
\* the cls registers of every island with MEs, once each, lowest first:
\* no island's output replaces another's.
ClsLogComplete ==
    phase \in {"xpb", "rtsym"} =>
        Content(NdevPath(NdevPci(iface), iface, "cls"))
            = [i \in DOMAIN MeIslands |-> Cls(NdevPci(iface), MeIslands[i])]

\* Spec 1 ("best effort, continue on error") for common_data (lines
\* 494-638): once it has returned, the output directory holds the `devlink
\* dev info` of every handle `devlink dev list` printed, in the file named
\* after it, and for each of the seven copied sources either the copy or
\* a note saying it could not be read, whichever of them was missing.
CommonDataComplete ==
    phase \notin {"firmware", "nfps", "devinfo", "copies"} =>
        /\ \A d \in Range(DevlinkPorts) :
              Content("devlink_dev_info_" \o d[1] \o "-" \o d[2])
                  = <<"devlink dev info " \o d[1] \o "/" \o d[2]>>
        /\ \A c \in Range(CopyTable) :
              \/ Content(c.dst) \in {<<CopyOf(c)>>, <<c.msg>>}
              \/ c.msg \in Range(Content(c.dst \o "/" \o c.err))

=============================================================================
