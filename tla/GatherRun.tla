----------------------------- MODULE GatherRun -----------------------------
(***************************************************************************)
(* main() of tools/nfp_troubleshoot_gather.py (lines 1195-1259) and the   *)
(* phases it calls, for a sequence of invocations on one host that share  *)
(* the log directory.  A run names its output directory after the UTC     *)
(* minute (`date -u +%Y.%m.%d.%H%M`), fills it phase by phase, and ends   *)
(* with `tar -zcvf <outDir>.tar.gz ... --remove-files`.                   *)
(*                                                                         *)
(* The files of a phase are abstracted to one name per phase; a file's    *)
(* content is the set of runs whose data it holds (mode 'w' replaces it,  *)
(* mode 'a' adds to it).  What the host offers a run (root or not, sos,   *)
(* BSP tools, the nfp_dev_cpp parameter, whether nfp-hwinfo answers,     *)
(* whether tar succeeds) is fixed when the run starts.                    *)
(***************************************************************************)
EXTENDS Integers, FiniteSets

CONSTANTS
    Runs,       \* invocations of the script, one after another
    Envs,       \* set of host environments a run may meet
    MaxMinute   \* the clock runs over minutes 0..MaxMinute

VARIABLES
    pc,         \* run -> where its main() is
    env,        \* run -> the host environment it met
    name,       \* run -> minute its outDir is named after, or -1
    dirs,       \* minutes whose outDir exists
    content,    \* minute -> set of <<file, run>> in that outDir
    archives,   \* minutes whose .tar.gz exists
    archive,    \* minute -> set of <<file, run>> in that .tar.gz
    now,        \* the current minute
    wrote       \* run -> files it wrote (observation only)

vars == <<pc, env, name, dirs, content, archives, archive, now, wrote>>

Minutes == 0..MaxMinute
Files == {"script_cmds.log", "common", "ndevs.log", "sos", "self",
          "bsp_fail", "bsp"}
Finished == {"done", "exited", "crashed"}
PCs == {"idle", "args", "tools", "mkdir", "common", "sos", "bsp", "tar"} \cup Finished

\* write_logfile(..., flags) of run r into its outDir.
Put(c, f, r) == {p \in c : p[1] # f} \cup {<<f, r>>}
Add(c, f, r) == c \cup {<<f, r>>}

\* A phase of run r that leaves outDir holding c after writing files fs.
WritePhase(r, c, fs, next) ==
    /\ content' = [content EXCEPT ![name[r]] = c]
    /\ wrote' = [wrote EXCEPT ![r] = @ \cup fs]
    /\ pc' = [pc EXCEPT ![r] = next]
    /\ UNCHANGED <<env, name, dirs, archives, archive, now>>

Goto(r, next) ==
    /\ pc' = [pc EXCEPT ![r] = next]
    /\ UNCHANGED <<env, name, dirs, content, archives, archive, now, wrote>>

-----------------------------------------------------------------------------

Init ==
    /\ pc = [r \in Runs |-> "idle"]
    /\ env = [r \in Runs |-> CHOOSE e \in Envs : TRUE]
    /\ name = [r \in Runs |-> -1]
    /\ dirs = {}
    /\ content = [m \in Minutes |-> {}]
    /\ archives = {}
    /\ archive = [m \in Minutes |-> {}]
    /\ now = 0
    /\ wrote = [r \in Runs |-> {}]

\* The operator starts the script once every earlier run has finished.
Start(r) ==
    /\ pc[r] = "idle"
    /\ \A o \in Runs \ {r} : pc[o] \in Finished \cup {"idle"}
    /\ \E e \in Envs :
        /\ env' = [env EXCEPT ![r] = e]
        /\ pc' = [pc EXCEPT ![r] = "args"]
    /\ UNCHANGED <<name, dirs, content, archives, archive, now, wrote>>

\* parse_cmdline (lines 356-371): an -i interface must exist and carry an
\* NFP vendor id; one without a PCI device has no device/vendor file and
\* open() raises FileNotFoundError.
ParseCmdline(r) ==
    /\ pc[r] = "args"
    /\ Goto(r, CASE env[r].iface \in {"none", "nfp"} -> "tools"
                 [] env[r].iface \in {"missing", "notNfp"} -> "exited"
                 [] env[r].iface = "noDevice" -> "crashed")

\* Lines 1201-1208: tar must be installed.
CheckTools(r) ==
    /\ pc[r] = "tools"
    /\ Goto(r, IF env[r].tar THEN "mkdir" ELSE "exited")

\* Mutant of MakeOutDir: the PermissionError handler without its exit(1).
MakeOutDirNoExit(r) ==
    /\ pc[r] = "mkdir"
    /\ IF env[r].writable
       THEN /\ name' = [name EXCEPT ![r] = now]
            /\ dirs' = dirs \cup {now}
            /\ content' = [content EXCEPT ![now] =
                              IF env[r].root THEN @ ELSE Add(@, "script_cmds.log", r)]
            /\ wrote' = [wrote EXCEPT ![r] =
                              IF env[r].root THEN @ ELSE @ \cup {"script_cmds.log"}]
            /\ pc' = [pc EXCEPT ![r] = "common"]
            /\ UNCHANGED <<env, archives, archive, now>>
       ELSE Goto(r, "common")

\* Lines 1210-1230: outDir from the minute, os.makedirs(exist_ok=True),
\* SCRIPT_LOG, and the "NOT executed as root" line appended to it.
MakeOutDir(r) ==
    /\ pc[r] = "mkdir"
    /\ IF env[r].writable
       THEN /\ name' = [name EXCEPT ![r] = now]
            /\ dirs' = dirs \cup {now}
            /\ content' = [content EXCEPT ![now] =
                              IF env[r].root THEN @ ELSE Add(@, "script_cmds.log", r)]
            /\ wrote' = [wrote EXCEPT ![r] =
                              IF env[r].root THEN @ ELSE @ \cup {"script_cmds.log"}]
            /\ pc' = [pc EXCEPT ![r] = "common"]
            /\ UNCHANGED <<env, archives, archive, now>>
       ELSE Goto(r, "exited")

\* common_data (lines 452-638): fixed logs ('w'), ndevs.log ('a'), the
\* scmd log ('a').
Common(r) ==
    /\ pc[r] = "common"
    /\ WritePhase(r, Add(Add(Put(content[name[r]], "common", r), "ndevs.log", r),
                         "script_cmds.log", r),
                  {"common", "ndevs.log", "script_cmds.log"}, "sos")

\* Lines 1233-1236: sos_data when sos/sosreport exists, else self_data.
SosOrSelf(r) ==
    /\ pc[r] = "sos"
    /\ LET f == IF env[r].sos THEN "sos" ELSE "self"
       IN WritePhase(r, Add(Put(content[name[r]], f, r), "script_cmds.log", r),
                     {f, "script_cmds.log"}, "bsp")

\* Lines 1239-1241: BSP data only as root with the tools installed.
BspSkip(r) ==
    /\ pc[r] = "bsp"
    /\ ~(env[r].root /\ env[r].bspTools)
    /\ Goto(r, "tar")

\* check_cpp_access (lines 871-902) returns False and writes a fail_* file.
BspNoCpp(r) ==
    /\ pc[r] = "bsp"
    /\ env[r].root /\ env[r].bspTools /\ env[r].cpp # "enabled"
    /\ WritePhase(r, Put(content[name[r]], "bsp_fail", r), {"bsp_fail"}, "tar")

\* Mutant of BspCollect: the BSP logs written beside outDir, not into it.
BspCollectOutsideDir(r) ==
    /\ pc[r] = "bsp"
    /\ env[r].root /\ env[r].bspTools /\ env[r].cpp = "enabled"
    /\ env[r].hwinfoOk
    /\ WritePhase(r, Add(content[name[r]], "script_cmds.log", r),
                     {"bsp", "script_cmds.log"}, "tar")

\* collect_bsp_data (lines 1012-1171).
BspCollect(r) ==
    /\ pc[r] = "bsp"
    /\ env[r].root /\ env[r].bspTools /\ env[r].cpp = "enabled"
    /\ env[r].hwinfoOk
    /\ WritePhase(r, Add(Put(content[name[r]], "bsp", r), "script_cmds.log", r),
                     {"bsp", "script_cmds.log"}, "tar")

\* BSP tool output that does not parse raises and nothing catches it:
\* nfp-hwinfo output that does not split as `key=value` (an empty answer
\* of a failed command included) in get_enabled_islands (line 949) or in
\* the hwinfo loop (line 1055), an `nfp-rtsym -L` line that is not four
\* words in parse_rtsym_table (line 982).  hwinfoOk says all of it parses.
BspCrash(r) ==
    /\ pc[r] = "bsp"
    /\ env[r].root /\ env[r].bspTools /\ env[r].cpp = "enabled"
    /\ ~env[r].hwinfoOk
    /\ Goto(r, "crashed")

\* Lines 1247-1258: tar everything in outDir into outDir.tar.gz, which
\* replaces an archive of that name, and remove the directory; chown.
Tar(r) ==
    /\ pc[r] = "tar"
    /\ env[r].tarOk
    /\ archives' = archives \cup {name[r]}
    /\ archive' = [archive EXCEPT ![name[r]] = content[name[r]]]
    /\ dirs' = dirs \ {name[r]}
    /\ content' = [content EXCEPT ![name[r]] = {}]
    /\ pc' = [pc EXCEPT ![r] = "done"]
    /\ UNCHANGED <<env, name, now, wrote>>

\* The tar of line 1248 fails (a full disk, say): scmd, called with its
\* default fail=True, exits with status 1 before "Done" is printed
\* (lines 425-430).  The archive has been created holding the files tar
\* got to, --remove-files has removed those, and the rest stays in outDir.
TarFail(r) ==
    /\ pc[r] = "tar"
    /\ ~env[r].tarOk
    /\ \E put \in SUBSET content[name[r]] :
        /\ archives' = archives \cup {name[r]}
        /\ archive' = [archive EXCEPT ![name[r]] = put]
        /\ content' = [content EXCEPT ![name[r]] = @ \ put]
    /\ pc' = [pc EXCEPT ![r] = "exited"]
    /\ UNCHANGED <<env, name, dirs, now, wrote>>

\* A minute passes.
Tick ==
    /\ now < MaxMinute
    /\ now' = now + 1
    /\ UNCHANGED <<pc, env, name, dirs, content, archives, archive, wrote>>

Step(r) ==
    \/ ParseCmdline(r) \/ CheckTools(r) \/ MakeOutDir(r) \/ Common(r)
    \/ SosOrSelf(r) \/ BspSkip(r) \/ BspNoCpp(r) \/ BspCollect(r)
    \/ BspCrash(r) \/ Tar(r) \/ TarFail(r)

\* Every run has finished and no further minute is modelled.
Quiescent ==
    /\ \A r \in Runs : pc[r] \in Finished
    /\ UNCHANGED vars

Next == (\E r \in Runs : Start(r) \/ Step(r)) \/ Tick \/ Quiescent

\* A started script runs to its end; starting one and the clock are up to
\* the operator and the world.
Spec == Init /\ [][Next]_vars /\ \A r \in Runs : WF_vars(Step(r))

-----------------------------------------------------------------------------

TypeOK ==
    /\ pc \in [Runs -> PCs]
    /\ \A r \in Runs :
         pc[r] \in {"common", "sos", "bsp", "tar", "done"} => name[r] \in Minutes
    /\ dirs \subseteq Minutes /\ archives \subseteq Minutes
    /\ content \in [Minutes -> SUBSET (Files \X Runs)]
    /\ archive \in [Minutes -> SUBSET (Files \X Runs)]
    /\ now \in Minutes
    /\ wrote \in [Runs -> SUBSET Files]

\* Line 1250 prints "Done: <outDir>.tar.gz": every run that printed it has
\* that archive on disk holding everything the run wrote, however many
\* runs follow it.
DoneRunArchived ==
    \A r \in Runs :
        pc[r] = "done" =>
            /\ name[r] \in archives
            /\ \A f \in wrote[r] : <<f, r>> \in archive[name[r]]

\* Spec 1 ("best effort, continue on error"): a run that has created its
\* output directory eventually leaves an archive of it.
RunsFinishArchived ==
    \A r \in Runs : (pc[r] = "common") ~> (pc[r] = "done")

=============================================================================
