# TLA+ models of the NFP diagnostic tools

This directory models the two scripts under `src/tools/`:

* `stat_watch.py`: a terminal loop that polls an interface's counters once a second and renders RATE / SESSION / TOTAL rows.
* `nfp_troubleshoot_gather.py`: a one-shot collector. It shells out to many commands, writes their output into `<logdir>/nfp_troubleshoot_gather_<UTC minute>/`, and tars that directory.

Every definition was translated from the Python source. PROJECT.json's `map` gives the lines each one stands for.

## 1. Inventory of the system

### stat_watch.py (194 lines)

| part | lines | state | operations |
|---|---|---|---|
| argv loop, `usage()` | 25-89 | `ONLY_ETHTOOL`, `COLORS`, `COLOR_DIM`, `INCL`, `EXCL`, `IFC` | one pass over `sys.argv`; `-f`/`-x` consume the next word; `usage()` exits 1 |
| `key_ok` | 94-103 | none | include/exclude fold over compiled regexes |
| sources | 105-133 | none | `get_sysfs_stats` (reversed `listdir`, one file per key), `ethtool -S`, `stty size`, all inside one bare `try` |
| failure branch | 134-140 | `stats`, `session` | `clear`, message, reset both dicts, sleep 0.5 s; `clock` untouched |
| render | 142-183 | `stats`, `session`, `pr` | column widths from `columns`, header `format`, per-line parse, first sight recorded and not rendered, colour lookup, `stats[key] = value` |
| output and pacing | 185-195 | `clock` | `clear`, write frame, sleep to the next second or warn and rebase |
| SIGINT | 19-22 | none | handler prints and raises `SystemExit` wherever the main thread is |

**Interactions.** The configuration the argv loop builds is read by every render. SIGINT interleaves with every phase of the loop. Two facts make that hard: the handler's `SystemExit` is caught by the bare `except` of the read phase, and `os.system` (system(3)) ignores SIGINT in the caller while `clear` runs.

### nfp_troubleshoot_gather.py (1263 lines)

| part | lines | what it changes |
|---|---|---|
| `parse_cmdline` | 336-371 | exits 1 for an unknown `-i` or a non-NFP vendor; `open()` of `device/vendor` raises for a non-PCI interface |
| `get_nfps`, `filter_multi_pf`, `netdev_to_pci` | 374-389, 905-941 | none (pure) |
| `scmd`, `write_logfile` | 409-449 | appends `CMD/RET` to `SCRIPT_LOG` unless it is `''`; writes a file with `'w'` or `'a'` |
| `common_data` | 452-638 | about 40 files in outDir; per NFP: `ndevs.log` (`'a'`), two firmware dumps, **the NFP's dump level** (`ethtool -W`) |
| `sos_data` / `self_data` | 641-868 | sos report, or `ethtool/` and `kernel/` trees (about 60 files) |
| `check_cpp_access` | 871-902 | a `bsp_logs/fail_*` file when CPP access is off |
| `get_enabled_islands`, `parse_rtsym_table`, `filter_xpb_nbi`, `write_rtsym` | 944-1009 | pure parsers (they raise on unexpected text); `write_rtsym` appends |
| `collect_bsp_data` | 1012-1171 | `bsp_logs/*` per card |
| `main` | 1195-1259 | outDir named after `date -u +%Y.%m.%d.%H%M`; phases; `tar ... --remove-files`; `chown` |

**Interactions.** The run is sequential, so the interesting interactions run through the file system:

* between the phases of one run: `'w'` versus `'a'` writes, and the global `SCRIPT_LOG` used by every `scmd`;
* between successive runs that share `--logdir`: the same minute gives the same directory and archive name;
* between a run and the host it reads (root or not, sos, BSP tools, the `nfp_dev_cpp` parameter, how `nfp-hwinfo` answers).

## 2. Modules

| module | models | state (VARIABLES) | actions |
|---|---|---|---|
| `StatSampler` | the polling loop and SIGINT, lines 19-22 and 91-195 | `pc` (read, render, clear, write, sleep, failclear, failreset, exited, crashed), `sigint`, `stats`, `session`, `out`, `columns`, `pr`, `lag` (now - clock in half-second ticks, saturated at 3), `warning`; ghosts `failCause`, `prevPoll`, `firstPoll` | `Read`, `Render`, `RenderCrash`, `Clear`, `Write`, `Wake`, `FailClear`, `FailReset`, `Interrupt` (user), `InterruptCaught`, `InterruptIgnored`, `InterruptExit` |
| `StatWatchArgs` | argv loop, `key_ok`, colour lookup, lines 46-103 and 165-170 | `argv` (constant per behaviour) | operators `ParseArg`, `Parse` (a `FoldLeftDomain` over argv), `KeyOk`, `ColorOf` |
| `GatherRun` | `main()` and its phases, for consecutive invocations sharing `--logdir` | per run `pc`, `env`, `name`; `dirs`, `content`, `archives`, `archive`, `now` (UTC minute); ghost `wrote` | `Start`, `ParseCmdline`, `CheckTools`, `MakeOutDir`, `Common`, `SosOrSelf`, `BspSkip`, `BspNoCpp`, `BspCollect`, `BspCrash`, `Tar`, `TarFail`, `Tick` |
| `SamplerFrames` | what a frame of `stat_watch` promises (abstract, not code) | `last`, `base`, `frame` | `Poll`, `Reset` |
| `GatherLogs` | all of `common_data`, `sos_data` with `get_sosreport_cmd`, `self_data`, `check_cpp_access` and `collect_bsp_data`, for one run | `phase`, `queue` (NFPs in dict order, then the filtered cards), `files` (path to token sequence), `dumpLevel`, `next`, `release`, `pcis` (get_nfps order), `iface` (`args.iface`), `isls` (islands left), ghosts `ran` (outputs produced) and `listing` (what `nfp-rtsym -L` printed) | `Firmware`, `CommonNfp`, `DevlinkList`, `DevInfo`, `FixedLogs`, `Copies`, `SosData`, `NetList`, `Item`, `ItemsDone`, `Eth`, `Kernel`, `Initrd`, `CheckCpp`, `BspCard`, `BspCardCrash`, `BspIface`, `BspIsland`, `IslandsDone`, `Xpb`, `Rtsym` (with `ParseRtsymTable` and the RECURSIVE `HexVal`) |

Each `MC*.tla` module extends its model and defines the instances the `.cfg` files bind: key orders, hosts, and argv sets.

### How the abstractions correspond to the code

* **Counters.** A line of `out` is a record `[src, key, val, empty]`. `Lines(v)` is the text the try block builds: sysfs in reversed listdir order, then the `NIC statistics:` header line of `ethtool -S`, whose value is `''`, then the ethtool counters. A regex is the set of keys it matches.
* **Time.** Only `now - clock` is ever compared, so the model keeps just `lag`. `sleep_time < 0` is `lag > 2`. The failure branch's 0.5 s adds one tick and does not rebase `clock`.
* **Widths.** `Trunc4` is Python's `int(x / 4)`, which truncates toward zero. `HeaderFormatOk` is false exactly when a string field's width is negative. `format` then parses the `-` as a sign option and raises ValueError (confirmed with Python 3 for widths 0..8).
* **Gather files.** In `GatherRun`, a phase's many files are one file name, and a file's content is the set of runs whose data it holds. `Put` replaces (`'w'`) and `Add` appends (`'a'`). `GatherLogs` keeps the real paths and orders: the command tables are the code's, entry by entry.
* **BSP outputs.** A token is the command line `bsp_comand` runs (`<tool> -Z <pci> <options>`), standing for its output. An island's ten ME CSR reads are one token. `filter_multi_pf`'s `split('.')[0]` is the constant `BdfOf`. `get_enabled_islands` is the scan of bits 0..63 of the `chip.island` set, lowest first. The lists `NbiXPB_to_dump` and `rtsyms_to_dump` are cut to their first two entries.
* **Refinement.** `StatSampler` instantiates `SamplerFrames` with `last <- stats`, `base <- session`, and `frame <- pr` without each row's source. `Order` is the shown counters in output order. A `Render` step is a `Poll` of the values read, a `FailReset` step is a `Reset`, and every other step stutters.
* **common_data.** `devlink dev list` prints handles `<bus>/<device>`. The loop of line 499 reads them back from the file, one per line, without the empty line after the final newline. A printed handle is the tokens `<<bus, "/", device>>`, and `PName` is `replace('/', '-')` over the tokens of the line read back; bus and device names hold no `/`. `CommonDataComplete` names the expected file from `DevlinkPorts` directly, so a wrong replace or a wrong read-back shows. Each copy's source may be missing (`CopyMayFail`): `shutil.copy2` then leaves the message in place of the file, and `copytree` leaves an error file inside the directory it makes. A copied tree is one file here.
* **sos.** `SosCmd` prefers `sosreport` to `sos report`, as `get_sosreport_cmd` does. With either, the run writes `loaded_plugins`, builds the report in outDir (one file here) and skips `self_data`.
* **Host.** Everything `main()` learns from the host is one record, fixed when a run starts. The field `hwinfoOk` says whether the BSP tools' answers parse: `nfp-hwinfo` lines split as `key=value`, and `nfp-rtsym -L` rows have four words. The field `tarOk` says whether the final tar succeeds; when it does not, scmd's `fail=True` exits 1 before "Done", with the archive holding some of the files and `--remove-files` having removed those (`TarFail`).

## 3. Runs and what they show

| run | expect | checks | result |
|---|---|---|---|
| `sampler_nfp` | pass | `TypeOK`, `RowsMatchPolls`, `ImplementsSamplerFrames` | NFP vNICs name their ethtool counters `dev_*`, so the names are disjoint. With that, every row's RATE equals its total minus the value of the previous successful poll, and SESSION equals its total minus the value first seen since the last reset. This holds across failures, Ctrl-C, overruns and a 0-column terminal. The loop refines `SamplerFrames`: no row is missing, none is extra, and rows come in output order. 32k states. |
| `sampler_shared_key` | violation | `RowsMatchPolls` | ethtool repeats `rx_packets`. The first poll renders a row whose RATE is ethtool minus sysfs. |
| `sampler_sigint` | violation | `InterruptExits` | A Ctrl-C during `clear` is lost (system(3)). One during the read is swallowed by the bare `except`. The tool keeps running. |
| `sampler_terminal` | violation | `TerminalSizeIsHarmless` | `stty size` = `0 0` (serial console) crashes the header format. A failing stty makes every cycle a "read failed". |
| `args_trailing` | violation | `BadArgvEndsInUsage` | The argv `-f` ends in an IndexError traceback (line 77), not in `usage()`, which the spec's InvalidArgument case and the usage text promise for a bad command line. |
| `args_order` | violation | `OrderDoesNotMatter` | `rx -crx -cerr` colours `rx_errors` green; `rx -cerr -crx` colours it red. |
| `gather_pass` | pass | `TypeOK` | One run against all 5120 host records, a failing tar included. Whenever a phase writes into outDir, the run has named and created it: no phase runs after a failed `makedirs`. |
| `gather_same_minute` | violation | `DoneRunArchived` | Two runs in one minute: the second tar replaces the first run's archive. |
| `gather_bsp_crash` | violation | `RunsFinishArchived` | An unparsable `nfp-hwinfo` answer kills the run before tar. |
| `logs_pass` | pass | `BspCardsLoggedOnce`, `ClsLogComplete`, `CommonDataComplete` | The host has a two-port card whose second PCI function is passed through (no `net/`) and an unbound card whose BSP tools may print nothing. The run covers every walk order, dump levels 0..2, three distributions, every BSP gate, and `-i` absent, bare or a netdev. `collect_bsp_data` dumps each card exactly once, through its first function. The cls log holds each ME island's registers once, lowest island first. With `/var/log/boot.log` and `network-scripts` possibly missing and any set of sos tools, `common_data` leaves a `devlink dev info` file per printed handle, named by the replace of its `/`, and for each copied source either the copy or its error note (`CommonDataComplete`). 85k states. |
| `logs_two_cards` | violation | `NdevsLogListsNetdevs` | Two bound cards: `enp4s0np0enp5s0np0` appears as one line. |
| `logs_self_overwrite` | violation | `EveryOutputKept` | With BSP access and `-i enp4s0np0`, the finished run has lost two things. `ip -6 rule` overwrote `ip -d -6 route show cache` (line 804). The MECSRS file holds only island 48's ME CSRs, because each island's dump replaced the previous one's (`'w'`, line 1127). |

Every property of a passing run has a mutant in PROJECT.json: a plausible bug in a mapped definition that TLC finds. For example, `stats[key] = value` moved inside `if value != 0`, the PermissionError handler without `exit(1)`, or `copytree`'s handler that does not write its error file.

### Bounds

* `MaxVal = 1` already distinguishes equal from changed and zero from non-zero values: the three tests the loop makes. `MaxVal = 2` multiplies the state space (2M states) without adding a case the code treats differently.
* Two sysfs keys and one ethtool key cover an excluded key, an included one, and both sources.
* `Columns = {0, 80}` covers the crash and the normal width.
* `ReadTicks = {0, 3}` covers an on-time cycle and an overrun.
* Argv of up to 3 words covers every pair of flags with an interface, a dangling `-f`/`-x`, and a pattern with its flag. Both `StatWatchArgs` runs are violations, so TLC stops at the first counterexample.
* For the gather tool, one run over every host record covers every branch of `main()`. Two runs and one minute are the smallest case of the name collision. Two NFPs are the smallest case of the ndevs.log merge.
* For `collect_bsp_data`, three functions on two cards are the smallest host where `filter_multi_pf` drops a function and the walk order decides which one. The islands of the code's own `chip.island` example give seven ME islands, so an overwrite between islands shows.
* `SamplerFrames` is checked under the same bounds as `sampler_nfp`: every value of each shown counter in 0..1.

### Fairness

* `StatSampler` has weak fairness on the program's own steps. The loop is one thread that never blocks for good: each sleep ends and each subprocess returns. The user's Ctrl-C (`Interrupt`) has no fairness.
* `GatherRun` has weak fairness on each run's `Step`. A started script runs to its end; there are no timeouts and no waits on anything else. Starting a run and the passing of minutes are up to the operator and the world, so they get no fairness.
* `GatherLogs` and `StatWatchArgs` check only safety. `SamplerFrames` has no fairness: a failing source may keep every poll from succeeding.

## 4. What is not modelled, and the plan

Not modelled:

* Output layout: ANSI colours, thousand separators, padding.
* The text of usage and error messages.
* The rtsym header's size value. `HexVal` parses it as `int(size, 16)` does, but no property reads it.
* The contents of sos reports.
* A `copytree` that fails part way, leaving some files and the error note. The model's failures are a missing source, which copies nothing.
* A rerun in the minute of a run that crashed before tar. Its `copytree` calls then fail on the existing directories (hazard at line 614). `GatherLogs` starts from an empty directory, and `GatherRun` writes `common_data` as one file.
* `chown`.
* The exact wording of what `nfp-rtsym -L` prints besides its table. The model's listings follow the docstring of `parse_rtsym_table`, plus one diagnostic line that is not a table row.
* The remaining 17 entries of `rtsyms_to_dump` and 21 of `NbiXPB_to_dump`. They add tokens, not branches.
* Islands that `ISL_MAP` does not name, and an `nfp_dev_cpp` reading `Y`.  The chips' island layouts and the parameter's declaration are not in the repository.
* What `nfp-reg -l` prints. `XpbCmdList` is modelled, but no run feeds it a repeated Nbi word.

Open work, and why it is not done here:

1. **Concurrent gathers.** Two invocations interleaved phase by phase in one minute, where one run's `tar --remove-files` deletes the other's directory under it. `GatherRun` starts a run only when the others have finished, because the tool is run by hand. The same-minute collision it does check (`gather_same_minute`) is the sequential form of the same defect.
2. **Composition.** `GatherLogs`' phases as the detail of one `GatherRun` run, through a refinement. `GatherRun` fixes the host when a run starts, while `GatherLogs` learns it step by step (sos tools, the CPP gate, tool answers). A mapping would need a prophecy of those later choices.
3. **Stale directories.** `GatherLogs` started on the directory that a crashed run of the same minute left behind (hazard at line 614).
4. **Host errors that end in a traceback.** An `-i` without a PCI device (gather line 364) is modelled as a `crashed` step of `ParseCmdline`. No run checks it: the spec places argument handling of the gather tool out of scope, so there is no promise to check it against.
