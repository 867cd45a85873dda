---------------------------- MODULE StatSampler ----------------------------
(***************************************************************************)
(* The polling loop of tools/stat_watch.py (lines 91-195): one iteration  *)
(* reads the sysfs statistics files and `ethtool -S` plus `stty size`     *)
(* inside a bare try/except, parses the `key:value` lines, keeps the      *)
(* last value (`stats`) and first value (`session`) of every key, builds  *)
(* the frame `pr`, clears the screen, writes the frame and paces itself   *)
(* to one second.  A SIGINT handler calls sys.exit(0), which raises       *)
(* SystemExit wherever the main thread happens to be.                     *)
(*                                                                         *)
(* Time is counted in half-second ticks; `lag` is now - clock, the only  *)
(* clock quantity the code compares (sleep_time = 1.0 - lag/2 < 0).  It   *)
(* saturates at LagCap = 3: every value above 2 behaves identically.      *)
(***************************************************************************)
EXTENDS Integers, Sequences, FiniteSets, SequencesExt, TLC

CONSTANTS
    SysfsOrder,     \* keys in the order get_sysfs_stats emits them (reversed listdir)
    EthtoolOrder,   \* keys in the order `ethtool -S` prints them
    ONLY_ETHTOOL,   \* the -E flag
    INCL,           \* -f patterns, each given as the set of keys it matches
    EXCL,           \* -x patterns, likewise
    MaxVal,         \* counter values are 0..MaxVal
    Columns,        \* widths `stty size` may report
    ReadOutcomes,   \* subset of {"ok", "sourceError", "noTty"}
    ReadTicks,      \* durations of the read phase, in half seconds
    SigintPossible  \* whether the user may press Ctrl-C

ASSUME ReadOutcomes \subseteq {"ok", "sourceError", "noTty"}
ASSUME ReadTicks \subseteq Nat /\ MaxVal \in Nat /\ Columns \subseteq Nat

VARIABLES
    pc,          \* where the main thread is
    sigint,      \* a SIGINT is pending for the main thread
    stats,       \* dict key -> value at the previous poll
    session,     \* dict key -> value at first sight
    out,         \* the lines read this cycle
    columns,     \* terminal width from stty
    pr,          \* the frame built this cycle: a sequence of rows
    lag,         \* now - clock, in ticks, saturated at LagCap
    warning,     \* "refresh time over 1 sec" was written this cycle
    \* observation (ghost) variables, not program state
    failCause,   \* why the current cycle took the except branch
    prevPoll,    \* <<source, key>> -> value of the last successful poll
    firstPoll    \* <<source, key>> -> value at first sight since the last reset

vars == <<pc, sigint, stats, session, out, columns, pr, lag, warning,
          failCause, prevPoll, firstPoll>>

LagCap == 3
Sat(n) == IF n > LagCap THEN LagCap ELSE n

PCs == {"read", "render", "clear", "write", "sleep",
        "failclear", "failreset", "exited", "crashed"}
Keys == Range(SysfsOrder) \cup Range(EthtoolOrder)
EmptyFn == [k \in {} |-> 0]
PartialFns(D, R) == UNION {[S -> R] : S \in SUBSET D}

SrcKeys ==
    {<<"ethtool", k>> : k \in Range(EthtoolOrder)}
    \cup IF ONLY_ETHTOOL THEN {} ELSE {<<"sysfs", k>> : k \in Range(SysfsOrder)}

Line(src, k, v) == [src |-> src, key |-> k, val |-> v, empty |-> FALSE]
\* `ethtool -S` starts with "NIC statistics:", whose value field is ''.
HeaderLine == [src |-> "ethtool", key |-> "NIC statistics", val |-> 0, empty |-> TRUE]

\* The text `out` (lines 124-130) split into lines (line 150), for counter
\* values v: the sysfs files unless -E, then the ethtool output.
Lines(v) ==
    (IF ONLY_ETHTOOL THEN <<>>
     ELSE [i \in 1..Len(SysfsOrder) |->
              Line("sysfs", SysfsOrder[i], v[<<"sysfs", SysfsOrder[i]>>])])
    \o <<HeaderLine>>
    \o [i \in 1..Len(EthtoolOrder) |->
           Line("ethtool", EthtoolOrder[i], v[<<"ethtool", EthtoolOrder[i]>>])]

\* key_ok: a pattern p matches key k when k \in p (re.search).
KeyOk(k) ==
    IF INCL = {} /\ EXCL = {} THEN TRUE
    ELSE /\ (INCL = {} \/ \E p \in INCL : k \in p)
         /\ \A p \in EXCL : k \notin p

\* int(x / 4) in Python truncates toward zero; \div floors.
Trunc4(x) == IF x >= 0 THEN x \div 4 ELSE -((-x) \div 4)

\* Column widths w (lines 142-145).
Widths(c) ==
    << 26 + Trunc4(c - 80), 13 + Trunc4(c - 80),
       19 + Trunc4(c - 80), 19 + Trunc4(c + 3 - 80) >>

\* The header's str.format (lines 147-149) raises ValueError when a width of
\* a string field is negative: "-" is then read as a sign option.
HeaderFormatOk(c) ==
    LET w == Widths(c) IN w[1] + w[2] - 4 >= 0 /\ w[3] >= 0 /\ w[4] >= 0

\* Mutant of ProcessLine: the `s[1] == ''` test of line 152 dropped.
ProcessLineNoEmptyCheck(acc, l) ==
    IF ~KeyOk(l.key) THEN acc
    ELSE IF l.key \notin DOMAIN acc.stats
    THEN [acc EXCEPT !.stats = (l.key :> l.val) @@ @,
                     !.session = (l.key :> l.val) @@ @]
    ELSE [acc EXCEPT
            !.stats = (l.key :> l.val) @@ @,
            !.pr = IF l.val # 0
                   THEN Append(@, [src |-> l.src, key |-> l.key,
                                   rate |-> l.val - acc.stats[l.key],
                                   session |-> l.val - acc.session[l.key],
                                   total |-> l.val])
                   ELSE @]

\* Mutant of ProcessLine: `stats[key] = value` (line 183) moved inside the
\* `if value != 0` block, so a counter that reads 0 keeps its old value.
ProcessLineStaleZero(acc, l) ==
    IF l.empty \/ ~KeyOk(l.key) THEN acc
    ELSE IF l.key \notin DOMAIN acc.stats
    THEN [acc EXCEPT !.stats = (l.key :> l.val) @@ @,
                     !.session = (l.key :> l.val) @@ @]
    ELSE IF l.val = 0 THEN acc
    ELSE [acc EXCEPT
            !.stats = (l.key :> l.val) @@ @,
            !.pr = Append(@, [src |-> l.src, key |-> l.key,
                              rate |-> l.val - acc.stats[l.key],
                              session |-> l.val - acc.session[l.key],
                              total |-> l.val])]

\* Mutant of ProcessLine: a row only for a counter that changed
\* (`value != stats[key]` for `value != 0` at line 165).
ProcessLineSkipUnchanged(acc, l) ==
    IF l.empty \/ ~KeyOk(l.key) THEN acc
    ELSE IF l.key \notin DOMAIN acc.stats
    THEN [acc EXCEPT !.stats = (l.key :> l.val) @@ @,
                     !.session = (l.key :> l.val) @@ @]
    ELSE [acc EXCEPT
            !.stats = (l.key :> l.val) @@ @,
            !.pr = IF l.val # acc.stats[l.key]
                   THEN Append(@, [src |-> l.src, key |-> l.key,
                                   rate |-> l.val - acc.stats[l.key],
                                   session |-> l.val - acc.session[l.key],
                                   total |-> l.val])
                   ELSE @]

\* One iteration of the per-line loop (lines 150-183) on the accumulator
\* [stats, session, pr].
ProcessLine(acc, l) ==
    IF l.empty \/ ~KeyOk(l.key) THEN acc
    ELSE IF l.key \notin DOMAIN acc.stats
    THEN [acc EXCEPT !.stats = (l.key :> l.val) @@ @,
                     !.session = (l.key :> l.val) @@ @]
    ELSE [acc EXCEPT
            !.stats = (l.key :> l.val) @@ @,
            !.pr = IF l.val # 0
                   THEN Append(@, [src |-> l.src, key |-> l.key,
                                   rate |-> l.val - acc.stats[l.key],
                                   session |-> l.val - acc.session[l.key],
                                   total |-> l.val])
                   ELSE @]

\* The poll as the environment produced it, per source and key.
Sample(lines) ==
    LET ne == {i \in DOMAIN lines : ~lines[i].empty}
    IN [p \in {<<lines[i].src, lines[i].key>> : i \in ne} |->
            lines[CHOOSE i \in ne : <<lines[i].src, lines[i].key>> = p].val]

-----------------------------------------------------------------------------

Init ==
    /\ pc = "read"
    /\ sigint = FALSE
    /\ stats = EmptyFn
    /\ session = EmptyFn
    /\ out = <<>>
    /\ columns = 80
    /\ pr = <<>>
    /\ lag = 0
    /\ warning = FALSE
    /\ failCause = "none"
    /\ prevPoll = EmptyFn
    /\ firstPoll = EmptyFn

\* The try block (lines 123-133): read the sources and the terminal size.
\* Either read may fail; both land in the bare except.
Read ==
    /\ pc = "read" /\ ~sigint
    /\ \E d \in ReadTicks, o \in ReadOutcomes :
        /\ lag' = Sat(lag + d)
        /\ warning' = FALSE
        /\ IF o = "ok"
           THEN /\ \E v \in [SrcKeys -> 0..MaxVal], c \in Columns :
                     out' = Lines(v) /\ columns' = c
                /\ pc' = "render"
                /\ failCause' = "none"
           ELSE /\ pc' = "failclear"
                /\ failCause' = IF o = "sourceError" THEN "source" ELSE "tty"
                /\ UNCHANGED <<out, columns>>
    /\ UNCHANGED <<sigint, stats, session, pr, prevPoll, firstPoll>>

\* Header formatting raises ValueError outside the try: the script dies.
RenderCrash ==
    /\ pc = "render" /\ ~sigint
    /\ ~HeaderFormatOk(columns)
    /\ pc' = "crashed"
    /\ UNCHANGED <<sigint, stats, session, out, columns, pr, lag, warning,
                   failCause, prevPoll, firstPoll>>

\* Lines 142-183: build the header and fold the line loop over `out`.
Render ==
    /\ pc = "render" /\ ~sigint
    /\ HeaderFormatOk(columns)
    /\ LET r == FoldLeft(ProcessLine,
                         [stats |-> stats, session |-> session, pr |-> <<>>],
                         out)
       IN /\ stats' = r.stats
          /\ session' = r.session
          /\ pr' = r.pr
    /\ prevPoll' = Sample(out)
    /\ firstPoll' = firstPoll @@ Sample(out)
    /\ pc' = "clear"
    /\ UNCHANGED <<sigint, out, columns, lag, warning, failCause>>

\* os.system("clear") (line 185).
Clear ==
    /\ pc = "clear" /\ ~sigint
    /\ pc' = "write"
    /\ UNCHANGED <<sigint, stats, session, out, columns, pr, lag, warning,
                   failCause, prevPoll, firstPoll>>

\* Lines 186-195: write the frame, then warn and rebase the clock when
\* sleep_time < 0, else sleep.
Write ==
    /\ pc = "write" /\ ~sigint
    /\ IF lag > 2
       THEN /\ warning' = TRUE
            /\ lag' = 0
            /\ pc' = "read"
       ELSE /\ pc' = "sleep"
            /\ UNCHANGED <<warning, lag>>
    /\ UNCHANGED <<sigint, stats, session, out, columns, pr,
                   failCause, prevPoll, firstPoll>>

\* time.sleep(sleep_time); clock += 1: the next cycle starts on schedule.
Wake ==
    /\ pc = "sleep" /\ ~sigint
    /\ lag' = 0
    /\ pc' = "read"
    /\ UNCHANGED <<sigint, stats, session, out, columns, pr, warning,
                   failCause, prevPoll, firstPoll>>

\* The except branch's os.system("clear") (line 135).
FailClear ==
    /\ pc = "failclear" /\ ~sigint
    /\ pc' = "failreset"
    /\ UNCHANGED <<sigint, stats, session, out, columns, pr, lag, warning,
                   failCause, prevPoll, firstPoll>>

\* Lines 136-140: report, forget everything, sleep 0.5 s; clock is untouched.
FailReset ==
    /\ pc = "failreset" /\ ~sigint
    /\ stats' = EmptyFn
    /\ session' = EmptyFn
    /\ lag' = Sat(lag + 1)
    /\ pc' = "read"
    /\ prevPoll' = EmptyFn
    /\ firstPoll' = EmptyFn
    /\ UNCHANGED <<sigint, out, columns, pr, warning, failCause>>

\* The user presses Ctrl-C.
Interrupt ==
    /\ SigintPossible
    /\ ~sigint
    /\ pc \notin {"exited", "crashed"}
    /\ sigint' = TRUE
    /\ UNCHANGED <<pc, stats, session, out, columns, pr, lag, warning,
                   failCause, prevPoll, firstPoll>>

\* intr() raises SystemExit inside the try: the bare except (line 134)
\* catches it and the cycle counts as a failed read.
InterruptCaught ==
    /\ sigint /\ pc = "read"
    /\ sigint' = FALSE
    /\ pc' = "failclear"
    /\ failCause' = "interrupt"
    /\ UNCHANGED <<stats, session, out, columns, pr, lag, warning,
                   prevPoll, firstPoll>>

\* system(3) ignores SIGINT in the caller while `clear` runs: it is lost.
InterruptIgnored ==
    /\ sigint /\ pc \in {"clear", "failclear"}
    /\ sigint' = FALSE
    /\ UNCHANGED <<pc, stats, session, out, columns, pr, lag, warning,
                   failCause, prevPoll, firstPoll>>

\* Anywhere else SystemExit ends the process (lines 19-21).
InterruptExit ==
    /\ sigint /\ pc \in {"render", "write", "sleep", "failreset"}
    /\ sigint' = FALSE
    /\ pc' = "exited"
    /\ UNCHANGED <<stats, session, out, columns, pr, lag, warning,
                   failCause, prevPoll, firstPoll>>

Terminated ==
    /\ pc \in {"exited", "crashed"}
    /\ UNCHANGED vars

Step ==
    \/ Read \/ RenderCrash \/ Render \/ Clear \/ Write \/ Wake
    \/ FailClear \/ FailReset
    \/ InterruptCaught \/ InterruptIgnored \/ InterruptExit

Next == Step \/ Interrupt \/ Terminated

\* The loop is a single thread that is never blocked for good; the user's
\* Ctrl-C is not obliged to happen.
Spec == Init /\ [][Next]_vars /\ WF_vars(Step)

-----------------------------------------------------------------------------

TypeOK ==
    /\ pc \in PCs
    /\ sigint \in BOOLEAN
    /\ stats \in PartialFns(Keys, 0..MaxVal)
    /\ session \in PartialFns(Keys, 0..MaxVal)
    /\ columns \in Columns \cup {80}
    /\ lag \in 0..LagCap
    /\ warning \in BOOLEAN
    /\ failCause \in {"none", "source", "tty", "interrupt"}
    /\ prevPoll \in PartialFns(SrcKeys, 0..MaxVal)
    /\ firstPoll \in PartialFns(SrcKeys, 0..MaxVal)

\* Spec 3 and 8.1, 8.2, 8.5: every row the loop renders is for a counter
\* seen at the previous successful poll; its RATE is the change since that
\* poll and its SESSION the change since the counter was first seen after
\* the last failed read.  Relates the frame (stats/session updates in the
\* line loop, lines 160-183, and the reset at 137-138) to the poll history.
RowsMatchPolls ==
    [][pc = "render" /\ pc' = "clear" =>
        \A i \in DOMAIN pr' :
            LET r == pr'[i]
                p == <<r.src, r.key>>
            IN /\ p \in DOMAIN prevPoll
               /\ r.rate = r.total - prevPoll[p]
               /\ r.session = r.total - firstPoll[p]]_vars

\* The counters the loop shows, in the order it prints them.
ShownOrder ==
    SelectSeq((IF ONLY_ETHTOOL THEN <<>> ELSE SysfsOrder) \o EthtoolOrder, KeyOk)

\* The abstract frame: the rows of pr without their source.
AbstractFrame ==
    [i \in DOMAIN pr |-> [key |-> pr[i].key, rate |-> pr[i].rate,
                          session |-> pr[i].session, total |-> pr[i].total]]

Frames == INSTANCE SamplerFrames
    WITH Order <- ShownOrder, Values <- 0..MaxVal,
         last <- stats, base <- session, frame <- AbstractFrame

\* Refinement: for counter names that are unique across sysfs and ethtool,
\* the loop (the line loop of lines 150-183, the resets of lines 137-138,
\* and everything around them) implements SamplerFrames.  Every rendered
\* frame holds exactly the rows of the counters seen at the previous
\* successful poll that read non-zero now, none missing, none extra, in
\* output order, with RATE and SESSION as SamplerFrames defines them.
ImplementsSamplerFrames == Frames!Spec

\* Spec 7: a SIGINT ends the process with a status line (lines 19-22):
\* once Ctrl-C is pressed the process eventually exits.
InterruptExits == sigint ~> (pc = "exited")

\* Spec 6/7: the terminal width only scales the columns, with 80 as the
\* fallback; no answer of `stty size` (lines 132-133) sends the loop to the
\* read-failed branch or kills it in the header format (lines 142-149).
TerminalSizeIsHarmless ==
    /\ pc # "crashed"
    /\ pc = "failclear" => failCause # "tty"

=============================================================================
