--------------------------- MODULE StatWatchArgs ---------------------------
(***************************************************************************)
(* Command-line handling of tools/stat_watch.py (lines 12-103): the argv  *)
(* loop that fills ONLY_ETHTOOL, COLORS, COLOR_DIM, INCL, EXCL and IFC,   *)
(* the usage() exit, and the two consumers of that configuration: the    *)
(* first-match colour lookup of a row (lines 165-170) and key_ok.         *)
(*                                                                         *)
(* A regular expression is abstracted by the keys it matches (Matches),  *)
(* str.find by the needles a key contains (HasNeedle).  The state is just  *)
(* the argv under test; every property quantifies over the parse of it.  *)
(***************************************************************************)
EXTENDS Integers, Sequences, FiniteSets, SequencesExt

CONSTANTS
    Argvs,          \* the argument vectors (sys.argv[1:]) to check
    StatKeys,       \* counter names a row may carry
    HasNeedle(_, _), \* HasNeedle(key, needle): key.find(needle) != -1
    Matches(_, _)   \* Matches(pattern, key): re.search(pattern, key)

VARIABLE argv

DefaultColor == "37m"

\* COLORS.append(...) calls of each colour flag (lines 54-73).
FlagColors ==
    [ c     |-> << <<"discard", "33m">>, <<"drop", "33m">>, <<"error", "31m">>,
                   <<"illegal", "31m">>, <<"fault", "31m">>, <<"rx", "32m">>,
                   <<"tx", "36m">> >>,
      ctx   |-> << <<"tx", "36m">> >>,
      crx   |-> << <<"rx", "32m">> >>,
      cerr  |-> << <<"error", "31m">>, <<"illegal", "31m">>, <<"fault", "31m">> >>,
      cdisc |-> << <<"discard", "33m">>, <<"drop", "33m">> >> ]

FlagName == [f \in {"-ctx", "-crx", "-cerr", "-cdisc"} |->
                CASE f = "-ctx" -> "ctx" [] f = "-crx" -> "crx"
                  [] f = "-cerr" -> "cerr" [] f = "-cdisc" -> "cdisc"]

InitCfg ==
    [status |-> "ok", ONLY_ETHTOOL |-> FALSE, COLORS |-> <<>>,
     COLOR_DIM |-> FALSE, INCL |-> <<>>, EXCL |-> <<>>, IFC |-> "", skip |-> 0]

\* One iteration of the loop of lines 47-86 for argument index i of av.
\* usage() calls sys.exit(1): once status is not "ok" nothing else runs.
\* sys.argv[i + 1] past the end raises IndexError.
ParseArg(av, cfg, i) ==
    LET a == av[i] IN
    IF cfg.status # "ok" THEN cfg
    ELSE IF cfg.skip > 0 THEN [cfg EXCEPT !.skip = @ - 1]
    ELSE IF a = "-E" THEN [cfg EXCEPT !.ONLY_ETHTOOL = TRUE]
    ELSE IF a = "-c" THEN [cfg EXCEPT !.COLOR_DIM = TRUE,
                                      !.COLORS = @ \o FlagColors["c"]]
    ELSE IF a \in DOMAIN FlagName THEN [cfg EXCEPT !.COLORS = @ \o FlagColors[FlagName[a]]]
    ELSE IF a = "-cd" THEN [cfg EXCEPT !.COLOR_DIM = TRUE]
    ELSE IF a \in {"-f", "-x"}
    THEN IF i + 1 > Len(av) THEN [cfg EXCEPT !.status = "indexError"]
         ELSE IF a = "-f" THEN [cfg EXCEPT !.INCL = Append(@, av[i + 1]), !.skip = @ + 1]
         ELSE [cfg EXCEPT !.EXCL = Append(@, av[i + 1]), !.skip = @ + 1]
    ELSE IF cfg.IFC = "" THEN [cfg EXCEPT !.IFC = a]
    ELSE [cfg EXCEPT !.status = "usage"]

\* The whole argument loop followed by `if IFC == '': usage()` (lines 88-89).
Parse(av) ==
    LET cfg == FoldLeftDomain(LAMBDA c, i : ParseArg(av, c, i), InitCfg, av)
    IN IF cfg.status = "ok" /\ cfg.IFC = "" THEN [cfg EXCEPT !.status = "usage"]
       ELSE cfg

\* key_ok (lines 94-103) for the parsed INCL and EXCL lists.
KeyOk(cfg, k) ==
    IF Len(cfg.INCL) = 0 /\ Len(cfg.EXCL) = 0 THEN TRUE
    ELSE /\ (Len(cfg.INCL) = 0 \/ \E i \in DOMAIN cfg.INCL : Matches(cfg.INCL[i], k))
         /\ \A i \in DOMAIN cfg.EXCL : ~Matches(cfg.EXCL[i], k)

\* Lines 166-170: the colour of the first (needle, colour) pair whose needle
\* occurs in the key, else white.
ColorOf(cfg, k) ==
    LET hits == {i \in DOMAIN cfg.COLORS : HasNeedle(k, cfg.COLORS[i][1])}
    IN IF hits = {} THEN DefaultColor
       ELSE cfg.COLORS[CHOOSE i \in hits : \A j \in hits : i <= j][2]

-----------------------------------------------------------------------------

Init == argv \in Argvs
Next == UNCHANGED argv
Spec == Init /\ [][Next]_argv

\* What a run of the tool shows for a configuration: which rows pass the
\* filters and in which colour, whether idle rows dim, the sources used.
Observable(cfg) ==
    [status |-> cfg.status, IFC |-> cfg.IFC, ONLY_ETHTOOL |-> cfg.ONLY_ETHTOOL,
     COLOR_DIM |-> cfg.COLOR_DIM,
     shown |-> {k \in StatKeys : KeyOk(cfg, k)},
     color |-> [k \in StatKeys |-> ColorOf(cfg, k)]]

\* The parameters of an argv: "-f p" and "-x p" travel together.
RECURSIVE Params(_)
Params(av) ==
    IF av = <<>> THEN <<>>
    ELSE IF Head(av) \in {"-f", "-x"} /\ Len(av) >= 2
    THEN << SubSeq(av, 1, 2) >> \o Params(Tail(Tail(av)))
    ELSE << <<Head(av)>> >> \o Params(Tail(av))

SwapAt(s, i) == [s EXCEPT ![i] = s[i + 1], ![i + 1] = s[i]]

\* Spec section 3 (CLI surface) and the usage() text (lines 23-42): a bad
\* command line prints usage and exits with status 1.  Every argv ends either
\* in a configuration or in usage(); none ends in the IndexError that
\* sys.argv[i + 1] raises when -f or -x is the last argument (lines 76-81).
BadArgvEndsInUsage == Parse(argv).status \in {"ok", "usage"}

\* usage() (line 42): "Order of parameters doesn't matter": on a command
\* line the loop accepts, exchanging two neighbouring parameters never
\* changes what the tool shows (colour flags, lines 54-73 and 165-170).
OrderDoesNotMatter ==
    LET ps == Params(argv) IN
    Parse(argv).status = "ok" =>
    \A i \in 1..(Len(ps) - 1) :
        Observable(Parse(FlattenSeq(SwapAt(ps, i)))) = Observable(Parse(argv))

=============================================================================
