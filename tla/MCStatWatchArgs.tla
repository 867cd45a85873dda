-------------------------- MODULE MCStatWatchArgs --------------------------
(***************************************************************************)
(* Every command line of up to three words over the flags, one pattern   *)
(* word and one interface name, against three counter names.             *)
(***************************************************************************)
EXTENDS StatWatchArgs

Words == {"-E", "-c", "-crx", "-cerr", "-cd", "-f", "-x", "rx", "eth0"}
ArgvUpTo3 == BoundedSeq(Words, 3)

Counters == {"rx_errors", "rx_packets", "tx_packets"}

\* Needles of the COLORS table found in each counter name.
NeedlesOf == [rx_errors |-> {"rx", "error"}, rx_packets |-> {"rx"},
              tx_packets |-> {"tx"}]
MCHasNeedle(k, needle) == needle \in NeedlesOf[k]

\* re.search(p, k): of the words only "rx" matches a counter name.
MCMatches(p, k) == p = "rx" /\ "rx" \in NeedlesOf[k]
=============================================================================
