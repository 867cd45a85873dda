--------------------------- MODULE SamplerFrames ---------------------------
(***************************************************************************)
(* What a frame of stat_watch promises, independent of how the loop is    *)
(* paced, cleared or interrupted.  A frame is produced from one complete  *)
(* poll s of the shown counters: it has one row per counter, in output    *)
(* order, that had a value at the previous successful poll and reads      *)
(* non-zero now.  The row's RATE is the change since that poll and its    *)
(* SESSION the change since the counter was first seen after the last     *)
(* reset.  A failed read forgets both reference points and leaves the     *)
(* frame on the screen as it was.                                         *)
(***************************************************************************)
EXTENDS Integers, Sequences, SequencesExt

CONSTANTS
    Order,      \* the shown counters in output order, each once
    Values      \* the values a counter may read

VARIABLES
    last,       \* counter -> value at the previous successful poll
    base,       \* counter -> value at first sight since the last reset
    frame       \* the rows of the latest frame

vars == <<last, base, frame>>

Shown == Range(Order)
NoValues == [k \in {} |-> 0]

Row(s, k) ==
    [key |-> k, rate |-> s[k] - last[k], session |-> s[k] - base[k],
     total |-> s[k]]

\* The rows a poll s yields.
FrameOf(s) ==
    LET rowKeys == SelectSeq(Order, LAMBDA k : k \in DOMAIN last /\ s[k] # 0)
    IN [i \in DOMAIN rowKeys |-> Row(s, rowKeys[i])]

Init ==
    /\ last = NoValues
    /\ base = NoValues
    /\ frame = <<>>

\* A successful poll renders the frame it yields.
Poll ==
    \E s \in [Shown -> Values] :
        /\ frame' = FrameOf(s)
        /\ last' = s
        /\ base' = base @@ s

\* A failed read forgets every reference point.
Reset ==
    /\ last' = NoValues
    /\ base' = NoValues
    /\ UNCHANGED frame

Next == Poll \/ Reset

\* Nothing obliges the counters to be readable: no fairness.
Spec == Init /\ [][Next]_vars

=============================================================================
