---------------------------- MODULE Subsequences ----------------------------
(***************************************************************************)
(* The elements of a sequence at some of its positions, in their order.    *)
(* The standard SelectSeq is built into the proof system without a         *)
(* definition, so nothing could be proved of it; here it is a recursive    *)
(* function over prefixes.                                                 *)
(***************************************************************************)
EXTENDS Integers, Sequences

PickSeq(seq, at) ==
    LET kept[n \in 0 .. Len(seq)] ==
            IF n = 0 THEN <<>>
            ELSE IF n \in at THEN Append(kept[n - 1], seq[n]) ELSE kept[n - 1]
    IN  kept[Len(seq)]
=============================================================================
