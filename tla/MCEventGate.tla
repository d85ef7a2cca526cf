----------------------------- MODULE MCEventGate -----------------------------
(***************************************************************************)
(* Blocks for EventGate, taken in any order and number: two offers indexed *)
(* together; an offer indexed and consumed in one block, with those whose  *)
(* coin it shares; an offer (or its replay) next to bytes that do not      *)
(* parse and an expiry.                                                    *)
(***************************************************************************)
EXTENDS EventGate

CONSTANTS x, y, z

In(kind, offers) == [kind |-> kind, offers |-> offers]

MCBlocks == {<< In("index", {x}), In("index", {y}) >>,
             << In("index", {z}), In("consume", {x, z}) >>,
             << In("index", {x}), In("malformed", {}), In("expire", {y}) >>}

ASSUME MCBlocksDistinct == DistinctInputs(MCBlocks)

\* Two blobs of one block that do not parse.
JunkBlocks == {<< In("malformed", {}), In("malformed", {}) >>}
=============================================================================
