---------------------------- MODULE MCOfferIndex ----------------------------
(***************************************************************************)
(* Instances of OfferIndex for TLC.                                        *)
(*                                                                         *)
(* Shielded book: a spends one coin; b spends that coin and another, and   *)
(* proves against two roots; c merges a's intent with one of its own, so   *)
(* that it shares a's output under other bytes.                            *)
(* Mixed book: a beside d, which spends u1 and pays out u2, and e, which   *)
(* spends what d pays out.                                                 *)
(***************************************************************************)
EXTENDS OfferIndex, TLC

CONSTANTS a, b, c, d, e,         \* offers
          n1, n2, c1, c2, c3,     \* shielded coins spent and created
          u1, u2, u3              \* unshielded outputs

Shielded == {a, b, c}
ShieldedNulls == (a :> {n1}) @@ (b :> {n1, n2}) @@ (c :> {n1, n2})
ShieldedComms == (a :> {c1}) @@ (b :> {c2}) @@ (c :> {c1, c3})
ShieldedRoots == (a :> {1}) @@ (b :> {1, 2}) @@ (c :> {2})

ShieldedNone == [o \in Shielded |-> {}]

Mixed == {a, d, e}
MixedNulls == (a :> {n1}) @@ (d :> {}) @@ (e :> {})
MixedComms == (a :> {c1}) @@ (d :> {}) @@ (e :> {})
MixedRoots == (a :> {1}) @@ (d :> {}) @@ (e :> {})
MixedSpends == (a :> {}) @@ (d :> {u1}) @@ (e :> {u2})
MixedOuts == (a :> {}) @@ (d :> {u2}) @@ (e :> {u3})
MixedTtls == (a :> {}) @@ (d :> {3, 4}) @@ (e :> {5})

\* What the intent that spends each coin declares.
ShieldedSeal == (a :> (n1 :> {c1})) @@ (b :> ((n1 :> {c2}) @@ (n2 :> {c2})))
                @@ (c :> ((n1 :> {c1}) @@ (n2 :> {c3})))
MixedSeal == (a :> (n1 :> {c1})) @@ (d :> (u1 :> {u2})) @@ (e :> (u2 :> {u3}))

\* Both books meet the hypotheses on intents of the proofs.
ASSUME IntentAssumption ==
    LET seal == IF Valid = Shielded THEN ShieldedSeal ELSE MixedSeal
    IN  /\ Wraps(seal, OfferNulls, OfferComms) /\ Paid(seal, OfferNulls)
        /\ Sealed(seal) /\ Paid(seal, OfferSpends)
=============================================================================
