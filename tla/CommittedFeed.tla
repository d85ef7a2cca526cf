---------------------------- MODULE CommittedFeed ----------------------------
(***************************************************************************)
(* What the consumers of application events are promised (event-bus.ts):   *)
(* the events of committed blocks, in block order, each block's events     *)
(* together and at most once.  A block may be skipped, because events live *)
(* in memory only; one that was delivered is never delivered again, and no *)
(* block is delivered after a later one.  Offers archived by one statement *)
(* are announced in any order: RETURNING promises none.                    *)
(***************************************************************************)
EXTENDS Integers, Sequences, SequencesExt, Subsequences

CONSTANT Event     \* events; each has the height "at" of the block it is from

VARIABLES log,         \* the events of the committed blocks
          delivered    \* what the consumers have received

LastAt(seq) == IF seq = <<>> THEN 0 ELSE Last(seq).at

Init == log = <<>> /\ delivered = <<>>

\* A block commits: its events follow those of earlier blocks.
Commit ==
    /\ IsPrefix(log, log')
    /\ \A i \in Len(log) + 1 .. Len(log') :
          log'[i] \in Event /\ log'[i].at > LastAt(log) /\ log'[i].at = LastAt(log')
    /\ UNCHANGED delivered

\* Some later blocks are delivered, whole and in order, the events about each
\* offer in the order they happened.
About(seq, heights, o) == PickSeq(seq, {i \in DOMAIN seq : seq[i].at \in heights /\ seq[i].offer = o})
Deliver ==
    /\ IsPrefix(delivered, delivered')
    /\ \E new \in {SubSeq(delivered', Len(delivered) + 1, Len(delivered'))} :
       \E heights \in {{new[i].at : i \in DOMAIN new}} :
          /\ \A h \in heights : h > LastAt(delivered)
          /\ \A i, j \in DOMAIN new : i < j => new[i].at <= new[j].at
          /\ \A o \in {e.offer : e \in ToSet(new) \cup ToSet(log)} :
                About(new, heights, o) = About(log, heights, o)
    /\ UNCHANGED log

Next == Commit \/ Deliver

Spec == Init /\ [][Next]_<<log, delivered>>
=============================================================================
