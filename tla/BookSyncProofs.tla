--------------------------- MODULE BookSyncProofs ---------------------------
(***************************************************************************)
(* What the mirror of the book keeps for any offers and coins, any bounds  *)
(* of buffer and backlog, and any interleaving of the node, the stream,    *)
(* the requests, the timers and the tasks of the solver.                   *)
(*                                                                         *)
(* Neither property is inductive: both speak of moments when nothing is on *)
(* its way, and what makes them true happens before.  MirrorInv says where *)
(* the removal of every mirrored offer is while it is on its way:          *)
(*   Control    the types, the numbers of a subscription, what the solver  *)
(*              knows of its link, the startup buffer, which tasks may     *)
(*              stand in the queue together, and where one may wait;       *)
(*   StreamInv  the node announces an offer before its end, and nothing    *)
(*              overtakes on an unbroken wire;                             *)
(*   BootInv    the startup's snapshot lacks no removal that is neither    *)
(*              buffered, nor drained, nor on its way;                     *)
(*   SyncInv    a mirror that is current, or that an install of this       *)
(*              generation is about to call current, is what a snapshot of *)
(*              this subscription made it: every offer of it is listed, or *)
(*              its removal is on its way, and no event behind the         *)
(*              snapshot brings an offer back for good;                    *)
(*   DrainInv   an offer that a snapshot brought although its removal was  *)
(*              already waiting is removed before the mirror is called     *)
(*              current.                                                   *)
(* Control is kept by itself; the others are proved on top of it, one      *)
(* lemma for each action.                                                  *)
(***************************************************************************)
EXTENDS BookSync, FiniteSetTheorems, WellFoundedInduction, SequenceTheorems, TLAPS

Events == [kind : {"indexed", "consumed", "expired"}, offer : Offers]
Texts == Events \cup {<<>>}
\* What a task or frame that may carry no event removes, and brings in.
Cut(ev) == IF ev = <<>> THEN {} ELSE Removes(ev)
Names(ev, o) == ev # <<>> /\ ev.kind = "indexed" /\ ev.offer = o
Cuts(evs) == UNION {Cut(evs[i]) : i \in 1..Len(evs)}
Evs(s) == [i \in 1..Len(s) |-> s[i].ev]
\* After the first `from`, an event that brings an offer in is followed by one that
\* removes it, unless the offer is safe.
Ordered(evs, from, safe) ==
    \A i \in 1..Len(evs) : \A o \in Offers : i > from /\ Names(evs[i], o) =>
        o \in safe \/ \E j \in 1..Len(evs) : j > i /\ o \in Cut(evs[j])

-----------------------------------------------------------------------------
(* Sequences of events.                                                    *)

LEMMA EventCut ==
    /\ Cut(<<>>) = {} /\ \A o : ~Names(<<>>, o)
    /\ \A ev \in Events : /\ ev # <<>> /\ Cut(ev) = Removes(ev)
                          /\ \A o : Names(ev, o) <=> ev.kind = "indexed" /\ ev.offer = o
    /\ \A ev \in Texts : (\E o : Names(ev, o)) => Cut(ev) = {}
    /\ \A ev \in Texts : Cut(ev) \subseteq Offers
<1>1. Cut(<<>>) = {} /\ \A o : ~Names(<<>>, o)
  BY DEF Cut, Names
<1>2. \A ev \in Events : ev # <<>>
  <2> SUFFICES ASSUME NEW ev \in Events, ev = <<>> PROVE FALSE
    OBVIOUS
  <2>1. DOMAIN ev = {"kind", "offer"}
    BY DEF Events
  <2>2. DOMAIN <<>> = 1..0
    OBVIOUS
  <2> QED BY <2>1, <2>2
<1>3. \A ev \in Events : Cut(ev) = Removes(ev) /\ Removes(ev) \subseteq Offers
  BY <1>2 DEF Cut, Removes, Sharing, Events
<1>4. \A ev \in Events : \A o : Names(ev, o) <=> ev.kind = "indexed" /\ ev.offer = o
  BY <1>2 DEF Names
<1>5. \A ev \in Texts : (\E o : Names(ev, o)) => Cut(ev) = {}
  BY <1>1, <1>3, <1>4 DEF Texts, Removes
<1> QED BY <1>1, <1>2, <1>3, <1>4, <1>5 DEF Texts

LEMMA CutsMember ==
    ASSUME NEW s, NEW o PROVE o \in Cuts(s) <=> \E i \in 1..Len(s) : o \in Cut(s[i])
  BY DEF Cuts

LEMMA CutsEmpty == Cuts(<<>>) = {}
  BY DEF Cuts

LEMMA CutsAppend ==
    ASSUME NEW s \in Seq(Texts), NEW e \in Texts
    PROVE  Append(s, e) \in Seq(Texts) /\ Cuts(Append(s, e)) = Cuts(s) \cup Cut(e)
<1>1. /\ Append(s, e) \in Seq(Texts) /\ Len(Append(s, e)) = Len(s) + 1 /\ Len(s) \in Nat
      /\ Append(s, e)[Len(s) + 1] = e /\ \A i \in 1..Len(s) : Append(s, e)[i] = s[i]
  OBVIOUS
<1>2. ASSUME NEW o PROVE o \in Cuts(Append(s, e)) <=> o \in Cuts(s) \cup Cut(e)
  <2>1. ASSUME o \in Cuts(Append(s, e)) PROVE o \in Cuts(s) \cup Cut(e)
    <3>1. PICK i \in 1..Len(Append(s, e)) : o \in Cut(Append(s, e)[i])
      BY <2>1, CutsMember
    <3> QED BY <1>1, <3>1, CutsMember
  <2>2. ASSUME o \in Cuts(s) PROVE o \in Cuts(Append(s, e))
    <3>1. PICK i \in 1..Len(s) : o \in Cut(s[i])
      BY <2>2, CutsMember
    <3>2. i \in 1..Len(Append(s, e)) /\ Append(s, e)[i] = s[i]
      BY <1>1
    <3> QED BY <3>1, <3>2, CutsMember
  <2>3. ASSUME o \in Cut(e) PROVE o \in Cuts(Append(s, e))
    <3>1. Len(s) + 1 \in 1..Len(Append(s, e))
      BY <1>1
    <3> QED BY <1>1, <2>3, <3>1, CutsMember
  <2> QED BY <2>1, <2>2, <2>3
<1> QED BY <1>1, <1>2

LEMMA CutsTail ==
    ASSUME NEW s \in Seq(Texts), s # <<>>
    PROVE  /\ Head(s) \in Texts /\ Tail(s) \in Seq(Texts)
           /\ Cuts(s) = Cut(Head(s)) \cup Cuts(Tail(s))
<1>1. /\ Head(s) \in Texts /\ Tail(s) \in Seq(Texts) /\ Len(Tail(s)) = Len(s) - 1
      /\ Len(s) \in Nat \ {0} /\ Head(s) = s[1]
      /\ \A i \in 1..Len(Tail(s)) : Tail(s)[i] = s[i + 1]
  BY HeadTailProperties, EmptySeq
<1>2. ASSUME NEW o PROVE o \in Cuts(s) <=> o \in Cut(Head(s)) \cup Cuts(Tail(s))
  <2>1. ASSUME o \in Cuts(s), o \notin Cut(Head(s)) PROVE o \in Cuts(Tail(s))
    <3>1. PICK i \in 1..Len(s) : o \in Cut(s[i])
      BY <2>1, CutsMember
    <3>2. i - 1 \in 1..Len(Tail(s)) /\ Tail(s)[i - 1] = s[i]
      BY <1>1, <2>1, <3>1
    <3> QED BY <3>1, <3>2, CutsMember
  <2>2. ASSUME o \in Cuts(Tail(s)) PROVE o \in Cuts(s)
    <3>1. PICK i \in 1..Len(Tail(s)) : o \in Cut(Tail(s)[i])
      BY <2>2, CutsMember
    <3>2. i + 1 \in 1..Len(s) /\ Tail(s)[i] = s[i + 1]
      BY <1>1, <3>1
    <3> QED BY <3>1, <3>2, CutsMember
  <2>3. ASSUME o \in Cut(Head(s)) PROVE o \in Cuts(s)
    BY <1>1, <2>3, CutsMember
  <2> QED BY <2>1, <2>2, <2>3
<1> QED BY <1>1, <1>2

LEMMA CutsConcat ==
    ASSUME NEW s \in Seq(Texts), NEW t \in Seq(Texts)
    PROVE  Cuts(s) \cup Cuts(t) \subseteq Cuts(s \o t)
<1>1. /\ Len(s \o t) = Len(s) + Len(t) /\ Len(s) \in Nat /\ Len(t) \in Nat
      /\ \A i \in 1..Len(s) + Len(t) : (s \o t)[i] = IF i <= Len(s) THEN s[i] ELSE t[i - Len(s)]
  BY ConcatProperties
<1>2. ASSUME NEW o, o \in Cuts(s) PROVE o \in Cuts(s \o t)
  <2>1. PICK i \in 1..Len(s) : o \in Cut(s[i])
    BY <1>2, CutsMember
  <2>2. i \in 1..Len(s \o t) /\ (s \o t)[i] = s[i]
    BY <1>1, <2>1
  <2> QED BY <2>1, <2>2, CutsMember
<1>3. ASSUME NEW o, o \in Cuts(t) PROVE o \in Cuts(s \o t)
  <2>1. PICK i \in 1..Len(t) : o \in Cut(t[i])
    BY <1>3, CutsMember
  <2>2. i + Len(s) \in 1..Len(s \o t) /\ (s \o t)[i + Len(s)] = t[i]
    BY <1>1, <2>1
  <2> QED BY <2>1, <2>2, CutsMember
<1> QED BY <1>2, <1>3

LEMMA OrderedEmpty == ASSUME NEW f, NEW A PROVE Ordered(<<>>, f, A)
  BY DEF Ordered

LEMMA OrderedMono ==
    ASSUME NEW s, NEW f, NEW A, NEW B, A \subseteq B, Ordered(s, f, A) PROVE Ordered(s, f, B)
  BY DEF Ordered

LEMMA OrderedLater ==
    ASSUME NEW s, NEW f \in Nat, NEW g \in Nat, f <= g, NEW A, Ordered(s, f, A)
    PROVE  Ordered(s, g, A)
  BY DEF Ordered

LEMMA OrderedConcat ==
    ASSUME NEW s \in Seq(Texts), NEW t \in Seq(Texts), NEW f \in Nat, NEW A, NEW B,
           Ordered(s, f, A), A \subseteq B \cup Cuts(t),
           \A i \in 1..Len(t) : \A o \in Offers : Names(t[i], o) => o \in B
    PROVE  Ordered(s \o t, f, B)
<1>1. /\ Len(s \o t) = Len(s) + Len(t) /\ Len(s) \in Nat /\ Len(t) \in Nat
      /\ \A i \in 1..Len(s) + Len(t) : (s \o t)[i] = IF i <= Len(s) THEN s[i] ELSE t[i - Len(s)]
  BY ConcatProperties
<1> SUFFICES ASSUME NEW i \in 1..Len(s \o t), NEW o \in Offers, i > f, Names((s \o t)[i], o), o \notin B
             PROVE  \E j \in 1..Len(s \o t) : j > i /\ o \in Cut((s \o t)[j])
  BY DEF Ordered
<1>2. i <= Len(s) /\ Names(s[i], o)
  <2>1. CASE i > Len(s)
    <3>1. i - Len(s) \in 1..Len(t) /\ Names(t[i - Len(s)], o)
      BY <1>1, <2>1
    <3> QED BY <3>1
  <2> QED BY <1>1, <2>1
<1>3. CASE o \in A
  <2>1. PICK j \in 1..Len(t) : o \in Cut(t[j])
    BY <1>3, CutsMember
  <2>2. j + Len(s) \in 1..Len(s \o t) /\ j + Len(s) > i /\ (s \o t)[j + Len(s)] = t[j]
    BY <1>1, <1>2, <2>1
  <2> QED BY <2>1, <2>2
<1>4. CASE o \notin A
  <2>1. PICK j \in 1..Len(s) : j > i /\ o \in Cut(s[j])
    BY <1>1, <1>2, <1>4 DEF Ordered
  <2>2. j \in 1..Len(s \o t) /\ (s \o t)[j] = s[j]
    BY <1>1, <2>1
  <2> QED BY <2>1, <2>2
<1> QED BY <1>3, <1>4

LEMMA OrderedAppend ==
    ASSUME NEW s \in Seq(Texts), NEW e \in Texts, NEW f \in Nat, NEW A, NEW B,
           Ordered(s, f, A), A \subseteq B \cup Cut(e), \A o \in Offers : Names(e, o) => o \in B
    PROVE  Ordered(Append(s, e), f, B)
<1>1. <<e>> \in Seq(Texts) /\ Append(s, e) = s \o <<e>> /\ Len(<<e>>) = 1 /\ <<e>>[1] = e
  OBVIOUS
<1>2. Cut(e) \subseteq Cuts(<<e>>)
  BY <1>1, CutsMember
<1>3. \A i \in 1..Len(<<e>>) : \A o \in Offers : Names(<<e>>[i], o) => o \in B
  BY <1>1
<1> QED BY <1>1, <1>2, <1>3, OrderedConcat

LEMMA OrderedTail ==
    ASSUME NEW s \in Seq(Texts), s # <<>>, NEW f \in Nat, NEW A, Ordered(s, f + 1, A)
    PROVE  Ordered(Tail(s), f, A)
<1>1. /\ Len(Tail(s)) = Len(s) - 1 /\ Len(s) \in Nat \ {0}
      /\ \A i \in 1..Len(Tail(s)) : Tail(s)[i] = s[i + 1]
  BY HeadTailProperties, EmptySeq
<1> SUFFICES ASSUME NEW i \in 1..Len(Tail(s)), NEW o \in Offers, i > f, Names(Tail(s)[i], o), o \notin A
             PROVE  \E j \in 1..Len(Tail(s)) : j > i /\ o \in Cut(Tail(s)[j])
  BY DEF Ordered
<1>2. i + 1 \in 1..Len(s) /\ i + 1 > f + 1 /\ Names(s[i + 1], o)
  BY <1>1
<1>3. PICK j \in 1..Len(s) : j > i + 1 /\ o \in Cut(s[j])
  BY <1>2 DEF Ordered
<1>4. j - 1 \in 1..Len(Tail(s)) /\ j - 1 > i /\ Tail(s)[j - 1] = s[j]
  BY <1>1, <1>3
<1> QED BY <1>3, <1>4

LEMMA OrderedHead ==
    ASSUME NEW s \in Seq(Texts), s # <<>>, NEW A, Ordered(s, 0, A), NEW o \in Offers, Names(Head(s), o)
    PROVE  o \in A \cup Cuts(Tail(s))
<1>1. /\ Len(Tail(s)) = Len(s) - 1 /\ Len(s) \in Nat \ {0} /\ Head(s) = s[1]
      /\ \A i \in 1..Len(Tail(s)) : Tail(s)[i] = s[i + 1]
  BY HeadTailProperties, EmptySeq
<1> SUFFICES ASSUME o \notin A PROVE o \in Cuts(Tail(s))
  OBVIOUS
<1>2. PICK j \in 1..Len(s) : j > 1 /\ o \in Cut(s[j])
  BY <1>1 DEF Ordered
<1>3. j - 1 \in 1..Len(Tail(s)) /\ Tail(s)[j - 1] = s[j]
  BY <1>1, <1>2
<1> QED BY <1>2, <1>3, CutsMember

\* The events of frames and of tasks.
LEMMA EvsOf ==
    ASSUME NEW T, \A t \in T : t.ev \in Texts, NEW s \in Seq(T)
    PROVE  /\ Evs(s) \in Seq(Texts) /\ Len(Evs(s)) = Len(s)
           /\ \A i \in 1..Len(s) : Evs(s)[i] = s[i].ev
<1>1. Len(s) \in Nat /\ \A i \in 1..Len(s) : s[i] \in T
  BY LenProperties, ElementOfSeq
<1>2. Evs(s) \in [1..Len(s) -> Texts]
  BY <1>1 DEF Evs
<1>3. Evs(s) \in Seq(Texts) /\ Len(Evs(s)) = Len(s)
  BY <1>1, <1>2
<1> QED BY <1>3 DEF Evs

LEMMA EvsEmpty == Evs(<<>>) = <<>>
<1>1. <<>> \in Seq({}) /\ Len(<<>>) = 0 /\ \A t \in {} : t.ev \in Texts
  OBVIOUS
<1>2. Evs(<<>>) \in Seq(Texts) /\ Len(Evs(<<>>)) = 0
  BY <1>1, EvsOf
<1> QED BY <1>2

LEMMA EvsAppend ==
    ASSUME NEW T, \A t \in T : t.ev \in Texts, NEW s \in Seq(T), NEW x \in T
    PROVE  Evs(Append(s, x)) = Append(Evs(s), x.ev)
<1>1. /\ Append(s, x) \in Seq(T) /\ Len(Append(s, x)) = Len(s) + 1 /\ Len(s) \in Nat
      /\ \A i \in 1..Len(s) : Append(s, x)[i] = s[i] /\ Append(s, x)[Len(s) + 1] = x
  OBVIOUS
<1>2. /\ Evs(s) \in Seq(Texts) /\ Len(Evs(s)) = Len(s)
      /\ \A i \in 1..Len(s) : Evs(s)[i] = s[i].ev
  BY EvsOf
<1>3. /\ Evs(Append(s, x)) \in Seq(Texts) /\ Len(Evs(Append(s, x))) = Len(s) + 1
      /\ \A i \in 1..Len(s) + 1 : Evs(Append(s, x))[i] = Append(s, x)[i].ev
  BY <1>1, EvsOf
<1>4. Append(Evs(s), x.ev) \in Seq(Texts) /\ Len(Append(Evs(s), x.ev)) = Len(s) + 1
  BY <1>2
<1>5. \A i \in 1..Len(s) + 1 : Evs(Append(s, x))[i] = Append(Evs(s), x.ev)[i]
  <2> TAKE i \in 1..Len(s) + 1
  <2>1. CASE i = Len(s) + 1
    BY <1>1, <1>2, <1>3, <2>1
  <2>2. CASE i \in 1..Len(s)
    BY <1>1, <1>2, <1>3, <2>2
  <2>3. i = Len(s) + 1 \/ i \in 1..Len(s)
    BY <1>1
  <2> QED BY <2>1, <2>2, <2>3
<1> QED BY <1>3, <1>4, <1>5, SeqEqual

LEMMA EvsTail ==
    ASSUME NEW T, \A t \in T : t.ev \in Texts, NEW s \in Seq(T), s # <<>>
    PROVE  /\ Evs(s) # <<>> /\ Head(Evs(s)) = Head(s).ev /\ Head(s) \in T /\ Tail(s) \in Seq(T)
           /\ Evs(Tail(s)) = Tail(Evs(s))
<1>1. /\ Head(s) \in T /\ Tail(s) \in Seq(T) /\ Len(Tail(s)) = Len(s) - 1
      /\ Len(s) \in Nat \ {0} /\ Head(s) = s[1]
      /\ \A i \in 1..Len(Tail(s)) : Tail(s)[i] = s[i + 1]
  BY HeadTailProperties, EmptySeq
<1>2. /\ Evs(s) \in Seq(Texts) /\ Len(Evs(s)) = Len(s)
      /\ \A i \in 1..Len(s) : Evs(s)[i] = s[i].ev
  BY EvsOf
<1>3. Evs(s) # <<>> /\ Head(Evs(s)) = Head(s).ev
  BY <1>1, <1>2
<1>4. /\ Tail(Evs(s)) \in Seq(Texts) /\ Len(Tail(Evs(s))) = Len(s) - 1
      /\ \A i \in 1..Len(s) - 1 : Tail(Evs(s))[i] = Evs(s)[i + 1]
  BY <1>2, <1>3, HeadTailProperties
<1>5. /\ Evs(Tail(s)) \in Seq(Texts) /\ Len(Evs(Tail(s))) = Len(s) - 1
      /\ \A i \in 1..Len(s) - 1 : Evs(Tail(s))[i] = Tail(s)[i].ev
  BY <1>1, EvsOf
<1>6. \A i \in 1..Len(s) - 1 : Evs(Tail(s))[i] = Tail(Evs(s))[i]
  BY <1>1, <1>2, <1>4, <1>5
<1> QED BY <1>1, <1>3, <1>4, <1>5, <1>6, SeqEqual

-----------------------------------------------------------------------------
(* Types.                                                                  *)

Frames == [seq : Nat, ev : Texts]
Tasks == [kind : {"initial", "stage", "install", "event"}, ev : Texts, gen : Nat]
Boots == [buffering : BOOLEAN, buffered : Seq(Events), overflow : BOOLEAN,
          attempt : BOOLEAN, retry : BOOLEAN]
Places == {"start", "detail", "preflight", "page", "verdict", "drain", "drainDetail"}
Steps == [at : Places, gen : Nat, cursor : Nat, got : SUBSET Offers, batch : Seq(Events)]
NodeTyped ==
    /\ node \in [Offers -> {"none", "live", "ageing", "spent", "expired"}]
    /\ indexed \in Seq(Offers) /\ outbox \in Seq(Events)
WireTyped ==
    /\ server \in [attached : BOOLEAN, seq : Nat] /\ wire \in Seq(Frames)
    /\ client \in [open : BOOLEAN, seq : Nat]
LinkTyped == link \in [up : BOOLEAN, gen : Nat] /\ current \in BOOLEAN
\* A task carries an event exactly when it is of that kind.
WorkTyped ==
    /\ boot \in Boots /\ task \in Steps /\ resync \in [running : BOOLEAN, due : BOOLEAN]
    /\ queue \in Seq(Tasks)
    /\ \A i \in 1..Len(queue) : queue[i].kind = "event" <=> queue[i].ev # <<>>
MirrorTyped == stopped \in BOOLEAN /\ probe \in Nat /\ book \subseteq Offers /\ overdue \subseteq Offers
Typed == NodeTyped /\ WireTyped /\ LinkTyped /\ WorkTyped /\ MirrorTyped

\* What is asked of the tasks that enter and leave the queue.
Queues == {q \in Seq(Tasks) : \A i \in 1..Len(q) : q[i].kind = "event" <=> q[i].ev # <<>>}

LEMMA EventTasks ==
    /\ \A k \in {"initial", "stage", "install"} : Task(k) \in Tasks /\ Task(k).ev = <<>> /\ Task(k).kind = k
    /\ \A n \in Nat : LET t == [Task("install") EXCEPT !.gen = n]
                      IN  t \in Tasks /\ t.ev = <<>> /\ t.kind = "install" /\ t.gen = n
    /\ \A ev \in Events : /\ EventTask(ev) \in Tasks /\ EventTask(ev).ev = ev
                          /\ EventTask(ev).kind = "event" /\ ev # <<>> /\ EventTask(ev).gen = 0
    /\ \A k \in {"initial", "stage", "install"} : Task(k).gen = 0
  BY EventCut DEF Task, Tasks, Texts, EventTask

LEMMA QueueAppend ==
    ASSUME NEW q \in Queues, NEW t \in Tasks, t.kind = "event" <=> t.ev # <<>>
    PROVE  /\ Append(q, t) \in Queues /\ Len(Append(q, t)) = Len(q) + 1 /\ Len(q) \in Nat
           /\ Append(q, t)[Len(q) + 1] = t /\ \A i \in 1..Len(q) : Append(q, t)[i] = q[i]
           /\ q # <<>> => Head(Append(q, t)) = Head(q) /\ Append(q, t) # <<>>
<1>1. /\ Append(q, t) \in Seq(Tasks) /\ Len(Append(q, t)) = Len(q) + 1 /\ Len(q) \in Nat
      /\ Append(q, t)[Len(q) + 1] = t /\ \A i \in 1..Len(q) : Append(q, t)[i] = q[i]
  BY DEF Queues
<1>2. \A i \in 1..Len(Append(q, t)) : Append(q, t)[i].kind = "event" <=> Append(q, t)[i].ev # <<>>
  <2> TAKE i \in 1..Len(Append(q, t))
  <2>1. i \in 1..Len(q) \/ i = Len(q) + 1
    BY <1>1
  <2> QED BY <1>1, <2>1 DEF Queues
<1>3. q # <<>> => Head(Append(q, t)) = Head(q) /\ Append(q, t) # <<>>
  <2> SUFFICES ASSUME q # <<>> PROVE Head(Append(q, t)) = Head(q) /\ Append(q, t) # <<>>
    OBVIOUS
  <2>1. Len(q) # 0
    BY EmptySeq DEF Queues
  <2>2. Append(q, t) # <<>>
    BY <1>1
  <2>3. Head(Append(q, t)) = Append(q, t)[1] /\ Head(q) = q[1]
    OBVIOUS
  <2> QED BY <1>1, <2>1, <2>2, <2>3
<1> QED BY <1>1, <1>2, <1>3 DEF Queues

LEMMA QueueTail ==
    ASSUME NEW q \in Queues, q # <<>>
    PROVE  /\ Tail(q) \in Queues /\ Len(Tail(q)) = Len(q) - 1 /\ Len(q) \in Nat \ {0}
           /\ \A i \in 1..Len(Tail(q)) : Tail(q)[i] = q[i + 1] /\ i + 1 \in 1..Len(q)
           /\ \A i \in 1..Len(q) : i > 1 => i - 1 \in 1..Len(Tail(q)) /\ Tail(q)[i - 1] = q[i]
           /\ Head(q) = q[1] /\ Head(q) \in Tasks
           /\ Head(q).kind = "event" <=> Head(q).ev # <<>>
<1>1. /\ Tail(q) \in Seq(Tasks) /\ Len(Tail(q)) = Len(q) - 1 /\ Len(q) \in Nat \ {0}
      /\ \A i \in 1..Len(Tail(q)) : Tail(q)[i] = q[i + 1]
      /\ Head(q) = q[1] /\ Head(q) \in Tasks
  BY HeadTailProperties, EmptySeq DEF Queues
<1>2. \A i \in 1..Len(Tail(q)) : i + 1 \in 1..Len(q)
  BY <1>1
<1>3. \A i \in 1..Len(Tail(q)) : Tail(q)[i].kind = "event" <=> Tail(q)[i].ev # <<>>
  BY <1>1, <1>2 DEF Queues
<1>4. \A i \in 1..Len(q) : i > 1 => i - 1 \in 1..Len(Tail(q)) /\ Tail(q)[i - 1] = q[i]
  <2> SUFFICES ASSUME NEW i \in 1..Len(q), i > 1
               PROVE  i - 1 \in 1..Len(Tail(q)) /\ Tail(q)[i - 1] = q[i]
    OBVIOUS
  <2>1. i - 1 \in 1..Len(Tail(q)) /\ (i - 1) + 1 = i
    BY <1>1
  <2> QED BY <1>1, <2>1
<1>5. 1 \in 1..Len(q)
  BY <1>1
<1>6. Head(q).kind = "event" <=> Head(q).ev # <<>>
  BY <1>1, <1>5 DEF Queues
<1> QED BY <1>1, <1>2, <1>3, <1>4, <1>6 DEF Queues

LEMMA EnsureDoes ==
    ASSUME NEW b \in Boots, NEW q \in Queues, ensureInitialSync(b, q), link'.up \in BOOLEAN
    PROVE  /\ boot' \in Boots /\ queue' \in Queues
           /\ boot'.buffering = b.buffering /\ boot'.buffered = b.buffered /\ boot'.overflow = b.overflow
           /\ \/ queue' = q /\ boot'.attempt = b.attempt
              \/ /\ queue' = Append(q, Task("initial")) /\ b.buffering /\ ~b.attempt /\ boot'.attempt
                 /\ link'.up
<1>1. Append(q, Task("initial")) \in Queues
  BY EventTasks, QueueAppend
<1> QED BY <1>1 DEF ensureInitialSync, Boots

LEMMA ScheduleDoes ==
    ASSUME NEW q \in Queues, schedulePostReadyResync(q), resync \in [running : BOOLEAN, due : BOOLEAN]
    PROVE  /\ resync' \in [running : BOOLEAN, due : BOOLEAN] /\ queue' \in Queues
           /\ resync'.running /\ resync'.due = resync.running
           /\ \/ resync.running /\ queue' = q
              \/ ~resync.running /\ queue' = Append(q, Task("stage"))
<1>1. Append(q, Task("stage")) \in Queues
  BY EventTasks, QueueAppend
<1> QED BY <1>1 DEF schedulePostReadyResync

LEMMA EndAttemptDoes ==
    ASSUME NEW b \in Boots, NEW q \in Queues, EndAttempt(b, q), link'.up \in BOOLEAN
    PROVE  /\ boot' \in Boots /\ queue' \in Queues
           /\ boot'.buffering = b.buffering /\ boot'.buffered = b.buffered /\ boot'.overflow = b.overflow
           /\ \/ queue' = q /\ ~boot'.attempt
              \/ queue' = Append(q, Task("initial")) /\ b.buffering /\ boot'.attempt /\ link'.up
<1> DEFINE ended == [b EXCEPT !.attempt = FALSE, !.retry = FALSE]
<1>1. /\ ended \in Boots /\ ended.buffering = b.buffering /\ ended.buffered = b.buffered
      /\ ended.overflow = b.overflow /\ ~ended.attempt
  BY DEF Boots
<1>2. CASE b.retry
  <2>1. ensureInitialSync(ended, q)
    BY <1>2 DEF EndAttempt
  <2> HIDE DEF ended
  <2> QED BY <1>1, <2>1, EnsureDoes
<1>3. CASE ~b.retry
  <2>1. boot' = ended /\ queue' = q
    BY <1>3 DEF EndAttempt
  <2> HIDE DEF ended
  <2> QED BY <1>1, <2>1
<1> QED BY <1>2, <1>3

LEMMA EndRunDoes ==
    ASSUME NEW q \in Queues, EndRun(q), resync \in [running : BOOLEAN, due : BOOLEAN]
    PROVE  /\ resync' \in [running : BOOLEAN, due : BOOLEAN] /\ queue' \in Queues
           /\ resync'.running = resync.due /\ ~resync'.due
           /\ \/ resync.due /\ queue' = Append(q, Task("stage"))
              \/ ~resync.due /\ queue' = q
<1>1. Append(q, Task("stage")) \in Queues
  BY EventTasks, QueueAppend
<1> QED BY <1>1 DEF EndRun

LEMMA FreshStep == Fresh \in Steps /\ Fresh.at = "start" /\ Fresh.gen = 0 /\ Fresh.batch = <<>> /\ Fresh.got = {}
<1>1. <<>> \in Seq(Events)
  OBVIOUS
<1> QED BY <1>1 DEF Fresh, Steps, Places


\* The events a spend commits, one for each offer of the coin.
LEMMA GoneEvents ==
    ASSUME NEW S \in SUBSET Offers
    PROVE  LET evs == [i \in 1..Cardinality(S) |-> Event("consumed", SetToSeq(S)[i])]
           IN  /\ evs \in Seq(Events) /\ Len(evs) = Cardinality(S)
               /\ \A i \in 1..Len(evs) : evs[i].kind = "consumed" /\ evs[i].offer \in S
               /\ S # {} => Len(evs) > 0
<1> DEFINE evs == [i \in 1..Cardinality(S) |-> Event("consumed", SetToSeq(S)[i])]
<1>1. IsFiniteSet(S) /\ Cardinality(S) \in Nat /\ ExistsBijection(1..Cardinality(S), S)
  BY BookAssumption, FS_Subset, FS_CardinalityType
<1>2. \E f \in [1..Cardinality(S) -> S] : IsInjective(f)
  BY <1>1 DEF ExistsBijection, Bijection, Injection, Surjection
<1>3. SetToSeq(S) \in [1..Cardinality(S) -> S]
  BY <1>2 DEF SetToSeq
<1>4. evs \in [1..Cardinality(S) -> Events]
  BY <1>3 DEF Event, Events
<1>5. evs \in Seq(Events) /\ Len(evs) = Cardinality(S)
  BY <1>1, <1>4
<1>6. \A i \in 1..Len(evs) : evs[i].kind = "consumed" /\ evs[i].offer \in S
  BY <1>3, <1>5 DEF Event
<1>7. S # {} => Len(evs) > 0
  BY <1>1, <1>5, FS_EmptySet
<1> QED BY <1>5, <1>6, <1>7

LEMMA CommitTyped == Typed /\ Commit => NodeTyped'
<1> SUFFICES ASSUME Typed, NEW o \in Offers, Index(o) \/ Consume(o) \/ Age(o) \/ Expire(o) PROVE NodeTyped'
  BY DEF Commit
<1> USE DEF Typed, NodeTyped
<1>1. CASE Index(o)
  BY <1>1 DEF Index, Event, Events
<1>2. CASE Consume(o)
  <2>1. PICK S \in SUBSET Offers : S = {p \in Sharing(o) : Listed(p)}
    BY DEF Sharing
  <2>2. PICK evs : evs = [i \in 1..Cardinality(S) |-> Event("consumed", SetToSeq(S)[i])]
    OBVIOUS
  <2>3. evs \in Seq(Events)
    BY <2>2, GoneEvents
  <2>4. /\ node' = [p \in Offers |-> IF p \in S THEN "spent" ELSE node[p]]
        /\ outbox' = outbox \o evs /\ indexed' = indexed
    BY <1>2, <2>1, <2>2 DEF Consume
  <2> QED BY <2>3, <2>4
<1>3. CASE Age(o)
  BY <1>3 DEF Age
<1>4. CASE Expire(o)
  BY <1>4 DEF Expire, Event, Events
<1> QED BY <1>1, <1>2, <1>3, <1>4

LEMMA ReleaseTyped == Typed /\ Release => NodeTyped' /\ WireTyped'
<1> SUFFICES ASSUME Typed, Release PROVE NodeTyped' /\ WireTyped'
  OBVIOUS
<1> USE DEF Typed, NodeTyped, WireTyped
<1>1. outbox # <<>> /\ Head(outbox) \in Events /\ Tail(outbox) \in Seq(Events)
  BY HeadTailProperties DEF Release
<1>2. NodeTyped'
  BY <1>1 DEF Release, StreamStep
<1>3. [seq |-> server.seq + 1, ev |-> Head(outbox)] \in Frames
  BY <1>1 DEF Frames, Texts
<1>4. Append(wire, [seq |-> server.seq + 1, ev |-> Head(outbox)]) \in Seq(Frames)
  BY <1>3
<1>5. listener(Head(outbox)) /\ client' = client
  BY DEF Release
<1>6. WireTyped'
  <2>1. CASE server.attached
    <3>1. PICK b \in BOOLEAN : b <=> Len(wire) < MaxBacklog
      <4>1. CASE Len(wire) < MaxBacklog
        <5> WITNESS TRUE \in BOOLEAN
        <5> QED BY <4>1
      <4>2. CASE ~(Len(wire) < MaxBacklog)
        <5> WITNESS FALSE \in BOOLEAN
        <5> QED BY <4>2
      <4> QED BY <4>1, <4>2
    <3>2. /\ wire' = Append(wire, [seq |-> server.seq + 1, ev |-> Head(outbox)])
          /\ server' = [attached |-> b, seq |-> server.seq + 1]
      BY <1>5, <2>1, <3>1 DEF listener
    <3> QED BY <1>4, <1>5, <3>2
  <2>2. CASE ~server.attached
    BY <1>5, <2>2 DEF listener
  <2> QED BY <2>1, <2>2
<1> QED BY <1>2, <1>6

LEMMA WireSteps == Typed /\ (Drop \/ Lose \/ Subscribe \/ Stop) => WireTyped'
<1> SUFFICES ASSUME Typed PROVE (Drop \/ Lose \/ Subscribe \/ Stop) => WireTyped'
  OBVIOUS
<1> USE DEF Typed, WireTyped
<1>1. Drop => WireTyped'
  BY DEF Drop
<1>2. Lose => WireTyped'
  BY HeadTailProperties DEF Lose
<1>3. Subscribe => WireTyped'
  <2>1. <<[seq |-> 1, ev |-> <<>>]>> \in Seq(Frames)
    BY DEF Frames, Texts
  <2> QED BY <2>1 DEF Subscribe
<1>4. Stop => WireTyped'
  BY DEF Stop
<1> QED BY <1>1, <1>2, <1>3, <1>4

\* What the client's end of a subscription leaves.
LEMMA FinishDoes ==
    ASSUME Typed, finish
    PROVE  /\ WireTyped' /\ LinkTyped' /\ boot' \in Boots /\ queue' = queue /\ resync' = resync
           /\ ~client'.open /\ client'.seq = 0 /\ wire' = <<>> /\ ~server'.attached /\ server'.seq = 0
           /\ boot'.buffering = boot.buffering /\ boot'.attempt = boot.attempt
           /\ \/ link' = link /\ current' = current /\ boot' = boot /\ client.seq = 0
              \/ /\ ~link'.up /\ link'.gen = link.gen + 1 /\ ~current' /\ client.seq > 0
                 /\ \/ boot.buffering /\ boot'.buffered = <<>> /\ ~boot'.overflow
                    \/ ~boot.buffering /\ boot' = boot
<1> USE DEF Typed
<1>1. /\ client' = [open |-> FALSE, seq |-> 0] /\ wire' = <<>>
      /\ server' = [attached |-> FALSE, seq |-> 0] /\ queue' = queue /\ resync' = resync
  BY DEF finish
<1>2. WireTyped'
  BY <1>1 DEF WireTyped
<1>3. CASE client.seq > 0
  <2>1. onDisconnect
    BY <1>3 DEF finish
  <2>2. link' \in [up : BOOLEAN, gen : Nat] /\ current' = FALSE /\ ~link'.up /\ link'.gen = link.gen + 1
    BY <2>1 DEF onDisconnect, LinkTyped
  <2>3. boot' = IF boot.buffering THEN [boot EXCEPT !.buffered = <<>>, !.overflow = FALSE] ELSE boot
    BY <2>1 DEF onDisconnect
  <2>4. <<>> \in Seq(Events) /\ boot \in Boots
    BY DEF WorkTyped
  <2>5. /\ boot' \in Boots /\ boot'.buffering = boot.buffering /\ boot'.attempt = boot.attempt
        /\ \/ boot.buffering /\ boot'.buffered = <<>> /\ ~boot'.overflow
           \/ ~boot.buffering /\ boot' = boot
    BY <2>3, <2>4 DEF Boots
  <2> QED BY <1>1, <1>2, <1>3, <2>2, <2>5 DEF LinkTyped
<1>4. CASE ~(client.seq > 0)
  <2>1. client.seq = 0
    BY <1>4 DEF WireTyped
  <2>2. link' = link /\ current' = current /\ boot' = boot
    BY <1>4 DEF finish
  <2>3. boot \in Boots
    BY DEF WorkTyped
  <2> QED BY <1>1, <1>2, <2>1, <2>2, <2>3 DEF LinkTyped
<1> QED BY <1>3, <1>4

\* What a new connection or a timer arranges: nothing, the startup attempt, or a
\* resynchronisation, at once or after the one that runs.
Arranges ==
    /\ boot' \in Boots /\ queue' \in Queues /\ resync' \in [running : BOOLEAN, due : BOOLEAN]
    /\ boot'.buffering = boot.buffering /\ boot'.buffered = boot.buffered
    /\ boot'.overflow = boot.overflow
    /\ \/ queue' = queue /\ boot'.attempt = boot.attempt /\ resync' = resync
       \/ /\ queue' = Append(queue, Task("initial")) /\ resync' = resync
          /\ boot.buffering /\ ~boot.attempt /\ boot'.attempt
       \/ /\ ~boot.buffering /\ boot' = boot /\ resync'.running /\ resync'.due = resync.running
          /\ \/ resync.running /\ queue' = queue
             \/ ~resync.running /\ queue' = Append(queue, Task("stage"))

LEMMA EnsureArranges ==
    ASSUME Typed, NEW b \in Boots, b.buffering = boot.buffering, b.buffered = boot.buffered,
           b.overflow = boot.overflow, b.attempt = boot.attempt,
           ensureInitialSync(b, queue), resync' = resync, link'.up \in BOOLEAN
    PROVE  Arranges
<1>1. queue \in Queues /\ resync \in [running : BOOLEAN, due : BOOLEAN]
  BY DEF Typed, WorkTyped, Queues
<1> QED BY <1>1, EnsureDoes DEF Arranges

LEMMA ScheduleArranges ==
    ASSUME Typed, ~boot.buffering, schedulePostReadyResync(queue), boot' = boot
    PROVE  Arranges
<1>1. queue \in Queues /\ resync \in [running : BOOLEAN, due : BOOLEAN] /\ boot \in Boots
  BY DEF Typed, WorkTyped, Queues
<1> QED BY <1>1, ScheduleDoes DEF Arranges

LEMMA NothingArranges ==
    ASSUME Typed, queue' = queue, boot' = boot, resync' = resync
    PROVE  Arranges
<1>1. queue \in Queues /\ resync \in [running : BOOLEAN, due : BOOLEAN] /\ boot \in Boots
  BY DEF Typed, WorkTyped, Queues
<1> QED BY <1>1 DEF Arranges

LEMMA OnOpenDoes ==
    ASSUME Typed, onOpen
    PROVE  /\ LinkTyped' /\ link'.up /\ link'.gen = link.gen + 1 /\ Arranges
           /\ \/ boot.buffering /\ current' = current
              \/ ~boot.buffering /\ ~current' /\ resync'.running /\ resync'.due = resync.running
<1>1. link' = [up |-> TRUE, gen |-> link.gen + 1]
  BY DEF onOpen
<1>2. link' \in [up : BOOLEAN, gen : Nat] /\ link'.up /\ link'.gen = link.gen + 1 /\ link'.up \in BOOLEAN
  BY <1>1 DEF Typed, LinkTyped
<1>3. boot \in Boots /\ resync \in [running : BOOLEAN, due : BOOLEAN]
  BY DEF Typed, WorkTyped
<1>4. CASE boot.buffering
  <2>1. PICK b : b = [boot EXCEPT !.retry = @ \/ boot.attempt]
    OBVIOUS
  <2>2. /\ b \in Boots /\ b.buffering = boot.buffering /\ b.buffered = boot.buffered
        /\ b.overflow = boot.overflow /\ b.attempt = boot.attempt
    BY <1>3, <2>1 DEF Boots
  <2>3. ensureInitialSync(b, queue) /\ current' = current /\ resync' = resync
    BY <1>4, <2>1 DEF onOpen
  <2>4. Arranges
    BY <1>2, <2>2, <2>3, EnsureArranges
  <2>5. LinkTyped'
    BY <1>2, <2>3 DEF Typed, LinkTyped
  <2> QED BY <1>2, <1>4, <2>3, <2>4, <2>5
<1>5. CASE ~boot.buffering
  <2>1. current' = FALSE /\ schedulePostReadyResync(queue) /\ boot' = boot
    BY <1>5 DEF onOpen
  <2>2. LinkTyped'
    BY <1>2, <2>1 DEF LinkTyped
  <2>3. resync'.running /\ resync'.due = resync.running
    BY <1>3, <2>1 DEF schedulePostReadyResync
  <2>4. Arranges
    BY <1>5, <2>1, ScheduleArranges
  <2> QED BY <1>2, <1>5, <2>1, <2>2, <2>3, <2>4
<1> QED BY <1>4, <1>5

LEMMA OnEventDoes ==
    ASSUME Typed, NEW ev \in Events, onEvent(ev)
    PROVE  /\ boot' \in Boots /\ queue' \in Queues
           /\ boot'.buffering = boot.buffering /\ boot'.attempt = boot.attempt
           /\ \/ boot.buffering /\ boot.overflow /\ boot' = boot /\ queue' = queue
              \/ boot.buffering /\ boot'.overflow /\ boot'.buffered = <<>> /\ queue' = queue
              \/ /\ boot.buffering /\ ~boot.overflow /\ ~boot'.overflow
                 /\ boot'.buffered = Append(boot.buffered, ev) /\ queue' = queue
              \/ ~boot.buffering /\ boot' = boot /\ queue' = Append(queue, EventTask(ev))
<1> USE DEF Typed
<1>1. queue \in Queues /\ boot \in Boots
  BY DEF WorkTyped, Queues
<1>2. CASE ~boot.buffering
  <2>1. boot' = boot /\ queue' = Append(queue, EventTask(ev))
    BY <1>2 DEF onEvent
  <2>2. Append(queue, EventTask(ev)) \in Queues
    <3>1. EventTask(ev) \in Tasks /\ (EventTask(ev).kind = "event" <=> EventTask(ev).ev # <<>>)
      BY EventTasks
    <3> QED BY <1>1, <3>1, QueueAppend
  <2> QED BY <1>1, <1>2, <2>1, <2>2
<1>3. CASE boot.buffering /\ boot.overflow
  <2>1. boot' = boot /\ queue' = queue
    BY <1>3 DEF onEvent
  <2> QED BY <1>1, <1>3, <2>1
<1>4. CASE boot.buffering /\ ~boot.overflow /\ Len(boot.buffered) >= MaxBuffered
  <2>1. boot' = [boot EXCEPT !.buffered = <<>>, !.overflow = TRUE] /\ queue' = queue
    BY <1>4 DEF onEvent
  <2>2. <<>> \in Seq(Events)
    OBVIOUS
  <2>3. /\ boot' \in Boots /\ boot'.buffering = boot.buffering /\ boot'.attempt = boot.attempt
        /\ boot'.overflow /\ boot'.buffered = <<>>
    BY <1>1, <2>1, <2>2 DEF Boots
  <2> QED BY <1>1, <1>4, <2>1, <2>3
<1>5. CASE boot.buffering /\ ~boot.overflow /\ ~(Len(boot.buffered) >= MaxBuffered)
  <2>1. boot' = [boot EXCEPT !.buffered = Append(@, ev)] /\ queue' = queue
    BY <1>5 DEF onEvent
  <2>2. Append(boot.buffered, ev) \in Seq(Events)
    BY <1>1 DEF Boots
  <2>3. /\ boot' \in Boots /\ boot'.buffering = boot.buffering /\ boot'.attempt = boot.attempt
        /\ ~boot'.overflow /\ boot'.buffered = Append(boot.buffered, ev)
    BY <1>1, <1>5, <2>1, <2>2 DEF Boots
  <2> QED BY <1>1, <1>5, <2>1, <2>3
<1> QED BY <1>2, <1>3, <1>4, <1>5

-----------------------------------------------------------------------------
(* The inductive invariant.                                                *)

\* The numbers of a subscription: frames between client and server may be missing,
\* never too many; `ready` alone carries no event.
WireInv ==
    /\ Len(wire) + client.seq <= server.seq
    /\ \A i \in 1..Len(wire) : wire[i].seq = 1 <=> wire[i].ev = <<>>
    /\ server.attached => server.seq > 0 /\ client.open
    /\ client.seq > 0 => client.open
\* What the solver knows of its link: it is up from `ready` on, a current mirror has
\* one, and a snapshot is of this generation or an earlier one.
LinkInv ==
    /\ stopped => ~client.open /\ ~current
    /\ ~stopped => (link.up <=> client.seq > 0)
    /\ ~stopped /\ current => link.up /\ ~boot.buffering
    /\ task.gen <= link.gen
    /\ \A i \in 1..Len(queue) : queue[i].gen <= link.gen
\* The startup buffer is used at startup, on a live link, unless it overflowed.
BufferInv == ~stopped =>
    /\ boot.overflow => boot.buffered = <<>>
    /\ ~link.up => boot.buffered = <<>>
    /\ ~boot.buffering => boot.buffered = <<>> /\ ~boot.attempt
\* One attempt at a time during startup; one resynchronisation at a time after it.
IsStage(t) == t.kind \in {"stage", "install"}
Coherent(q, buffering, attempt, running, due) ==
    /\ buffering => /\ ~running /\ Len(q) <= 1
                    /\ \A i \in 1..Len(q) : q[i].kind = "initial"
                    /\ ~attempt => q = <<>>
    /\ ~buffering => \A i \in 1..Len(q) : q[i].kind # "initial"
    /\ due => running
    /\ ~running => \A i \in 1..Len(q) : ~IsStage(q[i])
    /\ \A i, j \in 1..Len(q) : IsStage(q[i]) /\ IsStage(q[j]) => i = j
QueueInv == ~stopped =>
    /\ Coherent(queue, boot.buffering, boot.attempt, resync.running, resync.due)
    /\ probe # 0 => ~boot.buffering
\* Where a task waits tells what it is.
TaskInv ==
    /\ task.at # "start" => queue # <<>>
    /\ task.at \in {"preflight", "drain", "drainDetail"} => Head(queue).kind = "initial"
    /\ task.at \in {"page", "verdict"} => Head(queue).kind \in {"initial", "stage"}
    /\ task.at = "detail" => Head(queue).kind = "event" /\ Head(queue).ev.kind = "indexed"
    /\ task.at = "drainDetail" => task.batch # <<>> /\ Head(task.batch).kind = "indexed"
    /\ task.at \in {"preflight", "page", "verdict"} => task.batch = <<>>
    /\ task.at = "preflight" => task.got = {}

\* The offers the node lists, with those whose removal it has not released, and with
\* those whose removal is on the wire.
Alive == {o \in Offers : Listed(o)}
Near == Alive \cup Cuts(outbox)
Ahead == Near \cup Cuts(Evs(wire))
Live == link.up /\ Unbroken

\* The node announces an offer before its end; nothing overtakes on an unbroken wire.
StreamInv ==
    /\ Ordered(outbox, 0, Alive)
    /\ Unbroken => Ordered(Evs(wire), 0, Near)
\* The startup's snapshot lacks no removal that is neither buffered nor on its way.
Bootable == Live /\ task.gen = link.gen /\ ~boot.overflow /\ ~stopped
BootInv ==
    /\ Live => Ordered(boot.buffered, 0, Ahead)
    /\ Bootable /\ task.at \in {"page", "verdict"} /\ Head(queue).kind = "initial" =>
           task.got \subseteq Ahead \cup Cuts(boot.buffered)
    /\ Bootable /\ task.at \in {"drain", "drainDetail"} =>
           /\ book \subseteq Ahead \cup Cuts(boot.buffered) \cup Cuts(task.batch)
           /\ Ordered(task.batch, 0, Ahead \cup Cuts(boot.buffered))
\* The mirror is what a snapshot of this subscription made it.
Installing == \E k \in 1..Len(queue) : queue[k].kind = "install" /\ queue[k].gen = link.gen
Settled == (~resync.running /\ current) \/ (resync.running /\ ~resync.due /\ Installing)
SyncInv == Live /\ ~boot.buffering =>
    /\ Settled => /\ book \subseteq Ahead \cup Cuts(Evs(queue))
                  /\ Ordered(Evs(queue), 0, Ahead)
    /\ resync.running /\ ~resync.due =>
           \A s \in 1..Len(queue) : queue[s].kind = "stage" => Ordered(Evs(queue), s, Ahead)
    /\ task.at \in {"page", "verdict"} /\ Head(queue).kind = "stage" /\ task.gen = link.gen =>
           task.got \subseteq Ahead \cup Cuts(Evs(queue))
\* An offer that a snapshot brought and a waiting event removes is removed before the
\* mirror is called current.
DrainInv == ~stopped =>
    /\ task.at \in {"drain", "drainDetail"} /\ link.up /\ task.gen = link.gen /\ ~boot.overflow =>
           overdue \subseteq Cuts(task.batch) \cup Cuts(boot.buffered)
    /\ \A k \in 1..Len(queue) : queue[k].kind = "install" =>
           \A o \in overdue : \E i \in 1..Len(queue) : i < k /\ o \in Cut(queue[i].ev)

Control == Typed /\ WireInv /\ LinkInv /\ BufferInv /\ QueueInv /\ TaskInv
MirrorInv == Control /\ StreamInv /\ BootInv /\ SyncInv /\ DrainInv

-----------------------------------------------------------------------------
(* The queue stays coherent.                                               *)

LEMMA CoherentEmpty ==
    ASSUME NEW b \in BOOLEAN, NEW a \in BOOLEAN, NEW r \in BOOLEAN, NEW d \in BOOLEAN, ~r, ~d
    PROVE  Coherent(<<>>, b, a, r, d)
  BY DEF Coherent

LEMMA CoherentEvent ==
    ASSUME NEW q \in Queues, NEW t \in Tasks, t.kind = "event", t.ev # <<>>,
           NEW b \in BOOLEAN, NEW a \in BOOLEAN, NEW r \in BOOLEAN, NEW d \in BOOLEAN,
           ~b, Coherent(q, b, a, r, d)
    PROVE  Coherent(Append(q, t), b, a, r, d)
<1>1. /\ Len(Append(q, t)) = Len(q) + 1 /\ Len(q) \in Nat
      /\ Append(q, t)[Len(q) + 1] = t /\ \A i \in 1..Len(q) : Append(q, t)[i] = q[i]
  BY QueueAppend
<1>2. \A i \in 1..Len(Append(q, t)) : i \in 1..Len(q) \/ i = Len(q) + 1
  BY <1>1
<1>3. ~IsStage(t) /\ t.kind # "initial"
  BY DEF IsStage
<1>4. \A i \in 1..Len(Append(q, t)) : Append(q, t)[i].kind # "initial"
  BY <1>1, <1>2, <1>3 DEF Coherent
<1>5. \A i \in 1..Len(Append(q, t)) : IsStage(Append(q, t)[i]) => i \in 1..Len(q) /\ IsStage(q[i])
  BY <1>1, <1>2, <1>3
<1> QED BY <1>4, <1>5 DEF Coherent

\* A resynchronisation starts.
LEMMA CoherentStage ==
    ASSUME NEW q \in Queues, NEW t \in Tasks, IsStage(t), t.ev = <<>>,
           NEW b \in BOOLEAN, NEW a \in BOOLEAN, NEW r \in BOOLEAN, NEW d \in BOOLEAN,
           ~b, r, \A i \in 1..Len(q) : ~IsStage(q[i]) /\ q[i].kind # "initial"
    PROVE  Coherent(Append(q, t), b, a, r, d)
<1>1. /\ Len(Append(q, t)) = Len(q) + 1 /\ Len(q) \in Nat
      /\ Append(q, t)[Len(q) + 1] = t /\ \A i \in 1..Len(q) : Append(q, t)[i] = q[i]
  BY QueueAppend DEF IsStage
<1>2. \A i \in 1..Len(Append(q, t)) : i \in 1..Len(q) \/ i = Len(q) + 1
  BY <1>1
<1>3. \A i \in 1..Len(Append(q, t)) : Append(q, t)[i].kind # "initial"
  BY <1>1, <1>2 DEF IsStage
<1>4. \A i \in 1..Len(Append(q, t)) : IsStage(Append(q, t)[i]) => i = Len(q) + 1
  BY <1>1, <1>2
<1> QED BY <1>3, <1>4 DEF Coherent

LEMMA CoherentInitial ==
    ASSUME NEW q \in Queues, NEW t \in Tasks, t.kind = "initial", t.ev = <<>>, q = <<>>,
           NEW b \in BOOLEAN, NEW a \in BOOLEAN, NEW r \in BOOLEAN, NEW d \in BOOLEAN,
           b, a, ~r, ~d
    PROVE  Coherent(Append(q, t), b, a, r, d)
<1>1. /\ Len(Append(q, t)) = Len(q) + 1 /\ Append(q, t)[Len(q) + 1] = t
  BY QueueAppend
<1>2. Len(q) = 0
  OBVIOUS
<1>3. Len(Append(q, t)) = 1 /\ Append(q, t)[1] = t /\ ~IsStage(t)
  BY <1>1, <1>2 DEF IsStage
<1> QED BY <1>3 DEF Coherent

\* The startup attempt is the only task of its time.
LEMMA CoherentAttempt ==
    ASSUME NEW q \in Queues, q # <<>>, Head(q).kind = "initial",
           NEW b \in BOOLEAN, NEW a \in BOOLEAN, NEW r \in BOOLEAN, NEW d \in BOOLEAN,
           Coherent(q, b, a, r, d)
    PROVE  b /\ a /\ ~r /\ ~d /\ Tail(q) = <<>> /\ Len(q) = 1
<1>1. /\ Tail(q) \in Queues /\ Len(Tail(q)) = Len(q) - 1 /\ Len(q) \in Nat \ {0} /\ Head(q) = q[1]
  BY QueueTail
<1>2. b
  BY <1>1 DEF Coherent
<1>3. ~r /\ ~d /\ a /\ Len(q) = 1
  BY <1>1, <1>2 DEF Coherent
<1>4. Tail(q) = <<>>
  <2>1. PICK t : t = Tail(q)
    OBVIOUS
  <2>2. t \in Seq(Tasks) /\ Len(t) = 0
    BY <1>1, <1>3, <2>1 DEF Queues
  <2>3. t = <<>>
    BY <2>2, EmptySeq
  <2> QED BY <2>1, <2>3
<1> QED BY <1>2, <1>3, <1>4

LEMMA CoherentAfterEvent ==
    ASSUME NEW q \in Queues, q # <<>>, Head(q).kind = "event",
           NEW b \in BOOLEAN, NEW a \in BOOLEAN, NEW r \in BOOLEAN, NEW d \in BOOLEAN,
           Coherent(q, b, a, r, d)
    PROVE  ~b /\ Coherent(Tail(q), b, a, r, d)
<1>1. /\ Len(Tail(q)) = Len(q) - 1 /\ Len(q) \in Nat \ {0} /\ Head(q) = q[1]
      /\ \A i \in 1..Len(Tail(q)) : Tail(q)[i] = q[i + 1] /\ i + 1 \in 1..Len(q)
  BY QueueTail
<1>2. ~b
  BY <1>1 DEF Coherent
<1>3. \A i \in 1..Len(Tail(q)) : Tail(q)[i].kind # "initial" /\ (~r => ~IsStage(Tail(q)[i]))
  BY <1>1, <1>2 DEF Coherent
<1>4. \A i, j \in 1..Len(Tail(q)) : IsStage(Tail(q)[i]) /\ IsStage(Tail(q)[j]) => i = j
  <2> SUFFICES ASSUME NEW i \in 1..Len(Tail(q)), NEW j \in 1..Len(Tail(q)),
                      IsStage(Tail(q)[i]), IsStage(Tail(q)[j])
               PROVE  i = j
    OBVIOUS
  <2>1. i + 1 = j + 1
    BY <1>1 DEF Coherent
  <2> QED BY <2>1
<1> QED BY <1>2, <1>3, <1>4 DEF Coherent

LEMMA CoherentAfterStage ==
    ASSUME NEW q \in Queues, q # <<>>, IsStage(Head(q)),
           NEW b \in BOOLEAN, NEW a \in BOOLEAN, NEW r \in BOOLEAN, NEW d \in BOOLEAN,
           Coherent(q, b, a, r, d)
    PROVE  /\ ~b /\ r /\ \A i \in 1..Len(Tail(q)) : ~IsStage(Tail(q)[i]) /\ Tail(q)[i].kind # "initial"
           /\ \A i \in 1..Len(q) : IsStage(q[i]) => i = 1
<1>1. /\ Len(Tail(q)) = Len(q) - 1 /\ Len(q) \in Nat \ {0} /\ Head(q) = q[1]
      /\ \A i \in 1..Len(Tail(q)) : Tail(q)[i] = q[i + 1] /\ i + 1 \in 1..Len(q)
  BY QueueTail
<1>2. 1 \in 1..Len(q) /\ IsStage(q[1]) /\ q[1].kind # "initial"
  BY <1>1 DEF IsStage
<1>3. ~b /\ r
  BY <1>2 DEF Coherent
<1>4. \A i \in 1..Len(q) : IsStage(q[i]) => i = 1
  BY <1>2 DEF Coherent
<1>5. \A i \in 1..Len(Tail(q)) : ~IsStage(Tail(q)[i]) /\ Tail(q)[i].kind # "initial"
  <2> TAKE i \in 1..Len(Tail(q))
  <2>1. i + 1 # 1 /\ Tail(q)[i] = q[i + 1] /\ i + 1 \in 1..Len(q)
    BY <1>1
  <2> QED BY <1>3, <1>4, <2>1 DEF Coherent
<1> QED BY <1>3, <1>4, <1>5

LEMMA CoherentQuiet ==
    ASSUME NEW q \in Queues, NEW b \in BOOLEAN, NEW a \in BOOLEAN, NEW r \in BOOLEAN, NEW d \in BOOLEAN,
           ~b, ~r, ~d, \A i \in 1..Len(q) : ~IsStage(q[i]) /\ q[i].kind # "initial"
    PROVE  Coherent(q, b, a, r, d)
  BY DEF Coherent

-----------------------------------------------------------------------------
(* The control part of the invariant, action by action.                    *)

WorkSame == /\ link' = link /\ current' = current /\ boot' = boot /\ queue' = queue /\ task' = task
            /\ resync' = resync /\ probe' = probe /\ stopped' = stopped
            /\ book' = book /\ overdue' = overdue

LEMMA ControlFacts ==
    ASSUME Control
    PROVE  /\ queue \in Queues /\ boot \in Boots /\ task \in Steps
           /\ resync.running \in BOOLEAN /\ resync.due \in BOOLEAN
           /\ resync \in [running : BOOLEAN, due : BOOLEAN]
           /\ boot.buffering \in BOOLEAN /\ boot.attempt \in BOOLEAN /\ boot.overflow \in BOOLEAN
           /\ boot.buffered \in Seq(Events) /\ task.batch \in Seq(Events) /\ task.got \subseteq Offers
           /\ link.up \in BOOLEAN /\ link.gen \in Nat /\ current \in BOOLEAN /\ stopped \in BOOLEAN
           /\ task.gen \in Nat /\ probe \in Nat /\ link \in [up : BOOLEAN, gen : Nat]
  BY DEF Control, Typed, WorkTyped, Queues, Boots, Steps, LinkTyped, MirrorTyped

LEMMA SameControl ==
    ASSUME Control, WorkSame
    PROVE  /\ LinkTyped' /\ WorkTyped' /\ MirrorTyped' /\ BufferInv' /\ QueueInv' /\ TaskInv'
<1> USE DEF WorkSame, Control, Typed
<1>1. LinkTyped' /\ WorkTyped' /\ MirrorTyped'
  BY DEF LinkTyped, WorkTyped, MirrorTyped
<1>2. BufferInv'
  BY DEF BufferInv
<1>3. QueueInv'
  BY DEF QueueInv
<1>4. TaskInv'
  BY DEF TaskInv
<1> QED BY <1>1, <1>2, <1>3, <1>4

LEMMA CommitControl == Control /\ Commit => Control'
<1> SUFFICES ASSUME Control, Commit PROVE Control'
  OBVIOUS
<1>1. WorkSame /\ server' = server /\ wire' = wire /\ client' = client
  BY DEF Commit, WorkSame, wireVars, workVars, mirrorVars
<1>2. NodeTyped'
  BY CommitTyped DEF Control
<1>3. WireTyped' /\ WireInv'
  BY <1>1 DEF Control, Typed, WireTyped, WireInv
<1>4. LinkInv'
  BY <1>1 DEF Control, LinkInv, WorkSame
<1> QED BY <1>1, <1>2, <1>3, <1>4, SameControl DEF Control, Typed

LEMMA SweepControl == Control /\ Sweep => Control'
<1> SUFFICES ASSUME Control, Sweep PROVE Control'
  OBVIOUS
<1> USE DEF Control, Typed
<1>1. /\ server' = server /\ wire' = wire /\ client' = client /\ UNCHANGED nodeVars
      /\ link' = link /\ current' = current /\ boot' = boot /\ queue' = queue /\ task' = task
      /\ resync' = resync /\ probe' = probe /\ stopped' = stopped
      /\ book' \subseteq book /\ overdue' \subseteq overdue
  BY DEF Sweep, wireVars, workVars
<1>2. NodeTyped' /\ WireTyped' /\ LinkTyped' /\ WorkTyped' /\ MirrorTyped'
  BY <1>1 DEF NodeTyped, WireTyped, LinkTyped, WorkTyped, MirrorTyped, nodeVars
<1>3. WireInv' /\ LinkInv'
  BY <1>1 DEF WireInv, LinkInv
<1>4. BufferInv' /\ QueueInv' /\ TaskInv'
  BY <1>1 DEF BufferInv, QueueInv, TaskInv
<1> QED BY <1>2, <1>3, <1>4

LEMMA ReleaseControl == Control /\ Release => Control'
<1> SUFFICES ASSUME Control, Release PROVE Control'
  OBVIOUS
<1>1. WorkSame /\ client' = client /\ listener(Head(outbox)) /\ outbox # <<>>
  BY DEF Release, StreamStep, WorkSame, workVars, mirrorVars
<1>2. NodeTyped' /\ WireTyped'
  BY ReleaseTyped DEF Control
<1>3. LinkInv'
  BY <1>1 DEF Control, LinkInv, WorkSame
<1>4. WireInv'
  <2>1. Head(outbox) \in Events /\ Head(outbox) # <<>>
    BY <1>1, HeadTailProperties, EventCut DEF Control, Typed, NodeTyped
  <2>2. CASE ~server.attached
    <3>1. wire' = wire /\ server' = server
      BY <1>1, <2>2 DEF listener
    <3> QED BY <1>1, <3>1 DEF Control, WireInv
  <2>3. CASE server.attached
    <3>1. PICK f : f = [seq |-> server.seq + 1, ev |-> Head(outbox)]
      OBVIOUS
    <3>2. wire' = Append(wire, f) /\ server'.seq = server.seq + 1
      BY <1>1, <2>3, <3>1 DEF listener
    <3>3. /\ server.seq \in Nat /\ client.seq \in Nat /\ wire \in Seq(Frames) /\ server.seq > 0
          /\ Len(wire) + client.seq <= server.seq /\ client.open
      BY <2>3 DEF Control, Typed, WireTyped, WireInv
    <3>4. f \in Frames /\ f.seq # 1 /\ f.ev # <<>>
      BY <2>1, <3>1, <3>3 DEF Frames, Texts
    <3>5. /\ Len(Append(wire, f)) = Len(wire) + 1 /\ Len(wire) \in Nat
          /\ Append(wire, f)[Len(wire) + 1] = f
          /\ \A i \in 1..Len(wire) : Append(wire, f)[i] = wire[i]
      BY <3>3, <3>4
    <3>6. \A i \in 1..Len(wire') : wire'[i].seq = 1 <=> wire'[i].ev = <<>>
      <4> TAKE i \in 1..Len(wire')
      <4>1. i \in 1..Len(wire) \/ i = Len(wire) + 1
        BY <3>2, <3>5
      <4> QED BY <3>2, <3>4, <3>5, <4>1 DEF Control, WireInv
    <3>7. Len(wire') + client.seq <= server'.seq /\ server'.seq > 0
      BY <3>2, <3>3, <3>5
    <3> QED BY <1>1, <3>3, <3>6, <3>7 DEF WireInv
  <2> QED BY <2>2, <2>3
<1> QED BY <1>1, <1>2, <1>3, <1>4, SameControl DEF Control, Typed

LEMMA DropControl == Control /\ (Drop \/ Lose) => Control'
<1> SUFFICES ASSUME Control, Drop \/ Lose PROVE Control'
  OBVIOUS
<1>1. WorkSame /\ client' = client /\ node' = node /\ indexed' = indexed /\ outbox' = outbox
  BY DEF Drop, Lose, StreamStep, WorkSame, workVars, mirrorVars
<1>2. NodeTyped' /\ WireTyped'
  BY <1>1, WireSteps DEF Control, Typed, NodeTyped
<1>3. LinkInv'
  BY <1>1 DEF Control, LinkInv, WorkSame
<1>4. WireInv'
  <2>1. CASE Drop
    <3>1. wire' = wire /\ server' = [server EXCEPT !.attached = FALSE]
      BY <2>1 DEF Drop
    <3>2. ~server'.attached /\ server'.seq = server.seq
      BY <3>1 DEF Control, Typed, WireTyped
    <3> QED BY <1>1, <3>1, <3>2 DEF Control, WireInv
  <2>2. CASE Lose
    <3>1. wire # <<>> /\ wire' = Tail(wire) /\ server' = server
      BY <2>2 DEF Lose
    <3>2. /\ Len(Tail(wire)) = Len(wire) - 1 /\ Len(wire) \in Nat \ {0}
          /\ \A i \in 1..Len(Tail(wire)) : Tail(wire)[i] = wire[i + 1]
      BY <3>1, HeadTailProperties, EmptySeq DEF Control, Typed, WireTyped
    <3>3. \A i \in 1..Len(Tail(wire)) : i + 1 \in 1..Len(wire)
      BY <3>2
    <3>4. \A i \in 1..Len(wire') : wire'[i].seq = 1 <=> wire'[i].ev = <<>>
      BY <3>1, <3>2, <3>3 DEF Control, WireInv
    <3>5. Len(wire') + client.seq <= server.seq
      BY <3>1, <3>2 DEF Control, WireInv, Typed, WireTyped
    <3> QED BY <1>1, <3>1, <3>4, <3>5 DEF Control, WireInv
  <2> QED BY <2>1, <2>2
<1> QED BY <1>1, <1>2, <1>3, <1>4, SameControl DEF Control, Typed

LEMMA SubscribeControl == Control /\ Subscribe => Control'
<1> SUFFICES ASSUME Control, Subscribe PROVE Control'
  OBVIOUS
<1>1. /\ WorkSame /\ node' = node /\ indexed' = indexed /\ outbox' = outbox
      /\ ~client.open /\ ~stopped /\ client' = [open |-> TRUE, seq |-> 0]
      /\ server' = [attached |-> TRUE, seq |-> 1] /\ wire' = <<[seq |-> 1, ev |-> <<>>]>>
  BY DEF Subscribe, StreamStep, WorkSame, workVars, mirrorVars
<1>2. NodeTyped' /\ WireTyped'
  BY <1>1, WireSteps DEF Control, Typed, NodeTyped
<1>3. client.seq = 0
  BY <1>1 DEF Control, Typed, WireTyped, WireInv
<1>4. LinkInv'
  BY <1>1, <1>3 DEF Control, LinkInv, WorkSame
<1>5. WireInv'
  <2>1. Len(wire') = 1 /\ wire'[1] = [seq |-> 1, ev |-> <<>>]
    BY <1>1
  <2> QED BY <1>1, <2>1 DEF WireInv
<1> QED BY <1>1, <1>2, <1>4, <1>5, SameControl DEF Control, Typed

\* The client ends its subscription.
LEMMA FinishControl == Control /\ ClientStep /\ finish => Control'
<1> SUFFICES ASSUME Control, ClientStep, finish PROVE Control'
  OBVIOUS
<1>1. /\ client.open /\ node' = node /\ indexed' = indexed /\ outbox' = outbox /\ task' = task
      /\ probe' = probe /\ stopped' = stopped /\ book' = book /\ overdue' = overdue
  BY DEF ClientStep, nodeVars, mirrorVars
<1>2. Typed
  BY DEF Control
<1>3. /\ WireTyped' /\ LinkTyped' /\ boot' \in Boots /\ queue' = queue /\ resync' = resync
      /\ ~client'.open /\ client'.seq = 0 /\ wire' = <<>> /\ ~server'.attached /\ server'.seq = 0
      /\ boot'.buffering = boot.buffering /\ boot'.attempt = boot.attempt
      /\ \/ link' = link /\ current' = current /\ boot' = boot /\ client.seq = 0
         \/ /\ ~link'.up /\ link'.gen = link.gen + 1 /\ ~current' /\ client.seq > 0
            /\ \/ boot.buffering /\ boot'.buffered = <<>> /\ ~boot'.overflow
               \/ ~boot.buffering /\ boot' = boot
  BY <1>2, FinishDoes
<1>4. NodeTyped' /\ MirrorTyped' /\ WorkTyped'
  BY <1>1, <1>2, <1>3 DEF Typed, NodeTyped, MirrorTyped, WorkTyped
<1>5. WireInv'
  BY <1>3 DEF WireInv
<1>6. LinkInv'
  <2>1. ~stopped /\ link.gen \in Nat
    BY <1>1, ControlFacts DEF Control, LinkInv
  <2>2. CASE client.seq = 0
    BY <1>1, <1>3, <2>1, <2>2 DEF Control, LinkInv
  <2>3. CASE client.seq # 0
    <3>1. ~link'.up /\ link'.gen = link.gen + 1 /\ ~current'
      BY <1>3, <2>3
    <3>2. task.gen <= link.gen + 1 /\ \A i \in 1..Len(queue) : queue[i].gen <= link.gen + 1
      <4>1. task.gen \in Nat /\ \A i \in 1..Len(queue) : queue[i].gen \in Nat
        <5>1. \A i \in 1..Len(queue) : queue[i] \in Tasks
          BY ControlFacts, ElementOfSeq DEF Queues
        <5> QED BY <5>1, ControlFacts DEF Tasks
      <4> QED BY <2>1, <4>1 DEF Control, LinkInv
    <3> QED BY <1>1, <1>3, <2>1, <3>1, <3>2 DEF LinkInv
  <2> QED BY <2>2, <2>3
<1>7. BufferInv'
  <2>1. link.up <=> client.seq > 0
    BY <1>1 DEF Control, LinkInv
  <2> QED BY <1>1, <1>3, <2>1 DEF Control, BufferInv
<1>8. QueueInv' /\ TaskInv'
  BY <1>1, <1>3 DEF Control, QueueInv, TaskInv
<1> QED BY <1>3, <1>4, <1>5, <1>6, <1>7, <1>8 DEF Control, Typed

LEMMA StopControl == Control /\ Stop => Control'
<1> SUFFICES ASSUME Control, Stop PROVE Control'
  OBVIOUS
<1>1. /\ stopped' = TRUE /\ current' = FALSE /\ boot' = [boot EXCEPT !.buffered = <<>>]
      /\ client' = [open |-> FALSE, seq |-> 0] /\ wire' = <<>>
      /\ server' = [attached |-> FALSE, seq |-> 0]
      /\ node' = node /\ indexed' = indexed /\ outbox' = outbox /\ link' = link /\ queue' = queue
      /\ task' = task /\ resync' = resync /\ probe' = probe /\ book' = book /\ overdue' = overdue
  BY DEF Stop, nodeVars, mirrorVars
<1>2. WireTyped'
  BY WireSteps DEF Control
<1>3. boot' \in Boots
  <2>1. <<>> \in Seq(Events)
    OBVIOUS
  <2> QED BY <1>1, <2>1, ControlFacts DEF Boots
<1>4. NodeTyped' /\ MirrorTyped' /\ WorkTyped' /\ LinkTyped'
  BY <1>1, <1>3 DEF Control, Typed, NodeTyped, MirrorTyped, WorkTyped, LinkTyped
<1>5. WireInv'
  BY <1>1 DEF WireInv
<1>6. LinkInv'
  BY <1>1 DEF Control, LinkInv
<1>7. BufferInv' /\ QueueInv' /\ TaskInv'
  BY <1>1 DEF BufferInv, QueueInv, Control, TaskInv
<1> QED BY <1>2, <1>4, <1>5, <1>6, <1>7 DEF Control, Typed

\* A frame in sequence: what it leaves of the wire.
LEMMA FrameDoes ==
    ASSUME Control, wire # <<>>, NEW f, f = Head(wire), f.seq = client.seq + 1,
           client' = [client EXCEPT !.seq = f.seq], wire' = Tail(wire), server' = server, client.open
    PROVE  /\ WireTyped' /\ WireInv' /\ f \in Frames /\ client'.open /\ client'.seq = client.seq + 1
           /\ Len(wire') = Len(wire) - 1 /\ (f.seq = 1 <=> f.ev = <<>>)
           /\ Evs(wire) # <<>> /\ Evs(wire') = Tail(Evs(wire)) /\ Head(Evs(wire)) = f.ev
           /\ Evs(wire) \in Seq(Texts)
<1>1. /\ client \in [open : BOOLEAN, seq : Nat] /\ wire \in Seq(Frames)
      /\ server \in [attached : BOOLEAN, seq : Nat]
      /\ Len(wire) + client.seq <= server.seq /\ (server.attached => server.seq > 0)
      /\ \A i \in 1..Len(wire) : wire[i].seq = 1 <=> wire[i].ev = <<>>
  BY DEF Control, Typed, WireTyped, WireInv
<1>2. /\ Len(Tail(wire)) = Len(wire) - 1 /\ Len(wire) \in Nat \ {0} /\ Tail(wire) \in Seq(Frames)
      /\ \A i \in 1..Len(Tail(wire)) : Tail(wire)[i] = wire[i + 1]
      /\ f \in Frames /\ f = wire[1]
  BY <1>1, HeadTailProperties, EmptySeq
<1>3. client'.open /\ client'.seq = client.seq + 1 /\ client' \in [open : BOOLEAN, seq : Nat]
  BY <1>1, <1>2
<1>4. WireTyped'
  BY <1>1, <1>2, <1>3 DEF WireTyped
<1>5. \A i \in 1..Len(Tail(wire)) : i + 1 \in 1..Len(wire)
  BY <1>2
<1>6. WireInv'
  BY <1>1, <1>2, <1>3, <1>5 DEF WireInv
<1>7. f.seq = 1 <=> f.ev = <<>>
  BY <1>1, <1>2
<1>8. \A t \in Frames : t.ev \in Texts
  BY DEF Frames
<1>9. /\ Evs(wire) # <<>> /\ Evs(Tail(wire)) = Tail(Evs(wire)) /\ Head(Evs(wire)) = f.ev
      /\ Evs(wire) \in Seq(Texts)
  BY <1>1, <1>8, EvsTail, EvsOf
<1> QED BY <1>2, <1>3, <1>4, <1>6, <1>7, <1>9

\* A task put at the end of a queue of which nothing else changes.
LEMMA AppendedTask ==
    ASSUME Control, NEW t \in Tasks, t.kind = "event" <=> t.ev # <<>>, t.gen = 0,
           queue' = Append(queue, t), task' = task, NEW n \in Nat, link.gen <= n
    PROVE  /\ TaskInv' /\ task.gen <= n /\ \A i \in 1..Len(queue') : queue'[i].gen <= n
           /\ queue # <<>> => Head(queue') = Head(queue)
<1>1. /\ queue' \in Queues /\ Len(queue') = Len(queue) + 1 /\ Len(queue) \in Nat
      /\ queue'[Len(queue) + 1] = t /\ \A i \in 1..Len(queue) : queue'[i] = queue[i]
      /\ queue # <<>> => Head(queue') = Head(queue) /\ queue' # <<>>
  BY ControlFacts, QueueAppend
<1>2. TaskInv'
  BY <1>1 DEF Control, TaskInv
<1>3. \A i \in 1..Len(queue) : queue[i] \in Tasks
  BY ControlFacts, ElementOfSeq DEF Queues
<1>4. link.gen \in Nat /\ task.gen \in Nat /\ \A i \in 1..Len(queue) : queue[i].gen \in Nat
  BY <1>3, ControlFacts DEF Tasks
<1>5. task.gen <= n /\ \A i \in 1..Len(queue) : queue[i].gen <= n
  BY <1>4 DEF Control, LinkInv
<1>6. \A i \in 1..Len(queue') : i \in 1..Len(queue) \/ i = Len(queue) + 1
  BY <1>1
<1>7. \A i \in 1..Len(queue') : queue'[i].gen <= n
  BY <1>1, <1>5, <1>6
<1> QED BY <1>1, <1>2, <1>5, <1>7

\* Nothing moves in the queue, and the link may have a new generation.
LEMMA SameQueue ==
    ASSUME Control, queue' = queue, task' = task, NEW n \in Nat, link.gen <= n
    PROVE  TaskInv' /\ task.gen <= n /\ \A i \in 1..Len(queue') : queue'[i].gen <= n
<1>1. TaskInv'
  BY DEF Control, TaskInv
<1>2. \A i \in 1..Len(queue) : queue[i] \in Tasks
  BY ControlFacts, ElementOfSeq DEF Queues
<1>3. link.gen \in Nat /\ task.gen \in Nat /\ \A i \in 1..Len(queue) : queue[i].gen \in Nat
  BY <1>2, ControlFacts DEF Tasks
<1> QED BY <1>1, <1>3 DEF Control, LinkInv

\* What is arranged keeps the queue coherent.
LEMMA ArrangedControl ==
    ASSUME Control, Arranges, ~stopped, stopped' = stopped, task' = task, probe' # 0 => ~boot.buffering,
           link'.up \/ (link'.up = link.up), NEW n \in Nat, link.gen <= n
    PROVE  /\ WorkTyped' /\ TaskInv' /\ QueueInv' /\ BufferInv' /\ task.gen <= n
           /\ \A i \in 1..Len(queue') : queue'[i].gen <= n
<1>1. WorkTyped'
  BY DEF Arranges, Control, Typed, WorkTyped, Queues
<1>2. /\ TaskInv' /\ task.gen <= n /\ \A i \in 1..Len(queue') : queue'[i].gen <= n
  <2>1. CASE queue' = queue
    BY <2>1, SameQueue
  <2>2. CASE queue' = Append(queue, Task("initial"))
    <3>1. /\ Task("initial") \in Tasks /\ Task("initial").gen = 0
          /\ Task("initial").kind = "event" <=> Task("initial").ev # <<>>
      BY EventTasks
    <3> QED BY <2>2, <3>1, AppendedTask
  <2>3. CASE queue' = Append(queue, Task("stage"))
    <3>1. /\ Task("stage") \in Tasks /\ Task("stage").gen = 0
          /\ Task("stage").kind = "event" <=> Task("stage").ev # <<>>
      BY EventTasks
    <3> QED BY <2>3, <3>1, AppendedTask
  <2> QED BY <2>1, <2>2, <2>3 DEF Arranges
<1>3. BufferInv'
  BY DEF Arranges, Control, BufferInv
<1>4. Coherent(queue', boot'.buffering, boot'.attempt, resync'.running, resync'.due)
  <2>1. Coherent(queue, boot.buffering, boot.attempt, resync.running, resync.due)
    BY DEF Control, QueueInv
  <2>2. /\ queue \in Queues /\ boot'.buffering \in BOOLEAN /\ boot'.attempt \in BOOLEAN
        /\ resync'.running \in BOOLEAN /\ resync'.due \in BOOLEAN /\ boot'.buffering = boot.buffering
    BY ControlFacts DEF Boots, Arranges
  <2>3. CASE queue' = queue /\ boot'.attempt = boot.attempt /\ resync' = resync
    BY <2>1, <2>2, <2>3
  <2>4. CASE /\ queue' = Append(queue, Task("initial")) /\ resync' = resync
             /\ boot.buffering /\ ~boot.attempt /\ boot'.attempt
    <3>1. queue = <<>> /\ ~resync.running /\ ~resync.due
      BY <2>1, <2>4 DEF Coherent
    <3>2. Task("initial") \in Tasks /\ Task("initial").kind = "initial" /\ Task("initial").ev = <<>>
      BY EventTasks
    <3> QED BY <2>2, <2>4, <3>1, <3>2, CoherentInitial
  <2>5. CASE /\ ~boot.buffering /\ boot' = boot /\ resync'.running /\ resync'.due = resync.running
             /\ resync.running /\ queue' = queue
    BY <2>1, <2>2, <2>5 DEF Coherent
  <2>6. CASE /\ ~boot.buffering /\ boot' = boot /\ resync'.running
             /\ ~resync.running /\ queue' = Append(queue, Task("stage"))
    <3>1. \A i \in 1..Len(queue) : ~IsStage(queue[i]) /\ queue[i].kind # "initial"
      BY <2>1, <2>6 DEF Coherent
    <3>2. Task("stage") \in Tasks /\ IsStage(Task("stage")) /\ Task("stage").ev = <<>>
      BY EventTasks DEF IsStage
    <3> QED BY <2>2, <2>6, <3>1, <3>2, CoherentStage
  <2> QED BY <2>3, <2>4, <2>5, <2>6 DEF Arranges
<1>5. QueueInv'
  BY <1>4 DEF QueueInv, Arranges
<1> QED BY <1>1, <1>2, <1>3, <1>5

\* The two things a received frame may be.
LEMMA ReceiveDoes ==
    ASSUME Control, Receive, ~finish
    PROVE  \E f \in Frames :
        /\ wire # <<>> /\ f = Head(wire) /\ f.seq = client.seq + 1
        /\ client' = [client EXCEPT !.seq = f.seq] /\ wire' = Tail(wire) /\ server' = server
        /\ client.open /\ ~stopped /\ node' = node /\ indexed' = indexed /\ outbox' = outbox
        /\ task' = task /\ probe' = probe /\ stopped' = stopped /\ book' = book /\ overdue' = overdue
        /\ \/ f.ev = <<>> /\ client.seq = 0 /\ onOpen
           \/ /\ f.ev \in Events /\ client.seq > 0 /\ onEvent(f.ev)
              /\ link' = link /\ current' = current /\ resync' = resync
<1>1. PICK f : f = Head(wire)
  OBVIOUS
<1>2. /\ wire # <<>> /\ client.open /\ f.seq = client.seq + 1
      /\ client' = [client EXCEPT !.seq = f.seq] /\ wire' = Tail(wire) /\ server' = server
      /\ IF f.seq = 1 THEN onOpen
         ELSE onEvent(f.ev) /\ link' = link /\ current' = current /\ resync' = resync
  BY <1>1 DEF Receive, ClientStep, followsInSequence
<1>3. /\ node' = node /\ indexed' = indexed /\ outbox' = outbox /\ task' = task /\ probe' = probe
      /\ stopped' = stopped /\ book' = book /\ overdue' = overdue
  BY DEF Receive, ClientStep, nodeVars, mirrorVars
<1>4. f \in Frames /\ (f.seq = 1 <=> f.ev = <<>>)
  BY <1>1, <1>2, FrameDoes
<1>5. ~stopped
  BY <1>2 DEF Control, LinkInv
<1>6. client.seq \in Nat /\ f.seq \in Nat /\ f.ev \in Texts
  BY <1>4 DEF Control, Typed, WireTyped, Frames
<1>7. \/ f.ev = <<>> /\ client.seq = 0 /\ onOpen
      \/ /\ f.ev \in Events /\ client.seq > 0 /\ onEvent(f.ev)
         /\ link' = link /\ current' = current /\ resync' = resync
  BY <1>2, <1>4, <1>6 DEF Texts
<1> QED BY <1>1, <1>2, <1>3, <1>4, <1>5, <1>7

LEMMA ReceiveControl == Control /\ Receive => Control'
<1> SUFFICES ASSUME Control, Receive PROVE Control'
  OBVIOUS
<1>1. CASE finish
  BY <1>1, FinishControl DEF Receive
<1>2. CASE ~finish
  <2>1. PICK f \in Frames :
        /\ wire # <<>> /\ f = Head(wire) /\ f.seq = client.seq + 1
        /\ client' = [client EXCEPT !.seq = f.seq] /\ wire' = Tail(wire) /\ server' = server
        /\ client.open /\ ~stopped /\ node' = node /\ indexed' = indexed /\ outbox' = outbox
        /\ task' = task /\ probe' = probe /\ stopped' = stopped /\ book' = book /\ overdue' = overdue
        /\ \/ f.ev = <<>> /\ client.seq = 0 /\ onOpen
           \/ /\ f.ev \in Events /\ client.seq > 0 /\ onEvent(f.ev)
              /\ link' = link /\ current' = current /\ resync' = resync
    BY <1>2, ReceiveDoes
  <2>2. WireTyped' /\ WireInv' /\ client'.open /\ client'.seq = client.seq + 1
    BY <2>1, FrameDoes
  <2>3. NodeTyped' /\ MirrorTyped' /\ Typed /\ client.seq \in Nat
    BY <2>1 DEF Control, Typed, NodeTyped, MirrorTyped, WireTyped
  <2>4. (link.up <=> client.seq > 0) /\ client'.seq > 0
    BY <2>1, <2>2, <2>3 DEF Control, LinkInv
  <2>5. CASE f.ev = <<>> /\ client.seq = 0 /\ onOpen
    <3>1. ~link.up
      BY <2>4, <2>5
    <3>2. /\ LinkTyped' /\ link'.up /\ link'.gen = link.gen + 1 /\ Arranges
          /\ \/ boot.buffering /\ current' = current
             \/ ~boot.buffering /\ ~current' /\ resync'.running /\ resync'.due = resync.running
      BY <2>3, <2>5, OnOpenDoes
    <3>3. link'.gen \in Nat /\ link.gen <= link'.gen
      BY <3>2, ControlFacts
    <3>4. /\ WorkTyped' /\ TaskInv' /\ QueueInv' /\ BufferInv' /\ task.gen <= link'.gen
          /\ \A i \in 1..Len(queue') : queue'[i].gen <= link'.gen
      <4>1. probe' # 0 => ~boot.buffering
        BY <2>1 DEF Control, QueueInv
      <4> QED BY <2>1, <3>2, <3>3, <4>1, ArrangedControl
    <3>5. ~current'
      BY <2>1, <3>1, <3>2 DEF Control, LinkInv
    <3>6. LinkInv'
      BY <2>1, <2>2, <2>4, <3>2, <3>4, <3>5 DEF LinkInv
    <3> QED BY <2>2, <2>3, <3>2, <3>4, <3>6 DEF Control, Typed
  <2>6. CASE f.ev \in Events /\ onEvent(f.ev) /\ client.seq > 0 /\ link' = link /\ current' = current
             /\ resync' = resync
    <3>1. /\ boot' \in Boots /\ queue' \in Queues
          /\ boot'.buffering = boot.buffering /\ boot'.attempt = boot.attempt
          /\ \/ boot.buffering /\ boot.overflow /\ boot' = boot /\ queue' = queue
             \/ boot.buffering /\ boot'.overflow /\ boot'.buffered = <<>> /\ queue' = queue
             \/ /\ boot.buffering /\ ~boot.overflow /\ ~boot'.overflow
                /\ boot'.buffered = Append(boot.buffered, f.ev) /\ queue' = queue
             \/ ~boot.buffering /\ boot' = boot /\ queue' = Append(queue, EventTask(f.ev))
      BY <2>3, <2>6, OnEventDoes
    <3>2. LinkTyped' /\ WorkTyped'
      BY <2>1, <2>6, <3>1 DEF Control, Typed, LinkTyped, WorkTyped, Queues
    <3>3. /\ EventTask(f.ev) \in Tasks /\ EventTask(f.ev).gen = 0 /\ EventTask(f.ev).kind = "event"
          /\ EventTask(f.ev).ev # <<>>
      BY <2>6, EventTasks
    <3>4. /\ TaskInv' /\ task.gen <= link.gen /\ \A i \in 1..Len(queue') : queue'[i].gen <= link.gen
      <4>1. link.gen \in Nat /\ link.gen <= link.gen
        BY ControlFacts
      <4>2. CASE queue' = queue
        BY <2>1, <4>1, <4>2, SameQueue
      <4>3. CASE queue' = Append(queue, EventTask(f.ev))
        BY <2>1, <3>3, <4>1, <4>3, AppendedTask
      <4> QED BY <3>1, <4>2, <4>3
    <3>5. LinkInv'
      BY <2>1, <2>2, <2>4, <2>6, <3>1, <3>4 DEF Control, LinkInv
    <3>6. BufferInv'
      BY <2>1, <2>4, <2>6, <3>1 DEF Control, BufferInv
    <3>7. Coherent(queue', boot'.buffering, boot'.attempt, resync'.running, resync'.due)
      <4>1. Coherent(queue, boot.buffering, boot.attempt, resync.running, resync.due)
        BY <2>1 DEF Control, QueueInv
      <4>2. CASE queue' = queue
        BY <2>6, <3>1, <4>1, <4>2
      <4>3. CASE queue' = Append(queue, EventTask(f.ev)) /\ ~boot.buffering
        BY <2>6, <3>1, <3>3, <4>1, <4>3, ControlFacts, CoherentEvent
      <4> QED BY <3>1, <4>2, <4>3
    <3>8. QueueInv'
      BY <2>1, <3>1, <3>7 DEF Control, QueueInv
    <3> QED BY <2>2, <2>3, <3>2, <3>4, <3>5, <3>6, <3>8 DEF Control, Typed
  <2> QED BY <2>1, <2>5, <2>6
<1> QED BY <1>1, <1>2

\* The timers: a resynchronisation, a health check and its answer.
Timers == Resync \/ HealthTick \/ HealthExpires \/ HealthAnswer

LEMMA TimerDoes ==
    ASSUME Control, Timers
    PROVE  /\ ~stopped /\ stopped' = stopped /\ UNCHANGED nodeVars /\ server' = server /\ wire' = wire
           /\ client' = client /\ link' = link /\ task' = task /\ book' = book /\ overdue' = overdue
           /\ current' \in BOOLEAN /\ (current' => current) /\ Arranges
           /\ probe' \in Nat /\ (probe' # 0 => ~boot.buffering)
<1>1. /\ ~stopped /\ stopped' = stopped /\ UNCHANGED nodeVars /\ server' = server /\ wire' = wire
      /\ client' = client /\ link' = link /\ task' = task /\ book' = book /\ overdue' = overdue
  BY DEF Timers, Resync, HealthTick, HealthExpires, HealthAnswer, TimerStep, wireVars, mirrorVars
<1>2. /\ Typed /\ boot \in Boots /\ link'.up \in BOOLEAN /\ current \in BOOLEAN /\ probe \in Nat
      /\ link.gen \in Nat /\ (probe # 0 => ~boot.buffering) /\ boot.buffering \in BOOLEAN
  BY <1>1, ControlFacts DEF Control, QueueInv
<1>3. ASSUME scheduleHealthCheck PROVE Arranges /\ probe' \in Nat /\ (probe' # 0 => ~boot.buffering)
  <2>1. CASE boot.buffering /\ link.up
    <3>1. ensureInitialSync(boot, queue) /\ probe' = probe /\ resync' = resync
      BY <1>3, <2>1 DEF scheduleHealthCheck
    <3> QED BY <1>2, <3>1, EnsureArranges
  <2>2. CASE ~(boot.buffering /\ link.up)
    <3>1. /\ probe' = IF link.up /\ ~resync.running /\ probe = 0 THEN link.gen ELSE probe
          /\ boot' = boot /\ queue' = queue /\ resync' = resync
      BY <1>3, <2>2 DEF scheduleHealthCheck
    <3>2. Arranges
      BY <1>2, <3>1, NothingArranges
    <3> QED BY <1>2, <2>2, <3>1, <3>2
  <2> QED BY <2>1, <2>2
<1>4. CASE Resync
  <2>1. current' = current /\ probe' = probe
    BY <1>4 DEF Resync
  <2>2. Arranges
    <3>1. CASE boot.buffering
      BY <1>2, <1>4, <3>1, EnsureArranges DEF Resync
    <3>2. CASE ~boot.buffering
      BY <1>2, <1>4, <3>2, ScheduleArranges DEF Resync
    <3> QED BY <3>1, <3>2
  <2> QED BY <1>1, <1>2, <2>1, <2>2
<1>5. CASE HealthTick
  BY <1>1, <1>2, <1>3, <1>5 DEF HealthTick
<1>6. CASE HealthExpires
  BY <1>1, <1>2, <1>3, <1>6 DEF HealthExpires
<1>7. CASE HealthAnswer
  <2>1. probe # 0 /\ probe' = 0 /\ boot' = boot
    BY <1>7 DEF HealthAnswer
  <2>2. Arranges
    <3>1. CASE schedulePostReadyResync(queue)
      BY <1>2, <2>1, <3>1, ScheduleArranges
    <3>2. CASE queue' = queue /\ resync' = resync
      BY <1>2, <2>1, <3>2, NothingArranges
    <3> QED BY <1>7, <3>1, <3>2 DEF HealthAnswer
  <2>3. current' \in BOOLEAN /\ (current' => current)
    <3>1. CASE current' = current
      BY <1>2, <3>1
    <3>2. CASE current' = (current /\ link.gen # probe)
      BY <3>2
    <3> QED BY <1>7, <3>1, <3>2 DEF HealthAnswer
  <2> QED BY <1>1, <2>1, <2>2, <2>3
<1> QED BY <1>4, <1>5, <1>6, <1>7 DEF Timers

LEMMA TimerControl == Control /\ Timers => Control'
<1> SUFFICES ASSUME Control, Timers PROVE Control'
  OBVIOUS
<1>1. /\ ~stopped /\ stopped' = stopped /\ UNCHANGED nodeVars /\ server' = server /\ wire' = wire
      /\ client' = client /\ link' = link /\ task' = task /\ book' = book /\ overdue' = overdue
      /\ current' \in BOOLEAN /\ (current' => current) /\ Arranges
      /\ probe' \in Nat /\ (probe' # 0 => ~boot.buffering)
  BY TimerDoes
<1>2. /\ WorkTyped' /\ TaskInv' /\ QueueInv' /\ BufferInv' /\ task.gen <= link.gen
      /\ \A i \in 1..Len(queue') : queue'[i].gen <= link.gen
  BY <1>1, ControlFacts, ArrangedControl
<1>3. NodeTyped' /\ WireTyped' /\ LinkTyped' /\ MirrorTyped' /\ WireInv'
  BY <1>1 DEF Control, Typed, NodeTyped, WireTyped, LinkTyped, MirrorTyped, nodeVars, WireInv
<1>4. LinkInv'
  BY <1>1, <1>2 DEF Control, LinkInv, Arranges
<1> QED BY <1>2, <1>3, <1>4 DEF Control, Typed

\* The tasks touch neither the node nor the link.
Elsewhere == /\ node' = node /\ indexed' = indexed /\ outbox' = outbox /\ server' = server
             /\ wire' = wire /\ client' = client /\ link' = link /\ probe' = probe /\ stopped' = stopped

LEMMA ElsewhereControl ==
    ASSUME Control, Elsewhere, LinkTyped', WorkTyped', book' \subseteq Offers, overdue' \subseteq Offers,
           BufferInv', QueueInv', TaskInv', task'.gen <= link.gen,
           \A i \in 1..Len(queue') : queue'[i].gen <= link.gen,
           stopped => current' = current, ~stopped /\ current' => link.up /\ ~boot'.buffering
    PROVE  Control'
<1> USE DEF Elsewhere
<1>1. NodeTyped' /\ WireTyped' /\ MirrorTyped' /\ WireInv'
  BY DEF Control, Typed, NodeTyped, WireTyped, MirrorTyped, WireInv
<1>2. LinkInv'
  BY DEF Control, LinkInv
<1> QED BY <1>1, <1>2 DEF Control, Typed

LEMMA TailGens ==
    ASSUME Control, queue # <<>>
    PROVE  /\ Tail(queue) \in Queues /\ \A i \in 1..Len(Tail(queue)) : Tail(queue)[i].gen <= link.gen
           /\ Head(queue) \in Tasks /\ Head(queue).gen <= link.gen
           /\ \A t \in Tasks : (t.kind = "event" <=> t.ev # <<>>) /\ t.gen <= link.gen =>
                  \A i \in 1..Len(Append(Tail(queue), t)) : Append(Tail(queue), t)[i].gen <= link.gen
<1>1. /\ Tail(queue) \in Queues /\ Len(Tail(queue)) = Len(queue) - 1 /\ Len(queue) \in Nat \ {0}
      /\ \A i \in 1..Len(Tail(queue)) : Tail(queue)[i] = queue[i + 1] /\ i + 1 \in 1..Len(queue)
      /\ Head(queue) = queue[1] /\ Head(queue) \in Tasks
  BY ControlFacts, QueueTail
<1>2. \A i \in 1..Len(Tail(queue)) : Tail(queue)[i].gen <= link.gen
  BY <1>1 DEF Control, LinkInv
<1>3. Head(queue).gen <= link.gen
  BY <1>1 DEF Control, LinkInv
<1>4. ASSUME NEW t \in Tasks, t.kind = "event" <=> t.ev # <<>>, t.gen <= link.gen
      PROVE  \A i \in 1..Len(Append(Tail(queue), t)) : Append(Tail(queue), t)[i].gen <= link.gen
  <2>1. PICK q \in Queues : q = Tail(queue)
    BY <1>1
  <2>2. /\ Len(Append(q, t)) = Len(q) + 1 /\ Len(q) \in Nat
        /\ Append(q, t)[Len(q) + 1] = t /\ \A i \in 1..Len(q) : Append(q, t)[i] = q[i]
    BY <1>4, QueueAppend
  <2>3. \A i \in 1..Len(Append(q, t)) : i \in 1..Len(q) \/ i = Len(q) + 1
    BY <2>2
  <2>4. \A i \in 1..Len(Append(q, t)) : Append(q, t)[i].gen <= link.gen
    BY <1>2, <1>4, <2>1, <2>2, <2>3
  <2> QED BY <2>1, <2>4
<1> QED BY <1>1, <1>2, <1>3, <1>4

\* After a task, the next one has not started.
LEMMA OverTask == ASSUME task' = Fresh, Control PROVE TaskInv' /\ task'.gen <= link.gen /\ task' \in Steps
  BY FreshStep, ControlFacts DEF TaskInv

\* A resynchronisation ends.
LEMMA RunEnds ==
    ASSUME Control, Elsewhere, ~stopped, queue # <<>>, IsStage(Head(queue)), EndRun(Rest),
           task' = Fresh, boot' = boot
    PROVE  /\ WorkTyped' /\ TaskInv' /\ QueueInv' /\ BufferInv' /\ task'.gen <= link.gen
           /\ \A i \in 1..Len(queue') : queue'[i].gen <= link.gen
           /\ ~boot.buffering /\ resync'.running = resync.due /\ ~resync'.due
           /\ \/ resync.due /\ queue' = Append(Tail(queue), Task("stage"))
              \/ ~resync.due /\ queue' = Tail(queue)
           /\ \A i \in 1..Len(Tail(queue)) : ~IsStage(Tail(queue)[i])
<1>1. /\ Tail(queue) \in Queues /\ \A i \in 1..Len(Tail(queue)) : Tail(queue)[i].gen <= link.gen
      /\ \A t \in Tasks : (t.kind = "event" <=> t.ev # <<>>) /\ t.gen <= link.gen =>
             \A i \in 1..Len(Append(Tail(queue), t)) : Append(Tail(queue), t)[i].gen <= link.gen
  BY TailGens
<1>2. /\ resync' \in [running : BOOLEAN, due : BOOLEAN] /\ queue' \in Queues
      /\ resync'.running = resync.due /\ ~resync'.due
      /\ \/ resync.due /\ queue' = Append(Tail(queue), Task("stage"))
         \/ ~resync.due /\ queue' = Tail(queue)
  BY <1>1, ControlFacts, EndRunDoes DEF Rest
<1>3. TaskInv' /\ task'.gen <= link.gen /\ task' \in Steps
  BY OverTask
<1>4. WorkTyped'
  BY <1>2, <1>3, ControlFacts DEF WorkTyped, Queues
<1>5. /\ ~boot.buffering
      /\ \A i \in 1..Len(Tail(queue)) : ~IsStage(Tail(queue)[i]) /\ Tail(queue)[i].kind # "initial"
  BY ControlFacts, CoherentAfterStage DEF Control, QueueInv
<1>6. /\ Task("stage") \in Tasks /\ IsStage(Task("stage")) /\ Task("stage").ev = <<>>
      /\ Task("stage").kind = "event" <=> Task("stage").ev # <<>>
      /\ Task("stage").gen = 0
  BY EventTasks DEF IsStage
<1>7. \A i \in 1..Len(queue') : queue'[i].gen <= link.gen
  <2>1. CASE queue' = Tail(queue)
    BY <1>1, <2>1
  <2>2. CASE queue' = Append(Tail(queue), Task("stage"))
    <3>1. Task("stage").gen <= link.gen
      BY <1>6, ControlFacts
    <3>2. \A i \in 1..Len(Append(Tail(queue), Task("stage"))) :
              Append(Tail(queue), Task("stage"))[i].gen <= link.gen
      BY <1>1, <1>6, <3>1
    <3> QED BY <2>2, <3>2
  <2> QED BY <1>2, <2>1, <2>2
<1>8. Coherent(queue', boot'.buffering, boot'.attempt, resync'.running, resync'.due)
  <2>1. /\ boot'.buffering \in BOOLEAN /\ boot'.attempt \in BOOLEAN /\ ~boot'.buffering
        /\ resync'.running \in BOOLEAN /\ resync'.due \in BOOLEAN
    BY <1>2, <1>5, ControlFacts
  <2>2. CASE resync.due
    BY <1>1, <1>2, <1>5, <1>6, <2>1, <2>2, CoherentStage
  <2>3. CASE ~resync.due
    BY <1>1, <1>2, <1>5, <2>1, <2>3, CoherentQuiet
  <2> QED BY <2>2, <2>3
<1>9. QueueInv'
  BY <1>8, <1>5 DEF QueueInv
<1>10. BufferInv'
  BY DEF Control, BufferInv, Elsewhere
<1> QED BY <1>2, <1>3, <1>4, <1>5, <1>7, <1>9, <1>10

\* A startup attempt ends; it may be retried at once.
LEMMA AttemptEnds ==
    ASSUME Control, Elsewhere, ~stopped, queue # <<>>, Head(queue).kind = "initial",
           NEW b \in Boots, EndAttempt(b, Rest), task' = Fresh, resync' = resync,
           b.overflow => b.buffered = <<>>, ~link.up => b.buffered = <<>>,
           ~b.buffering => b.buffered = <<>>
    PROVE  /\ WorkTyped' /\ TaskInv' /\ QueueInv' /\ BufferInv' /\ task'.gen <= link.gen
           /\ \A i \in 1..Len(queue') : queue'[i].gen <= link.gen
           /\ boot.buffering /\ ~resync.running /\ ~resync.due
           /\ boot'.buffering = b.buffering /\ boot'.buffered = b.buffered /\ boot'.overflow = b.overflow
           /\ queue' = <<>> \/ (b.buffering /\ queue' = Append(<<>>, Task("initial")))
<1>1. /\ Tail(queue) = <<>> /\ boot.buffering /\ ~resync.running /\ ~resync.due
  BY ControlFacts, CoherentAttempt DEF Control, QueueInv
<1>2. <<>> \in Queues /\ link'.up \in BOOLEAN
  <2>1. <<>> \in Seq(Tasks) /\ Len(<<>>) = 0
    OBVIOUS
  <2> QED BY <2>1, ControlFacts DEF Queues, Elsewhere
<1>3. /\ boot' \in Boots /\ queue' \in Queues
      /\ boot'.buffering = b.buffering /\ boot'.buffered = b.buffered /\ boot'.overflow = b.overflow
      /\ \/ queue' = <<>> /\ ~boot'.attempt
         \/ queue' = Append(<<>>, Task("initial")) /\ b.buffering /\ boot'.attempt /\ link'.up
  BY <1>1, <1>2, EndAttemptDoes DEF Rest
<1>4. TaskInv' /\ task'.gen <= link.gen /\ task' \in Steps
  BY OverTask
<1>5. WorkTyped'
  BY <1>3, <1>4, ControlFacts DEF WorkTyped, Queues
<1>6. /\ Task("initial") \in Tasks /\ Task("initial").kind = "initial" /\ Task("initial").ev = <<>>
      /\ Task("initial").gen = 0
  BY EventTasks
<1>7. \A i \in 1..Len(queue') : queue'[i].gen <= link.gen
  <2>1. CASE queue' = <<>>
    BY <2>1
  <2>2. CASE queue' = Append(<<>>, Task("initial"))
    <3>1. Len(queue') = 1 /\ queue'[1] = Task("initial")
      BY <2>2
    <3> QED BY <1>6, <3>1, ControlFacts
  <2> QED BY <1>3, <2>1, <2>2
<1>8. Coherent(queue', boot'.buffering, boot'.attempt, resync'.running, resync'.due)
  <2>1. /\ boot'.buffering \in BOOLEAN /\ boot'.attempt \in BOOLEAN
        /\ resync'.running \in BOOLEAN /\ resync'.due \in BOOLEAN /\ ~resync'.running /\ ~resync'.due
    BY <1>1, <1>3, ControlFacts DEF Boots
  <2>2. CASE queue' = <<>>
    BY <2>1, <2>2, CoherentEmpty
  <2>3. CASE queue' = Append(<<>>, Task("initial")) /\ b.buffering /\ boot'.attempt
    BY <1>2, <1>3, <1>6, <2>1, <2>3, CoherentInitial
  <2> QED BY <1>3, <2>2, <2>3
<1>9. QueueInv'
  <2>1. probe = 0
    BY <1>1, ControlFacts DEF Control, QueueInv
  <2> QED BY <1>8, <2>1 DEF QueueInv, Elsewhere
<1>10. BufferInv'
  BY <1>3 DEF BufferInv, Elsewhere
<1> QED BY <1>1, <1>3, <1>4, <1>5, <1>7, <1>9, <1>10

LEMMA FailsControl ==
    ASSUME Control, Elsewhere, ~stopped, queue # <<>>, Head(queue).kind \in {"initial", "stage"}, Fails,
           book' = book, overdue' = overdue
    PROVE  Control'
<1>1. task' = Fresh /\ current' = FALSE
  BY DEF Fails, Over
<1>2. LinkTyped'
  BY <1>1, ControlFacts DEF LinkTyped, Elsewhere
<1>3. book \subseteq Offers /\ overdue \subseteq Offers
  BY DEF Control, Typed, MirrorTyped
<1>4. CASE Head(queue).kind = "initial"
  <2>1. EndAttempt(boot, Rest) /\ resync' = resync
    BY <1>4 DEF Fails
  <2>2. /\ boot \in Boots /\ (boot.overflow => boot.buffered = <<>>) /\ (~link.up => boot.buffered = <<>>)
        /\ (~boot.buffering => boot.buffered = <<>>)
    BY ControlFacts DEF Control, BufferInv
  <2>3. /\ WorkTyped' /\ TaskInv' /\ QueueInv' /\ BufferInv' /\ task'.gen <= link.gen
        /\ \A i \in 1..Len(queue') : queue'[i].gen <= link.gen
    BY <1>1, <1>4, <2>1, <2>2, AttemptEnds
  <2> QED BY <1>1, <1>2, <1>3, <2>3, ElsewhereControl
<1>5. CASE Head(queue).kind = "stage"
  <2>1. EndRun(Rest) /\ boot' = boot /\ IsStage(Head(queue))
    BY <1>5 DEF Fails, IsStage
  <2>2. /\ WorkTyped' /\ TaskInv' /\ QueueInv' /\ BufferInv' /\ task'.gen <= link.gen
        /\ \A i \in 1..Len(queue') : queue'[i].gen <= link.gen
    BY <1>1, <2>1, RunEnds
  <2> QED BY <1>1, <1>2, <1>3, <2>2, ElsewhereControl
<1> QED BY <1>4, <1>5

\* A task that waits for its next answer leaves the queue as it is.
LEMMA WaitsControl ==
    ASSUME Control, Elsewhere, queue' = queue, boot' \in Boots, boot'.buffering = boot.buffering,
           boot'.attempt = boot.attempt, boot'.buffered = boot.buffered \/ boot'.buffered = <<>>,
           boot'.overflow = boot.overflow \/ ~boot'.overflow, resync' = resync, current' = current,
           task' \in Steps, task'.gen = task.gen \/ task'.gen = link.gen, TaskInv',
           book' \subseteq Offers, overdue' \subseteq Offers
    PROVE  Control'
<1>1. LinkTyped' /\ WorkTyped'
  BY DEF Control, Typed, LinkTyped, WorkTyped, Elsewhere
<1>2. task'.gen <= link.gen /\ \A i \in 1..Len(queue') : queue'[i].gen <= link.gen
  BY ControlFacts DEF Control, LinkInv
<1>3. BufferInv'
  BY DEF Control, BufferInv, Elsewhere
<1>4. QueueInv'
  BY DEF Control, QueueInv, Elsewhere
<1>5. ~stopped /\ current' => link.up /\ ~boot'.buffering
  BY DEF Control, LinkInv
<1> QED BY <1>1, <1>2, <1>3, <1>4, <1>5, ElsewhereControl

-----------------------------------------------------------------------------
(* The tasks.                                                              *)

LEMMA RunningTask ==
    ASSUME NEW K, NEW at, Running(K, at)
    PROVE  Elsewhere /\ queue # <<>> /\ Head(queue).kind \in K /\ task.at = at
  BY DEF Running, Elsewhere, nodeVars, wireVars

\* The head of the queue in full.
LEMMA HeadTask ==
    ASSUME Control, queue # <<>>
    PROVE  /\ Head(queue) \in Tasks /\ (Head(queue).kind = "event" <=> Head(queue).ev # <<>>)
           /\ Head(queue).ev \in Texts /\ (Head(queue).kind = "event" => Head(queue).ev \in Events)
           /\ Tail(queue) \in Queues
<1>1. /\ Head(queue) \in Tasks /\ (Head(queue).kind = "event" <=> Head(queue).ev # <<>>)
      /\ Tail(queue) \in Queues
  BY ControlFacts, QueueTail
<1> QED BY <1>1 DEF Tasks, Texts

LEMMA EventStartsDoes ==
    ASSUME Control, EventStarts
    PROVE  /\ Elsewhere /\ queue # <<>> /\ Head(queue).kind = "event" /\ task.at = "start" /\ ~stopped
           /\ Head(queue).ev \in Events
           /\ current' = current /\ boot' = boot /\ resync' = resync
           /\ \/ /\ task' = [task EXCEPT !.at = "detail"] /\ Head(queue).ev.kind = "indexed"
                 /\ queue' = queue /\ book' = book /\ overdue' = overdue
              \/ /\ task' = Fresh /\ queue' = Tail(queue)
                 /\ book' = book \ Cut(Head(queue).ev) /\ overdue' = overdue \ Cut(Head(queue).ev)
<1>1. Elsewhere /\ queue # <<>> /\ Head(queue).kind = "event" /\ task.at = "start"
  BY RunningTask DEF EventStarts
<1>2. ~stopped /\ current' = current /\ boot' = boot /\ resync' = resync
  BY DEF EventStarts
<1>3. Head(queue).ev \in Events /\ Cut(Head(queue).ev) = Removes(Head(queue).ev)
  BY <1>1, HeadTask, EventCut
<1>4. IF WantsDetail(Head(queue).ev)
      THEN task' = [task EXCEPT !.at = "detail"] /\ queue' = queue /\ book' = book /\ overdue' = overdue
      ELSE /\ book' = book \ Removes(Head(queue).ev) /\ overdue' = overdue \ Removes(Head(queue).ev)
           /\ task' = Fresh /\ queue' = Tail(queue)
  BY DEF EventStarts, Goes, mirrorVars, Apply, Over, Rest
<1>5. WantsDetail(Head(queue).ev) => Head(queue).ev.kind = "indexed"
  BY DEF WantsDetail
<1> QED BY <1>1, <1>2, <1>3, <1>4, <1>5

LEMMA EventDetailDoes ==
    ASSUME Control, EventDetail
    PROVE  /\ Elsewhere /\ queue # <<>> /\ Head(queue).kind = "event" /\ task.at = "detail"
           /\ Head(queue).ev \in Events /\ Head(queue).ev.kind = "indexed"
           /\ current' = current /\ boot' = boot /\ resync' = resync /\ overdue' = overdue
           /\ task' = Fresh /\ queue' = Tail(queue)
           /\ book' = book \/ book' = book \cup {Head(queue).ev.offer}
<1>1. Elsewhere /\ queue # <<>> /\ Head(queue).kind = "event" /\ task.at = "detail"
  BY RunningTask DEF EventDetail
<1>2. Head(queue).ev \in Events /\ Head(queue).ev.kind = "indexed"
  BY <1>1, HeadTask DEF Control, TaskInv
<1> QED BY <1>1, <1>2 DEF EventDetail, Over, Rest, UnlessStopped

\* An event task ends.
LEMMA EventEnds ==
    ASSUME Control, Elsewhere, queue # <<>>, Head(queue).kind = "event",
           current' = current, boot' = boot, resync' = resync, task' = Fresh, queue' = Tail(queue),
           book' \subseteq Offers, overdue' \subseteq Offers
    PROVE  Control'
<1>1. /\ Tail(queue) \in Queues /\ \A i \in 1..Len(Tail(queue)) : Tail(queue)[i].gen <= link.gen
  BY TailGens
<1>2. TaskInv' /\ task'.gen <= link.gen /\ task' \in Steps
  BY OverTask
<1>3. LinkTyped' /\ WorkTyped'
  BY <1>1, <1>2 DEF Control, Typed, LinkTyped, WorkTyped, Elsewhere, Queues
<1>4. BufferInv'
  BY DEF Control, BufferInv, Elsewhere
<1>5. QueueInv'
  <2> SUFFICES ASSUME ~stopped PROVE QueueInv'
    BY DEF QueueInv, Elsewhere
  <2>1. Coherent(queue, boot.buffering, boot.attempt, resync.running, resync.due)
    BY DEF Control, QueueInv
  <2>2. Coherent(Tail(queue), boot.buffering, boot.attempt, resync.running, resync.due)
    BY <2>1, ControlFacts, CoherentAfterEvent
  <2> QED BY <2>2 DEF Control, QueueInv, Elsewhere
<1>6. ~stopped /\ current' => link.up /\ ~boot'.buffering
  BY DEF Control, LinkInv
<1> QED BY <1>1, <1>2, <1>3, <1>4, <1>5, <1>6, ElsewhereControl

LEMMA EventControl == Control /\ (EventStarts \/ EventDetail) => Control'
<1> SUFFICES ASSUME Control, EventStarts \/ EventDetail PROVE Control'
  OBVIOUS
<1>1. book \subseteq Offers /\ overdue \subseteq Offers
  BY DEF Control, Typed, MirrorTyped
<1>2. CASE EventStarts
  <2>1. /\ Elsewhere /\ queue # <<>> /\ Head(queue).kind = "event" /\ task.at = "start"
        /\ current' = current /\ boot' = boot /\ resync' = resync
        /\ \/ /\ task' = [task EXCEPT !.at = "detail"] /\ Head(queue).ev.kind = "indexed"
              /\ queue' = queue /\ book' = book /\ overdue' = overdue
           \/ /\ task' = Fresh /\ queue' = Tail(queue)
              /\ book' = book \ Cut(Head(queue).ev) /\ overdue' = overdue \ Cut(Head(queue).ev)
    BY <1>2, EventStartsDoes
  <2>2. CASE task' = [task EXCEPT !.at = "detail"] /\ Head(queue).ev.kind = "indexed"
             /\ queue' = queue /\ book' = book /\ overdue' = overdue
    <3>1. task' \in Steps /\ task'.gen = task.gen /\ task'.at = "detail"
      BY <2>2, ControlFacts DEF Steps, Places
    <3>2. TaskInv'
      BY <2>1, <2>2, <3>1 DEF TaskInv
    <3> QED BY <1>1, <2>1, <2>2, <3>1, <3>2, ControlFacts, WaitsControl
  <2>3. CASE task' = Fresh /\ queue' = Tail(queue) /\ book' \subseteq book /\ overdue' \subseteq overdue
    BY <1>1, <2>1, <2>3, EventEnds
  <2> QED BY <2>1, <2>2, <2>3
<1>3. CASE EventDetail
  <2>1. /\ Elsewhere /\ queue # <<>> /\ Head(queue).kind = "event"
        /\ Head(queue).ev \in Events
        /\ current' = current /\ boot' = boot /\ resync' = resync /\ overdue' = overdue
        /\ task' = Fresh /\ queue' = Tail(queue)
        /\ book' = book \/ book' = book \cup {Head(queue).ev.offer}
    BY <1>3, EventDetailDoes
  <2>2. book' \subseteq Offers
    BY <1>1, <2>1 DEF Events
  <2> QED BY <1>1, <2>1, <2>2, EventEnds
<1> QED BY <1>2, <1>3

LEMMA SnapshotStartsDoes ==
    ASSUME Control, SnapshotStarts
    PROVE  /\ Elsewhere /\ queue # <<>> /\ Head(queue).kind \in {"initial", "stage"} /\ task.at = "start"
           /\ ~stopped /\ book' = book /\ overdue' = overdue
           /\ \/ ~link.up /\ Fails
              \/ /\ link.up /\ current' = current /\ boot' = boot /\ queue' = queue /\ resync' = resync
                 /\ task' \in Steps /\ task'.gen = link.gen /\ task'.got = {} /\ task'.batch = <<>>
                 /\ \/ Head(queue).kind = "initial" /\ task'.at = "preflight"
                    \/ Head(queue).kind = "stage" /\ task'.at = "page"
<1>1. /\ Elsewhere /\ queue # <<>> /\ Head(queue).kind \in {"initial", "stage"} /\ task.at = "start"
  BY RunningTask DEF SnapshotStarts
<1>2. ~stopped /\ book' = book /\ overdue' = overdue
  BY DEF SnapshotStarts, mirrorVars
<1>3. CASE ~link.up
  BY <1>1, <1>2, <1>3 DEF SnapshotStarts
<1>4. CASE link.up
  <2>1. PICK at : at = IF Head(queue).kind = "initial" THEN "preflight" ELSE "page"
    OBVIOUS
  <2>2. /\ task' = [Fresh EXCEPT !.at = at, !.gen = link.gen, !.cursor = Cardinality(Offers) + 1]
        /\ current' = current /\ boot' = boot /\ queue' = queue /\ resync' = resync
    BY <1>4, <2>1 DEF SnapshotStarts
  <2>3. Cardinality(Offers) \in Nat /\ link.gen \in Nat /\ at \in Places
    BY <2>1, BookAssumption, FS_CardinalityType, ControlFacts DEF Places
  <2>4. /\ task' = [at |-> at, gen |-> link.gen, cursor |-> Cardinality(Offers) + 1,
                   got |-> {}, batch |-> <<>>]
    BY <2>2 DEF Fresh
  <2>5. <<>> \in Seq(Events) /\ {} \in SUBSET Offers
    OBVIOUS
  <2>6. /\ task' \in Steps /\ task'.gen = link.gen /\ task'.got = {} /\ task'.batch = <<>> /\ task'.at = at
    BY <2>3, <2>4, <2>5 DEF Steps
  <2> QED BY <1>1, <1>2, <1>4, <2>1, <2>2, <2>6
<1> QED BY <1>3, <1>4

LEMMA PreflightDoes ==
    ASSUME Control, Preflight
    PROVE  /\ Elsewhere /\ queue # <<>> /\ Head(queue).kind = "initial" /\ task.at = "preflight"
           /\ ~stopped /\ book' = book /\ overdue' = overdue /\ task.got = {} /\ task.batch = <<>>
           /\ \/ Fails
              \/ /\ current' = current /\ boot' = boot /\ queue' = queue /\ resync' = resync
                 /\ task' \in Steps /\ task' = [task EXCEPT !.at = "page"]
<1>1. /\ Elsewhere /\ queue # <<>> /\ Head(queue).kind = "initial" /\ task.at = "preflight"
  BY RunningTask DEF Preflight
<1>2. ~stopped /\ book' = book /\ overdue' = overdue
  BY DEF Preflight, mirrorVars
<1>3. task.got = {} /\ task.batch = <<>>
  BY <1>1 DEF Control, TaskInv
<1>4. [task EXCEPT !.at = "page"] \in Steps
  BY ControlFacts DEF Steps, Places
<1> QED BY <1>1, <1>2, <1>3, <1>4 DEF Preflight, Goes

LEMMA NatMaximum ==
    ASSUME NEW S \in SUBSET Nat, S # {}, NEW n \in Nat, \A i \in S : i <= n
    PROVE  \E m \in S : \A i \in S : i <= m
<1>1. PICK T : T = {k \in Nat : \A i \in S : i <= k}
  OBVIOUS
<1>2. PICK m \in T : \A k \in T : m <= k
  <2>1. PICK less : less = {p \in Nat \X Nat : p[1] < p[2]}
    OBVIOUS
  <2>2. IsWellFoundedOn(less, Nat)
    BY <2>1, NatLessThanWellFounded DEF OpToRel
  <2>3. \A x, y \in Nat : x < y => <<x, y>> \in less
    BY <2>1
  <2>4. T \subseteq Nat /\ T # {}
    BY <1>1
  <2>5. PICK m \in T : \A k \in T : <<k, m>> \notin less
    BY <2>2, <2>4, WFMin
  <2>6. \A k \in T : m \in Nat /\ k \in Nat /\ ~(k < m)
    BY <2>3, <2>4, <2>5
  <2>7. \A k \in T : m <= k
    BY <2>6
  <2> QED BY <2>7
<1>3. m \in S
  <2> SUFFICES ASSUME m \notin S PROVE FALSE
    OBVIOUS
  <2>1. m \in Nat /\ \A i \in S : i \in Nat /\ i <= m /\ i # m
    BY <1>1, <1>2
  <2>2. m # 0
    <3>1. PICK i \in S : TRUE
      OBVIOUS
    <3>2. i \in Nat /\ i <= m /\ i # m
      BY <2>1
    <3> QED BY <2>1, <3>2
  <2>3. \A i \in S : i <= m - 1
    BY <2>1
  <2>4. m - 1 \in T
    BY <1>1, <2>1, <2>2, <2>3
  <2> QED BY <1>2, <2>1, <2>4
<1> QED BY <1>1, <1>2, <1>3

LEMMA PageDoes ==
    ASSUME Control, Page
    PROVE  /\ Elsewhere /\ queue # <<>> /\ Head(queue).kind \in {"initial", "stage"} /\ task.at = "page"
           /\ ~stopped /\ book' = book /\ overdue' = overdue /\ task.batch = <<>>
           /\ \/ Fails
              \/ /\ current' = current /\ boot' = boot /\ queue' = queue /\ resync' = resync
                 /\ task' \in Steps /\ task'.gen = task.gen /\ task'.batch = task.batch
                 /\ \/ task'.at = "verdict" /\ task'.got = task.got
                    \/ \E o \in Offers : Listed(o) /\ task'.at = "page" /\ task'.got = task.got \cup {o}
<1>1. /\ Elsewhere /\ queue # <<>> /\ Head(queue).kind \in {"initial", "stage"} /\ task.at = "page"
  BY RunningTask DEF Page
<1>2. ~stopped /\ book' = book /\ overdue' = overdue
  BY DEF Page, mirrorVars
<1>3. task.batch = <<>>
  BY <1>1 DEF Control, TaskInv
<1>4. CASE Fails
  BY <1>1, <1>2, <1>3, <1>4
<1>5. CASE ~Fails
  <2>1. PICK older : older = {i \in 1..Len(indexed) : i < task.cursor /\ Listed(indexed[i])}
    OBVIOUS
  <2>2. /\ IF older = {} THEN task' = [task EXCEPT !.at = "verdict"]
           ELSE LET i == CHOOSE i \in older : \A j \in older : j <= i
                IN  task' = [task EXCEPT !.cursor = i, !.got = @ \cup {indexed[i]}]
        /\ current' = current /\ boot' = boot /\ queue' = queue /\ resync' = resync
    BY <1>5, <2>1 DEF Page, Goes
  <2>3. CASE older = {}
    <3>1. task' = [task EXCEPT !.at = "verdict"]
      BY <2>2, <2>3
    <3>2. /\ task' \in Steps /\ task'.gen = task.gen /\ task'.batch = task.batch
          /\ task'.at = "verdict" /\ task'.got = task.got
      BY <3>1, ControlFacts DEF Steps, Places
    <3> QED BY <1>1, <1>2, <1>3, <2>2, <3>2
  <2>4. CASE older # {}
    <3>1. older \in SUBSET Nat /\ \A i \in older : i <= Len(indexed)
      BY <2>1
    <3>2. Len(indexed) \in Nat /\ indexed \in Seq(Offers)
      BY DEF Control, Typed, NodeTyped
    <3>3. PICK i \in older : task' = [task EXCEPT !.cursor = i, !.got = @ \cup {indexed[i]}]
      <4>1. \E i \in older : \A j \in older : j <= i
        BY <2>4, <3>1, <3>2, NatMaximum
      <4> QED BY <2>2, <2>4, <4>1
    <3>4. indexed[i] \in Offers /\ Listed(indexed[i]) /\ i \in Nat
      BY <2>1, <3>1, <3>2, <3>3, ElementOfSeq
    <3>5. /\ task' \in Steps /\ task'.gen = task.gen /\ task'.batch = task.batch
          /\ task'.at = "page" /\ task'.got = task.got \cup {indexed[i]}
      BY <1>1, <3>3, <3>4, ControlFacts DEF Steps, Places
    <3> QED BY <1>1, <1>2, <1>3, <2>2, <3>4, <3>5
  <2> QED BY <2>3, <2>4
<1> QED BY <1>4, <1>5

LEMMA StartsControl == Control /\ (SnapshotStarts \/ Preflight \/ Page) => Control'
<1> SUFFICES ASSUME Control, SnapshotStarts \/ Preflight \/ Page PROVE Control'
  OBVIOUS
<1>1. book \subseteq Offers /\ overdue \subseteq Offers
  BY DEF Control, Typed, MirrorTyped
<1>2. CASE SnapshotStarts
  <2>1. /\ Elsewhere /\ queue # <<>> /\ Head(queue).kind \in {"initial", "stage"} /\ task.at = "start"
        /\ ~stopped /\ book' = book /\ overdue' = overdue
        /\ \/ ~link.up /\ Fails
           \/ /\ link.up /\ current' = current /\ boot' = boot /\ queue' = queue /\ resync' = resync
              /\ task' \in Steps /\ task'.gen = link.gen /\ task'.got = {} /\ task'.batch = <<>>
              /\ \/ Head(queue).kind = "initial" /\ task'.at = "preflight"
                 \/ Head(queue).kind = "stage" /\ task'.at = "page"
    BY <1>2, SnapshotStartsDoes
  <2>2. CASE Fails
    BY <2>1, <2>2, FailsControl
  <2>3. CASE ~Fails
    <3>1. TaskInv'
      BY <2>1, <2>3 DEF TaskInv
    <3> QED BY <1>1, <2>1, <2>3, <3>1, ControlFacts, WaitsControl
  <2> QED BY <2>2, <2>3
<1>3. CASE Preflight
  <2>1. /\ Elsewhere /\ queue # <<>> /\ Head(queue).kind = "initial" /\ task.at = "preflight"
        /\ ~stopped /\ book' = book /\ overdue' = overdue /\ task.got = {} /\ task.batch = <<>>
        /\ \/ Fails
           \/ /\ current' = current /\ boot' = boot /\ queue' = queue /\ resync' = resync
              /\ task' \in Steps /\ task' = [task EXCEPT !.at = "page"]
    BY <1>3, PreflightDoes
  <2>2. CASE Fails
    BY <2>1, <2>2, FailsControl
  <2>3. CASE ~Fails
    <3>1. task'.at = "page" /\ task'.gen = task.gen /\ task'.batch = <<>> /\ task'.got = {}
      BY <2>1, <2>3, ControlFacts DEF Steps
    <3>2. TaskInv'
      BY <2>1, <2>3, <3>1 DEF TaskInv
    <3> QED BY <1>1, <2>1, <2>3, <3>1, <3>2, ControlFacts, WaitsControl
  <2> QED BY <2>2, <2>3
<1>4. CASE Page
  <2>1. /\ Elsewhere /\ queue # <<>> /\ Head(queue).kind \in {"initial", "stage"} /\ task.at = "page"
        /\ ~stopped /\ book' = book /\ overdue' = overdue /\ task.batch = <<>>
        /\ \/ Fails
           \/ /\ current' = current /\ boot' = boot /\ queue' = queue /\ resync' = resync
              /\ task' \in Steps /\ task'.gen = task.gen /\ task'.batch = task.batch
              /\ \/ task'.at = "verdict" /\ task'.got = task.got
                 \/ \E o \in Offers : Listed(o) /\ task'.at = "page" /\ task'.got = task.got \cup {o}
    BY <1>4, PageDoes
  <2>2. CASE Fails
    BY <2>1, <2>2, FailsControl
  <2>3. CASE ~Fails
    <3>1. TaskInv'
      BY <2>1, <2>3 DEF TaskInv
    <3> QED BY <1>1, <2>1, <2>3, <3>1, ControlFacts, WaitsControl
  <2> QED BY <2>2, <2>3
<1> QED BY <1>2, <1>3, <1>4

\* The startup begins its snapshot again.
LEMMA AgainDoes ==
    ASSUME Control, Again
    PROVE  task' \in Steps /\ task'.at = "preflight" /\ task'.gen = link.gen /\ task'.got = {} /\ task'.batch = <<>>
<1>1. task' = [at |-> "preflight", gen |-> link.gen, cursor |-> Cardinality(Offers) + 1,
               got |-> {}, batch |-> <<>>]
  BY DEF Again, Fresh
<1>2. <<>> \in Seq(Events) /\ {} \in SUBSET Offers /\ Cardinality(Offers) \in Nat /\ link.gen \in Nat
  BY BookAssumption, FS_CardinalityType, ControlFacts
<1> QED BY <1>1, <1>2 DEF Steps, Places

LEMMA ClearedDoes ==
    ASSUME Control
    PROVE  /\ Cleared \in Boots /\ Cleared.buffering = boot.buffering /\ Cleared.attempt = boot.attempt
           /\ Cleared.buffered = <<>> /\ ~Cleared.overflow /\ Cleared.overflow = FALSE
<1>1. <<>> \in Seq(Events)
  OBVIOUS
<1> QED BY <1>1, ControlFacts DEF Cleared, Boots

\* What a snapshot waits for at its end is in the queue or in the buffer.
LEMMA WaitingIs ==
    ASSUME Control
    PROVE  /\ Queued = Cuts(Evs(queue)) /\ Waiting(boot.buffered) = Cuts(boot.buffered)
           /\ \A o \in Queued : \E i \in 1..Len(queue) : queue[i].kind = "event" /\ o \in Cut(queue[i].ev)
<1>1. /\ queue \in Seq(Tasks) /\ \A i \in 1..Len(queue) : queue[i] \in Tasks
      /\ \A i \in 1..Len(queue) : queue[i].kind = "event" <=> queue[i].ev # <<>>
  BY ControlFacts, ElementOfSeq DEF Queues
<1>2. \A t \in Tasks : t.ev \in Texts
  BY DEF Tasks
<1>3. /\ Len(Evs(queue)) = Len(queue) /\ \A i \in 1..Len(queue) : Evs(queue)[i] = queue[i].ev
  BY <1>1, <1>2, EvsOf
<1>4. \A i \in 1..Len(queue) : queue[i].kind = "event" => Cut(queue[i].ev) = Removes(queue[i].ev)
  BY <1>1, <1>2, EventCut DEF Texts
<1>5. \A i \in 1..Len(queue) : queue[i].kind # "event" => Cut(queue[i].ev) = {}
  BY <1>1, EventCut
<1>6. ASSUME NEW o PROVE o \in Queued <=> \E i \in 1..Len(queue) : queue[i].kind = "event" /\ o \in Cut(queue[i].ev)
  BY <1>4 DEF Queued
<1>7. ASSUME NEW o PROVE o \in Cuts(Evs(queue)) <=> \E i \in 1..Len(queue) : o \in Cut(queue[i].ev)
  BY <1>3, CutsMember
<1>8. Queued = Cuts(Evs(queue))
  BY <1>5, <1>6, <1>7
<1>9. Waiting(boot.buffered) = Cuts(boot.buffered)
  <2>1. \A i \in 1..Len(boot.buffered) : Cut(boot.buffered[i]) = Removes(boot.buffered[i])
    BY ControlFacts, ElementOfSeq, EventCut
  <2> QED BY <2>1 DEF Waiting, Cuts
<1> QED BY <1>6, <1>8, <1>9

LEMMA VerdictDoes ==
    ASSUME Control, Verdict
    PROVE  /\ Elsewhere /\ queue # <<>> /\ Head(queue).kind \in {"initial", "stage"} /\ task.at = "verdict"
           /\ ~stopped /\ task.batch = <<>>
           /\ \/ Fails /\ book' = book /\ overdue' = overdue
              \/ /\ Still /\ book' = task.got /\ resync' = resync /\ current' = current
                 /\ overdue' = task.got \cap (Cuts(Evs(queue)) \cup Cuts(boot.buffered))
                 /\ \/ /\ Head(queue).kind = "stage" /\ boot' = boot /\ task' = Fresh
                       /\ queue' = Append(Tail(queue), [Task("install") EXCEPT !.gen = task.gen])
                    \/ /\ Head(queue).kind = "initial" /\ boot.overflow /\ boot' = Cleared /\ Again
                       /\ queue' = queue
                    \/ /\ Head(queue).kind = "initial" /\ ~boot.overflow /\ boot' = boot
                       /\ task' = [task EXCEPT !.at = "drain"] /\ queue' = queue
<1>1. /\ Elsewhere /\ queue # <<>> /\ Head(queue).kind \in {"initial", "stage"} /\ task.at = "verdict"
  BY RunningTask DEF Verdict
<1>2. ~stopped /\ task.batch = <<>>
  BY <1>1 DEF Verdict, Control, TaskInv
<1>3. CASE Fails /\ book' = book /\ overdue' = overdue
  BY <1>1, <1>2, <1>3
<1>4. CASE ~(Fails /\ book' = book /\ overdue' = overdue)
  <2>1. /\ Still /\ applySnapshot
        /\ IF Head(queue).kind = "stage" THEN StageDone /\ task' = Fresh /\ boot' = boot
           ELSE /\ current' = current /\ queue' = queue /\ resync' = resync
                /\ IF boot.overflow THEN boot' = Cleared /\ Again
                   ELSE task' = [task EXCEPT !.at = "drain"] /\ boot' = boot
    BY <1>4 DEF Verdict, mirrorVars, Over, Goes
  <2>2. /\ book' = task.got /\ overdue' = task.got \cap (Cuts(Evs(queue)) \cup Cuts(boot.buffered))
    BY <2>1, WaitingIs DEF applySnapshot
  <2>3. CASE Head(queue).kind = "stage"
    BY <1>1, <1>2, <2>1, <2>2, <2>3 DEF StageDone, Rest
  <2>4. CASE Head(queue).kind # "stage"
    BY <1>1, <1>2, <2>1, <2>2, <2>4
  <2> QED BY <2>3, <2>4
<1> QED BY <1>3, <1>4

LEMMA VerdictControl == Control /\ Verdict => Control'
<1> SUFFICES ASSUME Control, Verdict PROVE Control'
  OBVIOUS
<1>1. /\ Elsewhere /\ queue # <<>> /\ Head(queue).kind \in {"initial", "stage"} /\ task.at = "verdict"
      /\ ~stopped /\ task.batch = <<>>
      /\ \/ Fails /\ book' = book /\ overdue' = overdue
         \/ /\ Still /\ book' = task.got /\ resync' = resync /\ current' = current
            /\ overdue' = task.got \cap (Cuts(Evs(queue)) \cup Cuts(boot.buffered))
            /\ \/ /\ Head(queue).kind = "stage" /\ boot' = boot /\ task' = Fresh
                  /\ queue' = Append(Tail(queue), [Task("install") EXCEPT !.gen = task.gen])
               \/ /\ Head(queue).kind = "initial" /\ boot.overflow /\ boot' = Cleared /\ Again
                  /\ queue' = queue
               \/ /\ Head(queue).kind = "initial" /\ ~boot.overflow /\ boot' = boot
                  /\ task' = [task EXCEPT !.at = "drain"] /\ queue' = queue
  BY VerdictDoes
<1>2. CASE Fails /\ book' = book /\ overdue' = overdue
  BY <1>1, <1>2, FailsControl
<1>3. CASE ~(Fails /\ book' = book /\ overdue' = overdue)
  <2>1. book' \subseteq Offers /\ overdue' \subseteq Offers
    BY <1>1, <1>3, ControlFacts
  <2>2. CASE Head(queue).kind = "stage"
    <3>1. PICK t : t = [Task("install") EXCEPT !.gen = task.gen]
      OBVIOUS
    <3>2. /\ t \in Tasks /\ t.ev = <<>> /\ t.kind = "install" /\ t.gen = task.gen
      BY <3>1, ControlFacts, EventTasks
    <3>3. IsStage(t) /\ IsStage(Head(queue)) /\ (t.kind = "event" <=> t.ev # <<>>) /\ t.gen <= link.gen
      BY <2>2, <3>2 DEF IsStage, Control, LinkInv
    <3>4. /\ queue' = Append(Tail(queue), t) /\ boot' = boot /\ task' = Fresh
          /\ resync' = resync /\ current' = current
      BY <1>1, <1>3, <2>2, <3>1
    <3>5. /\ Tail(queue) \in Queues
          /\ \A i \in 1..Len(Append(Tail(queue), t)) : Append(Tail(queue), t)[i].gen <= link.gen
      BY <1>1, <3>2, <3>3, TailGens
    <3>6. /\ ~boot.buffering /\ resync.running
          /\ \A i \in 1..Len(Tail(queue)) : ~IsStage(Tail(queue)[i]) /\ Tail(queue)[i].kind # "initial"
      BY <1>1, <3>3, ControlFacts, CoherentAfterStage DEF Control, QueueInv
    <3>7. Coherent(Append(Tail(queue), t), boot.buffering, boot.attempt, resync.running, resync.due)
      BY <3>2, <3>3, <3>5, <3>6, ControlFacts, CoherentStage
    <3>8. QueueInv'
      BY <1>1, <3>4, <3>7, <3>6 DEF QueueInv
    <3>9. TaskInv' /\ task'.gen <= link.gen /\ task' \in Steps
      BY <3>4, OverTask
    <3>10. Append(Tail(queue), t) \in Queues
      BY <3>2, <3>3, <3>5, QueueAppend
    <3>11. WorkTyped' /\ LinkTyped'
      BY <1>1, <3>4, <3>9, <3>10, ControlFacts DEF WorkTyped, Queues, LinkTyped, Elsewhere
    <3>12. BufferInv'
      BY <1>1, <3>4 DEF Control, BufferInv, Elsewhere
    <3>13. ~stopped /\ current' => link.up /\ ~boot'.buffering
      BY <3>4 DEF Control, LinkInv
    <3> QED BY <1>1, <2>1, <3>4, <3>5, <3>8, <3>9, <3>11, <3>12, <3>13, ElsewhereControl
  <2>3. CASE Head(queue).kind = "initial" /\ boot.overflow
    <3>1. boot' = Cleared /\ Again /\ queue' = queue /\ resync' = resync /\ current' = current
      BY <1>1, <1>3, <2>3
    <3>2. task' \in Steps /\ task'.at = "preflight" /\ task'.gen = link.gen /\ task'.got = {} /\ task'.batch = <<>>
      BY <3>1, AgainDoes
    <3>3. TaskInv'
      BY <1>1, <2>3, <3>1, <3>2 DEF TaskInv
    <3> QED BY <1>1, <2>1, <3>1, <3>2, <3>3, ClearedDoes, WaitsControl
  <2>4. CASE Head(queue).kind = "initial" /\ ~boot.overflow
    <3>1. boot' = boot /\ task' = [task EXCEPT !.at = "drain"] /\ queue' = queue /\ resync' = resync /\ current' = current
      BY <1>1, <1>3, <2>4
    <3>2. task' \in Steps /\ task'.at = "drain" /\ task'.gen = task.gen
      BY <3>1, ControlFacts DEF Steps, Places
    <3>3. TaskInv'
      BY <1>1, <2>4, <3>1, <3>2 DEF TaskInv
    <3> QED BY <1>1, <2>1, <3>1, <3>2, <3>3, ControlFacts, WaitsControl
  <2> QED BY <1>1, <2>2, <2>3, <2>4
<1> QED BY <1>2, <1>3

LEMMA InstallDoes ==
    ASSUME Control, Install
    PROVE  /\ Elsewhere /\ queue # <<>> /\ Head(queue).kind = "install" /\ IsStage(Head(queue))
           /\ task.at = "start" /\ ~stopped /\ task' = Fresh /\ boot' = boot /\ book' = book /\ overdue' = overdue
           /\ EndRun(Rest) /\ current' \in BOOLEAN /\ (current' => link.up /\ link.gen = Head(queue).gen)
<1>1. /\ Elsewhere /\ queue # <<>> /\ Head(queue).kind = "install" /\ task.at = "start"
  BY RunningTask DEF Install
<1>2. ~stopped /\ task' = Fresh /\ boot' = boot /\ book' = book /\ overdue' = overdue /\ EndRun(Rest)
  BY DEF Install, Over, mirrorVars
<1>3. current' \in BOOLEAN /\ (current' => link.up /\ link.gen = Head(queue).gen)
  <2>1. current' = (link.up /\ link.gen = Head(queue).gen) \/ current' = FALSE
    BY DEF Install
  <2> QED BY <2>1
<1> QED BY <1>1, <1>2, <1>3 DEF IsStage

LEMMA InstallControl == Control /\ Install => Control'
<1> SUFFICES ASSUME Control, Install PROVE Control'
  OBVIOUS
<1>1. /\ Elsewhere /\ queue # <<>> /\ Head(queue).kind = "install" /\ IsStage(Head(queue))
      /\ task.at = "start" /\ ~stopped /\ task' = Fresh /\ boot' = boot /\ book' = book /\ overdue' = overdue
      /\ EndRun(Rest) /\ current' \in BOOLEAN /\ (current' => link.up /\ link.gen = Head(queue).gen)
  BY InstallDoes
<1>2. /\ WorkTyped' /\ TaskInv' /\ QueueInv' /\ BufferInv' /\ task'.gen <= link.gen
      /\ \A i \in 1..Len(queue') : queue'[i].gen <= link.gen /\ ~boot.buffering
  BY <1>1, RunEnds
<1>3. ~boot.buffering
  BY <1>1, RunEnds
<1>4. LinkTyped' /\ book' \subseteq Offers /\ overdue' \subseteq Offers
  BY <1>1, ControlFacts DEF LinkTyped, Elsewhere, Control, Typed, MirrorTyped
<1> QED BY <1>1, <1>2, <1>3, <1>4, ElsewhereControl

\* What a step of the drain may be.
Drained == Still /\ ~boot.overflow
MirrorSame == book' = book /\ overdue' = overdue
DrainGivesUp == ~Still /\ EndAttempt(Cleared, Rest) /\ task' = Fresh /\ current' = current /\ MirrorSame
DrainAgain ==
    Still /\ boot.overflow /\ boot' = Cleared /\ Again /\ current' = current /\ queue' = queue /\ MirrorSame
DrainAsks ==
    /\ Drained /\ task.batch # <<>> /\ Head(task.batch).kind = "indexed" /\ task' = [task EXCEPT !.at = "drainDetail"]
    /\ current' = current /\ boot' = boot /\ queue' = queue /\ MirrorSame
DrainApplies ==
    /\ Drained /\ task.batch # <<>> /\ task' = [task EXCEPT !.batch = Tail(task.batch)]
    /\ current' = current /\ boot' = boot /\ queue' = queue
    /\ book' = book \ Cut(Head(task.batch)) /\ overdue' = overdue \ Cut(Head(task.batch))
DrainRefills ==
    /\ Drained /\ task.batch = <<>> /\ task' = [task EXCEPT !.batch = boot.buffered]
    /\ boot' = [boot EXCEPT !.buffered = <<>>] /\ current' = current /\ queue' = queue /\ MirrorSame
DrainCompletes ==
    /\ Drained /\ task.batch = <<>> /\ boot.buffered = <<>> /\ current' = TRUE /\ task' = Fresh
    /\ EndAttempt([boot EXCEPT !.buffering = FALSE], Rest) /\ MirrorSame
DrainFails == EndAttempt(boot, Rest) /\ ~current' /\ current' = FALSE /\ task' = Fresh /\ MirrorSame

LEMMA DrainDoes ==
    ASSUME Control, Drain
    PROVE  /\ Elsewhere /\ queue # <<>> /\ Head(queue).kind = "initial" /\ task.at = "drain"
           /\ ~stopped /\ resync' = resync
           /\ \/ DrainGivesUp \/ DrainAgain \/ DrainAsks \/ DrainApplies
              \/ DrainRefills \/ DrainCompletes \/ DrainFails
<1>1. /\ Elsewhere /\ queue # <<>> /\ Head(queue).kind = "initial" /\ task.at = "drain"
  BY RunningTask DEF Drain
<1>2. ~stopped /\ resync' = resync
  BY DEF Drain
<1>3. task.batch # <<>> => Head(task.batch) \in Events /\ Cut(Head(task.batch)) = Removes(Head(task.batch))
  BY ControlFacts, HeadTailProperties, EventCut
<1> USE DEF mirrorVars, MirrorSame, Over, Drained
<1>4. CASE ~Still
  BY <1>1, <1>2, <1>4 DEF Drain, DrainGivesUp
<1>5. CASE Still /\ boot.overflow
  BY <1>1, <1>2, <1>5 DEF Drain, DrainAgain
<1>6. CASE Still /\ ~boot.overflow /\ task.batch # <<>>
  <2>1. /\ current' = current /\ boot' = boot /\ queue' = queue
        /\ IF WantsDetail(Head(task.batch)) THEN Goes("drainDetail") /\ MirrorSame
           ELSE task' = [task EXCEPT !.batch = Tail(task.batch)] /\ Apply(Head(task.batch))
    BY <1>6 DEF Drain
  <2>2. WantsDetail(Head(task.batch)) => Head(task.batch).kind = "indexed"
    BY DEF WantsDetail
  <2> QED BY <1>1, <1>2, <1>3, <1>6, <2>1, <2>2 DEF DrainAsks, DrainApplies, Goes, Apply
<1>7. CASE Still /\ ~boot.overflow /\ task.batch = <<>> /\ boot.buffered # <<>>
  BY <1>1, <1>2, <1>7 DEF Drain, DrainRefills
<1>8. CASE Still /\ ~boot.overflow /\ task.batch = <<>> /\ boot.buffered = <<>>
  BY <1>1, <1>2, <1>8 DEF Drain, DrainCompletes, DrainFails
<1> QED BY <1>4, <1>5, <1>6, <1>7, <1>8 DEF Drained

LEMMA DrainControl == Control /\ Drain => Control'
<1> SUFFICES ASSUME Control, Drain PROVE Control'
  OBVIOUS
<1>1. /\ Elsewhere /\ queue # <<>> /\ Head(queue).kind = "initial" /\ task.at = "drain"
      /\ ~stopped /\ resync' = resync
      /\ \/ DrainGivesUp \/ DrainAgain \/ DrainAsks \/ DrainApplies
         \/ DrainRefills \/ DrainCompletes \/ DrainFails
  BY DrainDoes
<1>2. /\ book \subseteq Offers /\ overdue \subseteq Offers /\ <<>> \in Seq(Events)
  BY DEF Control, Typed, MirrorTyped
<1>3. /\ (boot.overflow => boot.buffered = <<>>) /\ (~link.up => boot.buffered = <<>>)
      /\ (~boot.buffering => boot.buffered = <<>>)
  BY <1>1 DEF Control, BufferInv
<1>4. CASE DrainGivesUp
  <2>1. EndAttempt(Cleared, Rest) /\ task' = Fresh /\ current' = current /\ book' = book /\ overdue' = overdue
    BY <1>4 DEF DrainGivesUp, MirrorSame
  <2>2. /\ WorkTyped' /\ TaskInv' /\ QueueInv' /\ BufferInv' /\ task'.gen <= link.gen
        /\ \A i \in 1..Len(queue') : queue'[i].gen <= link.gen
        /\ boot.buffering
    BY <1>1, <2>1, ClearedDoes, AttemptEnds
  <2>3. LinkTyped' /\ ~current
    BY <1>1, <2>1, <2>2, ControlFacts DEF Control, LinkInv, LinkTyped, Elsewhere
  <2> QED BY <1>1, <1>2, <2>1, <2>2, <2>3, ElsewhereControl
<1>5. CASE DrainAgain
  <2>1. boot' = Cleared /\ Again /\ current' = current /\ queue' = queue /\ book' = book /\ overdue' = overdue
    BY <1>5 DEF DrainAgain, MirrorSame
  <2>2. task' \in Steps /\ task'.at = "preflight" /\ task'.gen = link.gen /\ task'.got = {} /\ task'.batch = <<>>
    BY <2>1, AgainDoes
  <2>3. TaskInv'
    BY <1>1, <2>1, <2>2 DEF TaskInv
  <2> QED BY <1>1, <1>2, <2>1, <2>2, <2>3, ClearedDoes, WaitsControl
<1>6. CASE DrainAsks
  <2>1. /\ task.batch # <<>> /\ Head(task.batch).kind = "indexed" /\ task' = [task EXCEPT !.at = "drainDetail"]
        /\ current' = current /\ boot' = boot /\ queue' = queue /\ book' = book /\ overdue' = overdue
    BY <1>6 DEF DrainAsks, MirrorSame
  <2>2. task' \in Steps /\ task'.at = "drainDetail" /\ task'.gen = task.gen /\ task'.batch = task.batch
    BY <2>1, ControlFacts DEF Steps, Places
  <2>3. TaskInv'
    BY <1>1, <2>1, <2>2 DEF TaskInv
  <2> QED BY <1>1, <1>2, <2>1, <2>2, <2>3, ControlFacts, WaitsControl
<1>7. CASE DrainApplies
  <2>1. /\ task.batch # <<>> /\ task' = [task EXCEPT !.batch = Tail(task.batch)]
        /\ current' = current /\ boot' = boot /\ queue' = queue
        /\ book' \subseteq book /\ overdue' \subseteq overdue
    BY <1>7 DEF DrainApplies
  <2>2. Tail(task.batch) \in Seq(Events)
    BY <2>1, ControlFacts, HeadTailProperties
  <2>3. task' \in Steps /\ task'.at = "drain" /\ task'.gen = task.gen
    BY <1>1, <2>1, <2>2, ControlFacts DEF Steps
  <2>4. TaskInv'
    BY <1>1, <2>1, <2>3 DEF TaskInv
  <2> QED BY <1>1, <1>2, <2>1, <2>3, <2>4, ControlFacts, WaitsControl
<1>8. CASE DrainRefills
  <2>1. /\ task' = [task EXCEPT !.batch = boot.buffered] /\ boot' = [boot EXCEPT !.buffered = <<>>]
        /\ current' = current /\ queue' = queue /\ book' = book /\ overdue' = overdue
    BY <1>8 DEF DrainRefills, MirrorSame
  <2>2. task' \in Steps /\ task'.at = "drain" /\ task'.gen = task.gen
    BY <1>1, <2>1, ControlFacts DEF Steps
  <2>3. /\ boot' \in Boots /\ boot'.buffering = boot.buffering /\ boot'.attempt = boot.attempt
        /\ boot'.buffered = <<>> /\ boot'.overflow = boot.overflow
    BY <1>2, <2>1, ControlFacts DEF Boots
  <2>4. TaskInv'
    BY <1>1, <2>1, <2>2 DEF TaskInv
  <2> QED BY <1>1, <1>2, <2>1, <2>2, <2>3, <2>4, WaitsControl
<1>9. CASE DrainCompletes
  <2>1. PICK b : b = [boot EXCEPT !.buffering = FALSE]
    OBVIOUS
  <2>2. /\ Still /\ boot.buffered = <<>> /\ current' = TRUE /\ task' = Fresh /\ EndAttempt(b, Rest)
        /\ book' = book /\ overdue' = overdue
    BY <1>9, <2>1 DEF DrainCompletes, Drained, MirrorSame
  <2>3. b \in Boots /\ ~b.buffering /\ b.buffered = <<>> /\ b.overflow = boot.overflow
    BY <2>1, <2>2, ControlFacts DEF Boots
  <2>4. /\ WorkTyped' /\ TaskInv' /\ QueueInv' /\ BufferInv' /\ task'.gen <= link.gen
        /\ \A i \in 1..Len(queue') : queue'[i].gen <= link.gen
        /\ boot'.buffering = b.buffering
    BY <1>1, <2>2, <2>3, AttemptEnds
  <2>5. LinkTyped' /\ link.up
    BY <1>1, <2>2, ControlFacts DEF LinkTyped, Elsewhere, Still
  <2> QED BY <1>1, <1>2, <2>2, <2>3, <2>4, <2>5, ElsewhereControl
<1>10. CASE DrainFails
  <2>1. EndAttempt(boot, Rest) /\ current' = FALSE /\ task' = Fresh /\ book' = book /\ overdue' = overdue
    BY <1>10 DEF DrainFails, MirrorSame
  <2>2. /\ WorkTyped' /\ TaskInv' /\ QueueInv' /\ BufferInv' /\ task'.gen <= link.gen
        /\ \A i \in 1..Len(queue') : queue'[i].gen <= link.gen
    BY <1>1, <1>3, <2>1, ControlFacts, AttemptEnds
  <2>3. LinkTyped'
    BY <1>1, <2>1, ControlFacts DEF LinkTyped, Elsewhere
  <2> QED BY <1>1, <1>2, <2>1, <2>2, <2>3, ElsewhereControl
<1> QED BY <1>1, <1>4, <1>5, <1>6, <1>7, <1>8, <1>9, <1>10

\* The detail of a drained event is served, or the startup attempt ends.
DetailServed ==
    /\ book' = book \/ book' = book \cup {Head(task.batch).offer}
    /\ task' = [task EXCEPT !.at = "drain", !.batch = Tail(task.batch)]
    /\ boot' = boot /\ queue' = queue /\ overdue' = overdue
DetailFails == task' = Fresh /\ EndAttempt(boot, Rest) /\ MirrorSame

LEMMA DrainDetailDoes ==
    ASSUME Control, DrainDetail
    PROVE  /\ Elsewhere /\ queue # <<>> /\ Head(queue).kind = "initial" /\ task.at = "drainDetail"
           /\ current' = current /\ resync' = resync
           /\ task.batch # <<>> /\ Head(task.batch) \in Events /\ Head(task.batch).kind = "indexed"
           /\ Tail(task.batch) \in Seq(Events)
           /\ DetailServed \/ DetailFails
<1>1. /\ Elsewhere /\ queue # <<>> /\ Head(queue).kind = "initial" /\ task.at = "drainDetail"
  BY RunningTask DEF DrainDetail
<1>2. task.batch # <<>> /\ Head(task.batch).kind = "indexed"
  BY <1>1 DEF Control, TaskInv
<1>3. Head(task.batch) \in Events /\ Tail(task.batch) \in Seq(Events)
  BY <1>2, ControlFacts, HeadTailProperties
<1>4. current' = current /\ resync' = resync /\ overdue' = overdue
  BY DEF DrainDetail
<1>5. DetailServed \/ DetailFails
  BY <1>4 DEF DrainDetail, DetailServed, DetailFails, UnlessStopped, Over, MirrorSame
<1> QED BY <1>1, <1>2, <1>3, <1>4, <1>5

LEMMA DrainDetailControl == Control /\ DrainDetail => Control'
<1> SUFFICES ASSUME Control, DrainDetail PROVE Control'
  OBVIOUS
<1>1. /\ Elsewhere /\ queue # <<>> /\ Head(queue).kind = "initial" /\ task.at = "drainDetail"
      /\ current' = current /\ resync' = resync
      /\ task.batch # <<>> /\ Head(task.batch) \in Events /\ Head(task.batch).kind = "indexed"
      /\ Tail(task.batch) \in Seq(Events)
      /\ DetailServed \/ DetailFails
  BY DrainDetailDoes
<1>2. book \subseteq Offers /\ overdue \subseteq Offers
  BY DEF Control, Typed, MirrorTyped
<1>3. CASE DetailServed
  <2>1. /\ book' \subseteq Offers /\ task' = [task EXCEPT !.at = "drain", !.batch = Tail(task.batch)]
        /\ boot' = boot /\ queue' = queue /\ overdue' = overdue
    BY <1>1, <1>2, <1>3 DEF DetailServed, Events
  <2>2. task' \in Steps /\ task'.at = "drain" /\ task'.gen = task.gen
    BY <1>1, <2>1, ControlFacts DEF Steps, Places
  <2>3. TaskInv'
    BY <1>1, <2>1, <2>2 DEF TaskInv
  <2> QED BY <1>1, <1>2, <2>1, <2>2, <2>3, ControlFacts, WaitsControl
<1>4. CASE DetailFails
  <2>1. task' = Fresh /\ EndAttempt(boot, Rest) /\ book' = book /\ overdue' = overdue
    BY <1>4 DEF DetailFails, MirrorSame
  <2>2. LinkTyped'
    BY <1>1, ControlFacts DEF LinkTyped, Elsewhere
  <2>3. CASE ~stopped
    <3>1. /\ (boot.overflow => boot.buffered = <<>>) /\ (~link.up => boot.buffered = <<>>)
          /\ (~boot.buffering => boot.buffered = <<>>)
      BY <2>3 DEF Control, BufferInv
    <3>2. /\ WorkTyped' /\ TaskInv' /\ QueueInv' /\ BufferInv' /\ task'.gen <= link.gen
          /\ \A i \in 1..Len(queue') : queue'[i].gen <= link.gen
          /\ boot.buffering
      BY <1>1, <2>1, <2>3, <3>1, ControlFacts, AttemptEnds
    <3>3. ~current
      BY <2>3, <3>2 DEF Control, LinkInv
    <3> QED BY <1>1, <1>2, <2>1, <2>2, <3>2, <3>3, ElsewhereControl
  <2>4. CASE stopped
    <3>1. /\ Tail(queue) \in Queues /\ \A i \in 1..Len(Tail(queue)) : Tail(queue)[i].gen <= link.gen
          /\ \A t \in Tasks : (t.kind = "event" <=> t.ev # <<>>) /\ t.gen <= link.gen =>
                 \A i \in 1..Len(Append(Tail(queue), t)) : Append(Tail(queue), t)[i].gen <= link.gen
      BY <1>1, TailGens
    <3>2. link'.up \in BOOLEAN /\ 0 <= link.gen
      BY <1>1, ControlFacts DEF Elsewhere
    <3>3. /\ boot' \in Boots /\ queue' \in Queues
          /\ queue' = Tail(queue) \/ queue' = Append(Tail(queue), Task("initial"))
      BY <2>1, <3>1, <3>2, ControlFacts, EndAttemptDoes DEF Rest
    <3>4. /\ Task("initial") \in Tasks /\ Task("initial").gen = 0
          /\ Task("initial").kind = "event" <=> Task("initial").ev # <<>>
      BY EventTasks
    <3>5. \A i \in 1..Len(queue') : queue'[i].gen <= link.gen
      BY <3>1, <3>2, <3>3, <3>4
    <3>6. TaskInv' /\ task'.gen <= link.gen /\ task' \in Steps
      BY <2>1, OverTask
    <3>7. WorkTyped'
      BY <1>1, <3>3, <3>6, ControlFacts DEF WorkTyped, Queues
    <3>8. BufferInv' /\ QueueInv'
      BY <1>1, <2>4 DEF BufferInv, QueueInv, Elsewhere
    <3> QED BY <1>1, <1>2, <2>1, <2>2, <2>4, <3>5, <3>6, <3>7, <3>8, ElsewhereControl
  <2> QED BY <2>3, <2>4
<1> QED BY <1>1, <1>3, <1>4

LEMMA AbandonControl == Control /\ Abandon => Control'
<1> SUFFICES ASSUME Control, Abandon PROVE Control'
  OBVIOUS
<1>1. /\ stopped /\ queue # <<>> /\ queue' = Tail(queue) /\ task' = Fresh /\ Elsewhere
      /\ current' = current /\ boot' = boot /\ resync' = resync /\ book' = book /\ overdue' = overdue
  BY DEF Abandon, Rest, Over, Elsewhere, nodeVars, wireVars, mirrorVars
<1>2. Tail(queue) \in Queues /\ \A i \in 1..Len(Tail(queue)) : Tail(queue)[i].gen <= link.gen
  BY <1>1, TailGens
<1>3. TaskInv' /\ task'.gen <= link.gen /\ task' \in Steps
  BY <1>1, OverTask
<1>4. WorkTyped' /\ LinkTyped'
  BY <1>1, <1>2, <1>3, ControlFacts DEF WorkTyped, Queues, LinkTyped, Elsewhere
<1>5. BufferInv' /\ QueueInv'
  BY <1>1 DEF BufferInv, QueueInv, Elsewhere
<1>6. book \subseteq Offers /\ overdue \subseteq Offers
  BY DEF Control, Typed, MirrorTyped
<1> QED BY <1>1, <1>2, <1>3, <1>4, <1>5, <1>6, ElsewhereControl

\* Every step keeps the control part.
LEMMA ControlStep == Control /\ [Next]_vars => Control'
<1> SUFFICES ASSUME Control, [Next]_vars PROVE Control'
  OBVIOUS
<1>1. CASE UNCHANGED vars
  <2>1. /\ WorkSame /\ node' = node /\ indexed' = indexed /\ outbox' = outbox
        /\ server' = server /\ wire' = wire /\ client' = client
    BY <1>1 DEF vars, nodeVars, wireVars, workVars, mirrorVars, WorkSame
  <2>2. NodeTyped' /\ WireTyped' /\ WireInv' /\ LinkInv'
    BY <2>1 DEF Control, Typed, NodeTyped, WireTyped, WireInv, LinkInv, WorkSame
  <2> QED BY <2>1, <2>2, SameControl DEF Control, Typed
<1>2. CASE Closed \/ ReadyTimeout
  BY <1>2, FinishControl DEF Closed, ReadyTimeout
<1>3. CASE Resync \/ HealthTick \/ HealthExpires \/ HealthAnswer
  BY <1>3, TimerControl DEF Timers
<1>4. CASE Work
  BY <1>4, EventControl, StartsControl, VerdictControl, InstallControl, DrainControl,
     DrainDetailControl, AbandonControl DEF Work
<1> QED BY <1>1, <1>2, <1>3, <1>4, CommitControl, ReleaseControl, DropControl, SubscribeControl,
           ReceiveControl, SweepControl, StopControl DEF Next

LEMMA ControlInit == Init => Control
<1> SUFFICES ASSUME Init PROVE Control
  OBVIOUS
<1> USE DEF Init
<1>1. <<>> \in Seq(Events) /\ <<>> \in Seq(Tasks) /\ <<>> \in Seq(Frames) /\ <<>> \in Seq(Offers) /\ Len(<<>>) = 0
  OBVIOUS
<1>2. NodeTyped /\ WireTyped /\ LinkTyped
  BY <1>1 DEF NodeTyped, WireTyped, LinkTyped
<1>3. WorkTyped /\ MirrorTyped
  <2>1. boot \in Boots
    BY <1>1 DEF Boots
  <2>2. task \in Steps /\ resync \in [running : BOOLEAN, due : BOOLEAN]
    BY FreshStep
  <2>3. queue \in Seq(Tasks) /\ \A i \in 1..Len(queue) : queue[i].kind = "event" <=> queue[i].ev # <<>>
    BY <1>1
  <2>4. MirrorTyped
    BY DEF MirrorTyped
  <2> QED BY <2>1, <2>2, <2>3, <2>4 DEF WorkTyped
<1>4. WireInv /\ LinkInv /\ BufferInv /\ TaskInv
  BY <1>1, FreshStep DEF WireInv, LinkInv, BufferInv, TaskInv
<1>5. QueueInv
  BY <1>1 DEF QueueInv, Coherent
<1> QED BY <1>2, <1>3, <1>4, <1>5 DEF Control, Typed

-----------------------------------------------------------------------------
(* The stream of events.                                                   *)

LEMMA EventSeqs ==
    ASSUME NEW s \in Seq(Events) PROVE s \in Seq(Texts) /\ Cuts(s) \subseteq Offers
<1>1. s \in Seq(Texts)
  BY DEF Texts
<1>2. \A i \in 1..Len(s) : s[i] \in Texts
  BY <1>1, ElementOfSeq
<1>3. Cuts(s) \subseteq Offers
  BY <1>2, EventCut DEF Cuts
<1> QED BY <1>1, <1>3

LEMMA StreamFacts ==
    ASSUME Control
    PROVE  /\ outbox \in Seq(Events) /\ outbox \in Seq(Texts) /\ wire \in Seq(Frames)
           /\ Evs(wire) \in Seq(Texts) /\ Len(Evs(wire)) = Len(wire)
           /\ \A t \in Frames : t.ev \in Texts
           /\ server.seq \in Nat /\ client.seq \in Nat /\ server.attached \in BOOLEAN /\ client.open \in BOOLEAN
           /\ server \in [attached : BOOLEAN, seq : Nat] /\ client \in [open : BOOLEAN, seq : Nat]
           /\ Len(wire) + client.seq <= server.seq /\ Len(wire) \in Nat
<1>1. /\ outbox \in Seq(Events) /\ wire \in Seq(Frames)
      /\ server \in [attached : BOOLEAN, seq : Nat] /\ client \in [open : BOOLEAN, seq : Nat]
      /\ Len(wire) + client.seq <= server.seq
  BY DEF Control, Typed, NodeTyped, WireTyped, WireInv
<1>2. \A t \in Frames : t.ev \in Texts
  BY DEF Frames
<1>3. Evs(wire) \in Seq(Texts) /\ Len(Evs(wire)) = Len(wire)
  BY <1>1, <1>2, EvsOf
<1> QED BY <1>1, <1>2, <1>3, EventSeqs

\* A change of the node: what leaves the listing is named by what it commits.
LEMMA CommitDoes ==
    ASSUME Control, Commit
    PROVE  \E evs \in Seq(Events) :
               /\ outbox' = outbox \o evs /\ Alive \subseteq Alive' \cup Cuts(evs)
               /\ \A i \in 1..Len(evs) : \A o \in Offers : Names(evs[i], o) => o \in Alive'
<1>1. PICK o \in Offers : Index(o) \/ Consume(o) \/ Age(o) \/ Expire(o)
  BY DEF Commit
<1>2. node \in [Offers -> {"none", "live", "ageing", "spent", "expired"}] /\ outbox \in Seq(Events)
  BY DEF Control, Typed, NodeTyped
<1>3. CASE Index(o)
  <2>1. PICK e \in Events : e = Event("indexed", o)
    BY DEF Event, Events
  <2>2. e.kind = "indexed" /\ e.offer = o /\ e # <<>>
    BY <2>1, EventCut DEF Event
  <2>3. /\ <<e>> \in Seq(Events) /\ outbox' = outbox \o <<e>> /\ Len(<<e>>) = 1 /\ <<e>>[1] = e
    BY <1>2, <1>3, <2>1 DEF Index
  <2>4. Alive' = Alive \cup {o}
    BY <1>2, <1>3 DEF Index, Alive, Listed
  <2>5. \A i \in 1..Len(<<e>>) : \A p \in Offers : Names(<<e>>[i], p) => p \in Alive'
    BY <2>2, <2>3, <2>4 DEF Names
  <2> QED BY <2>3, <2>4, <2>5
<1>4. CASE Consume(o)
  <2>1. PICK S \in SUBSET Offers : S = {p \in Sharing(o) : Listed(p)}
    BY DEF Sharing
  <2>2. PICK evs : evs = [i \in 1..Cardinality(S) |-> Event("consumed", SetToSeq(S)[i])]
    OBVIOUS
  <2>3. /\ evs \in Seq(Events) /\ \A i \in 1..Len(evs) : evs[i].kind = "consumed" /\ evs[i].offer \in S
        /\ S # {} => Len(evs) > 0
    BY <2>2, GoneEvents
  <2>4. /\ node' = [p \in Offers |-> IF p \in S THEN "spent" ELSE node[p]]
        /\ outbox' = outbox \o evs /\ Listed(o)
    BY <1>4, <2>1, <2>2 DEF Consume
  <2>5. o \in S
    BY <2>1, <2>4 DEF Sharing
  <2>6. 1 \in 1..Len(evs) /\ evs[1] \in Events /\ evs[1].kind = "consumed" /\ evs[1].offer \in S
    BY <2>3, <2>5, ElementOfSeq
  <2>7. Cut(evs[1]) = Sharing(evs[1].offer)
    BY <2>6, EventCut DEF Removes
  <2>8. S \subseteq Cut(evs[1])
    BY <2>1, <2>6, <2>7 DEF Sharing
  <2>9. S \subseteq Cuts(evs)
    BY <2>6, <2>8, CutsMember
  <2>10. Alive \ S \subseteq Alive'
    BY <1>2, <2>4 DEF Alive, Listed
  <2>11. \A i \in 1..Len(evs) : \A p \in Offers : ~Names(evs[i], p)
    BY <2>3 DEF Names
  <2> QED BY <2>3, <2>4, <2>9, <2>10, <2>11
<1>5. CASE Age(o)
  <2>1. /\ <<>> \in Seq(Events) /\ outbox' = outbox \o <<>> /\ Len(<<>>) = 0
    BY <1>2, <1>5 DEF Age
  <2>2. Alive' = Alive
    BY <1>2, <1>5 DEF Age, Alive, Listed
  <2>3. PICK e \in Seq(Events) : e = <<>> /\ Len(e) = 0
    BY <2>1
  <2>4. outbox' = outbox \o e /\ \A i \in 1..Len(e) : FALSE
    BY <2>1, <2>3
  <2> QED BY <2>2, <2>4
<1>6. CASE Expire(o)
  <2>1. PICK e \in Events : e = Event("expired", o)
    BY DEF Event, Events
  <2>2. e.kind = "expired" /\ e.offer = o /\ e # <<>> /\ Cut(e) = {o}
    BY <2>1, EventCut DEF Event, Removes
  <2>3. /\ <<e>> \in Seq(Events) /\ outbox' = outbox \o <<e>> /\ Len(<<e>>) = 1 /\ <<e>>[1] = e
    BY <1>2, <1>6, <2>1 DEF Expire
  <2>4. Alive \ {o} \subseteq Alive'
    BY <1>2, <1>6 DEF Expire, Alive, Listed
  <2>5. o \in Cuts(<<e>>)
    BY <2>2, <2>3, CutsMember
  <2>6. \A i \in 1..Len(<<e>>) : \A p \in Offers : ~Names(<<e>>[i], p)
    BY <2>2, <2>3 DEF Names
  <2> QED BY <2>3, <2>4, <2>5, <2>6
<1> QED BY <1>1, <1>3, <1>4, <1>5, <1>6

\* What the node and the wire do leaves the solver alone, and an unbroken wire has
\* lost nothing.
Feeds == WorkSame /\ (Unbroken' => Unbroken /\ Ahead \subseteq Ahead')

LEMMA CommitFeeds == Control /\ StreamInv /\ Commit => StreamInv' /\ Feeds
<1> SUFFICES ASSUME Control, StreamInv, Commit PROVE StreamInv' /\ Feeds
  OBVIOUS
<1>1. WorkSame /\ server' = server /\ wire' = wire /\ client' = client
  BY DEF Commit, WorkSame, wireVars, workVars, mirrorVars
<1>2. PICK evs \in Seq(Events) :
          /\ outbox' = outbox \o evs /\ Alive \subseteq Alive' \cup Cuts(evs)
          /\ \A i \in 1..Len(evs) : \A o \in Offers : Names(evs[i], o) => o \in Alive'
  BY CommitDoes
<1>3. evs \in Seq(Texts) /\ outbox \in Seq(Texts) /\ 0 \in Nat
  BY EventSeqs, StreamFacts
<1>4. PICK A, B : A = Alive /\ B = Alive'
  OBVIOUS
<1>5. Ordered(outbox', 0, Alive')
  <2>1. Ordered(outbox, 0, A)
    BY <1>4 DEF StreamInv
  <2>2. Ordered(outbox \o evs, 0, B)
    BY <1>2, <1>3, <1>4, <2>1, OrderedConcat
  <2> QED BY <1>2, <1>4, <2>2
<1>6. Near \subseteq Near'
  <2>1. Cuts(outbox) \cup Cuts(evs) \subseteq Cuts(outbox \o evs)
    BY <1>3, CutsConcat
  <2> QED BY <1>2, <2>1 DEF Near
<1>7. Ahead \subseteq Ahead' /\ (Unbroken' <=> Unbroken)
  BY <1>1, <1>6 DEF Ahead, Unbroken
<1>8. Unbroken' => Ordered(Evs(wire'), 0, Near')
  <2> SUFFICES ASSUME Unbroken' PROVE Ordered(Evs(wire'), 0, Near')
    OBVIOUS
  <2>1. PICK C, D : C = Near /\ D = Near'
    OBVIOUS
  <2>2. Ordered(Evs(wire), 0, C)
    BY <1>7, <2>1 DEF StreamInv
  <2>3. Ordered(Evs(wire), 0, D)
    BY <1>6, <2>1, <2>2, OrderedMono
  <2> QED BY <1>1, <2>1, <2>3
<1> QED BY <1>1, <1>5, <1>7, <1>8 DEF StreamInv, Feeds

LEMMA ReleaseFeeds == Control /\ StreamInv /\ Release => StreamInv' /\ Feeds
<1> SUFFICES ASSUME Control, StreamInv, Release PROVE StreamInv' /\ Feeds
  OBVIOUS
<1>1. /\ WorkSame /\ client' = client /\ listener(Head(outbox)) /\ outbox # <<>>
      /\ outbox' = Tail(outbox) /\ node' = node
  BY DEF Release, StreamStep, WorkSame, workVars, mirrorVars
<1>2. /\ Head(outbox) \in Texts /\ Tail(outbox) \in Seq(Texts) /\ outbox \in Seq(Texts)
      /\ Cuts(outbox) = Cut(Head(outbox)) \cup Cuts(Tail(outbox))
  BY <1>1, CutsTail, StreamFacts
<1>3. Alive' = Alive
  BY <1>1 DEF Alive, Listed
<1>4. Near = Near' \cup Cut(Head(outbox))
  BY <1>1, <1>2, <1>3 DEF Near
<1>5. PICK A, N, M : A = Alive /\ N = Near /\ M = Near'
  OBVIOUS
<1>6. Ordered(outbox, 0, A)
  BY <1>5 DEF StreamInv
<1>7. Ordered(outbox', 0, Alive')
  <2>1. Ordered(outbox, 0 + 1, A)
    BY <1>6, OrderedLater
  <2>2. Ordered(Tail(outbox), 0, A)
    BY <1>1, <1>2, <2>1, OrderedTail
  <2> QED BY <1>1, <1>3, <1>5, <2>2
<1>8. CASE ~server.attached
  <2>1. ~Unbroken'
    BY <1>1, <1>8 DEF Unbroken, listener
  <2> QED BY <1>1, <1>7, <2>1 DEF StreamInv, Feeds
<1>9. CASE server.attached
  <2>1. PICK f : f = [seq |-> server.seq + 1, ev |-> Head(outbox)]
    OBVIOUS
  <2>2. f \in Frames /\ f.ev = Head(outbox)
    BY <1>2, <2>1, StreamFacts DEF Frames
  <2>3. wire' = Append(wire, f) /\ server'.seq = server.seq + 1
    BY <1>1, <1>9, <2>1 DEF listener
  <2>4. /\ Evs(wire') = Append(Evs(wire), Head(outbox)) /\ Len(wire') = Len(wire) + 1
        /\ Cuts(Evs(wire')) = Cuts(Evs(wire)) \cup Cut(Head(outbox))
    <3>1. Evs(Append(wire, f)) = Append(Evs(wire), f.ev)
      BY <2>2, StreamFacts, EvsAppend
    <3>2. Cuts(Append(Evs(wire), Head(outbox))) = Cuts(Evs(wire)) \cup Cut(Head(outbox))
      BY <1>2, StreamFacts, CutsAppend
    <3>3. Len(Append(wire, f)) = Len(wire) + 1
      BY <2>2, StreamFacts
    <3> QED BY <2>2, <2>3, <3>1, <3>2, <3>3
  <2>5. Ahead' = Ahead
    BY <1>4, <2>4 DEF Ahead
  <2>6. Unbroken' => Unbroken
    BY <1>1, <1>9, <2>3, <2>4, StreamFacts DEF Unbroken
  <2>7. Unbroken' => Ordered(Evs(wire'), 0, Near')
    <3> SUFFICES ASSUME Unbroken PROVE Ordered(Evs(wire'), 0, Near')
      BY <2>6
    <3>1. Ordered(Evs(wire), 0, N)
      BY <1>5 DEF StreamInv
    <3>2. N \subseteq M \cup Cut(Head(outbox))
      BY <1>4, <1>5
    <3>3. \A o \in Offers : Names(Head(outbox), o) => o \in M
      <4> SUFFICES ASSUME NEW o \in Offers, Names(Head(outbox), o) PROVE o \in M
        OBVIOUS
      <4>1. o \in A \cup Cuts(Tail(outbox))
        BY <1>1, <1>2, <1>6, OrderedHead
      <4> QED BY <1>1, <1>3, <1>5, <4>1 DEF Near
    <3>4. Ordered(Append(Evs(wire), Head(outbox)), 0, M)
      BY <1>2, <3>1, <3>2, <3>3, StreamFacts, OrderedAppend
    <3> QED BY <1>5, <2>4, <3>4
  <2> QED BY <1>1, <1>7, <2>5, <2>6, <2>7 DEF StreamInv, Feeds
<1> QED BY <1>8, <1>9

LEMMA DropFeeds == Control /\ StreamInv /\ (Drop \/ Lose) => StreamInv' /\ Feeds
<1> SUFFICES ASSUME Control, StreamInv, Drop \/ Lose PROVE StreamInv' /\ Feeds
  OBVIOUS
<1>1. WorkSame /\ client' = client /\ node' = node /\ outbox' = outbox
  BY DEF Drop, Lose, StreamStep, WorkSame, workVars, mirrorVars
<1>2. Alive' = Alive
  BY <1>1 DEF Alive, Listed
<1>3. ~Unbroken'
  <2>1. CASE Drop
    <3>1. server' = [server EXCEPT !.attached = FALSE]
      BY <2>1 DEF Drop
    <3> QED BY <3>1, StreamFacts DEF Unbroken
  <2>2. CASE Lose
    <3>1. wire # <<>> /\ wire' = Tail(wire) /\ server' = server
      BY <2>2 DEF Lose
    <3>2. Len(Tail(wire)) = Len(wire) - 1 /\ Len(wire) \in Nat \ {0}
      BY <3>1, HeadTailProperties, EmptySeq, StreamFacts
    <3>3. Len(wire') < server'.seq - client'.seq
      BY <1>1, <3>1, <3>2, StreamFacts
    <3> QED BY <3>2, <3>1, <3>3, StreamFacts DEF Unbroken
  <2> QED BY <2>1, <2>2
<1> QED BY <1>1, <1>2, <1>3 DEF StreamInv, Feeds

\* A new subscription carries no event yet.
LEMMA SubscribeStream == Control /\ StreamInv /\ Subscribe => StreamInv'
<1> SUFFICES ASSUME Control, StreamInv, Subscribe PROVE StreamInv'
  OBVIOUS
<1>1. node' = node /\ outbox' = outbox /\ wire' = <<[seq |-> 1, ev |-> <<>>]>>
  BY DEF Subscribe, StreamStep
<1>2. Alive' = Alive
  BY <1>1 DEF Alive, Listed
<1>3. /\ wire' = Append(<<>>, [seq |-> 1, ev |-> <<>>]) /\ [seq |-> 1, ev |-> <<>>] \in Frames
      /\ <<>> \in Seq(Frames) /\ <<>> \in Seq(Texts) /\ <<>> \in Texts
  BY <1>1 DEF Frames, Texts
<1>4. Evs(wire') = Append(<<>>, <<>>)
  <2>1. PICK f \in Frames : f = [seq |-> 1, ev |-> <<>>]
    BY <1>3
  <2>2. f.ev = <<>>
    BY <2>1
  <2>3. Evs(Append(<<>>, f)) = Append(Evs(<<>>), f.ev)
    BY <1>3, EvsAppend, StreamFacts
  <2> QED BY <1>3, <2>1, <2>2, <2>3, EvsEmpty
<1>5. PICK M : M = Near'
  OBVIOUS
<1>6. Ordered(Append(<<>>, <<>>), 0, M)
  <2>1. Ordered(<<>>, 0, M) /\ \A o \in Offers : ~Names(<<>>, o)
    BY OrderedEmpty, EventCut
  <2> QED BY <1>3, <2>1, OrderedAppend
<1> QED BY <1>1, <1>2, <1>4, <1>5, <1>6 DEF StreamInv

\* Where the stream is cut, nothing is promised of it.
LEMMA CutStream ==
    ASSUME Control, StreamInv, node' = node, outbox' = outbox, ~server'.attached
    PROVE  StreamInv' /\ ~Live' /\ ~Unbroken'
<1>1. Alive' = Alive
  BY DEF Alive, Listed
<1> QED BY <1>1 DEF StreamInv, Unbroken, Live

LEMMA SameStream ==
    ASSUME Control, StreamInv, node' = node, outbox' = outbox, server' = server, wire' = wire, client' = client
    PROVE  /\ StreamInv' /\ Alive' = Alive /\ Near' = Near /\ Ahead' = Ahead /\ (Unbroken' <=> Unbroken)
           /\ (link' = link => (Live' <=> Live))
<1>1. Alive' = Alive
  BY DEF Alive, Listed
<1>2. Near' = Near /\ Ahead' = Ahead /\ (Unbroken' <=> Unbroken)
  BY <1>1 DEF Near, Ahead, Unbroken
<1> QED BY <1>1, <1>2 DEF StreamInv, Live

\* A frame in sequence is received.
LEMMA FrameStream ==
    ASSUME Control, StreamInv, wire # <<>>, NEW f, f = Head(wire), f.seq = client.seq + 1,
           client' = [client EXCEPT !.seq = f.seq], wire' = Tail(wire), server' = server, client.open,
           node' = node, outbox' = outbox
    PROVE  /\ StreamInv' /\ Ahead = Ahead' \cup Cut(f.ev) /\ (Unbroken' <=> Unbroken)
           /\ Unbroken => \A o \in Offers : Names(f.ev, o) => o \in Ahead'
<1>1. /\ client'.seq = client.seq + 1 /\ Len(wire') = Len(wire) - 1
      /\ Evs(wire) # <<>> /\ Evs(wire') = Tail(Evs(wire)) /\ Head(Evs(wire)) = f.ev
      /\ Evs(wire) \in Seq(Texts)
  BY FrameDoes
<1>2. Alive' = Alive
  BY DEF Alive, Listed
<1>3. Near' = Near
  BY <1>2 DEF Near
<1>4. Cuts(Evs(wire)) = Cut(f.ev) \cup Cuts(Evs(wire'))
  BY <1>1, CutsTail
<1>5. Ahead = Ahead' \cup Cut(f.ev)
  BY <1>3, <1>4 DEF Ahead
<1>6. Unbroken' <=> Unbroken
  BY <1>1, StreamFacts DEF Unbroken
<1>7. PICK N : N = Near
  OBVIOUS
<1>8. ASSUME Unbroken PROVE Ordered(Evs(wire'), 0, N) /\ \A o \in Offers : Names(f.ev, o) => o \in Ahead'
  <2>1. Ordered(Evs(wire), 0, N)
    BY <1>7, <1>8 DEF StreamInv
  <2>2. Ordered(Evs(wire), 0 + 1, N)
    BY <2>1, OrderedLater
  <2>3. Ordered(Tail(Evs(wire)), 0, N)
    BY <1>1, <2>2, OrderedTail
  <2>4. ASSUME NEW o \in Offers, Names(f.ev, o) PROVE o \in Ahead'
    <3>1. o \in N \cup Cuts(Tail(Evs(wire)))
      BY <1>1, <2>1, <2>4, OrderedHead
    <3> QED BY <1>1, <1>3, <1>7, <3>1 DEF Ahead
  <2> QED BY <1>1, <2>3, <2>4
<1>9. StreamInv'
  BY <1>2, <1>3, <1>6, <1>7, <1>8 DEF StreamInv
<1> QED BY <1>5, <1>6, <1>8, <1>9

-----------------------------------------------------------------------------
(* What the solver's part of the invariant promises, action by action.     *)

Promises == BootInv /\ SyncInv /\ DrainInv

\* The events in a queue.
LEMMA QueueEvs ==
    ASSUME NEW q \in Queues
    PROVE  /\ Evs(q) \in Seq(Texts) /\ Len(Evs(q)) = Len(q) /\ Len(q) \in Nat
           /\ \A i \in 1..Len(q) : Evs(q)[i] = q[i].ev /\ q[i] \in Tasks
           /\ \A o : o \in Cuts(Evs(q)) <=> \E i \in 1..Len(q) : o \in Cut(q[i].ev)
<1>1. q \in Seq(Tasks) /\ \A t \in Tasks : t.ev \in Texts
  BY DEF Queues, Tasks
<1>2. /\ Evs(q) \in Seq(Texts) /\ Len(Evs(q)) = Len(q) /\ Len(q) \in Nat
      /\ \A i \in 1..Len(q) : Evs(q)[i] = q[i].ev /\ q[i] \in Tasks
  BY <1>1, EvsOf, ElementOfSeq
<1>3. \A o : o \in Cuts(Evs(q)) <=> \E i \in 1..Len(q) : o \in Cut(q[i].ev)
  BY <1>2, CutsMember
<1> QED BY <1>2, <1>3

LEMMA QueueEvsTail ==
    ASSUME NEW q \in Queues, q # <<>>
    PROVE  /\ Evs(q) # <<>> /\ Head(Evs(q)) = Head(q).ev /\ Evs(Tail(q)) = Tail(Evs(q))
           /\ Evs(q) \in Seq(Texts) /\ Evs(Tail(q)) \in Seq(Texts)
           /\ Cuts(Evs(q)) = Cut(Head(q).ev) \cup Cuts(Evs(Tail(q)))
<1>1. q \in Seq(Tasks) /\ \A t \in Tasks : t.ev \in Texts
  BY DEF Queues, Tasks
<1>2. /\ Evs(q) # <<>> /\ Head(Evs(q)) = Head(q).ev /\ Evs(Tail(q)) = Tail(Evs(q))
  BY <1>1, EvsTail
<1>3. Evs(q) \in Seq(Texts)
  BY QueueEvs
<1>4. /\ Tail(Evs(q)) \in Seq(Texts)
      /\ Cuts(Evs(q)) = Cut(Head(Evs(q))) \cup Cuts(Tail(Evs(q)))
  BY <1>2, <1>3, CutsTail
<1> QED BY <1>2, <1>3, <1>4

LEMMA QueueEvsAppend ==
    ASSUME NEW q \in Queues, NEW t \in Tasks
    PROVE  /\ Evs(Append(q, t)) = Append(Evs(q), t.ev) /\ Evs(q) \in Seq(Texts) /\ t.ev \in Texts
           /\ Cuts(Evs(Append(q, t))) = Cuts(Evs(q)) \cup Cut(t.ev)
<1>1. q \in Seq(Tasks) /\ (\A x \in Tasks : x.ev \in Texts) /\ t.ev \in Texts
  BY DEF Queues, Tasks
<1>2. Evs(Append(q, t)) = Append(Evs(q), t.ev)
  BY <1>1, EvsAppend
<1>3. Evs(q) \in Seq(Texts)
  BY QueueEvs
<1>4. Cuts(Append(Evs(q), t.ev)) = Cuts(Evs(q)) \cup Cut(t.ev)
  BY <1>1, <1>3, CutsAppend
<1> QED BY <1>1, <1>2, <1>3, <1>4

LEMMA LiveFacts == ASSUME Control, Live PROVE ~stopped /\ link.up /\ Unbroken
  BY DEF Control, LinkInv, WireInv, Live, Unbroken

\* The node and the wire keep what is promised.
LEMMA FeedsKeep == ASSUME Control, Promises, Feeds PROVE Promises'
<1> USE DEF WorkSame
<1>1. WorkSame /\ (Live' => Live /\ Ahead \subseteq Ahead')
  BY DEF Feeds, Live
<1>2. Bootable' => Bootable
  BY <1>1 DEF Bootable
<1>3. Settled' <=> Settled
  BY <1>1 DEF Settled, Installing
<1>4. PICK A, B : A = Ahead /\ B = Ahead'
  OBVIOUS
<1>5. BootInv'
  <2>1. Live' => Ordered(boot'.buffered, 0, Ahead')
    <3> SUFFICES ASSUME Live' PROVE Ordered(boot.buffered, 0, B)
      BY <1>1, <1>4
    <3>1. Ordered(boot.buffered, 0, A) /\ A \subseteq B
      BY <1>1, <1>4 DEF Promises, BootInv
    <3> QED BY <3>1, OrderedMono
  <2>2. Bootable' /\ task'.at \in {"page", "verdict"} /\ Head(queue').kind = "initial" =>
            task'.got \subseteq Ahead' \cup Cuts(boot'.buffered)
    <3> SUFFICES ASSUME Bootable', task.at \in {"page", "verdict"}, Head(queue).kind = "initial"
                 PROVE  task.got \subseteq Ahead' \cup Cuts(boot.buffered)
      BY <1>1
    <3>1. Bootable /\ Ahead \subseteq Ahead'
      BY <1>1, <1>2 DEF Bootable
    <3> QED BY <3>1 DEF Promises, BootInv
  <2>3. Bootable' /\ task'.at \in {"drain", "drainDetail"} =>
            /\ book' \subseteq Ahead' \cup Cuts(boot'.buffered) \cup Cuts(task'.batch)
            /\ Ordered(task'.batch, 0, Ahead' \cup Cuts(boot'.buffered))
    <3> SUFFICES ASSUME Bootable', task.at \in {"drain", "drainDetail"}
                 PROVE  /\ book \subseteq B \cup Cuts(boot.buffered) \cup Cuts(task.batch)
                        /\ Ordered(task.batch, 0, B \cup Cuts(boot.buffered))
      BY <1>1, <1>4
    <3>1. Bootable /\ A \subseteq B
      BY <1>1, <1>2, <1>4 DEF Bootable
    <3>2. /\ book \subseteq A \cup Cuts(boot.buffered) \cup Cuts(task.batch)
          /\ Ordered(task.batch, 0, A \cup Cuts(boot.buffered))
      BY <1>4, <3>1 DEF Promises, BootInv
    <3>3. PICK X, Y : X = A \cup Cuts(boot.buffered) /\ Y = B \cup Cuts(boot.buffered)
      OBVIOUS
    <3>4. X \subseteq Y /\ Ordered(task.batch, 0, X)
      BY <3>1, <3>2, <3>3
    <3>5. Ordered(task.batch, 0, Y)
      BY <3>4, OrderedMono
    <3> QED BY <3>1, <3>2, <3>3, <3>5
  <2> QED BY <2>1, <2>2, <2>3 DEF BootInv
<1>6. SyncInv'
  <2> SUFFICES ASSUME Live', ~boot.buffering PROVE SyncInv'
    BY <1>1 DEF SyncInv
  <2>1. Live /\ A \subseteq B
    BY <1>1, <1>4
  <2>2. Settled => /\ book \subseteq B \cup Cuts(Evs(queue))
                   /\ Ordered(Evs(queue), 0, B)
    <3> SUFFICES ASSUME Settled PROVE book \subseteq B \cup Cuts(Evs(queue)) /\ Ordered(Evs(queue), 0, B)
      OBVIOUS
    <3>1. book \subseteq A \cup Cuts(Evs(queue)) /\ Ordered(Evs(queue), 0, A)
      BY <1>4, <2>1 DEF Promises, SyncInv
    <3> QED BY <2>1, <3>1, OrderedMono
  <2>3. resync.running /\ ~resync.due =>
            \A s \in 1..Len(queue) : queue[s].kind = "stage" => Ordered(Evs(queue), s, B)
    <3> SUFFICES ASSUME resync.running, ~resync.due, NEW s \in 1..Len(queue), queue[s].kind = "stage"
                 PROVE  Ordered(Evs(queue), s, B)
      OBVIOUS
    <3>1. Ordered(Evs(queue), s, A)
      BY <1>4, <2>1 DEF Promises, SyncInv
    <3> QED BY <2>1, <3>1, OrderedMono
  <2>4. task.at \in {"page", "verdict"} /\ Head(queue).kind = "stage" /\ task.gen = link.gen =>
            task.got \subseteq B \cup Cuts(Evs(queue))
    BY <1>4, <2>1 DEF Promises, SyncInv
  <2> QED BY <1>1, <1>3, <1>4, <2>2, <2>3, <2>4 DEF SyncInv
<1>7. DrainInv'
  BY <1>1 DEF Promises, DrainInv
<1> QED BY <1>5, <1>6, <1>7 DEF Promises

\* A solver that knows of no link promises nothing of the mirror.
LEMMA DeadPromises == ASSUME ~Live' PROVE BootInv' /\ SyncInv'
  BY DEF BootInv, SyncInv, Bootable

\* After the startup its buffer plays no part.
LEMMA NoAttempt == ASSUME Control', ~stopped', ~boot'.buffering PROVE BootInv'
<1>1. boot'.buffered = <<>>
  BY DEF Control, BufferInv
<1>2. \A i \in 1..Len(queue') : queue'[i].kind # "initial"
  BY DEF Control, QueueInv, Coherent
<1>3. queue' # <<>> => Head(queue').kind # "initial"
  <2> SUFFICES ASSUME queue' # <<>> PROVE Head(queue').kind # "initial"
    OBVIOUS
  <2>1. queue' \in Seq(Tasks)
    BY DEF Control, Typed, WorkTyped
  <2>2. Len(queue') \in Nat \ {0} /\ Head(queue') = queue'[1]
    BY <2>1, HeadTailProperties, EmptySeq
  <2> QED BY <1>2, <2>2
<1>4. task'.at \in {"page", "verdict", "drain", "drainDetail"} => queue' # <<>>
  BY DEF Control, TaskInv
<1>5. task'.at \in {"drain", "drainDetail"} => Head(queue').kind = "initial"
  BY DEF Control, TaskInv
<1>6. PICK B : B = Ahead'
  OBVIOUS
<1>7. Ordered(boot'.buffered, 0, B)
  BY <1>1, OrderedEmpty
<1> QED BY <1>3, <1>4, <1>5, <1>6, <1>7 DEF BootInv

\* Tasks other than an install may be put at the end.
LEMMA DrainAppended ==
    ASSUME Control, Promises, ~stopped, stopped' = stopped, overdue' = overdue, NEW t \in Tasks,
           t.kind = "event" <=> t.ev # <<>>, t.kind # "install", queue' = Append(queue, t)
    PROVE  \A k \in 1..Len(queue') : queue'[k].kind = "install" =>
               \A o \in overdue' : \E i \in 1..Len(queue') : i < k /\ o \in Cut(queue'[i].ev)
<1>1. /\ Len(queue') = Len(queue) + 1 /\ Len(queue) \in Nat
      /\ queue'[Len(queue) + 1] = t /\ \A i \in 1..Len(queue) : queue'[i] = queue[i]
  BY ControlFacts, QueueAppend
<1>2. \A i \in 1..Len(queue') : i \in 1..Len(queue) \/ i = Len(queue) + 1
  BY <1>1
<1> SUFFICES ASSUME NEW k \in 1..Len(queue'), queue'[k].kind = "install", NEW o \in overdue'
             PROVE  \E i \in 1..Len(queue') : i < k /\ o \in Cut(queue'[i].ev)
  OBVIOUS
<1>3. k \in 1..Len(queue) /\ queue[k].kind = "install"
  BY <1>1, <1>2
<1>4. PICK i \in 1..Len(queue) : i < k /\ o \in Cut(queue[i].ev)
  BY <1>3 DEF Promises, DrainInv
<1>5. i \in 1..Len(queue') /\ queue'[i] = queue[i]
  BY <1>1
<1> QED BY <1>4, <1>5

\* A resynchronisation that has just been put in the queue has everything before it.
LEMMA StageLast ==
    ASSUME NEW q \in Queues, \A i \in 1..Len(q) : ~IsStage(q[i]), NEW A
    PROVE  /\ \A s \in 1..Len(Append(q, Task("stage"))) : Append(q, Task("stage"))[s].kind = "stage" =>
                  Ordered(Evs(Append(q, Task("stage"))), s, A)
           /\ \A s \in 1..Len(Append(q, Task("stage"))) : Append(q, Task("stage"))[s].kind # "install"
           /\ Cuts(Evs(Append(q, Task("stage")))) = Cuts(Evs(q))
<1>1. /\ Task("stage") \in Tasks /\ Task("stage").kind = "stage" /\ Task("stage").ev = <<>>
      /\ Task("stage").kind = "event" <=> Task("stage").ev # <<>>
  BY EventTasks
<1>2. PICK p : p = Append(q, Task("stage"))
  OBVIOUS
<1>3. /\ p \in Queues /\ Len(p) = Len(q) + 1 /\ Len(q) \in Nat
      /\ p[Len(q) + 1] = Task("stage") /\ \A i \in 1..Len(q) : p[i] = q[i]
  BY <1>1, <1>2, QueueAppend
<1>4. \A i \in 1..Len(p) : i \in 1..Len(q) \/ i = Len(q) + 1
  BY <1>3
<1>5. \A i \in 1..Len(q) : p[i].kind # "stage" /\ p[i].kind # "install"
  BY <1>3 DEF IsStage
<1>6. Len(Evs(p)) = Len(p)
  BY <1>3, QueueEvs
<1>7. ASSUME NEW s \in 1..Len(p), p[s].kind = "stage" PROVE Ordered(Evs(p), s, A)
  <2>1. s = Len(Evs(p))
    BY <1>3, <1>4, <1>5, <1>6, <1>7
  <2>2. \A i \in 1..Len(Evs(p)) : ~(i > s)
    BY <1>3, <1>6, <2>1
  <2> QED BY <2>2 DEF Ordered
<1>8. \A s \in 1..Len(p) : p[s].kind # "install"
  BY <1>1, <1>3, <1>4, <1>5
<1>9. Cuts(Evs(p)) = Cuts(Evs(q))
  <2>1. Cuts(Evs(p)) = Cuts(Evs(q)) \cup Cut(Task("stage").ev)
    BY <1>1, <1>2, QueueEvsAppend
  <2> QED BY <1>1, <2>1, EventCut
<1> QED BY <1>2, <1>7, <1>8, <1>9

\* An event of the stream reaches the solver.
LEMMA EventReceived ==
    ASSUME Control, StreamInv, Promises, Control', Receive, NEW ev \in Events, onEvent(ev),
           Ahead = Ahead' \cup Cut(ev), Unbroken' <=> Unbroken,
           Unbroken => \A o \in Offers : Names(ev, o) => o \in Ahead',
           ~stopped, stopped' = stopped, task' = task, link' = link, current' = current, resync' = resync,
           book' = book, overdue' = overdue
    PROVE  Promises'
<1>1. /\ boot' \in Boots /\ queue' \in Queues
      /\ boot'.buffering = boot.buffering /\ boot'.attempt = boot.attempt
      /\ \/ boot.buffering /\ boot.overflow /\ boot' = boot /\ queue' = queue
         \/ boot.buffering /\ boot'.overflow /\ boot'.buffered = <<>> /\ queue' = queue
         \/ /\ boot.buffering /\ ~boot.overflow /\ ~boot'.overflow
            /\ boot'.buffered = Append(boot.buffered, ev) /\ queue' = queue
         \/ ~boot.buffering /\ boot' = boot /\ queue' = Append(queue, EventTask(ev))
  BY OnEventDoes DEF Control
<1>2. ev \in Texts /\ Live' = Live
  BY DEF Live, Texts
<1>3. PICK A, B : A = Ahead /\ B = Ahead'
  OBVIOUS
<1>4. A = B \cup Cut(ev) /\ (Live => \A o \in Offers : Names(ev, o) => o \in B)
  BY <1>3 DEF Live
<1>5. CASE boot.buffering /\ queue' = queue /\ boot'.overflow /\ boot'.buffered = <<>>
  <2>1. BootInv'
    <3>1. Ordered(boot'.buffered, 0, B)
      BY <1>5, OrderedEmpty
    <3> QED BY <1>3, <1>5, <3>1 DEF BootInv, Bootable
  <2>2. SyncInv'
    BY <1>1, <1>5 DEF SyncInv
  <2>3. DrainInv'
    BY <1>5 DEF Promises, DrainInv
  <2> QED BY <2>1, <2>2, <2>3 DEF Promises
<1>6. CASE /\ boot.buffering /\ ~boot.overflow /\ ~boot'.overflow
           /\ boot'.buffered = Append(boot.buffered, ev) /\ queue' = queue
  <2>1. boot.buffered \in Seq(Texts)
    BY ControlFacts, EventSeqs
  <2>2. Cuts(boot'.buffered) = Cuts(boot.buffered) \cup Cut(ev)
    BY <1>2, <1>6, <2>1, CutsAppend
  <2>3. Bootable' => Bootable
    BY <1>2, <1>6 DEF Bootable
  <2>4. Live => Ordered(boot'.buffered, 0, B)
    <3> SUFFICES ASSUME Live PROVE Ordered(boot'.buffered, 0, B)
      OBVIOUS
    <3>1. Ordered(boot.buffered, 0, A)
      BY <1>3 DEF Promises, BootInv
    <3>2. Ordered(Append(boot.buffered, ev), 0, B)
      BY <1>2, <1>4, <2>1, <3>1, OrderedAppend
    <3> QED BY <1>6, <3>2
  <2>5. Bootable /\ task.at \in {"page", "verdict"} /\ Head(queue).kind = "initial" =>
            task.got \subseteq B \cup Cuts(boot'.buffered)
    BY <1>3, <1>4, <2>2 DEF Promises, BootInv
  <2>6. Bootable /\ task.at \in {"drain", "drainDetail"} =>
            /\ book \subseteq B \cup Cuts(boot'.buffered) \cup Cuts(task.batch)
            /\ Ordered(task.batch, 0, B \cup Cuts(boot'.buffered))
    <3> SUFFICES ASSUME Bootable, task.at \in {"drain", "drainDetail"}
                 PROVE  /\ book \subseteq B \cup Cuts(boot'.buffered) \cup Cuts(task.batch)
                        /\ Ordered(task.batch, 0, B \cup Cuts(boot'.buffered))
      OBVIOUS
    <3>1. PICK X : X = A \cup Cuts(boot.buffered)
      OBVIOUS
    <3>2. book \subseteq X \cup Cuts(task.batch) /\ Ordered(task.batch, 0, X)
      BY <1>3, <3>1 DEF Promises, BootInv
    <3>3. X = B \cup Cuts(boot'.buffered)
      BY <1>4, <2>2, <3>1
    <3> QED BY <3>2, <3>3
  <2>7. BootInv'
    BY <1>2, <1>3, <1>6, <2>3, <2>4, <2>5, <2>6 DEF BootInv
  <2>8. SyncInv'
    BY <1>1, <1>6 DEF SyncInv
  <2>9. DrainInv'
    BY <1>6, <2>2 DEF Promises, DrainInv
  <2> QED BY <2>7, <2>8, <2>9 DEF Promises
<1>7. CASE ~boot.buffering /\ boot' = boot /\ queue' = Append(queue, EventTask(ev))
  <2>1. /\ EventTask(ev) \in Tasks /\ EventTask(ev).ev = ev /\ EventTask(ev).kind = "event" /\ ev # <<>>
        /\ EventTask(ev).kind = "event" <=> EventTask(ev).ev # <<>>
    BY EventTasks
  <2>2. BootInv'
    BY <1>7, NoAttempt
  <2>3. /\ Evs(queue') = Append(Evs(queue), ev) /\ Evs(queue) \in Seq(Texts)
        /\ Cuts(Evs(queue')) = Cuts(Evs(queue)) \cup Cut(ev)
    BY <1>7, <2>1, ControlFacts, QueueEvsAppend
  <2>4. /\ Len(queue') = Len(queue) + 1 /\ Len(queue) \in Nat
        /\ queue'[Len(queue) + 1] = EventTask(ev) /\ \A i \in 1..Len(queue) : queue'[i] = queue[i]
        /\ queue # <<>> => Head(queue') = Head(queue) /\ queue' # <<>>
    BY <1>7, <2>1, ControlFacts, QueueAppend
  <2>5. \A i \in 1..Len(queue') : i \in 1..Len(queue) \/ i = Len(queue) + 1
    BY <2>4
  <2>6. Settled' => Settled
    <3>1. Installing' => Installing
      BY <2>1, <2>4, <2>5 DEF Installing
    <3> QED BY <3>1 DEF Settled
  <2>7. Live => (Settled => book \subseteq B \cup Cuts(Evs(queue')) /\ Ordered(Evs(queue'), 0, B))
    <3> SUFFICES ASSUME Live, Settled
                 PROVE  book \subseteq B \cup Cuts(Evs(queue')) /\ Ordered(Evs(queue'), 0, B)
      OBVIOUS
    <3>1. book \subseteq A \cup Cuts(Evs(queue)) /\ Ordered(Evs(queue), 0, A)
      BY <1>3, <1>7 DEF Promises, SyncInv
    <3>2. Ordered(Append(Evs(queue), ev), 0, B)
      BY <1>2, <1>4, <2>3, <3>1, OrderedAppend
    <3> QED BY <1>4, <2>3, <3>1, <3>2
  <2>8. ASSUME Live, resync.running, ~resync.due, NEW s \in 1..Len(queue'), queue'[s].kind = "stage"
        PROVE  Ordered(Evs(queue'), s, B)
    <3>1. s \in 1..Len(queue) /\ queue[s].kind = "stage" /\ s \in Nat
      BY <2>1, <2>4, <2>5, <2>8
    <3>2. Ordered(Evs(queue), s, A)
      BY <1>3, <1>7, <2>8, <3>1 DEF Promises, SyncInv
    <3>3. Ordered(Append(Evs(queue), ev), s, B)
      BY <1>2, <1>4, <2>3, <2>8, <3>1, <3>2, OrderedAppend
    <3> QED BY <2>3, <3>3
  <2>9. Live /\ task.at \in {"page", "verdict"} /\ Head(queue').kind = "stage" /\ task.gen = link.gen =>
            task.got \subseteq B \cup Cuts(Evs(queue'))
    <3> SUFFICES ASSUME Live, task.at \in {"page", "verdict"}, Head(queue').kind = "stage", task.gen = link.gen
                 PROVE  task.got \subseteq B \cup Cuts(Evs(queue'))
      OBVIOUS
    <3>1. Head(queue') = Head(queue)
      BY <2>4 DEF Control, TaskInv
    <3>2. task.got \subseteq A \cup Cuts(Evs(queue))
      BY <1>3, <1>7, <3>1 DEF Promises, SyncInv
    <3> QED BY <1>4, <2>3, <3>2
  <2>10. SyncInv'
    BY <1>2, <1>3, <2>6, <2>7, <2>8, <2>9 DEF SyncInv
  <2>11. DrainInv'
    <3>1. \A k \in 1..Len(queue') : queue'[k].kind = "install" =>
              \A o \in overdue' : \E i \in 1..Len(queue') : i < k /\ o \in Cut(queue'[i].ev)
      BY <1>7, <2>1, DrainAppended
    <3> QED BY <1>7, <3>1 DEF Promises, DrainInv
  <2> QED BY <2>2, <2>10, <2>11 DEF Promises
<1>8. boot.buffering /\ boot.overflow /\ boot' = boot /\ queue' = queue => boot'.overflow /\ boot'.buffered = <<>>
  BY DEF Control, BufferInv
<1> QED BY <1>1, <1>5, <1>6, <1>7, <1>8

\* A new connection: nothing of it has been read yet.
LEMMA OpenReceived ==
    ASSUME Control, StreamInv, Promises, Control', onOpen, client.seq = 0,
           ~stopped, stopped' = stopped, task' = task, book' = book, overdue' = overdue
    PROVE  Promises'
<1>1. /\ link'.up /\ link'.gen = link.gen + 1 /\ Arranges
      /\ \/ boot.buffering /\ current' = current
         \/ ~boot.buffering /\ ~current' /\ resync'.running /\ resync'.due = resync.running
  BY OnOpenDoes DEF Control
<1>2. ~link.up /\ boot.buffered = <<>> /\ boot'.buffered = <<>> /\ link.gen \in Nat /\ task.gen <= link.gen
  BY <1>1, ControlFacts DEF Control, LinkInv, BufferInv, Arranges
<1>3. task.gen # link'.gen
  BY <1>1, <1>2, ControlFacts
<1>4. PICK B : B = Ahead'
  OBVIOUS
<1>5. BootInv'
  <2>1. Ordered(boot'.buffered, 0, B)
    BY <1>2, OrderedEmpty
  <2> QED BY <1>3, <1>4, <2>1 DEF BootInv, Bootable
<1>6. \A i \in 1..Len(queue') : queue'[i].gen <= link.gen
  <2>1. queue \in Queues /\ \A i \in 1..Len(queue) : queue[i].gen <= link.gen
    BY ControlFacts DEF Control, LinkInv
  <2>2. \A k \in {"initial", "stage"} :
            /\ Task(k) \in Tasks /\ Task(k).gen = 0 /\ (Task(k).kind = "event" <=> Task(k).ev # <<>>)
    BY EventTasks
  <2>3. CASE queue' = queue
    BY <2>1, <2>3
  <2>4. ASSUME NEW k \in {"initial", "stage"}, queue' = Append(queue, Task(k))
        PROVE  \A i \in 1..Len(queue') : queue'[i].gen <= link.gen
    <3>1. /\ Len(queue') = Len(queue) + 1 /\ Len(queue) \in Nat
          /\ queue'[Len(queue) + 1] = Task(k) /\ \A i \in 1..Len(queue) : queue'[i] = queue[i]
      BY <2>1, <2>2, <2>4, QueueAppend
    <3>2. \A i \in 1..Len(queue') : i \in 1..Len(queue) \/ i = Len(queue) + 1
      BY <3>1
    <3> QED BY <1>2, <2>1, <2>2, <3>1, <3>2
  <2> QED BY <1>1, <2>3, <2>4 DEF Arranges
<1>7. ~Installing'
  <2> SUFFICES ASSUME NEW k \in 1..Len(queue'), queue'[k].gen = link'.gen PROVE FALSE
    BY DEF Installing
  <2>1. link.gen + 1 <= link.gen
    BY <1>1, <1>6
  <2> QED BY <1>2, <2>1
<1>8. SyncInv'
  <2> SUFFICES ASSUME ~boot'.buffering PROVE SyncInv'
    BY DEF SyncInv
  <2>1. ~boot.buffering /\ ~current' /\ resync'.running /\ resync'.due = resync.running
    BY <1>1 DEF Arranges
  <2>2. ~Settled'
    BY <1>7, <2>1 DEF Settled
  <2>3. ASSUME ~resync'.due, NEW s \in 1..Len(queue'), queue'[s].kind = "stage" PROVE Ordered(Evs(queue'), s, B)
    <3>1. ~resync.running /\ queue' = Append(queue, Task("stage"))
      BY <1>1, <2>1, <2>3 DEF Arranges
    <3>2. \A i \in 1..Len(queue) : ~IsStage(queue[i])
      BY <3>1 DEF Control, QueueInv, Coherent
    <3> QED BY <2>3, <3>1, <3>2, ControlFacts, StageLast
  <2> QED BY <1>3, <1>4, <2>2, <2>3 DEF SyncInv
<1>9. DrainInv'
  <2>1. \A k \in 1..Len(queue') : queue'[k].kind = "install" =>
            \A o \in overdue' : \E i \in 1..Len(queue') : i < k /\ o \in Cut(queue'[i].ev)
    <3>1. CASE queue' = queue
      BY <3>1 DEF Promises, DrainInv
    <3>2. ASSUME NEW k \in {"initial", "stage"}, queue' = Append(queue, Task(k))
          PROVE  \A i \in 1..Len(queue') : queue'[i].kind = "install" =>
                     \A o \in overdue' : \E j \in 1..Len(queue') : j < i /\ o \in Cut(queue'[j].ev)
      <4>1. /\ Task(k) \in Tasks /\ Task(k).kind = k /\ (Task(k).kind = "event" <=> Task(k).ev # <<>>)
        BY EventTasks
      <4> QED BY <3>2, <4>1, DrainAppended
    <3> QED BY <1>1, <3>1, <3>2 DEF Arranges
  <2> QED BY <1>3, <2>1 DEF DrainInv
<1> QED BY <1>5, <1>8, <1>9 DEF Promises

LEMMA FinishPromises == Control /\ StreamInv /\ Promises /\ ClientStep /\ finish => StreamInv' /\ Promises'
<1> SUFFICES ASSUME Control, StreamInv, Promises, ClientStep, finish PROVE StreamInv' /\ Promises'
  OBVIOUS
<1>1. /\ node' = node /\ outbox' = outbox /\ task' = task /\ stopped' = stopped /\ overdue' = overdue
      /\ book' = book
  BY DEF ClientStep, nodeVars, mirrorVars
<1>2. /\ queue' = queue /\ ~server'.attached
      /\ \/ link' = link /\ boot' = boot
         \/ ~link'.up
  BY FinishDoes DEF Control
<1>3. StreamInv' /\ ~Live'
  BY <1>1, <1>2, CutStream
<1>4. DrainInv'
  BY <1>1, <1>2 DEF Promises, DrainInv
<1> QED BY <1>3, <1>4, DeadPromises DEF Promises

LEMMA ReceivePromises == Control /\ StreamInv /\ Promises /\ Receive => StreamInv' /\ Promises'
<1> SUFFICES ASSUME Control, StreamInv, Promises, Receive PROVE StreamInv' /\ Promises'
  OBVIOUS
<1>1. CASE finish
  BY <1>1, FinishPromises DEF Receive
<1>2. CASE ~finish
  <2>1. PICK f \in Frames :
        /\ wire # <<>> /\ f = Head(wire) /\ f.seq = client.seq + 1
        /\ client' = [client EXCEPT !.seq = f.seq] /\ wire' = Tail(wire) /\ server' = server
        /\ client.open /\ ~stopped /\ node' = node /\ indexed' = indexed /\ outbox' = outbox
        /\ task' = task /\ probe' = probe /\ stopped' = stopped /\ book' = book /\ overdue' = overdue
        /\ \/ f.ev = <<>> /\ client.seq = 0 /\ onOpen
           \/ /\ f.ev \in Events /\ client.seq > 0 /\ onEvent(f.ev)
              /\ link' = link /\ current' = current /\ resync' = resync
    BY <1>2, ReceiveDoes
  <2>2. /\ StreamInv' /\ Ahead = Ahead' \cup Cut(f.ev) /\ (Unbroken' <=> Unbroken)
        /\ Unbroken => \A o \in Offers : Names(f.ev, o) => o \in Ahead'
    BY <2>1, FrameStream
  <2>3. Control'
    BY ReceiveControl
  <2>4. CASE f.ev = <<>> /\ client.seq = 0 /\ onOpen
    BY <2>1, <2>2, <2>3, <2>4, OpenReceived
  <2>5. CASE /\ f.ev \in Events /\ client.seq > 0 /\ onEvent(f.ev)
             /\ link' = link /\ current' = current /\ resync' = resync
    BY <2>1, <2>2, <2>3, <2>5, EventReceived
  <2> QED BY <2>1, <2>4, <2>5
<1> QED BY <1>1, <1>2

LEMMA SubscribePromises == Control /\ StreamInv /\ Promises /\ Subscribe => StreamInv' /\ Promises'
<1> SUFFICES ASSUME Control, StreamInv, Promises, Subscribe PROVE StreamInv' /\ Promises'
  OBVIOUS
<1>1. WorkSame /\ ~client.open /\ ~stopped
  BY DEF Subscribe, StreamStep, WorkSame, workVars, mirrorVars
<1>2. ~link.up
  BY <1>1, StreamFacts DEF Control, LinkInv, WireInv
<1>3. ~Live'
  BY <1>1, <1>2 DEF Live, WorkSame
<1>4. DrainInv'
  BY <1>1 DEF Promises, DrainInv, WorkSame
<1> QED BY <1>3, <1>4, SubscribeStream, DeadPromises DEF Promises

LEMMA StopPromises == Control /\ StreamInv /\ Promises /\ Stop => StreamInv' /\ Promises'
<1> SUFFICES ASSUME Control, StreamInv, Promises, Stop PROVE StreamInv' /\ Promises'
  OBVIOUS
<1>1. node' = node /\ outbox' = outbox /\ server' = [attached |-> FALSE, seq |-> 0] /\ stopped'
  BY DEF Stop, nodeVars
<1>2. StreamInv' /\ ~Live'
  BY <1>1, CutStream
<1>3. DrainInv'
  BY <1>1 DEF DrainInv
<1> QED BY <1>2, <1>3, DeadPromises DEF Promises

LEMMA SweepPromises == Control /\ StreamInv /\ Promises /\ Sweep => StreamInv' /\ Promises'
<1> SUFFICES ASSUME Control, StreamInv, Promises, Sweep PROVE StreamInv' /\ Promises'
  OBVIOUS
<1>1. /\ server' = server /\ wire' = wire /\ client' = client /\ node' = node /\ outbox' = outbox
      /\ link' = link /\ current' = current /\ boot' = boot /\ queue' = queue /\ task' = task
      /\ resync' = resync /\ probe' = probe /\ stopped' = stopped
      /\ book' \subseteq book /\ overdue' \subseteq overdue
  BY DEF Sweep, wireVars, workVars, nodeVars
<1>2. StreamInv' /\ Ahead' = Ahead /\ (Live' <=> Live)
  BY <1>1, SameStream
<1>3. (Bootable' <=> Bootable) /\ (Settled' <=> Settled)
  BY <1>1, <1>2 DEF Bootable, Settled, Installing
<1>4. BootInv'
  BY <1>1, <1>2, <1>3 DEF Promises, BootInv
<1>5. SyncInv'
  BY <1>1, <1>2, <1>3 DEF Promises, SyncInv
<1>6. DrainInv'
  BY <1>1 DEF Promises, DrainInv
<1> QED BY <1>2, <1>4, <1>5, <1>6 DEF Promises

LEMMA TimerPromises == Control /\ StreamInv /\ Promises /\ Timers => StreamInv' /\ Promises'
<1> SUFFICES ASSUME Control, StreamInv, Promises, Timers PROVE StreamInv' /\ Promises'
  OBVIOUS
<1>1. /\ ~stopped /\ stopped' = stopped /\ UNCHANGED nodeVars /\ server' = server /\ wire' = wire
      /\ client' = client /\ link' = link /\ task' = task /\ book' = book /\ overdue' = overdue
      /\ current' \in BOOLEAN /\ (current' => current) /\ Arranges
      /\ probe' \in Nat /\ (probe' # 0 => ~boot.buffering)
  BY TimerDoes
<1>2. StreamInv' /\ Ahead' = Ahead /\ (Live' <=> Live)
  BY <1>1, SameStream DEF nodeVars
<1>3. /\ queue \in Queues /\ boot'.buffering = boot.buffering /\ boot'.buffered = boot.buffered
      /\ boot'.overflow = boot.overflow
  BY <1>1, ControlFacts DEF Arranges
<1>4. \A k \in {"initial", "stage"} :
          /\ Task(k) \in Tasks /\ Task(k).kind = k /\ Task(k).ev = <<>>
          /\ Task(k).kind = "event" <=> Task(k).ev # <<>>
  BY EventTasks
<1>5. queue # <<>> => Head(queue') = Head(queue)
  <2>1. \A k \in {"initial", "stage"} : queue # <<>> => Head(Append(queue, Task(k))) = Head(queue)
    BY <1>3, <1>4, QueueAppend
  <2> QED BY <1>1, <2>1 DEF Arranges
<1>6. task.at # "start" => queue # <<>>
  BY DEF Control, TaskInv
<1>7. Cuts(Evs(queue')) = Cuts(Evs(queue))
  <2>1. ASSUME NEW k \in {"initial", "stage"}, queue' = Append(queue, Task(k))
        PROVE  Cuts(Evs(queue')) = Cuts(Evs(queue))
    <3>1. Cuts(Evs(Append(queue, Task(k)))) = Cuts(Evs(queue)) \cup Cut(Task(k).ev)
      BY <1>3, <1>4, QueueEvsAppend
    <3>2. Cut(Task(k).ev) = {}
      BY <1>4, EventCut
    <3> QED BY <2>1, <3>1, <3>2
  <2>2. CASE queue' = queue
    BY <2>2
  <2> QED BY <1>1, <2>1, <2>2 DEF Arranges
<1>8. BootInv'
  <2>1. Bootable' <=> Bootable
    BY <1>1, <1>2, <1>3 DEF Bootable
  <2> QED BY <1>1, <1>2, <1>3, <1>5, <1>6, <2>1 DEF Promises, BootInv
<1>9. SyncInv'
  <2> SUFFICES ASSUME Live, ~boot.buffering PROVE SyncInv'
    BY <1>2, <1>3 DEF SyncInv
  <2>1. CASE queue' = queue /\ resync' = resync
    <3>1. Settled' => Settled
      BY <1>1, <2>1 DEF Settled, Installing
    <3> QED BY <1>1, <1>2, <2>1, <3>1 DEF Promises, SyncInv
  <2>2. CASE resync'.running /\ resync'.due /\ queue' = queue
    <3>1. ~Settled'
      BY <2>2 DEF Settled
    <3> QED BY <1>1, <1>2, <2>2, <3>1 DEF Promises, SyncInv
  <2>3. CASE ~resync.running /\ resync'.running /\ queue' = Append(queue, Task("stage"))
    <3>1. \A i \in 1..Len(queue) : ~IsStage(queue[i])
      BY <1>1, <2>3 DEF Control, QueueInv, Coherent
    <3>2. PICK B : B = Ahead'
      OBVIOUS
    <3>3. /\ \A s \in 1..Len(queue') : queue'[s].kind = "stage" => Ordered(Evs(queue'), s, B)
          /\ \A s \in 1..Len(queue') : queue'[s].kind # "install"
      BY <1>3, <2>3, <3>1, StageLast
    <3>4. ~Settled'
      BY <2>3, <3>3 DEF Settled, Installing
    <3>5. task'.at \in {"page", "verdict"} /\ Head(queue').kind = "stage" /\ task'.gen = link'.gen =>
              task'.got \subseteq Ahead' \cup Cuts(Evs(queue'))
      BY <1>1, <1>2, <1>5, <1>6, <1>7 DEF Promises, SyncInv
    <3> QED BY <3>2, <3>3, <3>4, <3>5 DEF SyncInv
  <2> QED BY <1>1, <2>1, <2>2, <2>3 DEF Arranges
<1>10. DrainInv'
  <2>1. \A k \in 1..Len(queue') : queue'[k].kind = "install" =>
            \A o \in overdue' : \E i \in 1..Len(queue') : i < k /\ o \in Cut(queue'[i].ev)
    <3>1. CASE queue' = queue
      BY <1>1, <3>1 DEF Promises, DrainInv
    <3>2. ASSUME NEW k \in {"initial", "stage"}, queue' = Append(queue, Task(k))
          PROVE  \A i \in 1..Len(queue') : queue'[i].kind = "install" =>
                     \A o \in overdue' : \E j \in 1..Len(queue') : j < i /\ o \in Cut(queue'[j].ev)
      BY <1>1, <1>4, <3>2, DrainAppended
    <3> QED BY <1>1, <3>1, <3>2 DEF Arranges
  <2> QED BY <1>1, <1>3, <2>1 DEF Promises, DrainInv
<1> QED BY <1>2, <1>8, <1>9, <1>10 DEF Promises

\* The tasks leave the stream alone.
LEMMA ElsewhereStream ==
    ASSUME Control, StreamInv, Elsewhere
    PROVE  /\ StreamInv' /\ Alive' = Alive /\ Ahead' = Ahead /\ (Live' <=> Live) /\ link' = link
           /\ stopped' = stopped
  BY SameStream DEF Elsewhere

\* A task leaves the head of the queue: those behind it move up.
LEMMA MovedUp ==
    ASSUME Control, queue # <<>>, NEW K,
           \E k \in 1..Len(Tail(queue)) : Tail(queue)[k].kind = K /\ Tail(queue)[k].gen = link.gen
    PROVE  \E k \in 1..Len(queue) : queue[k].kind = K /\ queue[k].gen = link.gen
<1>1. \A i \in 1..Len(Tail(queue)) : Tail(queue)[i] = queue[i + 1] /\ i + 1 \in 1..Len(queue)
  BY ControlFacts, QueueTail
<1> QED BY <1>1

\* An event task ends, and the mirror is what the events behind it allow.
LEMMA EventEndsPromises ==
    ASSUME Control, StreamInv, Promises, Control', Elsewhere, queue # <<>>, Head(queue).kind = "event",
           current' = current, boot' = boot, resync' = resync, task' = Fresh, queue' = Tail(queue),
           Live /\ Settled => book' \subseteq Ahead \cup Cuts(Evs(Tail(queue))),
           \A o \in overdue' : o \in overdue /\ o \notin Cut(Head(queue).ev)
    PROVE  Promises'
<1>1. /\ StreamInv' /\ Alive' = Alive /\ Ahead' = Ahead /\ (Live' <=> Live) /\ link' = link
      /\ stopped' = stopped
  BY ElsewhereStream
<1>2. /\ Evs(queue) # <<>> /\ Evs(queue') = Tail(Evs(queue)) /\ Evs(queue) \in Seq(Texts)
  BY ControlFacts, QueueEvsTail
<1>3. /\ Len(Tail(queue)) = Len(queue) - 1 /\ Len(queue) \in Nat \ {0} /\ Head(queue) = queue[1]
      /\ \A i \in 1..Len(Tail(queue)) : Tail(queue)[i] = queue[i + 1] /\ i + 1 \in 1..Len(queue)
      /\ \A i \in 1..Len(queue) : i > 1 => i - 1 \in 1..Len(Tail(queue)) /\ Tail(queue)[i - 1] = queue[i]
  BY ControlFacts, QueueTail
<1>4. task'.at = "start"
  BY FreshStep
<1>5. CASE stopped
  <2>1. ~Live'
    BY <1>1, <1>5, LiveFacts
  <2>2. DrainInv'
    BY <1>1, <1>5 DEF DrainInv
  <2> QED BY <2>1, <2>2, DeadPromises DEF Promises
<1>6. CASE ~stopped
  <2>1. ~boot.buffering
    BY <1>6, ControlFacts, CoherentAfterEvent DEF Control, QueueInv
  <2>2. BootInv'
    BY <1>1, <1>6, <2>1, NoAttempt
  <2>3. Settled' => Settled
    <3>1. Installing' => Installing
      BY <1>1, MovedUp DEF Installing
    <3> QED BY <3>1 DEF Settled
  <2>4. PICK A : A = Ahead
    OBVIOUS
  <2>5. Live /\ Settled => Ordered(Evs(queue'), 0, A)
    <3> SUFFICES ASSUME Live, Settled PROVE Ordered(Evs(queue'), 0, A)
      OBVIOUS
    <3>1. Ordered(Evs(queue), 0, A)
      BY <2>1, <2>4 DEF Promises, SyncInv
    <3>2. Ordered(Evs(queue), 0 + 1, A)
      BY <3>1, OrderedLater
    <3> QED BY <1>2, <3>2, OrderedTail
  <2>6. ASSUME Live, resync.running, ~resync.due, NEW s \in 1..Len(queue'), queue'[s].kind = "stage"
        PROVE  Ordered(Evs(queue'), s, A)
    <3>1. s + 1 \in 1..Len(queue) /\ queue[s + 1].kind = "stage" /\ s \in Nat
      BY <1>3, <2>6
    <3>2. Ordered(Evs(queue), s + 1, A)
      BY <2>1, <2>4, <2>6, <3>1 DEF Promises, SyncInv
    <3> QED BY <1>2, <3>1, <3>2, OrderedTail
  <2>7. SyncInv'
    <3> SUFFICES ASSUME Live PROVE SyncInv'
      BY <1>1 DEF SyncInv
    <3>1. Ahead' = A /\ Live' /\ ~boot'.buffering
      BY <1>1, <2>1, <2>4
    <3>2. Settled' => book' \subseteq A \cup Cuts(Evs(queue')) /\ Ordered(Evs(queue'), 0, A)
      BY <2>3, <2>4, <2>5
    <3>3. resync'.running /\ ~resync'.due =>
             \A s \in 1..Len(queue') : queue'[s].kind = "stage" => Ordered(Evs(queue'), s, A)
      BY <2>6
    <3> QED BY <1>4, <3>1, <3>2, <3>3 DEF SyncInv
  <2>8. DrainInv'
    <3> SUFFICES ASSUME NEW k \in 1..Len(queue'), queue'[k].kind = "install", NEW o \in overdue'
                 PROVE  \E i \in 1..Len(queue') : i < k /\ o \in Cut(queue'[i].ev)
      BY <1>4 DEF DrainInv
    <3>1. k + 1 \in 1..Len(queue) /\ queue[k + 1].kind = "install"
      BY <1>3
    <3>2. PICK i \in 1..Len(queue) : i < k + 1 /\ o \in Cut(queue[i].ev)
      BY <1>6, <3>1 DEF Promises, DrainInv
    <3>3. i > 1
      BY <1>3, <3>2
    <3>4. i - 1 \in 1..Len(queue') /\ queue'[i - 1] = queue[i] /\ i - 1 < k
      BY <1>3, <3>2, <3>3
    <3> QED BY <3>2, <3>4
  <2> QED BY <2>2, <2>7, <2>8 DEF Promises
<1> QED BY <1>5, <1>6

LEMMA EventPromises ==
    Control /\ StreamInv /\ Promises /\ (EventStarts \/ EventDetail) => StreamInv' /\ Promises'
<1> SUFFICES ASSUME Control, StreamInv, Promises, EventStarts \/ EventDetail PROVE StreamInv' /\ Promises'
  OBVIOUS
<1>1. Control'
  BY EventControl
<1>2. CASE EventStarts
  <2>1. /\ Elsewhere /\ queue # <<>> /\ Head(queue).kind = "event" /\ task.at = "start" /\ ~stopped
        /\ Head(queue).ev \in Events
        /\ current' = current /\ boot' = boot /\ resync' = resync
        /\ \/ /\ task' = [task EXCEPT !.at = "detail"] /\ Head(queue).ev.kind = "indexed"
              /\ queue' = queue /\ book' = book /\ overdue' = overdue
           \/ /\ task' = Fresh /\ queue' = Tail(queue)
              /\ book' = book \ Cut(Head(queue).ev) /\ overdue' = overdue \ Cut(Head(queue).ev)
    BY <1>2, EventStartsDoes
  <2>2. /\ StreamInv' /\ Alive' = Alive /\ Ahead' = Ahead /\ (Live' <=> Live) /\ link' = link
        /\ stopped' = stopped
    BY <2>1, ElsewhereStream
  <2>3. ~boot.buffering
    BY <2>1, ControlFacts, CoherentAfterEvent DEF Control, QueueInv
  <2>4. CASE /\ task' = [task EXCEPT !.at = "detail"] /\ Head(queue).ev.kind = "indexed"
             /\ queue' = queue /\ book' = book /\ overdue' = overdue
    <3>1. task'.at = "detail"
      BY <2>4, ControlFacts DEF Steps
    <3>2. BootInv'
      BY <1>1, <2>1, <2>2, <2>3, NoAttempt
    <3>3. Settled' <=> Settled
      BY <2>1, <2>2, <2>4 DEF Settled, Installing
    <3>4. SyncInv'
      BY <2>1, <2>2, <2>4, <3>1, <3>3 DEF Promises, SyncInv
    <3>5. DrainInv'
      BY <2>1, <2>2, <2>4, <3>1 DEF Promises, DrainInv
    <3> QED BY <2>2, <3>2, <3>4, <3>5 DEF Promises
  <2>5. CASE /\ task' = Fresh /\ queue' = Tail(queue)
             /\ book' = book \ Cut(Head(queue).ev) /\ overdue' = overdue \ Cut(Head(queue).ev)
    <3>1. Cuts(Evs(queue)) = Cut(Head(queue).ev) \cup Cuts(Evs(Tail(queue)))
      BY <2>1, ControlFacts, QueueEvsTail
    <3>2. Live /\ Settled => book' \subseteq Ahead \cup Cuts(Evs(Tail(queue)))
      BY <2>3, <2>5, <3>1 DEF Promises, SyncInv
    <3>3. \A o \in overdue' : o \in overdue /\ o \notin Cut(Head(queue).ev)
      BY <2>5
    <3> QED BY <1>1, <2>1, <2>2, <2>5, <3>2, <3>3, EventEndsPromises
  <2> QED BY <2>1, <2>4, <2>5
<1>3. CASE EventDetail
  <2>1. /\ Elsewhere /\ queue # <<>> /\ Head(queue).kind = "event" /\ task.at = "detail"
        /\ Head(queue).ev \in Events /\ Head(queue).ev.kind = "indexed"
        /\ current' = current /\ boot' = boot /\ resync' = resync /\ overdue' = overdue
        /\ task' = Fresh /\ queue' = Tail(queue)
        /\ book' = book \/ book' = book \cup {Head(queue).ev.offer}
    BY <1>3, EventDetailDoes
  <2>2. StreamInv'
    BY <2>1, ElsewhereStream
  <2>3. /\ Evs(queue) # <<>> /\ Head(Evs(queue)) = Head(queue).ev /\ Evs(Tail(queue)) = Tail(Evs(queue))
        /\ Evs(queue) \in Seq(Texts)
        /\ Cuts(Evs(queue)) = Cut(Head(queue).ev) \cup Cuts(Evs(Tail(queue)))
    BY <2>1, ControlFacts, QueueEvsTail
  <2>4. Head(queue).ev.offer \in Offers /\ Names(Head(queue).ev, Head(queue).ev.offer)
    BY <2>1, EventCut DEF Events
  <2>5. Cut(Head(queue).ev) = {}
    BY <2>1, <2>4, EventCut DEF Texts
  <2>6. Live /\ Settled => book' \subseteq Ahead \cup Cuts(Evs(Tail(queue)))
    <3> SUFFICES ASSUME Live, Settled PROVE book' \subseteq Ahead \cup Cuts(Evs(Tail(queue)))
      OBVIOUS
    <3>1. ~boot.buffering
      BY <2>1, LiveFacts, ControlFacts, CoherentAfterEvent DEF Control, QueueInv
    <3>2. PICK A : A = Ahead
      OBVIOUS
    <3>3. book \subseteq A \cup Cuts(Evs(queue)) /\ Ordered(Evs(queue), 0, A)
      BY <3>1, <3>2 DEF Promises, SyncInv
    <3>4. Head(queue).ev.offer \in A \cup Cuts(Tail(Evs(queue)))
      BY <2>3, <2>4, <3>3, OrderedHead
    <3> QED BY <2>1, <2>3, <2>5, <3>2, <3>3, <3>4
  <2>7. \A o \in overdue' : o \in overdue /\ o \notin Cut(Head(queue).ev)
    BY <2>1, <2>5
  <2> QED BY <1>1, <2>1, <2>2, <2>6, <2>7, EventEndsPromises
<1> QED BY <1>2, <1>3

\* A startup attempt ends without the mirror becoming current.
LEMMA AttemptPromises ==
    ASSUME Control, StreamInv, Promises, Elsewhere, ~stopped, queue # <<>>, Head(queue).kind = "initial",
           NEW b \in Boots, EndAttempt(b, Rest), task' = Fresh, resync' = resync, b.buffering,
           b.overflow => b.buffered = <<>>, ~link.up => b.buffered = <<>>,
           b.buffered = boot.buffered \/ b.buffered = <<>>
    PROVE  Promises'
<1>1. /\ StreamInv' /\ Alive' = Alive /\ Ahead' = Ahead /\ (Live' <=> Live) /\ link' = link
      /\ stopped' = stopped
  BY ElsewhereStream
<1>2. /\ boot'.buffering = b.buffering /\ boot'.buffered = b.buffered /\ boot'.overflow = b.overflow
      /\ queue' = <<>> \/ (b.buffering /\ queue' = Append(<<>>, Task("initial")))
  BY AttemptEnds
<1>3. task'.at = "start"
  BY FreshStep
<1>4. PICK A : A = Ahead
  OBVIOUS
<1>5. Live => Ordered(boot'.buffered, 0, A)
  <2>1. Ordered(<<>>, 0, A)
    BY OrderedEmpty
  <2>2. Live => Ordered(boot.buffered, 0, A)
    BY <1>4 DEF Promises, BootInv
  <2> QED BY <1>2, <2>1, <2>2
<1>6. BootInv'
  BY <1>1, <1>3, <1>4, <1>5 DEF BootInv
<1>7. SyncInv'
  BY <1>2 DEF SyncInv
<1>8. \A k \in 1..Len(queue') : queue'[k].kind # "install"
  <2>1. CASE queue' = <<>>
    BY <2>1
  <2>2. CASE queue' = Append(<<>>, Task("initial"))
    <3>1. Len(queue') = 1 /\ queue'[1] = Task("initial")
      BY <2>2
    <3>2. Task("initial").kind = "initial"
      BY EventTasks
    <3> QED BY <3>1, <3>2
  <2> QED BY <1>2, <2>1, <2>2
<1>9. DrainInv'
  BY <1>3, <1>8 DEF DrainInv
<1> QED BY <1>6, <1>7, <1>9 DEF Promises

\* A resynchronisation ends; the mirror is current where the snapshot made it so.
LEMMA RunPromises ==
    ASSUME Control, StreamInv, Promises, Control', Elsewhere, ~stopped, queue # <<>>, IsStage(Head(queue)),
           EndRun(Rest), task' = Fresh, boot' = boot,
           Live /\ current' /\ ~resync.due => /\ book' \subseteq Ahead \cup Cuts(Evs(Tail(queue)))
                                              /\ Ordered(Evs(Tail(queue)), 0, Ahead)
    PROVE  Promises'
<1>1. /\ StreamInv' /\ Alive' = Alive /\ Ahead' = Ahead /\ (Live' <=> Live) /\ link' = link
      /\ stopped' = stopped
  BY ElsewhereStream
<1>2. /\ ~boot.buffering /\ resync'.running = resync.due /\ ~resync'.due
      /\ \/ resync.due /\ queue' = Append(Tail(queue), Task("stage"))
         \/ ~resync.due /\ queue' = Tail(queue)
      /\ \A i \in 1..Len(Tail(queue)) : ~IsStage(Tail(queue)[i])
  BY RunEnds
<1>3. task'.at = "start" /\ Tail(queue) \in Queues
  BY FreshStep, TailGens
<1>4. BootInv'
  BY <1>1, <1>2, NoAttempt
<1>5. PICK A : A = Ahead
  OBVIOUS
<1>6. \A k \in 1..Len(queue') : queue'[k].kind # "install"
  <2>1. CASE queue' = Tail(queue)
    BY <1>2, <2>1 DEF IsStage
  <2>2. CASE queue' = Append(Tail(queue), Task("stage"))
    BY <1>2, <1>3, <2>2, StageLast
  <2> QED BY <1>2, <2>1, <2>2
<1>7. ASSUME resync'.running, NEW s \in 1..Len(queue'), queue'[s].kind = "stage" PROVE Ordered(Evs(queue'), s, A)
  <2>1. queue' = Append(Tail(queue), Task("stage"))
    BY <1>2, <1>7
  <2> QED BY <1>2, <1>3, <1>7, <2>1, StageLast
<1>8. Settled' => ~resync.due /\ current' /\ queue' = Tail(queue)
  BY <1>2, <1>6 DEF Settled, Installing
<1>9. SyncInv'
  <2> SUFFICES ASSUME Live PROVE SyncInv'
    BY <1>1 DEF SyncInv
  <2>1. Ahead' = A
    BY <1>1, <1>5
  <2>2. Settled' => book' \subseteq A \cup Cuts(Evs(queue')) /\ Ordered(Evs(queue'), 0, A)
    BY <1>5, <1>8
  <2>3. resync'.running /\ ~resync'.due =>
           \A s \in 1..Len(queue') : queue'[s].kind = "stage" => Ordered(Evs(queue'), s, A)
    BY <1>7
  <2> QED BY <1>3, <2>1, <2>2, <2>3 DEF SyncInv
<1>10. DrainInv'
  BY <1>3, <1>6 DEF DrainInv
<1> QED BY <1>4, <1>9, <1>10 DEF Promises

\* A snapshot attempt fails.
LEMMA FailsPromises ==
    ASSUME Control, StreamInv, Promises, Elsewhere, ~stopped, queue # <<>>,
           Head(queue).kind \in {"initial", "stage"}, Fails, book' = book, overdue' = overdue
    PROVE  Promises'
<1>1. task' = Fresh /\ current' = FALSE
  BY DEF Fails, Over
<1>2. CASE Head(queue).kind = "initial"
  <2>1. EndAttempt(boot, Rest) /\ resync' = resync
    BY <1>2 DEF Fails
  <2>2. /\ boot \in Boots /\ boot.buffering
        /\ (boot.overflow => boot.buffered = <<>>) /\ (~link.up => boot.buffered = <<>>)
    BY <1>2, ControlFacts, CoherentAttempt DEF Control, BufferInv, QueueInv
  <2> QED BY <1>1, <1>2, <2>1, <2>2, AttemptPromises
<1>3. CASE Head(queue).kind = "stage"
  <2>1. EndRun(Rest) /\ boot' = boot /\ IsStage(Head(queue))
    BY <1>3 DEF Fails, IsStage
  <2>2. Control'
    BY FailsControl
  <2> QED BY <1>1, <2>1, <2>2, RunPromises
<1> QED BY <1>2, <1>3

\* A snapshot is read: its pages list what the node lists.
LEMMA ReadingPromises ==
    ASSUME Control, StreamInv, Promises, Elsewhere, ~stopped, current' = current, boot' = boot, queue' = queue,
           resync' = resync, book' = book, overdue' = overdue, task'.at \in {"preflight", "page", "verdict"},
           \/ task'.got = {}
           \/ /\ task.at \in {"page", "verdict"} /\ task'.gen = task.gen
              /\ task'.got \subseteq task.got \cup Alive
    PROVE  StreamInv' /\ Promises'
<1>1. /\ StreamInv' /\ Alive' = Alive /\ Ahead' = Ahead /\ (Live' <=> Live) /\ link' = link
      /\ stopped' = stopped
  BY ElsewhereStream
<1>2. Alive \subseteq Ahead
  BY DEF Ahead, Near
<1>3. BootInv'
  <2>1. Live' => Ordered(boot'.buffered, 0, Ahead')
    BY <1>1 DEF Promises, BootInv
  <2>2. ASSUME Bootable', task'.at \in {"page", "verdict"}, Head(queue').kind = "initial"
        PROVE  task'.got \subseteq Ahead' \cup Cuts(boot'.buffered)
    <3>1. CASE task'.got = {}
      BY <3>1
    <3>2. CASE task.at \in {"page", "verdict"} /\ task'.gen = task.gen /\ task'.got \subseteq task.got \cup Alive
      <4>1. Bootable
        BY <1>1, <2>2, <3>2 DEF Bootable
      <4>2. task.got \subseteq Ahead \cup Cuts(boot.buffered)
        BY <2>2, <3>2, <4>1 DEF Promises, BootInv
      <4> QED BY <1>1, <1>2, <3>2, <4>2
    <3> QED BY <3>1, <3>2
  <2> QED BY <2>1, <2>2 DEF BootInv
<1>4. SyncInv'
  <2> SUFFICES ASSUME Live, ~boot.buffering PROVE SyncInv'
    BY <1>1 DEF SyncInv
  <2>1. Settled' <=> Settled
    BY <1>1 DEF Settled, Installing
  <2>2. ASSUME task'.at \in {"page", "verdict"}, Head(queue').kind = "stage", task'.gen = link'.gen
        PROVE  task'.got \subseteq Ahead' \cup Cuts(Evs(queue'))
    <3>1. CASE task'.got = {}
      BY <3>1
    <3>2. CASE task.at \in {"page", "verdict"} /\ task'.gen = task.gen /\ task'.got \subseteq task.got \cup Alive
      <4>1. task.got \subseteq Ahead \cup Cuts(Evs(queue))
        BY <1>1, <2>2, <3>2 DEF Promises, SyncInv
      <4> QED BY <1>1, <1>2, <3>2, <4>1
    <3> QED BY <3>1, <3>2
  <2>3. /\ Settled => book \subseteq Ahead \cup Cuts(Evs(queue)) /\ Ordered(Evs(queue), 0, Ahead)
        /\ resync.running /\ ~resync.due =>
             \A s \in 1..Len(queue) : queue[s].kind = "stage" => Ordered(Evs(queue), s, Ahead)
    BY DEF Promises, SyncInv
  <2> QED BY <1>1, <2>1, <2>2, <2>3 DEF SyncInv
<1>5. DrainInv'
  BY <1>1 DEF Promises, DrainInv
<1> QED BY <1>1, <1>3, <1>4, <1>5 DEF Promises

LEMMA StartsPromises ==
    Control /\ StreamInv /\ Promises /\ (SnapshotStarts \/ Preflight \/ Page) => StreamInv' /\ Promises'
<1> SUFFICES ASSUME Control, StreamInv, Promises, SnapshotStarts \/ Preflight \/ Page
             PROVE  StreamInv' /\ Promises'
  OBVIOUS
<1>1. CASE SnapshotStarts
  <2>1. /\ Elsewhere /\ queue # <<>> /\ Head(queue).kind \in {"initial", "stage"} /\ task.at = "start"
        /\ ~stopped /\ book' = book /\ overdue' = overdue
        /\ \/ ~link.up /\ Fails
           \/ /\ link.up /\ current' = current /\ boot' = boot /\ queue' = queue /\ resync' = resync
              /\ task' \in Steps /\ task'.gen = link.gen /\ task'.got = {} /\ task'.batch = <<>>
              /\ \/ Head(queue).kind = "initial" /\ task'.at = "preflight"
                 \/ Head(queue).kind = "stage" /\ task'.at = "page"
    BY <1>1, SnapshotStartsDoes
  <2> QED BY <2>1, FailsPromises, ReadingPromises, ElsewhereStream
<1>2. CASE Preflight
  <2>1. /\ Elsewhere /\ queue # <<>> /\ Head(queue).kind = "initial" /\ task.at = "preflight"
        /\ ~stopped /\ book' = book /\ overdue' = overdue /\ task.got = {} /\ task.batch = <<>>
        /\ \/ Fails
           \/ /\ current' = current /\ boot' = boot /\ queue' = queue /\ resync' = resync
              /\ task' \in Steps /\ task' = [task EXCEPT !.at = "page"]
    BY <1>2, PreflightDoes
  <2>2. task' = [task EXCEPT !.at = "page"] => task'.at = "page" /\ task'.got = {}
    BY <2>1, ControlFacts DEF Steps
  <2> QED BY <2>1, <2>2, FailsPromises, ReadingPromises, ElsewhereStream
<1>3. CASE Page
  <2>1. /\ Elsewhere /\ queue # <<>> /\ Head(queue).kind \in {"initial", "stage"} /\ task.at = "page"
        /\ ~stopped /\ book' = book /\ overdue' = overdue /\ task.batch = <<>>
        /\ \/ Fails
           \/ /\ current' = current /\ boot' = boot /\ queue' = queue /\ resync' = resync
              /\ task' \in Steps /\ task'.gen = task.gen /\ task'.batch = task.batch
              /\ \/ task'.at = "verdict" /\ task'.got = task.got
                 \/ \E o \in Offers : Listed(o) /\ task'.at = "page" /\ task'.got = task.got \cup {o}
    BY <1>3, PageDoes
  <2>2. CASE Fails
    BY <2>1, <2>2, FailsPromises, ElsewhereStream
  <2>3. CASE ~Fails
    <3>1. task'.at \in {"page", "verdict"} /\ task'.got \subseteq task.got \cup Alive
      BY <2>1, <2>3 DEF Alive
    <3> QED BY <2>1, <2>3, <3>1, ReadingPromises
  <2> QED BY <2>2, <2>3
<1> QED BY <1>1, <1>2, <1>3

\* A task without an event leaves the head of the queue: the events are the same.
LEMMA QuietHead ==
    ASSUME NEW q \in Queues, q # <<>>, Head(q).ev = <<>>
    PROVE  /\ Evs(q) # <<>> /\ Evs(Tail(q)) = Tail(Evs(q)) /\ Evs(q) \in Seq(Texts)
           /\ Evs(Tail(q)) \in Seq(Texts) /\ Cuts(Evs(q)) = Cuts(Evs(Tail(q)))
<1>1. /\ Evs(q) # <<>> /\ Head(Evs(q)) = Head(q).ev /\ Evs(Tail(q)) = Tail(Evs(q))
      /\ Evs(q) \in Seq(Texts) /\ Evs(Tail(q)) \in Seq(Texts)
      /\ Cuts(Evs(q)) = Cut(Head(q).ev) \cup Cuts(Evs(Tail(q)))
  BY QueueEvsTail
<1>2. Cut(Head(q).ev) = {}
  BY EventCut
<1> QED BY <1>1, <1>2

LEMMA VerdictPromises == Control /\ StreamInv /\ Promises /\ Verdict => StreamInv' /\ Promises'
<1> SUFFICES ASSUME Control, StreamInv, Promises, Verdict PROVE StreamInv' /\ Promises'
  OBVIOUS
<1>1. /\ Elsewhere /\ queue # <<>> /\ Head(queue).kind \in {"initial", "stage"} /\ task.at = "verdict"
      /\ ~stopped /\ task.batch = <<>>
      /\ \/ Fails /\ book' = book /\ overdue' = overdue
         \/ /\ Still /\ book' = task.got /\ resync' = resync /\ current' = current
            /\ overdue' = task.got \cap (Cuts(Evs(queue)) \cup Cuts(boot.buffered))
            /\ \/ /\ Head(queue).kind = "stage" /\ boot' = boot /\ task' = Fresh
                  /\ queue' = Append(Tail(queue), [Task("install") EXCEPT !.gen = task.gen])
               \/ /\ Head(queue).kind = "initial" /\ boot.overflow /\ boot' = Cleared /\ Again
                  /\ queue' = queue
               \/ /\ Head(queue).kind = "initial" /\ ~boot.overflow /\ boot' = boot
                  /\ task' = [task EXCEPT !.at = "drain"] /\ queue' = queue
  BY VerdictDoes
<1>2. /\ StreamInv' /\ Alive' = Alive /\ Ahead' = Ahead /\ (Live' <=> Live) /\ link' = link
      /\ stopped' = stopped
  BY <1>1, ElsewhereStream
<1>3. PICK A : A = Ahead
  OBVIOUS
<1>4. CASE Fails /\ book' = book /\ overdue' = overdue
  BY <1>1, <1>2, <1>4, FailsPromises
<1>5. CASE /\ ~(Fails /\ book' = book /\ overdue' = overdue) /\ Head(queue).kind = "stage"
  <2>1. PICK t : t = [Task("install") EXCEPT !.gen = task.gen]
    OBVIOUS
  <2>2. t \in Tasks /\ t.ev = <<>> /\ t.kind = "install" /\ t.gen = task.gen /\ (t.kind = "event" <=> t.ev # <<>>)
    BY <2>1, ControlFacts, EventTasks
  <2>3. /\ Still /\ book' = task.got /\ resync' = resync /\ current' = current
        /\ overdue' = task.got \cap (Cuts(Evs(queue)) \cup Cuts(boot.buffered))
        /\ boot' = boot /\ task' = Fresh /\ queue' = Append(Tail(queue), t)
    BY <1>1, <1>5, <2>1
  <2>4. /\ ~boot.buffering /\ resync.running
        /\ \A i \in 1..Len(Tail(queue)) : ~IsStage(Tail(queue)[i]) /\ Tail(queue)[i].kind # "initial"
    BY <1>1, <1>5, ControlFacts, CoherentAfterStage DEF Control, QueueInv, IsStage
  <2>5. /\ Tail(queue) \in Queues /\ (Head(queue).kind = "event" <=> Head(queue).ev # <<>>) /\ Head(queue) = queue[1]
        /\ Len(queue) \in Nat \ {0} /\ queue \in Queues
    BY <1>1, ControlFacts, QueueTail
  <2>6. Head(queue).ev = <<>>
    BY <1>5, <2>5
  <2>7. /\ Evs(queue) # <<>> /\ Evs(Tail(queue)) = Tail(Evs(queue)) /\ Evs(queue) \in Seq(Texts)
        /\ Evs(Tail(queue)) \in Seq(Texts) /\ Cuts(Evs(queue)) = Cuts(Evs(Tail(queue)))
    BY <1>1, <2>5, <2>6, QuietHead
  <2>8. /\ Evs(queue') = Append(Evs(Tail(queue)), <<>>) /\ <<>> \in Texts
        /\ Cuts(Evs(queue')) = Cuts(Evs(queue))
    <3>1. PICK q \in Queues : q = Tail(queue)
      BY <2>5
    <3>2. /\ Evs(Append(q, t)) = Append(Evs(q), t.ev) /\ t.ev \in Texts
          /\ Cuts(Evs(Append(q, t))) = Cuts(Evs(q)) \cup Cut(t.ev)
      BY <2>2, <3>1, QueueEvsAppend
    <3>3. Cut(t.ev) = {}
      BY <2>2, EventCut
    <3> QED BY <2>2, <2>3, <2>7, <3>1, <3>2, <3>3
  <2>9. /\ Len(queue') = Len(Tail(queue)) + 1 /\ Len(Tail(queue)) \in Nat
        /\ queue'[Len(Tail(queue)) + 1] = t /\ \A i \in 1..Len(Tail(queue)) : queue'[i] = Tail(queue)[i]
    BY <2>2, <2>3, <2>5, QueueAppend
  <2>10. \A i \in 1..Len(queue') : i \in 1..Len(Tail(queue)) \/ i = Len(Tail(queue)) + 1
    BY <2>9
  <2>11. \A i \in 1..Len(queue') : queue'[i].kind # "stage"
    BY <2>2, <2>4, <2>9, <2>10 DEF IsStage
  <2>12. task'.at = "start" /\ task.gen = link.gen
    BY <2>3, FreshStep DEF Still
  <2>13. BootInv'
    BY <1>1, <1>2, <2>3, <2>4, VerdictControl, NoAttempt
  <2>14. Live /\ ~resync.due => Ordered(Evs(queue'), 0, A)
    <3> SUFFICES ASSUME Live, ~resync.due PROVE Ordered(Evs(queue'), 0, A)
      OBVIOUS
    <3>1. 1 \in 1..Len(queue) /\ queue[1].kind = "stage"
      BY <1>5, <2>5
    <3>2. Ordered(Evs(queue), 1, A)
      BY <1>3, <2>4, <3>1 DEF Promises, SyncInv
    <3>3. Ordered(Evs(queue), 0 + 1, A)
      BY <3>2
    <3>4. Ordered(Evs(Tail(queue)), 0, A)
      BY <2>7, <3>3, OrderedTail
    <3>5. A \subseteq A \cup Cut(<<>>) /\ \A o \in Offers : ~Names(<<>>, o)
      BY EventCut
    <3>6. Ordered(Append(Evs(Tail(queue)), <<>>), 0, A)
      BY <2>7, <2>8, <3>4, <3>5, OrderedAppend
    <3> QED BY <2>8, <3>6
  <2>15. Live => book' \subseteq A \cup Cuts(Evs(queue'))
    BY <1>1, <1>3, <1>5, <2>3, <2>4, <2>8, <2>12 DEF Promises, SyncInv
  <2>16. SyncInv'
    <3> SUFFICES ASSUME Live PROVE SyncInv'
      BY <1>2 DEF SyncInv
    <3>1. Ahead' = A
      BY <1>2, <1>3
    <3>2. Settled' => book' \subseteq A \cup Cuts(Evs(queue')) /\ Ordered(Evs(queue'), 0, A)
      <4>1. Settled' => ~resync.due
        BY <2>3, <2>4 DEF Settled
      <4> QED BY <2>14, <2>15, <4>1
    <3> QED BY <2>11, <2>12, <3>1, <3>2 DEF SyncInv
  <2>17. DrainInv'
    <3> SUFFICES ASSUME NEW k \in 1..Len(queue'), queue'[k].kind = "install", NEW o \in overdue'
                 PROVE  \E i \in 1..Len(queue') : i < k /\ o \in Cut(queue'[i].ev)
      BY <2>12 DEF DrainInv
    <3>1. k = Len(Tail(queue)) + 1
      BY <2>4, <2>9, <2>10 DEF IsStage
    <3>2. boot.buffered = <<>>
      BY <1>1, <2>4 DEF Control, BufferInv
    <3>3. o \in Cuts(Evs(Tail(queue)))
      BY <2>3, <2>7, <3>2, CutsEmpty
    <3>4. PICK i \in 1..Len(Tail(queue)) : o \in Cut(Tail(queue)[i].ev)
      BY <2>5, <3>3, QueueEvs
    <3>5. i \in 1..Len(queue') /\ i < k /\ queue'[i] = Tail(queue)[i]
      BY <2>9, <3>1
    <3> QED BY <3>4, <3>5
  <2> QED BY <1>2, <2>13, <2>16, <2>17 DEF Promises
<1>6. CASE ~(Fails /\ book' = book /\ overdue' = overdue) /\ Head(queue).kind = "initial"
  <2>1. /\ Still /\ book' = task.got /\ resync' = resync /\ current' = current /\ queue' = queue
        /\ overdue' = task.got \cap (Cuts(Evs(queue)) \cup Cuts(boot.buffered))
        /\ \/ boot.overflow /\ boot' = Cleared /\ Again
           \/ ~boot.overflow /\ boot' = boot /\ task' = [task EXCEPT !.at = "drain"]
    BY <1>1, <1>6
  <2>2. /\ boot.buffering /\ Len(queue) = 1 /\ queue[1] = Head(queue)
    <3>1. Coherent(queue, boot.buffering, boot.attempt, resync.running, resync.due)
      BY <1>1 DEF Control, QueueInv
    <3> QED BY <1>1, <1>6, <3>1, ControlFacts, CoherentAttempt, QueueTail
  <2>3. \A k \in 1..Len(queue') : queue'[k].kind # "install"
    BY <1>6, <2>1, <2>2
  <2>4. boot'.buffering
    BY <2>1, <2>2, ClearedDoes
  <2>5. SyncInv'
    BY <2>4 DEF SyncInv
  <2>6. CASE boot.overflow /\ boot' = Cleared /\ Again
    <3>1. task'.at = "preflight" /\ boot'.buffered = <<>>
      BY <2>6, AgainDoes, ClearedDoes
    <3>2. Ordered(boot'.buffered, 0, A)
      BY <3>1, OrderedEmpty
    <3>3. BootInv'
      BY <1>2, <1>3, <3>1, <3>2 DEF BootInv
    <3>4. DrainInv'
      BY <2>3, <3>1 DEF DrainInv
    <3> QED BY <1>2, <2>5, <3>3, <3>4 DEF Promises
  <2>7. CASE ~boot.overflow /\ boot' = boot /\ task' = [task EXCEPT !.at = "drain"]
    <3>1. task'.at = "drain" /\ task'.gen = task.gen /\ task'.batch = <<>>
      BY <1>1, <2>7, ControlFacts DEF Steps
    <3>2. PICK X : X = A \cup Cuts(boot.buffered)
      OBVIOUS
    <3>3. Ordered(<<>>, 0, X) /\ Cuts(<<>>) = {}
      BY OrderedEmpty, CutsEmpty
    <3>4. Bootable' <=> Bootable
      BY <1>2, <2>7, <3>1 DEF Bootable
    <3>5. Bootable => task.got \subseteq X
      BY <1>1, <1>3, <1>6, <3>2 DEF Promises, BootInv
    <3>6. Live => Ordered(boot.buffered, 0, A)
      BY <1>3 DEF Promises, BootInv
    <3>7. Bootable' => /\ book' \subseteq Ahead' \cup Cuts(boot'.buffered) \cup Cuts(task'.batch)
                       /\ Ordered(task'.batch, 0, Ahead' \cup Cuts(boot'.buffered))
      BY <1>2, <1>3, <2>1, <2>7, <3>1, <3>2, <3>3, <3>4, <3>5
    <3>8. BootInv'
      BY <1>2, <1>3, <2>7, <3>1, <3>6, <3>7 DEF BootInv
    <3>9. Cuts(Evs(queue)) = {}
      <4>1. Queued = {}
        BY <1>6, <2>2, WaitingIs
      <4> QED BY <4>1, WaitingIs
    <3>10. DrainInv'
      BY <2>1, <2>3, <2>7, <3>1, <3>9 DEF DrainInv
    <3> QED BY <1>2, <2>5, <3>8, <3>10 DEF Promises
  <2> QED BY <2>1, <2>6, <2>7
<1> QED BY <1>1, <1>4, <1>5, <1>6

LEMMA InstallPromises == Control /\ StreamInv /\ Promises /\ Install => StreamInv' /\ Promises'
<1> SUFFICES ASSUME Control, StreamInv, Promises, Install PROVE StreamInv' /\ Promises'
  OBVIOUS
<1>1. /\ Elsewhere /\ queue # <<>> /\ Head(queue).kind = "install" /\ IsStage(Head(queue))
      /\ task.at = "start" /\ ~stopped /\ task' = Fresh /\ boot' = boot /\ book' = book /\ overdue' = overdue
      /\ EndRun(Rest) /\ current' \in BOOLEAN /\ (current' => link.up /\ link.gen = Head(queue).gen)
  BY InstallDoes
<1>2. Control' /\ StreamInv'
  BY <1>1, InstallControl, ElsewhereStream
<1>3. /\ ~boot.buffering /\ resync.running
  BY <1>1, ControlFacts, CoherentAfterStage DEF Control, QueueInv
<1>4. /\ Head(queue) = queue[1] /\ 1 \in 1..Len(queue) /\ Head(queue).ev = <<>>
  <2>1. /\ (Head(queue).kind = "event" <=> Head(queue).ev # <<>>) /\ Head(queue) = queue[1]
        /\ Len(queue) \in Nat \ {0}
    BY <1>1, ControlFacts, QueueTail
  <2> QED BY <1>1, <2>1
<1>5. /\ Evs(queue) # <<>> /\ Evs(Tail(queue)) = Tail(Evs(queue)) /\ Evs(queue) \in Seq(Texts)
      /\ Cuts(Evs(queue)) = Cuts(Evs(Tail(queue)))
  BY <1>1, <1>4, ControlFacts, QuietHead
<1>6. ASSUME Live, current', ~resync.due
      PROVE  book' \subseteq Ahead \cup Cuts(Evs(Tail(queue))) /\ Ordered(Evs(Tail(queue)), 0, Ahead)
  <2>1. Settled
    BY <1>1, <1>3, <1>4, <1>6 DEF Settled, Installing
  <2>2. PICK A : A = Ahead
    OBVIOUS
  <2>3. book \subseteq A \cup Cuts(Evs(queue)) /\ Ordered(Evs(queue), 0, A)
    BY <1>3, <1>6, <2>1, <2>2 DEF Promises, SyncInv
  <2>4. Ordered(Evs(queue), 0 + 1, A)
    BY <2>3, OrderedLater
  <2>5. Ordered(Evs(Tail(queue)), 0, A)
    BY <1>5, <2>4, OrderedTail
  <2> QED BY <1>1, <1>5, <2>2, <2>3, <2>5
<1> QED BY <1>1, <1>2, <1>6, RunPromises

LEMMA DrainPromises == Control /\ StreamInv /\ Promises /\ Drain => StreamInv' /\ Promises'
<1> SUFFICES ASSUME Control, StreamInv, Promises, Drain PROVE StreamInv' /\ Promises'
  OBVIOUS
<1>1. /\ Elsewhere /\ queue # <<>> /\ Head(queue).kind = "initial" /\ task.at = "drain"
      /\ ~stopped /\ resync' = resync
      /\ \/ DrainGivesUp \/ DrainAgain \/ DrainAsks \/ DrainApplies
         \/ DrainRefills \/ DrainCompletes \/ DrainFails
  BY DrainDoes
<1>2. /\ StreamInv' /\ Alive' = Alive /\ Ahead' = Ahead /\ (Live' <=> Live) /\ link' = link
      /\ stopped' = stopped
  BY <1>1, ElsewhereStream
<1>3. PICK A, X : A = Ahead /\ X = A \cup Cuts(boot.buffered)
  OBVIOUS
<1>4. boot.buffering /\ Len(queue) = 1 /\ queue[1] = Head(queue)
  <2>1. Coherent(queue, boot.buffering, boot.attempt, resync.running, resync.due)
    BY <1>1 DEF Control, QueueInv
  <2> QED BY <1>1, <2>1, ControlFacts, CoherentAttempt, QueueTail
<1>5. queue' = queue => \A k \in 1..Len(queue') : queue'[k].kind # "install"
  <2>1. \A k \in 1..Len(queue) : k = 1
    BY <1>4
  <2> QED BY <1>1, <1>4, <2>1
<1>6. /\ Live => Ordered(boot.buffered, 0, A)
      /\ Bootable => book \subseteq X \cup Cuts(task.batch) /\ Ordered(task.batch, 0, X)
  BY <1>1, <1>3 DEF Promises, BootInv
<1>7. Drained => overdue \subseteq Cuts(task.batch) \cup Cuts(boot.buffered)
  BY <1>1 DEF Promises, DrainInv, Drained, Still
<1>8. /\ (boot.overflow => boot.buffered = <<>>) /\ (~link.up => boot.buffered = <<>>)
  BY <1>1 DEF Control, BufferInv
<1>9. CASE DrainGivesUp
  BY <1>1, <1>2, <1>4, <1>9, ClearedDoes, AttemptPromises DEF DrainGivesUp
<1>10. CASE DrainFails
  BY <1>1, <1>2, <1>4, <1>8, <1>10, ControlFacts, AttemptPromises DEF DrainFails
<1>11. CASE DrainAgain
  <2>1. queue' = queue /\ task'.at = "preflight" /\ boot'.buffered = <<>> /\ boot'.buffering
    BY <1>4, <1>11, AgainDoes, ClearedDoes DEF DrainAgain
  <2>2. Ordered(boot'.buffered, 0, A)
    BY <2>1, OrderedEmpty
  <2>3. BootInv'
    BY <1>2, <1>3, <2>1, <2>2 DEF BootInv
  <2>4. SyncInv' /\ DrainInv'
    BY <1>5, <2>1 DEF SyncInv, DrainInv
  <2> QED BY <1>2, <2>3, <2>4 DEF Promises
<1>12. CASE DrainAsks
  <2>1. /\ Drained /\ task' = [task EXCEPT !.at = "drainDetail"] /\ boot' = boot /\ queue' = queue
        /\ book' = book /\ overdue' = overdue
    BY <1>12 DEF DrainAsks, MirrorSame
  <2>2. task'.at = "drainDetail" /\ task'.gen = task.gen /\ task'.batch = task.batch
    BY <2>1, ControlFacts DEF Steps
  <2>3. Bootable' <=> Bootable
    BY <1>2, <2>1, <2>2 DEF Bootable
  <2>4. BootInv'
    BY <1>2, <1>3, <1>6, <2>1, <2>2, <2>3 DEF BootInv
  <2>5. SyncInv' /\ DrainInv'
    BY <1>4, <1>5, <1>7, <2>1, <2>2 DEF SyncInv, DrainInv
  <2> QED BY <1>2, <2>4, <2>5 DEF Promises
<1>13. CASE DrainApplies
  <2>1. /\ Drained /\ task.batch # <<>> /\ task' = [task EXCEPT !.batch = Tail(task.batch)]
        /\ boot' = boot /\ queue' = queue
        /\ book' = book \ Cut(Head(task.batch)) /\ overdue' = overdue \ Cut(Head(task.batch))
    BY <1>13 DEF DrainApplies
  <2>2. /\ task.batch \in Seq(Texts) /\ Cuts(task.batch) = Cut(Head(task.batch)) \cup Cuts(Tail(task.batch))
    BY <2>1, ControlFacts, EventSeqs, CutsTail
  <2>3. task'.at = "drain" /\ task'.gen = task.gen /\ task'.batch = Tail(task.batch)
    BY <1>1, <2>1, ControlFacts DEF Steps
  <2>4. Bootable' <=> Bootable
    BY <1>2, <2>1, <2>3 DEF Bootable
  <2>5. Bootable => book' \subseteq X \cup Cuts(Tail(task.batch)) /\ Ordered(Tail(task.batch), 0, X)
    <3> SUFFICES ASSUME Bootable
                 PROVE  book' \subseteq X \cup Cuts(Tail(task.batch)) /\ Ordered(Tail(task.batch), 0, X)
      OBVIOUS
    <3>1. Ordered(task.batch, 0 + 1, X)
      BY <1>6, OrderedLater
    <3>2. Ordered(Tail(task.batch), 0, X)
      BY <2>1, <2>2, <3>1, OrderedTail
    <3> QED BY <1>6, <2>1, <2>2, <3>2
  <2>6. BootInv'
    BY <1>2, <1>3, <1>6, <2>1, <2>3, <2>4, <2>5 DEF BootInv
  <2>7. SyncInv' /\ DrainInv'
    BY <1>4, <1>5, <1>7, <2>1, <2>2, <2>3 DEF SyncInv, DrainInv
  <2> QED BY <1>2, <2>6, <2>7 DEF Promises
<1>14. CASE DrainRefills
  <2>1. /\ Drained /\ task.batch = <<>> /\ task' = [task EXCEPT !.batch = boot.buffered]
        /\ boot' = [boot EXCEPT !.buffered = <<>>] /\ queue' = queue /\ book' = book /\ overdue' = overdue
    BY <1>14 DEF DrainRefills, MirrorSame
  <2>2. task'.at = "drain" /\ task'.gen = task.gen /\ task'.batch = boot.buffered
    BY <1>1, <2>1, ControlFacts DEF Steps
  <2>3. boot'.buffered = <<>> /\ boot'.overflow = boot.overflow /\ boot'.buffering = boot.buffering
    BY <2>1, ControlFacts DEF Boots
  <2>4. Cuts(<<>>) = {} /\ Ordered(<<>>, 0, A)
    BY CutsEmpty, OrderedEmpty
  <2>5. Bootable' <=> Bootable
    BY <1>2, <2>2, <2>3 DEF Bootable
  <2>6. PICK Y : Y = A \cup Cuts(boot'.buffered)
    OBVIOUS
  <2>7. Y = A
    BY <2>3, <2>4, <2>6
  <2>8. Bootable => book' \subseteq Y \cup Cuts(task'.batch) /\ Ordered(task'.batch, 0, Y)
    BY <1>3, <1>6, <2>1, <2>2, <2>4, <2>7 DEF Bootable
  <2>9. BootInv'
    BY <1>2, <1>3, <2>2, <2>3, <2>4, <2>5, <2>6, <2>8 DEF BootInv
  <2>10. SyncInv' /\ DrainInv'
    BY <1>4, <1>5, <1>7, <2>1, <2>2, <2>3, <2>4 DEF SyncInv, DrainInv
  <2> QED BY <1>2, <2>9, <2>10 DEF Promises
<1>15. CASE DrainCompletes
  <2>1. PICK b : b = [boot EXCEPT !.buffering = FALSE]
    OBVIOUS
  <2>2. /\ Drained /\ task.batch = <<>> /\ boot.buffered = <<>> /\ task' = Fresh /\ EndAttempt(b, Rest)
        /\ book' = book
    BY <1>15, <2>1 DEF DrainCompletes, MirrorSame
  <2>3. b \in Boots /\ ~b.buffering /\ b.buffered = <<>> /\ b.overflow = boot.overflow
    BY <2>1, <2>2, ControlFacts DEF Boots
  <2>4. /\ ~resync.running
        /\ boot'.buffering = b.buffering /\ boot'.buffered = b.buffered
        /\ queue' = <<>> \/ (b.buffering /\ queue' = Append(<<>>, Task("initial")))
    BY <1>1, <2>2, <2>3, AttemptEnds
  <2>5. queue' = <<>> /\ Len(queue') = 0 /\ task'.at = "start"
    BY <2>2, <2>3, <2>4, FreshStep
  <2>6. BootInv'
    BY <1>1, <1>2, <2>3, <2>4, DrainControl, NoAttempt
  <2>7. Cuts(<<>>) = {} /\ Ordered(<<>>, 0, A)
    BY CutsEmpty, OrderedEmpty
  <2>8. Live => book' \subseteq A
    <3> SUFFICES ASSUME Live PROVE book' \subseteq A
      OBVIOUS
    <3>1. Bootable
      BY <1>1, <2>2 DEF Bootable, Drained, Still
    <3> QED BY <1>3, <1>6, <2>2, <2>7, <3>1
  <2>9. SyncInv'
    BY <1>2, <1>3, <2>5, <2>7, <2>8, EvsEmpty DEF SyncInv
  <2>10. DrainInv'
    BY <2>5 DEF DrainInv
  <2> QED BY <1>2, <2>6, <2>9, <2>10 DEF Promises
<1> QED BY <1>1, <1>9, <1>10, <1>11, <1>12, <1>13, <1>14, <1>15

LEMMA DrainDetailPromises == Control /\ StreamInv /\ Promises /\ DrainDetail => StreamInv' /\ Promises'
<1> SUFFICES ASSUME Control, StreamInv, Promises, DrainDetail PROVE StreamInv' /\ Promises'
  OBVIOUS
<1>1. /\ Elsewhere /\ queue # <<>> /\ Head(queue).kind = "initial" /\ task.at = "drainDetail"
      /\ current' = current /\ resync' = resync
      /\ task.batch # <<>> /\ Head(task.batch) \in Events /\ Head(task.batch).kind = "indexed"
      /\ Tail(task.batch) \in Seq(Events)
      /\ DetailServed \/ DetailFails
  BY DrainDetailDoes
<1>2. /\ StreamInv' /\ Alive' = Alive /\ Ahead' = Ahead /\ (Live' <=> Live) /\ link' = link
      /\ stopped' = stopped
  BY <1>1, ElsewhereStream
<1>3. CASE stopped
  <2>1. ~Live' /\ DrainInv'
    BY <1>2, <1>3, LiveFacts DEF DrainInv
  <2> QED BY <1>2, <2>1, DeadPromises DEF Promises
<1>4. CASE ~stopped /\ DetailFails
  <2>1. /\ boot \in Boots /\ boot.buffering
        /\ (boot.overflow => boot.buffered = <<>>) /\ (~link.up => boot.buffered = <<>>)
    BY <1>1, <1>4, ControlFacts, CoherentAttempt DEF Control, BufferInv, QueueInv
  <2> QED BY <1>1, <1>2, <1>4, <2>1, AttemptPromises DEF DetailFails
<1>5. CASE ~stopped /\ DetailServed
  <2>1. /\ book' \subseteq book \cup {Head(task.batch).offer}
        /\ task' = [task EXCEPT !.at = "drain", !.batch = Tail(task.batch)]
        /\ boot' = boot /\ queue' = queue /\ overdue' = overdue
    BY <1>5 DEF DetailServed
  <2>2. /\ task.batch \in Seq(Texts) /\ Cuts(task.batch) = Cut(Head(task.batch)) \cup Cuts(Tail(task.batch))
    BY <1>1, ControlFacts, EventSeqs, CutsTail
  <2>3. /\ Head(task.batch).offer \in Offers /\ Names(Head(task.batch), Head(task.batch).offer)
        /\ Cut(Head(task.batch)) = {}
    BY <1>1, EventCut DEF Events, Texts
  <2>4. task'.at = "drain" /\ task'.gen = task.gen /\ task'.batch = Tail(task.batch)
    BY <1>1, <2>1, ControlFacts DEF Steps
  <2>5. boot.buffering /\ Len(queue) = 1 /\ queue[1] = Head(queue)
    <3>1. Coherent(queue, boot.buffering, boot.attempt, resync.running, resync.due)
      BY <1>5 DEF Control, QueueInv
    <3> QED BY <1>1, <3>1, ControlFacts, CoherentAttempt, QueueTail
  <2>6. PICK A, X : A = Ahead /\ X = A \cup Cuts(boot.buffered)
    OBVIOUS
  <2>7. Bootable' <=> Bootable
    BY <1>2, <2>1, <2>4 DEF Bootable
  <2>8. Bootable => book' \subseteq X \cup Cuts(Tail(task.batch)) /\ Ordered(Tail(task.batch), 0, X)
    <3> SUFFICES ASSUME Bootable
                 PROVE  book' \subseteq X \cup Cuts(Tail(task.batch)) /\ Ordered(Tail(task.batch), 0, X)
      OBVIOUS
    <3>1. book \subseteq X \cup Cuts(task.batch) /\ Ordered(task.batch, 0, X)
      BY <1>1, <2>6 DEF Promises, BootInv
    <3>2. Head(task.batch).offer \in X \cup Cuts(Tail(task.batch))
      BY <1>1, <2>2, <2>3, <3>1, OrderedHead
    <3>3. Ordered(task.batch, 0 + 1, X)
      BY <3>1, OrderedLater
    <3>4. Ordered(Tail(task.batch), 0, X)
      BY <1>1, <2>2, <3>3, OrderedTail
    <3> QED BY <2>1, <2>2, <2>3, <3>1, <3>2, <3>4
  <2>9. Live => Ordered(boot.buffered, 0, A)
    BY <2>6 DEF Promises, BootInv
  <2>10. BootInv'
    BY <1>2, <2>1, <2>4, <2>6, <2>7, <2>8, <2>9 DEF BootInv
  <2>11. SyncInv'
    BY <2>1, <2>5 DEF SyncInv
  <2>12. DrainInv'
    <3>1. \A k \in 1..Len(queue') : queue'[k].kind # "install"
      BY <1>1, <2>1, <2>5
    <3>2. link.up /\ task.gen = link.gen /\ ~boot.overflow =>
              overdue \subseteq Cuts(task.batch) \cup Cuts(boot.buffered)
      BY <1>1, <1>5 DEF Promises, DrainInv
    <3> QED BY <1>2, <2>1, <2>2, <2>3, <2>4, <3>1, <3>2 DEF DrainInv
  <2> QED BY <1>2, <2>10, <2>11, <2>12 DEF Promises
<1> QED BY <1>1, <1>3, <1>4, <1>5

LEMMA AbandonPromises == Control /\ StreamInv /\ Promises /\ Abandon => StreamInv' /\ Promises'
<1> SUFFICES ASSUME Control, StreamInv, Promises, Abandon PROVE StreamInv' /\ Promises'
  OBVIOUS
<1>1. stopped /\ Elsewhere
  BY DEF Abandon, Elsewhere, nodeVars, wireVars
<1>2. StreamInv' /\ (Live' <=> Live) /\ stopped' = stopped
  BY <1>1, ElsewhereStream
<1>3. ~Live' /\ DrainInv'
  BY <1>1, <1>2, LiveFacts DEF DrainInv
<1> QED BY <1>2, <1>3, DeadPromises DEF Promises

-----------------------------------------------------------------------------
(* The theorems.                                                           *)

LEMMA MirrorParts == MirrorInv <=> Control /\ StreamInv /\ Promises
  BY DEF MirrorInv, Promises

LEMMA InitMirror == Init => MirrorInv
<1> SUFFICES ASSUME Init PROVE MirrorInv
  OBVIOUS
<1>1. /\ Control /\ outbox = <<>> /\ ~server.attached /\ stopped = FALSE /\ queue = <<>> /\ task.at = "start"
      /\ boot.buffering
  BY ControlInit, FreshStep DEF Init
<1>2. PICK A : A = Alive
  OBVIOUS
<1>3. Ordered(outbox, 0, A)
  BY <1>1, OrderedEmpty
<1>4. StreamInv /\ ~Live
  BY <1>1, <1>2, <1>3 DEF StreamInv, Unbroken, Live
<1>5. Len(queue) = 0
  BY <1>1
<1>6. BootInv /\ SyncInv /\ DrainInv
  BY <1>1, <1>4, <1>5 DEF BootInv, SyncInv, DrainInv, Bootable
<1> QED BY <1>1, <1>4, <1>6 DEF MirrorInv

LEMMA NextMirror == MirrorInv /\ [Next]_vars => MirrorInv'
<1> SUFFICES ASSUME MirrorInv, [Next]_vars PROVE MirrorInv'
  OBVIOUS
<1>1. Control /\ StreamInv /\ Promises
  BY MirrorParts
<1>2. Control'
  BY <1>1, ControlStep
<1>3. StreamInv' /\ Promises'
  <2>1. CASE UNCHANGED vars
    <3>1. /\ WorkSame /\ node' = node /\ outbox' = outbox /\ server' = server /\ wire' = wire /\ client' = client
      BY <2>1 DEF vars, nodeVars, wireVars, workVars, mirrorVars, WorkSame
    <3>2. StreamInv' /\ Ahead' = Ahead /\ (Unbroken' <=> Unbroken)
      BY <1>1, <3>1, SameStream
    <3>3. Feeds
      BY <3>1, <3>2 DEF Feeds
    <3> QED BY <1>1, <3>2, <3>3, FeedsKeep
  <2>2. CASE Commit \/ Release \/ Drop \/ Lose
    <3>1. StreamInv' /\ Feeds
      BY <1>1, <2>2, CommitFeeds, ReleaseFeeds, DropFeeds
    <3> QED BY <1>1, <3>1, FeedsKeep
  <2>3. CASE Closed \/ ReadyTimeout
    BY <1>1, <2>3, FinishPromises DEF Closed, ReadyTimeout
  <2>4. CASE Resync \/ HealthTick \/ HealthExpires \/ HealthAnswer
    BY <1>1, <2>4, TimerPromises DEF Timers
  <2>5. CASE Work
    BY <1>1, <2>5, EventPromises, StartsPromises, VerdictPromises, InstallPromises, DrainPromises,
       DrainDetailPromises, AbandonPromises DEF Work
  <2> QED BY <1>1, <2>1, <2>2, <2>3, <2>4, <2>5, SubscribePromises, ReceivePromises, SweepPromises,
             StopPromises DEF Next
<1> QED BY <1>2, <1>3 DEF MirrorInv, Promises

\* The mirror's inductive invariant holds throughout (startBookSync).
THEOREM MirrorHolds == Spec => []MirrorInv
  BY InitMirror, NextMirror, PTL DEF Spec

LEMMA InvQuiet == MirrorInv => QuietMirrorTrue
<1> SUFFICES ASSUME MirrorInv, ~resync.running, current, Unbroken, NEW o \in book
             PROVE  Listed(o) \/ InFlight(o)
  BY DEF QuietMirrorTrue, StaleOnlyInFlight, Gone
<1>1. Control
  BY DEF MirrorInv
<1>2. Live /\ ~boot.buffering /\ Settled
  BY <1>1 DEF Control, LinkInv, Live, Settled
<1>3. o \in Ahead \cup Cuts(Evs(queue))
  BY <1>2 DEF MirrorInv, SyncInv
<1>4. o \in Alive => Listed(o)
  BY DEF Alive
<1>5. ASSUME o \in Cuts(outbox) PROVE InFlight(o)
  <2>1. PICK i \in 1..Len(outbox) : o \in Cut(outbox[i])
    BY <1>5, CutsMember
  <2>2. outbox[i] \in Events
    BY <1>1, StreamFacts, ElementOfSeq
  <2>3. o \in Removes(outbox[i])
    BY <2>1, <2>2, EventCut
  <2> QED BY <2>1, <2>3 DEF InFlight
<1>6. ASSUME o \in Cuts(Evs(wire)) PROVE InFlight(o)
  <2>1. Len(Evs(wire)) = Len(wire) /\ \A i \in 1..Len(wire) : Evs(wire)[i] = wire[i].ev
    BY <1>1, StreamFacts, EvsOf
  <2>2. PICK i \in 1..Len(wire) : o \in Cut(wire[i].ev)
    BY <1>6, <2>1, CutsMember
  <2>3. wire[i].ev # <<>> /\ o \in Removes(wire[i].ev)
    BY <2>2 DEF Cut
  <2> QED BY <2>2, <2>3 DEF InFlight
<1>7. o \in Cuts(Evs(queue)) => InFlight(o)
  BY <1>1, WaitingIs DEF InFlight
<1> QED BY <1>3, <1>4, <1>5, <1>6, <1>7 DEF Ahead, Near

\* On a subscription without a gap and with no resynchronisation under way, a current
\* mirror holds only offers the node lists or whose removal is on its way (startBookSync).
THEOREM QuietMirrorHolds == Spec => []QuietMirrorTrue
  BY MirrorHolds, InvQuiet, PTL

LEMMA StepDrained == MirrorInv /\ Next /\ ~current /\ current' => overdue' = {}
<1> SUFFICES ASSUME MirrorInv, Next, ~current, current' PROVE overdue' = {}
  OBVIOUS
<1>1. Control /\ DrainInv
  BY DEF MirrorInv
<1>2. Install \/ Drain
  <2>1. ~(Commit \/ Release \/ Drop \/ Lose \/ Subscribe)
    BY DEF Commit, Release, Drop, Lose, Subscribe, StreamStep
  <2>2. ~(ClientStep /\ finish)
    BY <1>1, FinishDoes DEF Control
  <2>3. ~Receive
    <3> SUFFICES ASSUME Receive PROVE FALSE
      OBVIOUS
    <3>1. ~finish
      BY <2>2 DEF Receive
    <3>2. PICK f \in Frames :
          \/ f.ev = <<>> /\ client.seq = 0 /\ onOpen
          \/ /\ f.ev \in Events /\ client.seq > 0 /\ onEvent(f.ev)
             /\ link' = link /\ current' = current /\ resync' = resync
      BY <1>1, <3>1, ReceiveDoes
    <3>3. onOpen => ~current'
      BY <1>1, OnOpenDoes DEF Control
    <3> QED BY <3>2, <3>3
  <2>4. ~(Resync \/ HealthTick \/ HealthExpires \/ HealthAnswer)
    BY <1>1, TimerDoes DEF Timers
  <2>5. Fails => ~current'
    BY DEF Fails
  <2>6. ~(EventStarts \/ EventDetail \/ SnapshotStarts \/ Preflight \/ Page)
    BY <1>1, <2>5, EventStartsDoes, EventDetailDoes, SnapshotStartsDoes, PreflightDoes, PageDoes
  <2>7. ~(Verdict \/ DrainDetail \/ Abandon)
    BY <1>1, <2>5, VerdictDoes DEF DrainDetail, Abandon
  <2>8. ~(Closed \/ ReadyTimeout \/ Sweep \/ Stop)
    BY <2>2 DEF Closed, ReadyTimeout, Sweep, Stop
  <2> QED BY <2>1, <2>3, <2>4, <2>6, <2>7, <2>8 DEF Next, Work
<1>3. CASE Install
  <2>1. queue # <<>> /\ Head(queue).kind = "install" /\ ~stopped /\ overdue' = overdue
    BY <1>1, <1>3, InstallDoes
  <2>2. Head(queue) = queue[1] /\ Len(queue) \in Nat \ {0}
    BY <1>1, <2>1, ControlFacts, QueueTail
  <2>3. 1 \in 1..Len(queue) /\ queue[1].kind = "install"
    BY <2>1, <2>2
  <2>4. \A o \in overdue : \E i \in 1..Len(queue) : i < 1
    BY <1>1, <2>1, <2>3 DEF DrainInv
  <2> QED BY <2>1, <2>4
<1>4. CASE Drain
  <2>1. /\ task.at = "drain" /\ ~stopped
        /\ \/ DrainGivesUp \/ DrainAgain \/ DrainAsks \/ DrainApplies
           \/ DrainRefills \/ DrainCompletes \/ DrainFails
    BY <1>1, <1>4, DrainDoes
  <2>2. DrainCompletes
    BY <2>1 DEF DrainGivesUp, DrainAgain, DrainAsks, DrainApplies, DrainRefills, DrainFails
  <2>3. overdue \subseteq Cuts(task.batch) \cup Cuts(boot.buffered)
    BY <1>1, <2>1, <2>2 DEF DrainInv, DrainCompletes, Drained, Still
  <2> QED BY <2>2, <2>3, CutsEmpty DEF DrainCompletes, MirrorSame
<1> QED BY <1>2, <1>3, <1>4

\* A mirror becomes current only when every event that came while its snapshot was read
\* has been applied (schedulePostReadyResync, ensureInitialSync).
THEOREM CurrentOnlyDrained == Spec => CurrentWhenDrained
<1>1. MirrorInv /\ [Next]_vars => [~current /\ current' => overdue' = {}]_vars
  BY StepDrained
<1> QED BY <1>1, MirrorHolds, PTL DEF Spec, CurrentWhenDrained
=============================================================================
