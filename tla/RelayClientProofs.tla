-------------------------- MODULE RelayClientProofs --------------------------
(***************************************************************************)
(* What the relay client keeps for any offers, jobs and number of faults.  *)
(*                                                                         *)
(* None of its properties is inductive: each speaks of a moment when       *)
(* nothing is awaited.  The strengthening says what is on the wire at      *)
(* every await of a push (PushKept, by the generation the push began on),  *)
(* that a generation no push has reached was sent nothing (SocketKept,     *)
(* PushKept), what a withdrawal has sent at each of its awaits             *)
(* (WithdrawalKept), and what stop() has taken down once it drains         *)
(* (StopKept).                                                             *)
(***************************************************************************)
EXTENDS RelayClient, TLAPS

Ladders == SUBSET Offers
Awaiting == {"caps", "levels", "withhold", "withheld"}

\* The book holds offers, the ladders are sets of them, and the wire is typed.
Typing ==
    /\ book \in [offers : Ladders, current : BOOLEAN]
    /\ socket \in Nat /\ opened \in Nat
    /\ ready \in {"none", "connecting", "open", "closing"}
    /\ timers \subseteq {"connect", "reconnect", "push"}
    /\ sent \in [caps : Ladders, levels : Ladders, any : BOOLEAN]
    /\ push \in [at : {"idle", "loop"} \cup Awaiting, on : Nat, ladder : Ladders,
                 checked : BOOLEAN, first : {"caps", "levels"}, again : BOOLEAN]
    /\ queued \in BOOLEAN /\ retired \in BOOLEAN
    /\ record \in [ladder : Ladders, withdrawn : BOOLEAN]
EndTyped ==
    /\ withdrawal \in [at : {"none", "wait", "levels", "caps", "done", "failed"}, on : Nat]
    /\ stopping \in {"none", "withdraw", "drain", "stopped"}
JobTyped ==
    /\ job \in [Jobs -> [at : {"none", "running", "over"}, on : Nat]]
    /\ answers \subseteq [job : Jobs, on : Nat]
    /\ chain \in [Jobs -> Seq({"tx-submitted", "submit-failed"})]

\* A generation is attached when there is a socket; before it opens it was sent nothing.
SocketKept ==
    /\ socket = 0 <=> ready = "none"
    /\ socket <= opened
    /\ ready \in {"none", "connecting"} => sent = Nothing

\* What the generation a push began on holds at each await of the push, and that any other
\* generation holds nothing.
Mine == socket = push.on /\ ~retired
PushKept ==
    /\ push.at \in Awaiting => push.on \in 1..opened
    /\ push.at \in Awaiting /\ socket # push.on /\ ~retired => ~sent.any
    /\ push.at = "caps" /\ Mine => sent.caps = push.ladder /\ record.ladder = push.ladder
    /\ push.at = "levels" /\ Mine => sent.caps = record.ladder /\ sent.levels = record.ladder
    /\ push.at = "withhold" /\ Mine => record.ladder = {} /\ sent[push.first] = {}
    /\ push.at = "withheld" /\ Mine => record.ladder = {} /\ sent.caps = {} /\ sent.levels = {}
    /\ push.at \notin Awaiting /\ ~retired /\ sent.any =>
           sent.caps = record.ladder /\ sent.levels = record.ladder

\* A ladder that is checked again was within the limit when it was derived; the other is empty.
LadderKept ==
    /\ push.checked => Cardinality(push.ladder) <= MaxSourceOffers
    /\ ~push.checked => push.ladder = {}

\* The client retires with its withdrawal, and has said that it quotes nothing.
WithdrawalKept ==
    /\ retired <=> withdrawal.at # "none"
    /\ withdrawal.at \in {"levels", "caps"} => sent.levels = {}
    /\ record.withdrawn => withdrawal.at = "done"
    /\ record.withdrawn /\ isOpen => sent.levels = {}

\* stop() waits for the withdrawal; draining, it has no socket and no timer.
StopKept ==
    /\ stopping # "none" => withdrawal.at # "none"
    /\ stopping \in {"drain", "stopped"} =>
           withdrawal.at \in {"done", "failed"} /\ socket = 0 /\ timers = {}
    /\ stopping = "stopped" => Drained

\* An answer is that of a job that is over, on its socket.
AnswersKept == \A a \in answers : job[a.job].at = "over" /\ a.on = job[a.job].on

RelayInv ==
    /\ Typing /\ EndTyped /\ JobTyped /\ SocketKept /\ PushKept /\ LadderKept
    /\ WithdrawalKept /\ StopKept /\ AnswersKept

USE DEF Ladders, Awaiting, Nothing, isOpen, NoPush, Loop, vars, envVars, socketVars, pushVars, endVars, jobVars

\* A frame replaces the last one of its kind, and leaves the other.
LEMMA HandReplaces ==
    ASSUME Typing, NEW f \in {"caps", "levels"}, NEW l \in Ladders, Hand(f, l)
    PROVE  /\ sent' \in [caps : Ladders, levels : Ladders, any : BOOLEAN]
           /\ sent'.any /\ sent'[f] = l
           /\ \A h \in {"caps", "levels"} : h # f => sent'[h] = sent[h]
<1>1. CASE f = "caps"
  BY <1>1 DEF Typing, Hand
<1>2. CASE f = "levels"
  BY <1>2 DEF Typing, Hand
<1> QED
  BY <1>1, <1>2

\* A push begins on the open socket: it is recorded and its first frame is on the wire.
LEMMA Begun ==
    ASSUME RelayInv, isOpen, ~retired, NEW p, Begin(p),
           p \in [at : {"caps", "withhold"}, on : Nat, ladder : Ladders,
                  checked : BOOLEAN, first : {"caps"}, again : BOOLEAN],
           p.on = socket,
           p.at = "withhold" => p.ladder = {},
           p.checked => Cardinality(p.ladder) <= MaxSourceOffers,
           ~p.checked => p.ladder = {},
           queued' = FALSE, book' \in [offers : Ladders, current : BOOLEAN],
           UNCHANGED <<changes, socketVars, endVars, jobVars>>
    PROVE  RelayInv'
<1> USE DEF RelayInv
<1>1. /\ sent' \in [caps : Ladders, levels : Ladders, any : BOOLEAN]
      /\ sent'.any /\ sent'.caps = p.ladder /\ sent'.levels = sent.levels
  BY HandReplaces DEF Begin
<1>2. push' = p /\ record' = [ladder |-> p.ladder, withdrawn |-> FALSE]
  BY DEF Begin
<1>3. Typing'
  BY <1>1, <1>2 DEF Typing
<1>4. EndTyped' /\ JobTyped'
  BY DEF EndTyped, JobTyped
<1>5. SocketKept' /\ PushKept' /\ LadderKept'
  BY <1>1, <1>2 DEF Typing, SocketKept, PushKept, Mine, LadderKept
<1>6. WithdrawalKept' /\ StopKept' /\ AnswersKept'
  BY <1>1, <1>2 DEF Typing, EndTyped, SocketKept, WithdrawalKept, StopKept, Drained, AnswersKept
<1> QED
  BY <1>3, <1>4, <1>5, <1>6

\* A push returns: it is whole, or its generation is no longer the relay's concern.
LEMMA PushReturns ==
    ASSUME RelayInv, push.at \in {"levels", "withheld"} \/ (push.at \in Awaiting /\ ~Mine),
           push' = Loop, queued' \in BOOLEAN,
           UNCHANGED <<book, changes, socketVars, sent, record, endVars, jobVars>>
    PROVE  RelayInv'
<1> USE DEF RelayInv
<1>1. Typing'
  BY DEF Typing
<1>2. EndTyped' /\ JobTyped'
  BY DEF EndTyped, JobTyped
<1>3. SocketKept' /\ PushKept' /\ LadderKept'
  BY DEF Typing, SocketKept, PushKept, Mine, LadderKept
<1>4. WithdrawalKept' /\ StopKept' /\ AnswersKept'
  BY DEF Typing, EndTyped, WithdrawalKept, StopKept, Drained, AnswersKept
<1> QED
  BY <1>1, <1>2, <1>3, <1>4

\* What a push makes of lastPush(): itself, or an empty ladder.
LEMMA RecordTyped ==
    ASSUME Typing, record' \in {record, [ladder |-> {}, withdrawn |-> FALSE]}
    PROVE  /\ record' \in [ladder : Ladders, withdrawn : BOOLEAN]
           /\ record'.withdrawn => record.withdrawn
<1>1. CASE record' = record
  BY <1>1 DEF Typing
<1>2. CASE record' = [ladder |-> {}, withdrawn |-> FALSE]
  BY <1>2
<1> QED
  BY <1>1, <1>2

\* A push that stops half-way costs its generation the socket.
LEMMA PushCostsSocket ==
    ASSUME RelayInv, push.at \in Awaiting, closeSocketGeneration(push.on),
           push' = Loop, queued' \in BOOLEAN,
           record' \in {record, [ladder |-> {}, withdrawn |-> FALSE]},
           UNCHANGED <<book, changes, opened, endVars, jobVars>>
    PROVE  RelayInv'
<1> USE DEF RelayInv
<1>0. record' \in [ladder : Ladders, withdrawn : BOOLEAN]
  BY RecordTyped
<1>1. CASE socket = push.on
  <2>1. handleClosed
    BY <1>1 DEF closeSocketGeneration
  <2>2. Typing'
    BY <1>0, <2>1 DEF Typing, handleClosed, ScheduleReconnect
  <2>3. EndTyped' /\ JobTyped'
    BY DEF EndTyped, JobTyped
  <2>4. SocketKept' /\ PushKept' /\ LadderKept'
    BY <2>1 DEF Typing, SocketKept, PushKept, Mine, LadderKept, handleClosed
  <2>5. socket # 0
    BY <1>1 DEF Typing, PushKept
  <2>6. WithdrawalKept' /\ StopKept' /\ AnswersKept'
    BY <2>1, <2>5 DEF Typing, EndTyped, WithdrawalKept, StopKept, Drained, AnswersKept, handleClosed
  <2> QED
    BY <2>2, <2>3, <2>4, <2>6
<1>2. CASE socket # push.on
  <2>1. UNCHANGED <<socket, ready, sent, timers>>
    BY <1>2 DEF closeSocketGeneration
  <2>2. Typing'
    BY <1>0, <2>1 DEF Typing
  <2>3. EndTyped' /\ JobTyped'
    BY DEF EndTyped, JobTyped
  <2>4. SocketKept' /\ PushKept' /\ LadderKept'
    BY <1>2, <2>1 DEF Typing, SocketKept, PushKept, Mine, LadderKept
  <2>5. WithdrawalKept' /\ StopKept' /\ AnswersKept'
    BY <2>1 DEF Typing, EndTyped, WithdrawalKept, StopKept, Drained, AnswersKept
  <2> QED
    BY <2>2, <2>3, <2>4, <2>5
<1> QED
  BY <1>1, <1>2

\* The next frame of a push is handed to its own generation, which is open.
LEMMA PushHands ==
    ASSUME RelayInv, push.at \in Awaiting, socket = push.on, isOpen,
           NEW f \in {"caps", "levels"}, NEW l \in Ladders, Hand(f, l), retired => l = {},
           NEW p, push' = p,
           p \in [at : Awaiting, on : Nat, ladder : Ladders,
                  checked : BOOLEAN, first : {"caps", "levels"}, again : BOOLEAN],
           p.on = push.on,
           p.checked => Cardinality(p.ladder) <= MaxSourceOffers,
           ~p.checked => p.ladder = {},
           record' \in {record, [ladder |-> {}, withdrawn |-> FALSE]}, queued' \in BOOLEAN,
           PushKept',
           UNCHANGED <<book, changes, socketVars, endVars, jobVars>>
    PROVE  RelayInv'
<1> USE DEF RelayInv
<1>1. /\ sent' \in [caps : Ladders, levels : Ladders, any : BOOLEAN]
      /\ sent'[f] = l
      /\ \A h \in {"caps", "levels"} : h # f => sent'[h] = sent[h]
  BY HandReplaces
<1>2. Typing'
  <2>1. record' \in [ladder : Ladders, withdrawn : BOOLEAN]
    BY RecordTyped
  <2> QED
    BY <1>1, <2>1 DEF Typing
<1>3. EndTyped' /\ JobTyped'
  BY DEF EndTyped, JobTyped
<1>4. SocketKept' /\ LadderKept'
  BY <1>1 DEF Typing, SocketKept, LadderKept
<1>5. sent'.levels = l \/ sent'.levels = sent.levels
  BY <1>1
<1>6. WithdrawalKept' /\ StopKept' /\ AnswersKept'
  BY <1>5 DEF Typing, EndTyped, SocketKept, PushKept, WithdrawalKept, StopKept, Drained, AnswersKept
<1> QED
  BY <1>2, <1>3, <1>4, <1>6

\* withdrawFailedPush: an empty pair begins, or the generation is closed or gone.
LEMMA WithholdKeeps ==
    ASSUME RelayInv, push.at = "caps", Withhold(push.on, "levels", TRUE),
           UNCHANGED <<book, changes, opened, endVars, jobVars>>
    PROVE  RelayInv'
<1> USE DEF RelayInv
<1>1. CASE socket # push.on \/ retired
  BY <1>1, PushReturns DEF Withhold, Mine, Typing
<1>2. CASE socket = push.on /\ ~retired /\ isOpen
  <2> DEFINE p == [at |-> "withhold", on |-> push.on, ladder |-> {}, checked |-> FALSE,
                   first |-> "levels", again |-> TRUE]
  <2>1. /\ Hand("levels", {}) /\ push' = p /\ record' = [ladder |-> {}, withdrawn |-> FALSE]
        /\ UNCHANGED <<queued, socket, ready, timers>>
    BY <1>2 DEF Withhold
  <2>2. sent'["levels"] = {}
    BY <2>1, HandReplaces
  <2>3. PushKept'
    BY <1>2, <2>1, <2>2 DEF Typing, PushKept, Mine
  <2>4. p \in [at : Awaiting, on : Nat, ladder : Ladders,
               checked : BOOLEAN, first : {"caps", "levels"}, again : BOOLEAN]
    BY DEF Typing
  <2>5. p.on = push.on /\ ~p.checked /\ p.ladder = {}
    OBVIOUS
  <2>6. queued' \in BOOLEAN
    BY <2>1 DEF Typing
  <2> HIDE DEF p
  <2> QED
    BY <1>2, <2>1, <2>3, <2>4, <2>5, <2>6, PushHands
<1>3. CASE socket = push.on /\ ~retired /\ ~isOpen
  BY <1>3, PushCostsSocket DEF Withhold, Typing
<1> QED
  BY <1>1, <1>2, <1>3

\* A push begins only where one may: no other is in flight, the socket is open and not retired.
LEMMA RunPushKeeps ==
    ASSUME RelayInv, runPush
    PROVE  RelayInv'
<1> USE DEF RelayInv
<1>1. CASE ~(queued /\ ~retired /\ isOpen)
  <2>1. push' = NoPush /\ UNCHANGED <<sent, record, book, faults>> /\ queued' = FALSE
    BY <1>1 DEF runPush
  <2>2. Typing' /\ EndTyped' /\ JobTyped'
    BY <2>1, ZenonT(60) DEF runPush, Typing, EndTyped, JobTyped
  <2>3. SocketKept' /\ PushKept' /\ LadderKept'
    BY <2>1 DEF runPush, Typing, SocketKept, PushKept, Mine, LadderKept
  <2>4. WithdrawalKept' /\ StopKept' /\ AnswersKept'
    BY <2>1 DEF runPush, WithdrawalKept, StopKept, Drained, AnswersKept
  <2> QED
    BY <2>2, <2>3, <2>4
<1>2. CASE queued /\ ~retired /\ isOpen
  <2> DEFINE whole == [NoPush EXCEPT !.at = "caps", !.on = socket, !.ladder = Quotes, !.checked = Derivable]
             held(gone) == [NoPush EXCEPT !.at = "withhold", !.on = socket, !.again = gone # {}]
  <2>1. CASE Begin(whole) /\ book' = book
    <3>1. Quotes \in Ladders /\ Derivable \in BOOLEAN
      BY DEF Quotes, Derivable, Typing
    <3>2. Derivable => Cardinality(Quotes) <= MaxSourceOffers
      BY DEF Quotes, Derivable
    <3>3. ~Derivable => Quotes = {}
      BY DEF Quotes, Derivable
    <3> QED
      BY <1>2, <2>1, <3>1, <3>2, <3>3, Begun DEF runPush, Typing
  <2>2. ASSUME NEW gone \in SUBSET Quotes,
               book' = [book EXCEPT !.offers = @ \ gone], Begin(held(gone))
        PROVE  RelayInv'
    <3>1. book' \in [offers : Ladders, current : BOOLEAN]
      BY <2>2 DEF Typing
    <3> QED
      BY <1>2, <2>2, <3>1, Begun DEF runPush, Typing
  <2> QED
    BY <1>2, <2>1, <2>2 DEF runPush
<1> QED
  BY <1>1, <1>2

\* After the capabilities: the levels of the same derivation, an empty pair, or no socket.
LEMMA CapsSentKeeps ==
    ASSUME RelayInv, CapsSent
    PROVE  RelayInv'
<1> USE DEF RelayInv
<1>0. push.at = "caps" /\ UNCHANGED <<book, changes, opened, endVars, jobVars>>
  BY DEF CapsSent, Resumes
<1>1. CASE Abandoned /\ Return /\ UNCHANGED <<sent, socket, ready, timers>>
  BY <1>0, <1>1, PushReturns DEF Abandoned, Return, Mine, Typing
<1>2. CASE Withhold(push.on, "levels", TRUE)
  BY <1>0, <1>2, WithholdKeeps
<1>3. CASE /\ ~Abandoned /\ CanSend(push.on) /\ Hand("levels", push.ladder)
           /\ push' = [push EXCEPT !.at = "levels"]
           /\ UNCHANGED <<queued, record, socket, ready, timers>>
  <2> DEFINE p == [push EXCEPT !.at = "levels"]
  <2>1. sent'.levels = push.ladder /\ sent'.caps = sent.caps
    BY <1>3, HandReplaces DEF Typing
  <2>2. p \in [at : Awaiting, on : Nat, ladder : Ladders,
               checked : BOOLEAN, first : {"caps", "levels"}, again : BOOLEAN]
    BY DEF Typing
  <2>3. p.on = push.on /\ p.ladder = push.ladder /\ p.checked = push.checked
    BY DEF Typing
  <2>4. PushKept'
    BY <1>0, <1>3, <2>1 DEF Typing, PushKept, Mine, CanSend
  <2> QED
    BY <1>0, <1>3, <2>2, <2>3, <2>4, PushHands DEF Typing, Abandoned, CanSend, LadderKept
<1>4. CASE ~CanSend(push.on) /\ closeSocketGeneration(push.on) /\ Return
  BY <1>0, <1>4, PushCostsSocket DEF Return, Typing
<1> QED
  BY <1>1, <1>2, <1>3, <1>4 DEF CapsSent

\* The second frame of an empty pair, or no socket.
LEMMA WithheldOneKeeps ==
    ASSUME RelayInv, WithheldOne
    PROVE  RelayInv'
<1> USE DEF RelayInv
<1>0. push.at = "withhold" /\ UNCHANGED <<book, changes, opened, record, endVars, jobVars>>
  BY DEF WithheldOne, Resumes
<1>1. CASE CanSend(push.on)
  <2> DEFINE p == [push EXCEPT !.at = "withheld"]
  <2>1. /\ Hand(Other[push.first], {}) /\ push' = p
        /\ UNCHANGED <<queued, socket, ready, timers>>
    BY <1>1 DEF WithheldOne
  <2>2. Other[push.first] \in {"caps", "levels"} /\ push.first \in {"caps", "levels"}
        /\ Other[push.first] # push.first
    BY DEF Other, Typing
  <2>3. sent'[Other[push.first]] = {} /\ sent'[push.first] = sent[push.first]
    BY <2>1, <2>2, HandReplaces
  <2>4. PushKept'
    BY <1>0, <1>1, <2>1, <2>2, <2>3 DEF Typing, PushKept, Mine, CanSend
  <2>5. p \in [at : Awaiting, on : Nat, ladder : Ladders,
               checked : BOOLEAN, first : {"caps", "levels"}, again : BOOLEAN]
    BY DEF Typing
  <2>6. p.on = push.on /\ p.checked = push.checked /\ p.ladder = push.ladder
    BY DEF Typing
  <2>7. queued' \in BOOLEAN
    BY <2>1 DEF Typing
  <2> HIDE DEF p
  <2> QED
    BY <1>0, <1>1, <2>1, <2>2, <2>4, <2>5, <2>6, <2>7, PushHands DEF CanSend, LadderKept
<1>2. CASE ~CanSend(push.on)
  BY <1>0, <1>2, PushCostsSocket DEF WithheldOne, Typing
<1> QED
  BY <1>1, <1>2

\* A push that fails costs its socket.
LEMMA PushFailsKeeps ==
    ASSUME RelayInv, PushFails
    PROVE  RelayInv'
  BY PushCostsSocket DEF RelayInv, PushFails, Resumes, Typing

\* The levels that retract the quotes are handed to the open socket, or there is none.
LEMMA WithdrawalSent ==
    ASSUME RelayInv, withdrawal.at \in {"none", "wait"}, SendWithdrawal, retired' = TRUE,
           timers' \subseteq timers, stopping' \in {stopping, "withdraw"},
           stopping \in {"none", "withdraw"},
           UNCHANGED <<envVars, socket, ready, opened, push, queued, jobVars>>
    PROVE  RelayInv'
<1> USE DEF RelayInv
<1>1. CASE isOpen
  <2>1. /\ sent' \in [caps : Ladders, levels : Ladders, any : BOOLEAN]
        /\ sent'.levels = {} /\ sent'.caps = sent.caps
    BY <1>1, HandReplaces DEF SendWithdrawal
  <2>2. withdrawal' = [at |-> "levels", on |-> socket] /\ record' = record
    BY <1>1 DEF SendWithdrawal
  <2>3. Typing' /\ EndTyped' /\ JobTyped'
    BY <2>1, <2>2 DEF Typing, EndTyped, JobTyped
  <2>4. SocketKept' /\ PushKept' /\ LadderKept'
    BY <1>1, <2>2 DEF Typing, SocketKept, PushKept, Mine, LadderKept
  <2>5. WithdrawalKept' /\ StopKept' /\ AnswersKept'
    BY <2>1, <2>2 DEF Typing, EndTyped, WithdrawalKept, StopKept, Drained, AnswersKept
  <2> QED
    BY <2>3, <2>4, <2>5
<1>2. CASE ~isOpen
  <2>1. /\ record' = [ladder |-> {}, withdrawn |-> TRUE] /\ sent' = sent
        /\ withdrawal' = [at |-> "done", on |-> 0]
    BY <1>2 DEF SendWithdrawal, Withdrawn
  <2>2. Typing' /\ EndTyped' /\ JobTyped'
    BY <2>1 DEF Typing, EndTyped, JobTyped
  <2>3. SocketKept' /\ PushKept' /\ LadderKept'
    BY <2>1 DEF Typing, SocketKept, PushKept, Mine, LadderKept
  <2>4. WithdrawalKept' /\ StopKept' /\ AnswersKept'
    BY <1>2, <2>1 DEF Typing, EndTyped, WithdrawalKept, StopKept, Drained, AnswersKept
  <2> QED
    BY <2>2, <2>3, <2>4
<1> QED
  BY <1>1, <1>2

\* withdraw(): once, with nothing retired before it.
LEMMA WithdrawKeeps ==
    ASSUME RelayInv, Withdraw
    PROVE  RelayInv'
<1> USE DEF RelayInv
<1>0. /\ withdrawal.at = "none" /\ retired' = TRUE /\ timers' = timers \ {"push", "reconnect"}
      /\ stopping = "none" /\ stopping' \in {"none", "withdraw"}
      /\ UNCHANGED <<envVars, socket, ready, opened, push, queued, jobVars>>
  BY DEF Withdraw, withdraw, EndTyped, WithdrawalKept, StopKept
<1>1. CASE SendWithdrawal
  BY <1>0, <1>1, WithdrawalSent
<1>2. CASE withdrawal' = [at |-> "wait", on |-> 0] /\ UNCHANGED <<sent, record>>
  <2>1. Typing' /\ EndTyped' /\ JobTyped'
    BY <1>0, <1>2 DEF Typing, EndTyped, JobTyped
  <2>2. SocketKept' /\ PushKept' /\ LadderKept'
    BY <1>0, <1>2 DEF Typing, SocketKept, PushKept, Mine, LadderKept
  <2>3. WithdrawalKept' /\ StopKept' /\ AnswersKept'
    BY <1>0, <1>2 DEF Typing, EndTyped, WithdrawalKept, StopKept, Drained, AnswersKept
  <2> QED
    BY <2>1, <2>2, <2>3
<1> QED
  BY <1>1, <1>2 DEF Withdraw, withdraw

\* runWithdraw, after the push in flight or the bound on the wait for it.
LEMMA PushAwaitedKeeps ==
    ASSUME RelayInv, PushAwaited
    PROVE  RelayInv'
<1>1. retired /\ stopping \in {"none", "withdraw"}
  BY DEF PushAwaited, RelayInv, EndTyped, WithdrawalKept, StopKept
<1> QED
  BY <1>1, WithdrawalSent DEF PushAwaited, WithdrawalStep

\* A new generation is connecting and was sent nothing.
LEMMA ConnectKeeps ==
    ASSUME RelayInv, connect
    PROVE  RelayInv'
<1> USE DEF RelayInv, connect, ScheduleReconnect
<1>1. Typing'
  BY DEF Typing
<1>2. EndTyped' /\ JobTyped'
  BY DEF Typing, EndTyped, JobTyped
<1>3. SocketKept' /\ PushKept' /\ LadderKept'
  BY DEF Typing, SocketKept, PushKept, Mine, LadderKept, WithdrawalKept
<1>4. WithdrawalKept' /\ StopKept' /\ AnswersKept'
  BY DEF Typing, EndTyped, JobTyped, SocketKept, PushKept, WithdrawalKept, StopKept, Drained, AnswersKept
<1> QED
  BY <1>1, <1>2, <1>3, <1>4

\* It opens, and asks for a push.
LEMMA OnOpenKeeps ==
    ASSUME RelayInv, OnOpen
    PROVE  RelayInv'
<1> USE DEF RelayInv, OnOpen, Request, Loop
<1>1. Typing'
  BY DEF Typing
<1>2. EndTyped' /\ JobTyped'
  BY DEF Typing, EndTyped, JobTyped
<1>3. SocketKept' /\ PushKept' /\ LadderKept'
  BY DEF Typing, SocketKept, PushKept, Mine, LadderKept, WithdrawalKept
<1>4. WithdrawalKept' /\ StopKept' /\ AnswersKept'
  BY DEF Typing, EndTyped, JobTyped, SocketKept, PushKept, WithdrawalKept, StopKept, Drained, AnswersKept
<1> QED
  BY <1>1, <1>2, <1>3, <1>4

\* The socket is lost: handleClosed.
LEMMA DroppedKeeps ==
    ASSUME RelayInv, Dropped
    PROVE  RelayInv'
<1> USE DEF RelayInv, Dropped, Fault, handleClosed, ScheduleReconnect
<1>1. Typing'
  BY DEF Typing
<1>2. EndTyped' /\ JobTyped'
  BY DEF Typing, EndTyped, JobTyped
<1>3. SocketKept' /\ PushKept' /\ LadderKept'
  BY DEF Typing, SocketKept, PushKept, Mine, LadderKept, WithdrawalKept
<1>4. WithdrawalKept' /\ StopKept' /\ AnswersKept'
  BY DEF Typing, EndTyped, JobTyped, SocketKept, PushKept, WithdrawalKept, StopKept, Drained, AnswersKept
<1> QED
  BY <1>1, <1>2, <1>3, <1>4

\* It leaves OPEN before its close event; nothing it was sent is retracted.
LEMMA ClosingKeeps ==
    ASSUME RelayInv, Closing
    PROVE  RelayInv'
<1> USE DEF RelayInv, Closing, Fault
<1>1. Typing'
  BY DEF Typing
<1>2. EndTyped' /\ JobTyped'
  BY DEF Typing, EndTyped, JobTyped
<1>3. SocketKept' /\ PushKept' /\ LadderKept'
  BY DEF Typing, SocketKept, PushKept, Mine, LadderKept, WithdrawalKept
<1>4. WithdrawalKept' /\ StopKept' /\ AnswersKept'
  BY DEF Typing, EndTyped, JobTyped, SocketKept, PushKept, WithdrawalKept, StopKept, Drained, AnswersKept
<1> QED
  BY <1>1, <1>2, <1>3, <1>4

\* The close event: handleClosed, and a reconnect unless the client has retired.
LEMMA OnCloseKeeps ==
    ASSUME RelayInv, OnClose
    PROVE  RelayInv'
<1> USE DEF RelayInv, OnClose, handleClosed, ScheduleReconnect
<1>1. Typing'
  BY DEF Typing
<1>2. EndTyped' /\ JobTyped'
  BY DEF Typing, EndTyped, JobTyped
<1>3. SocketKept' /\ PushKept' /\ LadderKept'
  BY DEF Typing, SocketKept, PushKept, Mine, LadderKept, WithdrawalKept
<1>4. WithdrawalKept' /\ StopKept' /\ AnswersKept'
  BY DEF Typing, EndTyped, JobTyped, SocketKept, PushKept, WithdrawalKept, StopKept, Drained, AnswersKept
<1> QED
  BY <1>1, <1>2, <1>3, <1>4

\* The interval asks for a push while the socket is open.
LEMMA TickKeeps ==
    ASSUME RelayInv, Tick
    PROVE  RelayInv'
<1> USE DEF RelayInv, Tick, Request, Loop
<1>1. Typing'
  <2>1. push' \in {push, Loop} /\ queued' \in BOOLEAN /\ timers' \subseteq timers
    BY DEF Typing
  <2>2. push' \in [at : {"idle", "loop"} \cup Awaiting, on : Nat, ladder : Ladders,
                  checked : BOOLEAN, first : {"caps", "levels"}, again : BOOLEAN]
    <3>1. CASE push' = push
      BY <3>1 DEF Typing
    <3>2. CASE push' = Loop
      BY <3>2
    <3> QED
      BY <2>1, <3>1, <3>2
  <2> QED
    BY <2>1, <2>2 DEF Typing
<1>2. EndTyped' /\ JobTyped'
  BY DEF Typing, EndTyped, JobTyped
<1>3. SocketKept' /\ PushKept' /\ LadderKept'
  BY DEF Typing, SocketKept, PushKept, Mine, LadderKept, WithdrawalKept
<1>4. WithdrawalKept' /\ StopKept' /\ AnswersKept'
  BY DEF Typing, EndTyped, JobTyped, SocketKept, PushKept, WithdrawalKept, StopKept, Drained, AnswersKept
<1> QED
  BY <1>1, <1>2, <1>3, <1>4

\* stop() after a withdrawal that was asked for on its own.
LEMMA StopAfterWithdrawKeeps ==
    ASSUME RelayInv, StopAfterWithdraw
    PROVE  RelayInv'
<1> USE DEF RelayInv, StopAfterWithdraw
<1>1. Typing'
  BY DEF Typing
<1>2. EndTyped' /\ JobTyped'
  BY DEF Typing, EndTyped, JobTyped
<1>3. SocketKept' /\ PushKept' /\ LadderKept'
  BY DEF Typing, SocketKept, PushKept, Mine, LadderKept, WithdrawalKept
<1>4. WithdrawalKept' /\ StopKept' /\ AnswersKept'
  BY DEF Typing, EndTyped, JobTyped, SocketKept, PushKept, WithdrawalKept, StopKept, Drained, AnswersKept
<1> QED
  BY <1>1, <1>2, <1>3, <1>4

\* The second frame of the withdrawal.
LEMMA WithdrawLevelsSentKeeps ==
    ASSUME RelayInv, WithdrawLevelsSent
    PROVE  RelayInv'
<1> USE DEF RelayInv, WithdrawLevelsSent, WithdrawalStep, CanSend, Hand
<1>1. Typing'
  BY ZenonT(60) DEF Typing
<1>2. EndTyped' /\ JobTyped'
  BY ZenonT(60) DEF Typing, EndTyped, JobTyped
<1>3. SocketKept' /\ PushKept' /\ LadderKept'
  BY DEF Typing, SocketKept, PushKept, Mine, LadderKept, WithdrawalKept
<1>4. WithdrawalKept' /\ StopKept' /\ AnswersKept'
  BY DEF Typing, EndTyped, JobTyped, SocketKept, PushKept, WithdrawalKept, StopKept, Drained, AnswersKept
<1> QED
  BY <1>1, <1>2, <1>3, <1>4

\* The withdrawal is complete: lastPush() says so.
LEMMA WithdrawCapsSentKeeps ==
    ASSUME RelayInv, WithdrawCapsSent
    PROVE  RelayInv'
<1> USE DEF RelayInv, WithdrawCapsSent, WithdrawalStep, Withdrawn
<1>1. Typing'
  BY DEF Typing
<1>2. EndTyped' /\ JobTyped'
  BY DEF Typing, EndTyped, JobTyped
<1>3. SocketKept' /\ PushKept' /\ LadderKept'
  BY DEF Typing, SocketKept, PushKept, Mine, LadderKept, WithdrawalKept
<1>4. WithdrawalKept' /\ StopKept' /\ AnswersKept'
  BY DEF Typing, EndTyped, JobTyped, SocketKept, PushKept, WithdrawalKept, StopKept, Drained, AnswersKept
<1> QED
  BY <1>1, <1>2, <1>3, <1>4

\* A send of the withdrawal fails, or misses its deadline.
LEMMA WithdrawFailsKeeps ==
    ASSUME RelayInv, WithdrawFails
    PROVE  RelayInv'
<1> USE DEF RelayInv, WithdrawFails, Fault
<1>1. Typing'
  BY DEF Typing
<1>2. EndTyped' /\ JobTyped'
  BY DEF Typing, EndTyped, JobTyped
<1>3. SocketKept' /\ PushKept' /\ LadderKept'
  BY DEF Typing, SocketKept, PushKept, Mine, LadderKept, WithdrawalKept
<1>4. WithdrawalKept' /\ StopKept' /\ AnswersKept'
  BY DEF Typing, EndTyped, JobTyped, SocketKept, PushKept, WithdrawalKept, StopKept, Drained, AnswersKept
<1> QED
  BY <1>1, <1>2, <1>3, <1>4

\* stop() detaches the socket once the withdrawal is over.
LEMMA DetachKeeps ==
    ASSUME RelayInv, Detach
    PROVE  RelayInv'
<1> USE DEF RelayInv, Detach
<1>1. Typing'
  BY DEF Typing
<1>2. EndTyped' /\ JobTyped'
  BY DEF Typing, EndTyped, JobTyped
<1>3. SocketKept' /\ PushKept' /\ LadderKept'
  BY DEF Typing, SocketKept, PushKept, Mine, LadderKept, WithdrawalKept
<1>4. WithdrawalKept' /\ StopKept' /\ AnswersKept'
  BY DEF Typing, EndTyped, JobTyped, SocketKept, PushKept, WithdrawalKept, StopKept, Drained, AnswersKept
<1> QED
  BY <1>1, <1>2, <1>3, <1>4

\* idle() found no verdict handler.
LEMMA StoppedKeeps ==
    ASSUME RelayInv, Stopped
    PROVE  RelayInv'
<1> USE DEF RelayInv, Stopped, Drained
<1>1. Typing'
  BY DEF Typing
<1>2. EndTyped' /\ JobTyped'
  BY DEF Typing, EndTyped, JobTyped
<1>3. SocketKept' /\ PushKept' /\ LadderKept'
  BY DEF Typing, SocketKept, PushKept, Mine, LadderKept, WithdrawalKept
<1>4. WithdrawalKept' /\ StopKept' /\ AnswersKept'
  BY DEF Typing, EndTyped, JobTyped, SocketKept, PushKept, WithdrawalKept, StopKept, Drained, AnswersKept
<1> QED
  BY <1>1, <1>2, <1>3, <1>4

\* A job is taken on the socket that delivered it.
LEMMA OnSwapKeeps ==
    ASSUME RelayInv, NEW j \in Jobs, onSwap(j)
    PROVE  RelayInv'
<1> USE DEF RelayInv, onSwap
<1>1. Typing'
  BY DEF Typing
<1>2. EndTyped' /\ JobTyped'
  BY DEF Typing, EndTyped, JobTyped
<1>3. SocketKept' /\ PushKept' /\ LadderKept'
  BY DEF Typing, SocketKept, PushKept, Mine, LadderKept, WithdrawalKept
<1>4. WithdrawalKept' /\ StopKept' /\ AnswersKept'
  BY DEF Typing, EndTyped, JobTyped, SocketKept, PushKept, WithdrawalKept, StopKept, Drained, AnswersKept
<1> QED
  BY <1>1, <1>2, <1>3, <1>4

\* Its terminal message, on that socket or nowhere.
LEMMA AnswerKeeps ==
    ASSUME RelayInv, NEW j \in Jobs, Answer(j)
    PROVE  RelayInv'
<1> USE DEF RelayInv, Answer, CanSend
<1>1. Typing'
  BY DEF Typing
<1>2. EndTyped' /\ JobTyped'
  BY DEF Typing, EndTyped, JobTyped
<1>3. SocketKept' /\ PushKept' /\ LadderKept'
  BY DEF Typing, SocketKept, PushKept, Mine, LadderKept, WithdrawalKept
<1>4. WithdrawalKept' /\ StopKept' /\ AnswersKept'
  BY DEF Typing, EndTyped, JobTyped, SocketKept, PushKept, WithdrawalKept, StopKept, Drained, AnswersKept
<1> QED
  BY <1>1, <1>2, <1>3, <1>4

\* A verdict joins the chain of its job.
LEMMA FrameKeeps ==
    ASSUME RelayInv, NEW j \in Jobs, NEW v \in {"tx-submitted", "submit-failed"}, Frame(j, v)
    PROVE  RelayInv'
<1> USE DEF RelayInv, Frame
<1>1. Typing'
  BY DEF Typing
<1>2. EndTyped' /\ JobTyped'
  BY DEF Typing, EndTyped, JobTyped
<1>3. SocketKept' /\ PushKept' /\ LadderKept'
  BY DEF Typing, SocketKept, PushKept, Mine, LadderKept, WithdrawalKept
<1>4. WithdrawalKept' /\ StopKept' /\ AnswersKept'
  BY DEF Typing, EndTyped, JobTyped, SocketKept, PushKept, WithdrawalKept, StopKept, Drained, AnswersKept
<1> QED
  BY <1>1, <1>2, <1>3, <1>4

\* A verdict handler ends.
LEMMA HandledKeeps ==
    ASSUME RelayInv, NEW j \in Jobs, Handled(j)
    PROVE  RelayInv'
<1> USE DEF RelayInv, Handled
<1>1. Typing'
  BY DEF Typing
<1>2. EndTyped' /\ JobTyped'
  BY DEF Typing, EndTyped, JobTyped
<1>3. SocketKept' /\ PushKept' /\ LadderKept'
  BY DEF Typing, SocketKept, PushKept, Mine, LadderKept, WithdrawalKept
<1>4. WithdrawalKept' /\ StopKept' /\ AnswersKept'
  BY DEF Typing, EndTyped, JobTyped, SocketKept, PushKept, WithdrawalKept, StopKept, Drained, AnswersKept
<1> QED
  BY <1>1, <1>2, <1>3, <1>4

\* The book moves under whatever is awaited.
LEMMA BookChangesKeeps ==
    ASSUME RelayInv, BookChanges
    PROVE  RelayInv'
<1> USE DEF RelayInv, BookChanges
<1>1. Typing'
  <2>1. book' \in [offers : Ladders, current : BOOLEAN]
    <3>1. CASE book' = [book EXCEPT !.current = ~@]
      BY <3>1 DEF Typing
    <3>2. ASSUME NEW o \in Offers,
                 book' = [book EXCEPT !.offers = IF o \in @ THEN @ \ {o} ELSE @ \cup {o}]
          PROVE  book' \in [offers : Ladders, current : BOOLEAN]
      BY <3>2 DEF Typing
    <3> QED
      BY <3>1, <3>2
  <2> QED
    BY <2>1 DEF Typing
<1>2. EndTyped' /\ JobTyped'
  BY DEF Typing, EndTyped, JobTyped
<1>3. SocketKept' /\ PushKept' /\ LadderKept'
  BY DEF Typing, SocketKept, PushKept, Mine, LadderKept, WithdrawalKept
<1>4. WithdrawalKept' /\ StopKept' /\ AnswersKept'
  BY DEF Typing, EndTyped, JobTyped, SocketKept, PushKept, WithdrawalKept, StopKept, Drained, AnswersKept
<1> QED
  BY <1>1, <1>2, <1>3, <1>4

-----------------------------------------------------------------------------
(* The invariant, and what follows from it.                                *)

\* The relay starts with a first generation that is connecting.
LEMMA RelayInit == Init => RelayInv
<1> SUFFICES ASSUME Init PROVE RelayInv
  OBVIOUS
<1> USE RelayAssumption DEF Init
<1>1. Typing
  BY DEF Typing
<1>2. EndTyped /\ JobTyped
  BY DEF EndTyped, JobTyped
<1>3. SocketKept /\ PushKept /\ LadderKept
  BY DEF SocketKept, PushKept, Mine, LadderKept
<1>4. WithdrawalKept /\ StopKept /\ AnswersKept
  BY DEF WithdrawalKept, StopKept, AnswersKept
<1> QED
  BY <1>1, <1>2, <1>3, <1>4 DEF RelayInv

\* Every step of the client, its peer and the book keeps it.
LEMMA RelayStep == RelayInv /\ [Next]_vars => RelayInv'
<1> SUFFICES ASSUME RelayInv, [Next]_vars PROVE RelayInv'
  OBVIOUS
<1>1. CASE connect \/ OnOpen \/ Dropped \/ Closing \/ OnClose
  BY <1>1, ConnectKeeps, OnOpenKeeps, DroppedKeeps, ClosingKeeps, OnCloseKeeps
<1>2. CASE Pushing \/ PushFails \/ Tick
  <2>1. CASE LevelsSent
    BY <2>1, PushReturns DEF LevelsSent, Resumes, Return, RelayInv, Typing
  <2>2. CASE WithheldBoth
    BY <2>2, PushReturns DEF WithheldBoth, Resumes, RelayInv, Typing
  <2> QED
    BY <1>2, <2>1, <2>2, RunPushKeeps, CapsSentKeeps, WithheldOneKeeps, PushFailsKeeps, TickKeeps
    DEF Pushing
<1>3. CASE Withdraw \/ StopAfterWithdraw \/ WithdrawFails \/ Ending \/ BookChanges
  BY <1>3, WithdrawKeeps, StopAfterWithdrawKeeps, WithdrawFailsKeeps, PushAwaitedKeeps,
     WithdrawLevelsSentKeeps, WithdrawCapsSentKeeps, DetachKeeps, StoppedKeeps, BookChangesKeeps
  DEF Ending
<1>4. ASSUME NEW j \in Jobs,
             onSwap(j) \/ Answer(j) \/ Handled(j)
             \/ \E v \in {"tx-submitted", "submit-failed"} : Frame(j, v)
      PROVE  RelayInv'
  BY <1>4, OnSwapKeeps, AnswerKeeps, HandledKeeps, FrameKeeps
<1>5. CASE UNCHANGED vars
  BY <1>5 DEF RelayInv, Typing, EndTyped, JobTyped, SocketKept, PushKept, Mine, LadderKept,
              WithdrawalKept, StopKept, Drained, AnswersKept
<1> QED
  BY <1>1, <1>2, <1>3, <1>4, <1>5 DEF Next

\* The inductive invariant holds of every behaviour of the relay client: what each await
\* of a push, a withdrawal or a stop may rely on.
THEOREM RelayInvariant == Spec => []RelayInv
  BY RelayInit, RelayStep, PTL DEF Spec

\* requestPush leaves the relay with one derivation: the last capabilities and levels that
\* the open socket was sent are both the ladder of lastPush(), whenever no push is in flight.
THEOREM PushesAreWhole == Spec => []PushesWhole
<1>1. RelayInv => PushesWhole
  BY DEF RelayInv, PushKept, PushesWhole
<1> QED
  BY <1>1, RelayInvariant, PTL

\* runWithdraw reports `withdrawn` only of a client that is retired and whose open socket
\* was last told that it quotes nothing, whatever push was in flight.
THEOREM WithdrawnIsHonoured == Spec => []WithdrawnIsTrue
<1>1. RelayInv => WithdrawnIsTrue
  BY DEF RelayInv, WithdrawalKept, WithdrawnIsTrue
<1> QED
  BY <1>1, RelayInvariant, PTL

\* sendOn and the handler of a job: one terminal message for a job, to the socket that
\* delivered it.
THEOREM AnsweredOnce == Spec => []OneAnswer
<1>1. RelayInv => OneAnswer
  <2> SUFFICES ASSUME RelayInv PROVE OneAnswer
    OBVIOUS
  <2>1. \A a \in answers : a.on = job[a.job].on
    BY DEF RelayInv, AnswersKept
  <2>2. ASSUME NEW a \in answers, NEW b \in answers, a.job = b.job PROVE a = b
    <3>1. a \in [job : Jobs, on : Nat] /\ b \in [job : Jobs, on : Nat]
      BY DEF RelayInv, JobTyped
    <3>2. a.on = b.on
      BY <2>1, <2>2
    <3> QED
      BY <2>2, <3>1, <3>2
  <2> QED
    BY <2>1, <2>2 DEF OneAnswer
<1> QED
  BY <1>1, RelayInvariant, PTL

\* When stop() has resolved, the client has no socket, no timer and no verdict handler, and
\* has been heard for the last time.
THEOREM StoppedForGood == Spec => []StopIsFinal
<1>1. RelayInv => StopIsFinal
  BY DEF RelayInv, Typing, SocketKept, StopKept, Drained, StopIsFinal
<1> QED
  BY <1>1, RelayInvariant, PTL

\* runPush looks at the book again after the capabilities: no step hands over levels that
\* are not of the book as it is.
THEOREM QuotesAreFresh == Spec => QuotesFresh
<1>1. RelayInv /\ [Next]_vars => [sent'.levels # sent.levels => sent'.levels \subseteq Quotes]_vars
  <2> SUFFICES ASSUME RelayInv, Next, sent'.levels # sent.levels
               PROVE  sent'.levels \subseteq Quotes
    OBVIOUS
  <2> USE DEF RelayInv
  <2>1. CASE sent' = Nothing
    BY <2>1
  <2>2. CASE runPush
    BY <2>2, ZenonT(60) DEF runPush, Begin, Hand, Typing
  <2>3. CASE CapsSent
    <3>1. CASE Withhold(push.on, "levels", TRUE)
      BY <2>1, <3>1 DEF Withhold, Hand, closeSocketGeneration, handleClosed, Typing
    <3>2. CASE ~Abandoned /\ StillTrue /\ Hand("levels", push.ladder)
      <4>1. push.ladder \subseteq Quotes
        BY <3>2 DEF StillTrue, Quotes, LadderKept
      <4>2. sent'.levels = push.ladder
        BY <3>2 DEF Hand, Typing
      <4> QED
        BY <4>1, <4>2
    <3>3. CASE UNCHANGED sent \/ closeSocketGeneration(push.on)
      BY <2>1, <3>3 DEF closeSocketGeneration, handleClosed
    <3> QED
      BY <2>3, <3>1, <3>2, <3>3 DEF CapsSent
  <2>4. CASE WithheldOne
    <3>1. CASE Hand(Other[push.first], {})
      <4>1. Other[push.first] \in {"caps", "levels"} /\ {} \in Ladders
        BY DEF Other, Typing
      <4> QED
        BY <3>1, <4>1, HandReplaces
    <3> QED
      BY <2>1, <2>4, <3>1 DEF WithheldOne, closeSocketGeneration, handleClosed
  <2>5. CASE PushAwaited \/ Withdraw \/ WithdrawLevelsSent
    BY <2>5 DEF PushAwaited, Withdraw, withdraw, SendWithdrawal, WithdrawLevelsSent, Hand, Typing
  <2>6. CASE PushFails
    BY <2>1, <2>6 DEF PushFails, Resumes, closeSocketGeneration, handleClosed
  <2>7. CASE connect \/ OnOpen \/ Dropped \/ Closing \/ OnClose \/ Tick
    BY <2>1, <2>7 DEF connect, OnOpen, Dropped, Closing, OnClose, handleClosed, Tick
  <2>8. CASE StopAfterWithdraw \/ WithdrawFails \/ WithdrawCapsSent \/ Detach \/ Stopped
    BY <2>1, <2>8 DEF StopAfterWithdraw, WithdrawFails, WithdrawCapsSent, Detach, Stopped, WithdrawalStep
  <2>9. CASE LevelsSent \/ WithheldBoth
    BY <2>9 DEF LevelsSent, WithheldBoth
  <2>10. ASSUME NEW j \in Jobs,
                onSwap(j) \/ Answer(j) \/ Handled(j)
                \/ \E v \in {"tx-submitted", "submit-failed"} : Frame(j, v)
         PROVE  sent' = sent
    BY <2>10 DEF onSwap, Answer, Handled, Frame
  <2>11. CASE BookChanges
    BY <2>11 DEF BookChanges
  <2> QED
    BY <2>2, <2>3, <2>4, <2>5, <2>6, <2>7, <2>8, <2>9, <2>10, <2>11 DEF Next, Ending, Pushing
<1> QED
  BY <1>1, RelayInvariant, PTL DEF Spec, QuotesFresh
=============================================================================
