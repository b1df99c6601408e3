-------------------------- MODULE PauseControlProofs --------------------------
(* Proofs about PauseControl for any number of consumers, administrators   *)
(* and commands.                                                           *)
EXTENDS PauseControl, TLAPS

\* A consumer holding a message fetched in this pause is on its way to the
\* channel or waits on the one the resume will close.
HeldBack(c) ==
  /\ paused
  /\ \/ pc[c] \in {"recheck", "rechan"}
     \/ pc[c] = "rewait" /\ c \in registered

IInv == TypeOK /\ \A c \in Consumers : fetched[c] => HeldBack(c)

(***************************************************************************)
(* InitHolds.  The worker starts in a state of the invariant.              *)
(***************************************************************************)
LEMMA InitHolds == Init => IInv
<1> SUFFICES ASSUME Init PROVE IInv
  OBVIOUS
<1> USE DEF Init
<1>1. key \in BOOLEAN /\ paused \in BOOLEAN
  BY Zenon
<1>2. commands \in 0 .. MaxCommands /\ inbox \in Seq(Orders)
  BY CommandsAssumption, SMT
<1>3. admin \in [Admins -> Orders \cup {Nothing}] /\ sub \in Orders \cup {Nothing}
  BY SMT
<1>4. registered \subseteq Consumers /\ pc \in [Consumers -> Stages]
  BY SMT DEF Stages
<1>5. fetched \in [Consumers -> BOOLEAN] /\ \A c \in Consumers : ~fetched[c]
  BY Zenon
<1> QED
  BY <1>1, <1>2, <1>3, <1>4, <1>5, Zenon DEF IInv, TypeOK

(***************************************************************************)
(* TypeStep.  Every step keeps the types.                                  *)
(***************************************************************************)
LEMMA TypeStep == TypeOK /\ [Next]_vars => TypeOK'
<1> SUFFICES ASSUME TypeOK, [Next]_vars PROVE TypeOK'
  OBVIOUS
<1> USE CommandsAssumption DEF TypeOK, Orders, Nothing, Stages
<1>1. ASSUME NEW a \in Admins, Pause(a) \/ Resume(a) PROVE TypeOK'
  <2>1. key' \in BOOLEAN
    BY <1>1, Zenon DEF Pause, Resume, Command
  <2> QED
    BY <1>1, <2>1 DEF Pause, Resume, Command, consumerVars
<1>2. ASSUME NEW a \in Admins, Publish(a) PROVE TypeOK'
  BY <1>2 DEF Publish, consumerVars
<1>3. CASE Receive
  <2>1. paused' \in BOOLEAN
    BY <1>3, Zenon DEF Receive, SetPaused
  <2>2. inbox' \in Seq(Orders)
    BY <1>3 DEF Receive
  <2>3. registered' \subseteq Consumers /\ fetched' \in [Consumers -> BOOLEAN]
    BY <1>3 DEF Receive, SetPaused
  <2> QED
    BY <1>3, <2>1, <2>2, <2>3 DEF Receive, adminVars
<1>4. CASE ReconcileRead \/ ReconcileApply
  BY <1>4 DEF ReconcileRead, ReconcileApply, SetPaused, adminVars, consumerVars
<1>5. ASSUME NEW c \in Consumers, Consume(c) PROVE TypeOK'
  BY <1>5 DEF Consume, Check, WaitChan, Wake, ReadMessage, ReadNothing,
              Recheck, Process, Goto, adminVars
<1>6. CASE UNCHANGED vars
  BY <1>6 DEF vars, adminVars, consumerVars
<1> QED
  BY <1>1, <1>2, <1>3, <1>4, <1>5, <1>6 DEF Next, Subscriber

(***************************************************************************)
(* HeldStep.  No step lets go of a message fetched in this pause: only     *)
(* the resume empties the channel's waiters, and it ends the pause.        *)
(***************************************************************************)
LEMMA HeldStep ==
  IInv /\ [Next]_vars => \A c \in Consumers : fetched'[c] => HeldBack(c)'
<1> SUFFICES ASSUME IInv, [Next]_vars, NEW c \in Consumers, fetched'[c]
             PROVE  HeldBack(c)'
  OBVIOUS
<1> USE DEF IInv, TypeOK, HeldBack
<1>1. ASSUME NEW a \in Admins, Pause(a) \/ Resume(a) \/ Publish(a)
      PROVE  HeldBack(c)'
  BY <1>1 DEF Pause, Resume, Command, Publish, consumerVars
<1>2. ASSUME NEW p \in BOOLEAN, SetPaused(p), UNCHANGED pc PROVE HeldBack(c)'
  BY <1>2 DEF SetPaused
<1>3. CASE Receive
  BY <1>2, <1>3 DEF Receive
<1>4. CASE ReconcileRead
  BY <1>4 DEF ReconcileRead, consumerVars
<1>5. CASE ReconcileApply
  BY <1>2, <1>5 DEF ReconcileApply
<1>6. ASSUME NEW d \in Consumers, Consume(d) PROVE HeldBack(c)'
  <2>1. CASE ReadMessage(d)
    BY <2>1 DEF ReadMessage, Goto
  <2>2. CASE Recheck(d)
    BY <2>2 DEF Recheck, Goto
  <2>3. CASE WaitChan(d)
    BY <2>3 DEF WaitChan, Goto
  <2>4. CASE Wake(d)
    BY <2>4 DEF Wake, Goto
  <2>5. CASE Check(d) \/ ReadNothing(d) \/ Process(d)
    BY <2>5 DEF Check, ReadNothing, Process, Goto
  <2> QED
    BY <1>6, <2>1, <2>2, <2>3, <2>4, <2>5 DEF Consume
<1>7. CASE UNCHANGED vars
  BY <1>7 DEF vars, consumerVars
<1> QED
  BY <1>1, <1>3, <1>4, <1>5, <1>6, <1>7 DEF Next, Subscriber

(***************************************************************************)
(* PauseHoldsFetchedMessages.  For any number of consumers and             *)
(* administrators, a message fetched during a pause is not started before  *)
(* the pause ends (workerPool.runBackgroundLoop's second check).           *)
(***************************************************************************)
THEOREM PauseHoldsFetchedMessages == Spec => []FetchedWhilePausedWaits
<1>1. IInv /\ [Next]_vars => IInv'
  BY TypeStep, HeldStep DEF IInv
<1>2. IInv => FetchedWhilePausedWaits
  BY DEF IInv, FetchedWhilePausedWaits, HeldBack
<1> QED
  BY InitHolds, <1>1, <1>2, PTL DEF Spec

=============================================================================
