---------------------------- MODULE RetentionProofs ----------------------------
(***************************************************************************)
(* The retention janitor against consumers, for any consumers, messages,   *)
(* page sizes and faults.                                                  *)
(***************************************************************************)
EXTENDS Retention, WellFoundedInduction, TLAPS

\* Every non-empty set of message IDs has a least one, the ID XPENDING reports.
LEMMA Least ==
  ASSUME NEW S \in SUBSET Nat, S # {}
  PROVE  Min(S) \in S /\ \A y \in S : Min(S) <= y
<1>1. IsWellFoundedOn(OpToRel(<, Nat), Nat)
  BY NatLessThanWellFounded
<1>2. PICK x \in S : \A y \in S : ~ (<<y, x>> \in OpToRel(<, Nat))
  BY <1>1, WFMin
<1>3. ASSUME NEW y \in S PROVE x <= y
  <2>1. x \in Nat /\ y \in Nat
    OBVIOUS
  <2>2. ~(<<y, x>> \in {ss \in Nat \X Nat : ss[1] < ss[2]})
    BY <1>2 DEF OpToRel
  <2>3. <<y, x>> \in Nat \X Nat /\ <<y, x>>[1] = y /\ <<y, x>>[2] = x
    BY <2>1
  <2>4. ~(y < x)
    BY <2>2, <2>3
  <2> QED BY <2>1, <2>4
<1> QED BY <1>3 DEF Min

\* The part of TypeOK the proofs need, and which messages can be where: only
\* delivered ones are worked on, pending or below the janitor's threshold.
Delivered ==
  /\ lastId \in 0 .. MaxMsgs /\ cursor \in 0 .. lastId /\ start \in 0 .. cursor
  /\ group \in BOOLEAN /\ (~group => cursor = 0)
  /\ stream \subseteq 1 .. lastId
  /\ owner \in [Ids -> Consumers \cup {NoConsumer}]
  /\ running \subseteq 1 .. cursor
  /\ Pending \subseteq 1 .. cursor
  /\ minId \in 0 .. cursor
  /\ idle \subseteq Consumers /\ listed \subseteq Consumers
  /\ between \in Nat

\* What the janitor's threshold means between the call that computed it and
\* XTRIM.  After an empty XPENDING, what was delivered since is pending; XINFO's
\* threshold spares the last delivery, and so a single one.
Threshold ==
  between < 2 =>
    /\ jpc = "info" => Pending \subseteq {cursor}
    /\ jpc = "info" /\ between = 0 => Pending = {}
    /\ jpc = "trim" => \A m \in Pending : minId <= m

\* A listed consumer that was not heard of since owns nothing.
ListedFree == ~revived => \A c \in listed : \A m \in Pending : owner[m] # c

RetentionIInv == Delivered /\ UndeliveredKept /\ Threshold /\ PendingKept /\ ListedFree /\ DeliveredCovered

\* Deliveries, and polls, of consumer c: it is no longer idle.
LEMMA DeliverStep ==
  ASSUME RetentionIInv, NEW c \in Readers, Deliver(c)
  PROVE  RetentionIInv'
<1> USE DEF RetentionIInv
<1>1. PICK m \in stream :
        /\ m > cursor /\ \A n \in stream : n > cursor => m <= n
        /\ cursor' = m
        /\ owner' = [owner EXCEPT ![m] = c]
        /\ running' = running \cup {m}
  BY DEF Deliver
<1>2. /\ UNCHANGED <<stream, lastId, group, start, jpc, minId, listed>>
      /\ between' = IF jpc = "info" THEN between + 1 ELSE between
      /\ idle' = idle \ {c} /\ revived' = (revived \/ c \in listed)
  BY DEF Deliver, Heard
<1>3. m \in Ids /\ m \in 1 .. lastId /\ cursor \in Nat /\ lastId \in Nat /\ MaxMsgs \in Nat
  BY RetentionAssumption DEF Delivered, Ids
<1>4. c \in Consumers /\ c # NoConsumer
  BY RetentionAssumption DEF Consumers
<1>5. Pending' = Pending \cup {m}
  BY <1>1, <1>3, <1>4 DEF Pending, Delivered
<1>6. Delivered'
  <2>1. owner' \in [Ids -> Consumers \cup {NoConsumer}]
    BY <1>1, <1>4 DEF Delivered
  <2>2. group' \in BOOLEAN /\ (~group' => cursor' = 0)
    BY <1>2 DEF Delivered, Deliver
  <2>3. /\ lastId' \in 0 .. MaxMsgs /\ cursor' \in 0 .. lastId' /\ start' \in 0 .. cursor'
        /\ stream' \subseteq 1 .. lastId'
        /\ minId' \in 0 .. cursor' /\ between' \in Nat
    BY <1>1, <1>2, <1>3 DEF Delivered
  <2>4. running' \subseteq 1 .. cursor' /\ Pending' \subseteq 1 .. cursor'
    BY <1>1, <1>3, <1>5 DEF Delivered
  <2>5. idle' \subseteq Consumers /\ listed' \subseteq Consumers
    BY <1>2 DEF Delivered
  <2> QED BY <2>1, <2>2, <2>3, <2>4, <2>5 DEF Delivered
<1>7. UndeliveredKept'
  BY <1>1, <1>2, <1>3 DEF UndeliveredKept
<1>8. Threshold' /\ PendingKept'
  <2> SUFFICES ASSUME between' < 2 PROVE between < 2 /\ Threshold' /\ PendingKept'
    BY DEF Threshold, PendingKept
  <2>1. between < 2 /\ between \in Nat /\ (jpc = "info" => between = 0 /\ between' = 1)
    BY <1>2 DEF Delivered
  <2>2. PendingKept'
    BY <1>2, <1>5, <2>1 DEF PendingKept
  <2>3. jpc' = "info" => Pending' \subseteq {cursor'} /\ between' # 0
    BY <1>1, <1>2, <1>5, <2>1 DEF Threshold
  <2>4. jpc' = "trim" => \A n \in Pending' : minId' <= n
    BY <1>1, <1>2, <1>3, <1>5, <2>1 DEF Threshold, Delivered
  <2> QED BY <2>1, <2>2, <2>3, <2>4 DEF Threshold
<1>9. ListedFree'
  <2> SUFFICES ASSUME ~revived', NEW d \in listed, NEW n \in Pending' PROVE owner'[n] # d
    BY <1>2 DEF ListedFree
  <2>1. ~revived /\ c \notin listed
    BY <1>2
  <2>2. CASE n = m
    BY <1>1, <1>3, <2>1, <2>2 DEF Delivered
  <2>3. CASE n # m
    BY <1>1, <1>3, <1>5, <2>1, <2>3 DEF ListedFree, Delivered
  <2> QED BY <2>2, <2>3
<1>10. DeliveredCovered'
  <2> SUFFICES ASSUME ~revived', NEW n \in stream, n \in start + 1 .. cursor' PROVE n \in Pending'
    BY <1>2 DEF DeliveredCovered
  <2>1. CASE n > cursor
    BY <1>1, <1>3, <1>5, <2>1 DEF Delivered
  <2>2. CASE n <= cursor
    BY <1>2, <1>3, <1>5, <2>2 DEF DeliveredCovered, Delivered
  <2> QED BY <1>3, <2>1, <2>2 DEF Delivered
<1> QED BY <1>6, <1>7, <1>8, <1>9, <1>10

\* The end of a delivery: settled messages leave the stream and the pending
\* list together, those of a dead executor stay in both.
LEMMA SettleStep ==
  ASSUME RetentionIInv, NEW m \in Ids, Settle(m) \/ Crash(m)
  PROVE  RetentionIInv'
<1> USE DEF RetentionIInv
<1>1. CASE Settle(m)
  <2> USE DEF Settle, histVars
  <2>1. /\ Pending' = Pending \ {m} /\ owner' = [owner EXCEPT ![m] = NoConsumer]
        /\ m <= cursor /\ cursor \in Nat /\ lastId \in Nat
    BY <1>1 DEF Pending, Delivered
  <2>2. Delivered'
    BY <1>1, <2>1 DEF Delivered
  <2>3. UndeliveredKept' /\ Threshold' /\ PendingKept'
    BY <1>1, <2>1 DEF UndeliveredKept, Threshold, PendingKept
  <2>4. ListedFree' /\ DeliveredCovered'
    BY <1>1, <2>1 DEF ListedFree, DeliveredCovered, Delivered
  <2> QED BY <2>2, <2>3, <2>4
<1>2. CASE Crash(m)
  BY <1>2 DEF Crash, histVars, Delivered, UndeliveredKept, Threshold, PendingKept, ListedFree, DeliveredCovered,
     Pending
<1> QED BY <1>1, <1>2

\* XAUTOCLAIM moves a pending message, or drops it when its entry is gone.
LEMMA ReclaimStep ==
  ASSUME RetentionIInv, NEW m \in Ids, Reclaim(m)
  PROVE  RetentionIInv'
<1> USE DEF RetentionIInv
<1>1. /\ UNCHANGED <<stream, lastId, group, start, cursor, jpc, minId, listed, between>>
      /\ owner' = [owner EXCEPT ![m] = IF m \in stream THEN Reclaimer ELSE NoConsumer]
      /\ running' = IF m \in stream THEN running \cup {m} ELSE running
      /\ m \in Pending
      /\ idle' = idle \ {Reclaimer} /\ revived' = (revived \/ Reclaimer \in listed)
  BY DEF Reclaim, Heard
<1>2. Reclaimer \in Consumers /\ Reclaimer # NoConsumer
  BY RetentionAssumption DEF Consumers
<1>3. Pending' = IF m \in stream THEN Pending ELSE Pending \ {m}
  BY <1>1, <1>2 DEF Pending, Delivered
<1>4. Delivered'
  BY <1>1, <1>2, <1>3 DEF Delivered
<1>5. UndeliveredKept' /\ Threshold' /\ PendingKept'
  BY <1>1, <1>3 DEF UndeliveredKept, Threshold, PendingKept
<1>6. ListedFree'
  BY <1>1, <1>3 DEF ListedFree, Delivered, Pending
<1>7. DeliveredCovered'
  BY <1>1, <1>3 DEF DeliveredCovered
<1> QED BY <1>4, <1>5, <1>6, <1>7

\* The steps of clients, of the group's creation and of consumers that only
\* make themselves heard.
LEMMA ClientStep ==
  ASSUME RetentionIInv,
         \/ XAdd \/ StartGroup \/ Promote
         \/ \E c \in Consumers : Poll(c) \/ GoIdle(c)
         \/ \E t \in Tasks : Schedule(t) \/ CancelTask(t)
  PROVE  RetentionIInv'
<1> USE DEF RetentionIInv
<1>1. CASE XAdd
  <2>1. lastId \in Nat /\ MaxMsgs \in Nat /\ cursor \in Nat
    BY RetentionAssumption DEF Delivered
  <2>2. Pending' = Pending
    BY <1>1 DEF XAdd, Pending
  <2>3. Delivered' /\ UndeliveredKept'
    BY <1>1, <2>1, <2>2 DEF XAdd, histVars, Delivered, UndeliveredKept
  <2>4. Threshold' /\ PendingKept' /\ ListedFree' /\ DeliveredCovered'
    BY <1>1, <2>1, <2>2 DEF XAdd, histVars, Delivered, Threshold, PendingKept, ListedFree, DeliveredCovered
  <2> QED BY <2>3, <2>4
<1>2. CASE StartGroup
  <2>1. lastId \in Nat /\ cursor = 0 /\ Pending = {} /\ Pending' = {} /\ running = {} /\ minId = 0 /\ start = 0
    BY <1>2 DEF StartGroup, Delivered, Pending
  <2>2. Delivered' /\ UndeliveredKept'
    BY <1>2, <2>1 DEF StartGroup, histVars, Delivered, UndeliveredKept
  <2>3. Threshold' /\ PendingKept' /\ ListedFree' /\ DeliveredCovered'
    BY <1>2, <2>1 DEF StartGroup, histVars, Threshold, PendingKept, ListedFree, DeliveredCovered
  <2> QED BY <2>2, <2>3
<1>3. ASSUME NEW c \in Consumers, Poll(c) \/ GoIdle(c) PROVE RetentionIInv'
  <2>1. /\ UNCHANGED <<stream, lastId, group, start, cursor, owner, running, jpc, minId, listed, between>>
        /\ idle' \subseteq Consumers /\ (~revived' => ~revived)
    BY <1>3 DEF Poll, GoIdle, Heard, histVars, Delivered
  <2>2. Pending' = Pending
    BY <2>1 DEF Pending
  <2> QED BY <2>1, <2>2 DEF Delivered, UndeliveredKept, Threshold, PendingKept, ListedFree, DeliveredCovered
<1>4. CASE Promote \/ \E t \in Tasks : Schedule(t) \/ CancelTask(t)
  <2>1. UNCHANGED <<streamVars, jpc, minId, listed, histVars>>
    BY <1>4 DEF Promote, Schedule, CancelTask
  <2> QED BY <2>1 DEF streamVars, histVars, Delivered, UndeliveredKept, Threshold, PendingKept, ListedFree,
          DeliveredCovered, Pending
<1> QED BY <1>1, <1>2, <1>3, <1>4

\* Where the janitor goes on after its trim: never back to the threshold.
LEMMA Onwards == AfterTrim \notin {"info", "trim", "pending"} /\ AfterPurge \notin {"info", "trim", "pending"}
BY DEF AfterTrim, AfterPurge

\* The three calls of the trim.
LEMMA TrimStep ==
  ASSUME RetentionIInv, XPending \/ XInfoGroups \/ XTrim
  PROVE  RetentionIInv'
<1> USE DEF RetentionIInv
<1>1. UNCHANGED <<lastId, group, start, cursor, owner, running, idle, listed, revived>>
  BY DEF XPending, XInfoGroups, XTrim, streamVars, histVars
<1>2. Pending' = Pending /\ cursor \in Nat /\ lastId \in Nat /\ Pending \subseteq Nat
  BY <1>1 DEF Pending, Delivered
<1>3. CASE XPending
  <2>1. stream' = stream /\ between' \in Nat /\ (between' < 2 => between' = 0 /\ between < 2)
    BY <1>3 DEF XPending, streamVars, Delivered
  <2>2. minId' \in 0 .. cursor /\ (Pending # {} => \A m \in Pending : minId' <= m)
    BY <1>2, <1>3, Least DEF XPending, Delivered
  <2>3. jpc' = IF Pending # {} THEN "trim" ELSE IF group THEN "info" ELSE AfterTrim
    BY <1>3 DEF XPending
  <2>4. Delivered' /\ UndeliveredKept'
    BY <1>1, <1>2, <2>1, <2>2 DEF Delivered, UndeliveredKept
  <2>5. Threshold' /\ PendingKept' /\ ListedFree' /\ DeliveredCovered'
    BY <1>1, <1>2, <2>1, <2>2, <2>3, Onwards DEF Threshold, PendingKept, ListedFree, DeliveredCovered
  <2> QED BY <2>4, <2>5
<1>4. CASE XInfoGroups
  <2>1. UNCHANGED <<stream, between>> /\ minId' = cursor /\ jpc = "info" /\ jpc' \in {AfterTrim, "trim"}
    BY <1>4 DEF XInfoGroups, streamVars, histVars
  <2>2. Delivered' /\ UndeliveredKept'
    BY <1>1, <1>2, <2>1 DEF Delivered, UndeliveredKept
  <2>3. Threshold'
    BY <1>1, <1>2, <2>1, Onwards DEF Threshold
  <2>4. PendingKept' /\ ListedFree' /\ DeliveredCovered'
    BY <1>1, <1>2, <2>1 DEF PendingKept, ListedFree, DeliveredCovered
  <2> QED BY <2>2, <2>3, <2>4
<1>5. CASE XTrim
  <2>1. PICK k \in 1 .. minId : stream' = {m \in stream : m >= k}
    BY <1>5 DEF XTrim
  <2>2. jpc = "trim" /\ jpc' = AfterTrim /\ minId' = 0 /\ between' = between
    BY <1>5 DEF XTrim, histVars
  <2>3. k \in Nat /\ k <= minId /\ k <= cursor /\ minId \in Nat
    BY <1>2, <2>1 DEF Delivered
  <2>4. Delivered'
    <3>1. stream' \subseteq stream
      BY <2>1
    <3>2. minId' \in 0 .. cursor
      BY <1>2, <2>2
    <3> QED BY <1>1, <1>2, <2>2, <3>1, <3>2 DEF Delivered
  <2>5. UndeliveredKept'
    BY <1>1, <1>2, <2>1, <2>3 DEF UndeliveredKept
  <2>6. PendingKept'
    BY <1>1, <1>2, <2>1, <2>2, <2>3 DEF PendingKept, Threshold
  <2>7. Threshold' /\ ListedFree' /\ DeliveredCovered'
    BY <1>1, <1>2, <2>1, <2>2, Onwards DEF Threshold, ListedFree, DeliveredCovered
  <2> QED BY <2>4, <2>5, <2>6, <2>7
<1> QED BY <1>3, <1>4, <1>5

\* The list of idle consumers, and their removal with what is pending for them.
LEMMA ConsumersStep ==
  ASSUME RetentionIInv, XInfoConsumers \/ \E c \in Consumers : DelConsumer(c)
  PROVE  RetentionIInv'
<1> USE DEF RetentionIInv
<1>1. CASE XInfoConsumers
  <2>1. /\ UNCHANGED <<stream, lastId, group, start, cursor, owner, running, idle, minId, between, revived>>
        /\ listed' = {c \in idle : \A m \in Pending : owner[m] # c} /\ jpc' = "remove"
    BY <1>1 DEF XInfoConsumers, streamVars, histVars
  <2>2. Pending' = Pending
    BY <2>1 DEF Pending
  <2>3. Delivered' /\ UndeliveredKept'
    BY <2>1, <2>2 DEF Delivered, UndeliveredKept
  <2>4. Threshold' /\ PendingKept' /\ ListedFree' /\ DeliveredCovered'
    BY <2>1, <2>2 DEF Threshold, PendingKept, ListedFree, DeliveredCovered
  <2> QED BY <2>3, <2>4
<1>2. ASSUME NEW c \in Consumers, DelConsumer(c) PROVE RetentionIInv'
  <2>1. /\ UNCHANGED <<stream, lastId, group, start, cursor, running, jpc, minId, between, revived>>
        /\ listed' = listed \ {c} /\ idle' = idle \ {c} /\ c \in listed /\ jpc = "remove"
        /\ owner' = [m \in Ids |-> IF owner[m] = c THEN NoConsumer ELSE owner[m]]
    BY <1>2 DEF DelConsumer, histVars
  <2>2. /\ Pending' \subseteq Pending /\ \A m \in Pending' : owner'[m] = owner[m]
        /\ owner' \in [Ids -> Consumers \cup {NoConsumer}]
    BY <2>1 DEF Pending, Delivered
  <2>3. ~revived => Pending' = Pending
    BY <2>1, <2>2 DEF ListedFree, Pending
  <2>4. Delivered' /\ UndeliveredKept'
    BY <2>1, <2>2 DEF Delivered, UndeliveredKept
  <2>5. Threshold' /\ PendingKept'
    BY <2>1, <2>2 DEF Threshold, PendingKept
  <2>6. ListedFree' /\ DeliveredCovered'
    BY <2>1, <2>2, <2>3 DEF ListedFree, DeliveredCovered
  <2> QED BY <2>4, <2>5, <2>6
<1> QED BY <1>1, <1>2

\* The janitor's other steps, and its calls that fail.
LEMMA OtherStep ==
  ASSUME RetentionIInv, Tick \/ ZRangePage \/ PurgeMember \/ EndPage \/ EndTick \/ CallFails
  PROVE  RetentionIInv'
<1> USE DEF RetentionIInv
<1>1. UNCHANGED <<streamVars, between, revived>>
  BY DEF Tick, ZRangePage, PurgeMember, EndPage, EndTick, CallFails, histVars
<1>2. Pending' = Pending /\ cursor \in Nat
  BY <1>1 DEF streamVars, Pending, Delivered
<1>3. minId' \in 0 .. cursor /\ listed' \subseteq listed
  BY <1>2 DEF Tick, ZRangePage, PurgeMember, EndPage, EndTick, CallFails, Delivered
<1>4. jpc' \notin {"info", "trim"}
  BY Onwards DEF Tick, ZRangePage, PurgeMember, EndPage, EndTick, CallFails
<1>5. Delivered' /\ UndeliveredKept'
  BY <1>1, <1>2, <1>3 DEF streamVars, Delivered, UndeliveredKept
<1>6. Threshold' /\ PendingKept' /\ ListedFree' /\ DeliveredCovered'
  BY <1>1, <1>2, <1>3, <1>4 DEF streamVars, Threshold, PendingKept, ListedFree, DeliveredCovered
<1> QED BY <1>5, <1>6

\* The invariant of the retention janitor and the consumers beside it.
LEMMA RetentionInvariance == Spec => []RetentionIInv
<1>1. Init => RetentionIInv
  <2> SUFFICES ASSUME Init PROVE RetentionIInv
    OBVIOUS
  <2>1. Pending = {}
    BY DEF Init, Pending
  <2>2. Delivered
    <3>1. group \in BOOLEAN /\ owner \in [Ids -> Consumers \cup {NoConsumer}]
      BY DEF Init
    <3>2. lastId \in 0 .. MaxMsgs /\ cursor \in 0 .. lastId /\ start \in 0 .. cursor /\ minId \in 0 .. cursor
      BY RetentionAssumption DEF Init
    <3> QED BY <2>1, <3>1, <3>2 DEF Init, Delivered
  <2>3. UndeliveredKept /\ Threshold /\ PendingKept /\ ListedFree /\ DeliveredCovered
    BY <2>1 DEF Init, UndeliveredKept, Threshold, PendingKept, ListedFree, DeliveredCovered
  <2> QED BY <2>2, <2>3 DEF RetentionIInv
<1>2. RetentionIInv /\ [Next]_vars => RetentionIInv'
  <2> SUFFICES ASSUME RetentionIInv, [Next]_vars PROVE RetentionIInv'
    OBVIOUS
  <2>1. CASE UNCHANGED vars
    BY <2>1 DEF vars, streamVars, histVars, RetentionIInv, Delivered, UndeliveredKept, Threshold, PendingKept,
       ListedFree, DeliveredCovered, Pending
  <2>2. CASE Next
    <3>1. ASSUME NEW c \in Readers, Deliver(c) PROVE RetentionIInv'
      BY <3>1, DeliverStep
    <3>2. ASSUME NEW m \in Ids, Settle(m) \/ Crash(m) \/ Reclaim(m) PROVE RetentionIInv'
      BY <3>2, SettleStep, ReclaimStep
    <3>3. CASE Janitor \/ CallFails
      BY <3>3, TrimStep, ConsumersStep, OtherStep DEF Janitor
    <3> QED BY <2>2, <3>1, <3>2, <3>3, ClientStep DEF Next
  <2> QED BY <2>1, <2>2
<1> QED BY <1>1, <1>2, PTL DEF Spec

\* However deliveries, crashes and reclaims interleave with the calls of the
\* trim, and whichever of those fail: XTRIM removes no message ahead of the
\* group's cursor (UndeliveredKept).
THEOREM UndeliveredStays == Spec => []UndeliveredKept
<1>1. RetentionIInv => UndeliveredKept
  BY DEF RetentionIInv
<1> QED BY <1>1, RetentionInvariance, PTL

\* A pending message keeps its entry for XAUTOCLAIM, for any number of
\* consumers and messages, unless two were delivered between XPENDING and XINFO
\* of one tick (PendingKept).
THEOREM PendingStays == Spec => []PendingKept
<1>1. RetentionIInv => PendingKept
  BY DEF RetentionIInv
<1> QED BY <1>1, RetentionInvariance, PTL

\* XGROUP DELCONSUMER never takes a delivered message out of the PEL janitor's
\* sight, unless a listed consumer read again before it was removed
\* (DeliveredCovered).
THEOREM DeliveredStaysCovered == Spec => []DeliveredCovered
<1>1. RetentionIInv => DeliveredCovered
  BY DEF RetentionIInv
<1> QED BY <1>1, RetentionInvariance, PTL

===============================================================================
