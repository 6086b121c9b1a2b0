--------------------------- MODULE KeepaliveProofs --------------------------
(***************************************************************************)
(* The bound on the age of a session row for every heartbeat interval,     *)
(* every tick and any number of failed writes.                             *)
(***************************************************************************)
EXTENDS Keepalive, TLAPS

\* The row comes due no later than one heartbeat after the time it carries:
\* two thirds of one and a half heartbeats, or less.
LEMMA KeepaliveWithinHeartbeat ==
  ASSUME setting \in Settings
  PROVE  /\ Keepalive \in Nat
         /\ Keepalive <= setting.heartbeat
<1>1. setting.heartbeat \in Nat /\ setting.tick \in Nat
  BY KeepaliveAssumption
<1>2. DisconnectThreshold \in Nat
      /\ 2 * DisconnectThreshold <= 3 * setting.heartbeat
  BY <1>1, SMT DEF DisconnectThreshold
<1> QED
  BY <1>1, <1>2, SMT DEF Keepalive, keepaliveInterval

LEMMA Product ==
  \A n, x \in Nat : /\ n * x \in Nat
                    /\ (n + 1) * x = n * x + x
                    /\ 0 * x = 0
  BY SMT

LEMMA InitAge == Init => AgeInv
<1> SUFFICES ASSUME Init PROVE AgeInv
  OBVIOUS
<1>1. setting \in Settings /\ setting.heartbeat \in Nat /\ setting.tick \in Nat
  BY KeepaliveAssumption DEF Init
<1>2. Round \in Nat /\ 0 * setting.tick = 0 /\ 0 * Round = 0
  BY <1>1, Product DEF Round
<1> QED
  BY <1>1, <1>2, KeepaliveAssumption, SMT DEF Init, AgeInv, TypeOK

LEMMA NextAge == AgeInv /\ [Next]_vars => AgeInv'
<1> SUFFICES ASSUME AgeInv, [Next]_vars PROVE AgeInv'
  OBVIOUS
<1> DEFINE h == setting.heartbeat
           t == setting.tick
<1>1. /\ setting \in Settings /\ h \in Nat /\ t \in Nat
      /\ failed \in Nat /\ lost \in Nat
      /\ MaxFailures \in Nat /\ Nil \notin Int
  BY KeepaliveAssumption DEF AgeInv, TypeOK
<1>a. Round \in Nat /\ Round = h + t
  BY <1>1 DEF Round
<1>2. /\ Round \in Nat /\ Round = h + t
      /\ failed * t \in Nat /\ (failed + 1) * t = failed * t + t /\ 0 * t = 0
      /\ lost * Round \in Nat /\ (lost + 1) * Round = lost * Round + Round
      /\ 0 * Round = 0
  BY <1>1, <1>a, Product
<1>3. CASE Pass
  BY <1>1, <1>2, <1>3, SMT DEF Pass, AgeInv, TypeOK, Round
<1>4. CASE Heartbeat
  BY <1>1, <1>2, <1>4, SMT DEF Heartbeat, AgeInv, TypeOK, Round
<1>5. CASE Flush
  BY <1>1, <1>2, <1>5, SMT DEF Flush, AgeInv, TypeOK, Round
<1>6. CASE Snapshot
  <2>1. CASE Due
    BY <1>1, <1>2, <1>6, <2>1, SMT DEF Snapshot, AgeInv, TypeOK, Round
  <2>2. CASE ~Due
    <3>1. wroteAge # Nil /\ wroteAge < h
      BY <1>1, <2>2, KeepaliveWithinHeartbeat, SMT DEF Due, AgeInv, TypeOK
    <3> QED
      BY <1>1, <1>2, <1>6, <2>2, <3>1, SMT DEF Snapshot, AgeInv, TypeOK, Round
  <2> QED
    BY <2>1, <2>2
<1>7. CASE SnapshotFails
  BY <1>1, <1>2, <1>7, SMT DEF SnapshotFails, AgeInv, TypeOK, Round
<1>8. CASE SnapshotRolledBack
  BY <1>1, <1>2, <1>8, SMT DEF SnapshotRolledBack, AgeInv, TypeOK, Round
<1>9. CASE UNCHANGED vars
  BY <1>9 DEF vars, AgeInv, TypeOK, Round
<1> QED
  BY <1>3, <1>4, <1>5, <1>6, <1>7, <1>8, <1>9 DEF Next

LEMMA AgeSuffices == AgeInv => RowAgeBounded /\ FreshWhileHeard
<1> SUFFICES ASSUME AgeInv PROVE RowAgeBounded /\ FreshWhileHeard
  OBVIOUS
<1> DEFINE h == setting.heartbeat
           t == setting.tick
<1>1. h \in Nat /\ t \in Nat /\ failed \in Nat /\ lost \in Nat
  BY KeepaliveAssumption DEF AgeInv, TypeOK
<1>a. Round \in Nat /\ Round = h + t
  BY <1>1 DEF Round
<1>2. /\ failed * t \in Nat /\ (failed + 1) * t = failed * t + t
      /\ lost * Round \in Nat /\ (lost + 1) * Round = lost * Round + Round
      /\ Round = h + t /\ Round \in Nat /\ 0 * Round = 0
  BY <1>1, <1>a, Product
<1>3. rowAge <= (lost + 1) * Round + failed * t /\ rowAge \in Nat
  BY <1>1, <1>2, SMT DEF AgeInv, TypeOK
<1>4. RowAgeBounded
  BY <1>3 DEF RowAgeBounded
<1>5. ASSUME lost = 0, (failed + 1) * t <= h \div 2
      PROVE  rowAge <= DisconnectThreshold
  <2>1. lost * Round = 0
    BY <1>2, <1>5
  <2> HIDE DEF t, h
  <2>2. rowAge <= h + (failed + 1) * t
    <3> DEFINE lr == lost * Round
               ft == failed * t
    <3>1. /\ rowAge <= (lr + Round) + ft /\ lr = 0 /\ Round = h + t
          /\ (failed + 1) * t = ft + t
      BY <1>2, <1>3, <2>1
    <3>2. ft \in Nat /\ h \in Nat /\ t \in Nat /\ rowAge \in Nat
      BY <1>1, <1>2, <1>3
    <3> HIDE DEF lr, ft
    <3>3. rowAge <= h + (ft + t)
      BY <3>1, <3>2, SMT
    <3> QED
      BY <3>1, <3>3
  <2> DEFINE x == (failed + 1) * t
  <2>3. x \in Nat /\ h \in Nat /\ rowAge \in Nat /\ x <= h \div 2
        /\ rowAge <= h + x
    BY <1>1, <1>2, <1>3, <1>5, <2>2
  <2> HIDE DEF x
  <2>4. rowAge <= h + h \div 2
    BY <2>3, SMT
  <2> QED
    BY <2>4 DEF DisconnectThreshold, h
<1>6. FreshWhileHeard
  BY <1>5 DEF FreshWhileHeard
<1> QED
  BY <1>4, <1>6

\* A session row is never older than one heartbeat and one tick, plus a tick
\* for every write that has failed and a heartbeat and a tick for every one
\* recorded and lost (keepaliveInterval, due, recordWritten), for all settings.
THEOREM RowAge == Spec => []RowAgeBounded
<1>1. Init => AgeInv
  BY InitAge
<1>2. AgeInv /\ [Next]_vars => AgeInv'
  BY NextAge
<1>3. AgeInv => RowAgeBounded
  BY AgeSuffices
<1> QED
  BY <1>1, <1>2, <1>3, PTL DEF Spec

\* Hence no replica takes an agent for disconnected that keeps checking in, if
\* no write is lost and the ticks that fail fit into half a heartbeat (StaleConnected).
THEOREM RowStaysFresh == Spec => []FreshWhileHeard
<1>1. Init => AgeInv
  BY InitAge
<1>2. AgeInv /\ [Next]_vars => AgeInv'
  BY NextAge
<1>3. AgeInv => FreshWhileHeard
  BY AgeSuffices
<1> QED
  BY <1>1, <1>2, <1>3, PTL DEF Spec
=============================================================================
